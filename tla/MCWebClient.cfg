SPECIFICATION Spec
CONSTANTS
  town = "town"
  dm = "dm"
  Channel <- Channels
  Home = "town"
  MaxHappen = 2
  Request = {r1, r2}
  MaxLoad = 3
INVARIANT QuietIsCurrent
INVARIANT SelectedIsRead
SYMMETRY Symmetry
