SPECIFICATION MCSpec
CONSTANTS
  Machine = {m1}
  None = None
  s1 = s1
  Socket = {s1, s2}
  Request = {q1, q2}
  File = {f1}
  MaxHandle = 2
  MaxToken = 2
  MaxCrash = 1
CHECK_DEADLOCK FALSE
SYMMETRY Symmetry
INVARIANTS StatusUnlessRaced PendingAreWaiting OwnAnswerWithinLife FailedLeavesNoAgent ImportedIsWhole
