SPECIFICATION MCSpec
CONSTANTS
  None = None
  a1 = a1
  a2 = a2
  m1 = m1
  m2 = m2
  h1 = h1
  h2 = h2
  town = town
  lab = lab
  dm = dm
  Human = {h1, h2}
  Agent = {a1, a2}
  Manager = a1
  Machine = {m1, m2}
  MachineOf <- MCMachineOf
  Channel = {town, lab, dm}
  Direct = {dm}
  Namesake <- MCNamesake
  Members <- MCMembers
  TaskKey <- MCTaskKey
  MaxParallel = 1
  MaxMessage = 2
  MaxWake = 12
  MaxCrash = 1
CHECK_DEADLOCK FALSE
INVARIANTS WakesAreDue MentionIsSent TaskReachesSomeone SameTaskAlone NoOvertaking QueueOnlyWhenFull
