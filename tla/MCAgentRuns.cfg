SPECIFICATION RunsSpec
CONSTANTS
  Machine = {m1}
  Agent = {a1}
  TaskKey = {k1, k2}
  MaxParallel = 2
  MaxWake = 3
  MaxCrash = 1
SYMMETRY Symmetry
CHECK_DEADLOCK FALSE
INVARIANTS LogIsContinued PromptUnlessShared
