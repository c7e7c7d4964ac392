SPECIFICATION Spec
CONSTANTS
  None = None
  Workspace = {w1, w2}
  Human = {"h"}
  Agent = {"h"}
  MaxCalls = 4
INVARIANTS SameAnswers SameViews CursorsDiffer
CHECK_DEADLOCK FALSE
