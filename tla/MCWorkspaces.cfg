SPECIFICATION MCSpec
CONSTANTS
  None = None
  n1 = n1
  Part = {"people", "cards", "pages"}
  Account = {a1, a2}
  Base <- SameName
  Request = {q1, q2}
  Admin = {q1, q2}
  Joiner = {q1, q2}
  MaxNo = 3
  MaxId = 3
  Card = {c1, c2}
  Caller = {r1, r2, r3}
  Name = {n}
  MaxCopy = 3
  Email = {e1, e2}
  Tab = {t1, t2}
  State = {s1}
  MaxWorkspace = 2
  MaxCall = 3
  MaxCrash = 1
SYMMETRY Symmetry
\* The callers may stop calling.
CHECK_DEADLOCK FALSE
INVARIANTS OneWinner ExecutedIsMade KeysDiffer LandsInside MakerIsFirst OwnerUnlessRaced RowsMatch
