CONSTANTS
    None = None
    Platform = platform
    Human = {h1}
    Agent = {a1, a2}
    Task = {t1}
    Request = {r1, r2, r3}
    MaxSeq = 0
SPECIFICATION BoardSpec
SYMMETRY BoardSymmetry
INVARIANTS HoldersAgree
PROPERTIES OwnershipMoves AgentsWriteOwnTasks
