CONSTANTS
    None = None
    Platform = platform
    Human = {h}
    Agent = {a}
    Task = {}
    Request = {r1, r2}
    MaxSeq = 2
SYMMETRY Symmetry
SPECIFICATION MessagesSpec
INVARIANTS ReadImpliesSeen PassedSawTheStart
