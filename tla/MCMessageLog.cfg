CONSTANTS
    None = None
    Channel = {c1, c2}
    Sender = {s1, s2}
    Request = {r1, r2, r3}
    MaxSeq = 3
    File = {f1, f2}
    c1 = c1
    s1 = s1
    r3 = r3
SPECIFICATION MCSpec
INVARIANTS SeqsContiguous NoDuplicateKey FilesHaveBytes NoStrayBytes
PROPERTY Implements
\* The clients may stop posting.
CHECK_DEADLOCK FALSE
