CONSTANTS
    None = None
    Directory = Directory
    Foreign = Foreign
    Directories <- Forked
    Files <- TwoFiles
    Values = {v1, v2}
    Processes = {p1, p2, p3}
SPECIFICATION Spec
SYMMETRY Alike
INVARIANTS
    TypeOK
    AnsweredIsReachable
PROPERTIES
    ImplementsWriteOnce
