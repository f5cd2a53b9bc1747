CONSTANTS
    None = None
    h1 = h1
    h2 = h2
    c1 = c1
    c2 = c2
    Hashes = {h1}
    Canonicals = {c1, c2}
    Times <- TwoTimes
    Extract <- Unstable
    Processes = {p1, p2}
    PowerMayFail = TRUE
SPECIFICATION Spec
SYMMETRY ProcessSymmetry
INVARIANTS
    TypeOK
    AnsweredIsDurable
PROPERTIES
    RecordsStayReadable
    ImplementsWriteOnce
