CONSTANTS
    None = None
    Identities = {k1}
    Products = {p1, p2, p3}
    Names = {n1}
    Workers = {w1, w2}
    MaxHistory = 2
SPECIFICATION Spec
SYMMETRY Symmetry
PROPERTIES
    CorrectionAppendsPrevious
