CONSTANTS
    None = None
    i1 = i1
    d1 = d1
    a1 = a1
    a2 = a2
    Items = {i1}
    Prices <- TwoPrices
    Descriptions = {d1}
    Workers = {w1, w2}
    Batches <- ResolvedBatches
    Observations <- AnyOutcome
    Stores <- TwoStores
    MaxStores = 2
    Times <- OneTime
    Occurrences = {1, 2}
    Aliases = {a1, a2}
    Inputs <- Disagreeing
SPECIFICATION SeamSpec
SYMMETRY Callers
INVARIANTS
    SeamTypeOK
    EvidenceAgrees
    AnswersAgree
    EveryStoreHasAlias
    DerivedFromEvidence
    NoDeadlock
PROPERTIES
    EvidenceIsImmutable
