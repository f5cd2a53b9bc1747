CONSTANTS
    None = None
    s1 = s1
    s2 = s2
    i1 = i1
    i2 = i2
    d1 = d1
    Stores = {s1, s2}
    Items = {i1, i2}
    Prices <- TwoPrices
    Descriptions = {d1}
    Times <- TwoTimes
    Occurrences = {1, 2, 3}
    Workers = {w1, w2}
    Observations <- OneStore
    Batches <- TheBatches
SPECIFICATION Spec
SYMMETRY Connections
INVARIANTS
    TypeOK
    DerivedFromApplied
    HistoryInOrder
    HistoryExplainsCurrentPrice
PROPERTIES
    AppliesInOrder
    StaleOnlyWhenOvertaken
    OutcomeIsFinal
    CurrentStateNeverRegresses
    ImplementsOrdered
