CONSTANTS
    None = None
    s1 = s1
    s2 = s2
    i1 = i1
    d1 = d1
    d2 = d2
    Stores = {s1}
    Items = {i1}
    Prices <- TwoPrices
    Descriptions = {d1, d2}
    Times <- TwoTimes
    Occurrences = {1, 2}
    Workers = {w1}
    Observations <- AllValid
    Batches <- MixedBatches
SPECIFICATION Spec
INVARIANTS
    DescriptionFromSource
