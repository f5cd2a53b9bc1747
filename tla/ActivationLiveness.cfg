CONSTANTS
    None = None
    s1 = s1
    s2 = s2
    i1 = i1
    d1 = d1
    d2 = d2
    Stores = {s1}
    Items = {i1}
    Prices <- TwoPrices
    Descriptions = {d1}
    Times <- TwoTimes
    Occurrences = {1, 2}
    Workers = {w1, w2}
    Observations <- AllValid
    Batches <- SingleBatch
SPECIFICATION RetrySpec
PROPERTIES
    CallsReturn
    EventuallyResolved
