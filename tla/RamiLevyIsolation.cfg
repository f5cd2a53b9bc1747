CONSTANTS
    None = None
    Requested <- TwoStores
    NumberOf <- Numbers
    NotInts = {"superscript 2"}
    Answers = {"login_page", "unusable", "unauthorized", "unreachable", "truncated"}
    Listings <- SomeListings
    StoresBodies <- SomeStoresBodies
    PriceFullBodies <- SomePriceFullBodies
SPECIFICATION Spec
INVARIANT
    FileFailuresAreIsolated
