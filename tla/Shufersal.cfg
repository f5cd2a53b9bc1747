CONSTANTS
    None = None
    Requested <- TwoStores
    StoresPublications <- SomeStores
    PriceFullPublications <- SomePriceFulls
SPECIFICATION Spec
INVARIANTS
    TypeOK
    RequestsAreBounded
    OutcomeNamesParsedFile
    PricesAreUsable
PROPERTIES
    ImplementsCollectionRun
