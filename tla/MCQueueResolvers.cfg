SPECIFICATION Spec
CONSTANTS
    Names <- TwoNames
    Ids = {d}
    Identifiers <- SomeIdentifiers
    Mappings <- SomeMappings
    Priorities <- SomePriorities
    TTL = 2
    Default = Default
    NoId = NoId
    None = None
    Raised = Raised
INVARIANTS
    TypeOK
PROPERTIES
    MatchedAsListed
    OrderedByPriority
    StalenessIsBounded
