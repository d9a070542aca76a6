SPECIFICATION Spec
CONSTANTS
    u1 = u1
    u2 = u2
    w1 = w1
    w2 = w2
    Url <- MCUrl
    Worker <- MCWorker
    DomainOf <- MCDomainOf
    LinksOf <- MCLinksOf
    BatchSize = 2
    MaxFailures = 2
    MaxDepth = 1
    MaxVersion = 2
    LastVersion <- MCLastVersion
    Clash <- MCClash
    Foreign = Foreign
SYMMETRY Symmetry
INVARIANTS TypeOK ContentStored TornOnlyWhenShared DoneHasDocument DepthWitnessed LinksKept
CHECK_DEADLOCK FALSE
