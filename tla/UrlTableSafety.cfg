SPECIFICATION Spec
CONSTANTS
    u1 = u1
    u2 = u2
    w1 = w1
    w2 = w2
    NoWorker = NoWorker
    Url <- MCUrl
    Worker <- MCWorker
    DomainOf <- MCTwoDomains
    BatchSize = 1
    MaxFailures = 3
    LeaseTime = 2
    Minute = 1
    Week = 3
    CrawlDelay = 1
    MaxTime = 6
SYMMETRY Symmetry
CHECK_DEADLOCK FALSE
INVARIANTS TypeOK AttemptsCover LeaseIsOwners
PROPERTIES SpacedClaims ImplementsQueue
