SPECIFICATION FairSpec
CONSTANTS
    u1 = u1
    u2 = u2
    w1 = w1
    w2 = w2
    w3 = w3
    NoWorker = NoWorker
    Item <- MCItem
    Worker <- MCPair
    DomainOf <- MCDomainOf
    BatchSize = 1
    MaxFailures = 2
CHECK_DEADLOCK FALSE
PROPERTY Revisited
