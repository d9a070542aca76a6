SPECIFICATION ReapedSpec
CONSTANTS
    u1 = u1
    u2 = u2
    w1 = w1
    w2 = w2
    w3 = w3
    NoWorker = NoWorker
    Item <- MCItem
    Worker <- MCTrio
    DomainOf <- MCDomainOf
    BatchSize = 2
    MaxFailures = 2
INVARIANTS TypeOK LeaseCoherent RetryBudget RetryOverrun OnePerDomain
PROPERTIES RunningLeaseStands SettledUntilLateOutcome ImplementsTaskQueue LeaseEnds
CHECK_DEADLOCK FALSE
