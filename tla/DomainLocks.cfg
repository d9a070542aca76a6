SPECIFICATION FairSpec
CONSTANTS
    add1 = add1
    add2 = add2
    seed = seed
    submit = submit
    complete = complete
    NoHost = NoHost
    Tx <- MCTx
    Adds <- MCAdds
    NumHosts = 3
    Known <- MCKnown
    HostsOf <- MCHostsOf
    MaxAttempts = 3
CHECK_DEADLOCK FALSE
INVARIANTS TypeOK CycleNeedsUnsorted
PROPERTIES AbortNeedsRaceOrDescent AllEnd
