SPECIFICATION FairSpec
CONSTANTS
    t1 = t1
    t2 = t2
    t3 = t3
    crawl = crawl
    scrape = scrape
    NoSession = NoSession
    Task <- MCTask
    Process <- MCProcess
    ProcessOf <- MCProcessOf
    MaxPages <- MCMaxPages
    Cap = 2
INVARIANTS TypeOK PoolCoherent SlotHeld OverCapOnlyByLoss SlotsLostInShutdownOnly
PROPERTIES LeaksWhileTryingOnly SlotReturns SomebodyRenders
