SPECIFICATION Spec
CONSTANTS
    t1 = t1
    t2 = t2
    w1 = w1
    w2 = w2
    auto = auto
    always = always
    p1 = p1
    p2 = p2
    Target <- MCTarget
    Worker <- MCWorker
    ScrapeSpec <- MCScrapeSpec
    Page <- MCPage
    DomainOf <- MCDomainOf
    SpecOf <- MCSpecOf
    PageOf <- MCPageOf
    Always <- MCAlways
    Renderer <- MCRenderer
    FeedTo <- MCFeed
    FeedFrom <- MCFeed
    Clash <- MCClash
    LinksOf <- MCLinksOf
    LastVersion <- MCLastVersion
    BatchSize = 1
    MaxFailures = 2
    MaxVersion = 2
SYMMETRY Symmetry
CHECK_DEADLOCK FALSE
INVARIANTS TypeOK LostOnlyInFlight BlobMatches FeedKept
