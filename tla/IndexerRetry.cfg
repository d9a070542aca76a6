SPECIFICATION FairSpec
CONSTANTS
    a = a
    b = b
    i1 = i1
    i2 = i2
    c1 = c1
    c2 = c2
    same = same
    Doc <- MCDoc
    Indexer <- MCIndexer
    Crawl <- MCCrawl
    Simhash <- MCSimhash
    SimhashOf <- MCSimhashOf
    LastVersion <- MCLastVersion
    Near <- MCNear
    Batch = 2
    MaxVersion = 2
CHECK_DEADLOCK FALSE
PROPERTY WillRetry
