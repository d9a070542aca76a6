------------------------------ MODULE MCIndexer ------------------------------
(* Indexer on a small instance: two pages that are near-duplicates, one of *)
(* which is crawled twice, two indexers, batches of up to two.             *)
EXTENDS Indexer

CONSTANTS a, b, i1, i2, c1, c2, same

MCDoc == {a, b}
MCIndexer == {i1, i2}
MCCrawl == {c1, c2}
MCSimhash == {same}
MCLastVersion == [d \in Doc |-> IF d = a THEN 2 ELSE 1]
MCSimhashOf == [d \in Doc |-> <<same, same>>]
MCNear == {<<same, same>>}
=============================================================================
