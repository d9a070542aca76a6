--------------------------- MODULE MCCrawlPipeline ---------------------------
(* CrawlPipeline with two pages that link to each other and two workers.   *)
(* A scrape target has the id of one of the two rows.                      *)
EXTENDS CrawlPipeline, TLC

CONSTANTS u1, u2, w1, w2

MCUrl == {u1, u2}
MCWorker == {w1, w2}
MCDomainOf == [u \in Url |-> 1]
MCLinksOf == [u \in Url |-> [v \in Version |-> IF v = 1 THEN Url \ {u} ELSE Url]]
MCClash == {u1}
MCLastVersion == [u \in Url |-> IF u = u1 THEN 2 ELSE 1]

Symmetry == Permutations(MCWorker)
=============================================================================
