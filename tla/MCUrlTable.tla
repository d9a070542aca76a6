----------------------------- MODULE MCUrlTable -----------------------------
(* UrlTable on a small instance: two rows, two workers.  In two domains, a *)
(* batch of one takes the lower domain first; in one, the rows compete for *)
(* its place in the batch.                                                 *)
EXTENDS UrlTable, TLC

CONSTANTS u1, u2, w1, w2

MCUrl == {u1, u2}
MCWorker == {w1, w2}
MCOneDomain == [u \in Url |-> 1]
MCTwoDomains == [u \in Url |-> IF u = u1 THEN 1 ELSE 2]

(* The rows have domains of their own, so only workers may be exchanged.   *)
Symmetry == Permutations(MCWorker)
=============================================================================
