---------------------------- MODULE MCLeaseQueue ----------------------------
(* LeaseQueue on a small instance: two rows of one domain, which have one  *)
(* place in a batch between them, and two or three workers.                *)
EXTENDS LeaseQueue

CONSTANTS u1, u2, w1, w2, w3

MCItem == {u1, u2}
MCPair == {w1, w2}
MCTrio == {w1, w2, w3}
MCDomainOf == [u \in Item |-> 1]
=============================================================================
