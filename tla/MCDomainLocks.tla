--------------------------- MODULE MCDomainLocks ---------------------------
(* DomainLocks on a small instance: two add()s of the same three hosts, a  *)
(* seed() and a submit of two of them each, and a complete() of one.  The  *)
(* third host, of the add()s and the submit, has no row yet.               *)
EXTENDS DomainLocks

CONSTANTS add1, add2, seed, submit, complete

MCTx == {add1, add2, seed, submit, complete}
MCKnown == {1, 2}
MCAdds == {add1, add2}
MCHostsOf ==
    [x \in Tx |-> CASE x = seed -> {1, 2} [] x = submit -> {2, 3}
                    [] x = complete -> {2} [] OTHER -> Host]
=============================================================================
