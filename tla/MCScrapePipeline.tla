-------------------------- MODULE MCScrapePipeline --------------------------
(* ScrapePipeline on a small instance: a target of a static spec that      *)
(* feeds both ways and one of a spec that asks for a renderer, on one      *)
(* domain, and two workers of a process started with --no-render.          *)
EXTENDS ScrapePipeline, TLC

CONSTANTS t1, t2, w1, w2, auto, always, p1, p2

MCTarget == {t1, t2}
MCWorker == {w1, w2}
MCScrapeSpec == {auto, always}
MCPage == {p1, p2}
MCDomainOf == [t \in Target |-> 1]
MCSpecOf == [t \in Target |-> IF t = t1 THEN auto ELSE always]
MCPageOf == [t \in Target |-> p1]
MCAlways == {always}
MCRenderer == {}
MCFeed == {auto}
MCClash == {t1}
MCLinksOf == [t \in Target |-> <<{p2}, {}>>]
MCLastVersion == [t \in Target |-> IF t = t1 THEN 2 ELSE 1]

Symmetry == Permutations(MCWorker)
=============================================================================
