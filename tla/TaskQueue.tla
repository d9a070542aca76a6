------------------------------ MODULE TaskQueue ------------------------------
(***************************************************************************)
(* What the work queue promises its workers, with no clock: any backoff    *)
(* may have passed and any lease may have run out.  LeaseQueue implements  *)
(* it; the modules of the work that is done on a row build on it.          *)
(***************************************************************************)
EXTENDS Integers, FiniteSets

CONSTANTS Item, Worker, DomainOf, BatchSize, MaxFailures

VARIABLES status, failures, held

taskVars == <<status, failures, held>>

Init ==
    /\ status = [u \in Item |-> "absent"]
    /\ failures = [u \in Item |-> 0]
    /\ held = [w \in Worker |-> {}]

(* INSERT ... ON CONFLICT DO NOTHING.                                      *)
Fresh(u) == status[u] = "absent"
Enqueue(S) ==
    /\ S # {}
    /\ \A u \in S : Fresh(u)
    /\ status' = [u \in Item |-> IF u \in S THEN "pending" ELSE status[u]]
    /\ UNCHANGED <<failures, held>>

(* claim_urls: one row of each of at most BatchSize domains.               *)
Claim(w, S) ==
    /\ held[w] = {}
    /\ S # {}
    /\ \A u \in S : status[u] = "pending"
    /\ \A u, v \in S : DomainOf[u] = DomainOf[v] => u = v
    /\ Cardinality(S) <= BatchSize
    /\ status' = [u \in Item |-> IF u \in S THEN "leased" ELSE status[u]]
    /\ held' = [held EXCEPT ![w] = S]
    /\ UNCHANGED failures

(* The outcome statements, none of which asks who has the lease.           *)
Release(w, u, newStatus) ==
    /\ u \in held[w]
    /\ status' = [status EXCEPT ![u] = newStatus]
    /\ held' = [held EXCEPT ![w] = @ \ {u}]

Finish(w, u) ==
    /\ Release(w, u, "done")
    /\ failures' = [failures EXCEPT ![u] = 0]

Skip(w, u) ==
    /\ Release(w, u, "skipped")
    /\ UNCHANGED failures

Fail(w, u) ==
    /\ Release(w, u, IF failures[u] + 1 >= MaxFailures THEN "failed" ELSE "pending")
    /\ failures' = [failures EXCEPT ![u] = @ + 1]

(* Tasks that end without an outcome.                                      *)
Drop(w, S) ==
    /\ S # {}
    /\ S \subseteq held[w]
    /\ held' = [held EXCEPT ![w] = @ \ S]
    /\ UNCHANGED <<status, failures>>

(* reap_expired_leases, for whichever leases are over.                     *)
Reap(S) ==
    /\ S # {}
    /\ \A u \in S : status[u] = "leased"
    /\ status' = [u \in Item |-> IF u \in S THEN "pending" ELSE status[u]]
    /\ UNCHANGED <<failures, held>>

Next ==
    \/ \E S \in SUBSET Item : Enqueue(S) \/ Reap(S)
    \/ \E w \in Worker : \E S \in SUBSET Item : Claim(w, S) \/ Drop(w, S)
    \/ \E w \in Worker : \E u \in held[w] : Finish(w, u) \/ Skip(w, u) \/ Fail(w, u)

Spec == Init /\ [][Next]_taskVars
-----------------------------------------------------------------------------
(* What is assumed of the constants, by whoever builds on the queue.       *)
TaskAssumption == IsFiniteSet(Worker) /\ MaxFailures \in Nat \ {0}

(* The columns and the lists of open tasks have their types, and a task is *)
(* open on rows only that exist.                                           *)
Settled == {"done", "failed", "skipped"}
TypeOK ==
    /\ status \in [Item -> {"absent", "pending", "leased"} \cup Settled]
    /\ failures \in [Item -> Nat]
    /\ held \in [Worker -> SUBSET Item]
    /\ \A w \in Worker : \A u \in held[w] : status[u] # "absent"

(* A worker has one task open on a domain, whenever rows are taken back.   *)
OnePerDomain ==
    \A w \in Worker : \A u, v \in held[w] : DomainOf[u] = DomainOf[v] => u = v

(* Retries end: fail() retires a row that used up its failures, and late   *)
(* failures take its counter past the limit once for every other worker.   *)
RetryBudget == \A u \in Item : status[u] \notin Settled => failures[u] < MaxFailures

Holders(u) == {w \in Worker : u \in held[w]}
RetryOverrun ==
    \A u \in Item :
        failures[u] >= MaxFailures =>
            failures[u] + Cardinality(Holders(u)) < MaxFailures + Cardinality(Worker)

(* A settled row comes back, or gets another verdict, only by the outcome  *)
(* of a task that was open on it.                                          *)
TaskEnds(u) == \E w \in Worker : u \in held[w] /\ u \notin held'[w]
SettledUntilOutcome ==
    [][\A u \in Item :
          status[u] \in Settled /\ status'[u] # status[u] => TaskEnds(u)]_taskVars
=============================================================================
