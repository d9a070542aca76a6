---------------------------- MODULE DomainLocks ----------------------------
(***************************************************************************)
(* The row locks of the domains table.  Every transaction that touches a   *)
(* host locks its row, with INSERT ... ON CONFLICT (host) DO UPDATE, and   *)
(* keeps it to the end.  add() goes through its hosts in sorted order and  *)
(* runs again after a deadlock, up to three times; seed() and              *)
(* submit_scrape_targets() take them as the operator wrote them, once;     *)
(* complete(), enroll_scrape_targets(), the first transaction of           *)
(* feed_links_to_crawler() and refresh_robots() take one.                  *)
(* The lock manager is PostgreSQL's: waiters get a row in the order they   *)
(* came, each waits for all ahead of it, and a deadlock ends with one of   *)
(* the transactions on the cycle aborted.  A host that has no row yet has  *)
(* no line either: the one that inserts it keeps the others waiting for    *)
(* its end, then they race again, and the database may abort one that      *)
(* races, as the comment in add() says.                                    *)
(* All locks count as exclusive, the key-share lock of a foreign key too.  *)
(* Left out: the rows of urls and scrape_targets, which a transaction      *)
(* waits for under the lock of their host's row or holding no other, and   *)
(* everything the transactions write.                                      *)
(***************************************************************************)
EXTENDS Integers, FiniteSets

CONSTANTS Tx,
          Adds,         \* the transactions of add()
          NumHosts,     \* hosts are numbered in the order of sorted()
          Known,        \* the hosts that have a row at the start
          HostsOf,      \* the hosts a transaction touches
          MaxAttempts,  \* range(3) in add()
          NoHost

Host == 1..NumHosts

ASSUME LocksAssumption ==
    /\ IsFiniteSet(Tx)
    /\ Adds \subseteq Tx
    /\ NumHosts \in Nat
    /\ Known \subseteq Host
    /\ HostsOf \in [Tx -> SUBSET Host]
    /\ MaxAttempts \in Nat \ {0}
    /\ NoHost \notin Host

VARIABLES exists,   \* the hosts with a committed row
          pc,       \* of each transaction
          locked,   \* the rows it has locked
          waiting,  \* the row its current statement waits for
          ahead,    \* and the transactions that have it or get it before
          aborts    \* how often the database aborted it

vars == <<exists, pc, locked, waiting, ahead, aborts>>

Left(x) == HostsOf[x] \ locked[x]
Holders(h) == {y \in Tx : h \in locked[y]}
InLine(h) == Holders(h) \cup {y \in Tx : waiting[y] = h}

(* x waits for y, directly or through others: y is in every set that has  *)
(* ahead[x] and is closed under ahead.                                     *)
WaitsFor(x, y) ==
    \A D \in SUBSET Tx :
        ahead[x] \subseteq D /\ (\A z \in D : ahead[z] \subseteq D) => y \in D
OnCycle(x) == WaitsFor(x, x)

(* x and another transaction are both to insert the row of a new host.     *)
Races(x) ==
    /\ waiting[x] \in Host \ exists
    /\ InLine(waiting[x]) # {x}

Init ==
    /\ exists = Known
    /\ pc = [x \in Tx |-> "new"]
    /\ locked = [x \in Tx |-> {}]
    /\ waiting = [x \in Tx |-> NoHost]
    /\ ahead = [x \in Tx |-> {}]
    /\ aborts = [x \in Tx |-> 0]

(* The next statement of the transaction, for the next host.               *)
AnyNext(x, h) == h \in Left(x)  \* mutant: links in the order of the page
IsNext(x, h) == h \in Left(x) /\ (x \in Adds => \A g \in Left(x) : h <= g)

Lock(x, h) ==
    /\ pc[x] \in {"new", "open"}
    /\ waiting[x] = NoHost
    /\ IsNext(x, h)
    /\ pc' = [pc EXCEPT ![x] = "open"]
    /\ waiting' = [waiting EXCEPT ![x] = h]
    /\ ahead' = [ahead EXCEPT ![x] = IF h \in exists THEN InLine(h) ELSE Holders(h)]
    /\ UNCHANGED <<exists, locked, aborts>>

\* Mutant: the row is read, not locked.
ReadUnlocked(x) ==
    /\ waiting[x] # NoHost
    /\ locked' = [locked EXCEPT ![x] = @ \cup {waiting[x]}]
    /\ waiting' = [waiting EXCEPT ![x] = NoHost]
    /\ ahead' = [ahead EXCEPT ![x] = {}]
    /\ UNCHANGED <<exists, pc, aborts>>

(* Who still waits for the row is behind x now: in a line it was before,   *)
(* in a race it has lost.                                                  *)
Granted(x) ==
    /\ waiting[x] # NoHost
    /\ ahead[x] = {}
    /\ locked' = [locked EXCEPT ![x] = @ \cup {waiting[x]}]
    /\ waiting' = [waiting EXCEPT ![x] = NoHost]
    /\ ahead' = [y \in Tx |-> IF y # x /\ waiting[y] = waiting[x]
                             THEN ahead[y] \cup {x} ELSE ahead[y]]
    /\ UNCHANGED <<exists, pc, aborts>>

\* Mutant: the connection goes back to the pool with its transaction open.
EndsOpen(x, how) ==
    /\ pc' = [pc EXCEPT ![x] = how]
    /\ waiting' = [waiting EXCEPT ![x] = NoHost]
    /\ ahead' = [ahead EXCEPT ![x] = {}]
    /\ UNCHANGED locked

Ends(x, how) ==
    /\ pc' = [pc EXCEPT ![x] = how]
    /\ locked' = [locked EXCEPT ![x] = {}]
    /\ waiting' = [waiting EXCEPT ![x] = NoHost]
    /\ ahead' = [y \in Tx |-> IF y = x THEN {} ELSE ahead[y] \ {x}]

Commit(x) ==
    /\ pc[x] = "open"
    /\ waiting[x] = NoHost
    /\ Left(x) = {}
    /\ Ends(x, "committed")
    /\ exists' = exists \cup locked[x]
    /\ UNCHANGED aborts

(* The database aborts a transaction; add() begins again, but for the last *)
(* time.                                                                   *)
Retried(x) == x \in Adds /\ aborts[x] + 1 < MaxAttempts
Aborted(x) ==
    /\ aborts' = [aborts EXCEPT ![x] = @ + 1]
    /\ Ends(x, IF Retried(x) THEN "open" ELSE "deadlocked")
    /\ UNCHANGED exists

(* The deadlock detector aborts one on the cycle, which may be one that    *)
(* only waits in line.                                                     *)
Abort(x) == OnCycle(x) /\ Aborted(x)

(* And one that races another to insert a new host may be aborted.         *)
AbortRace(x) == Races(x) /\ Aborted(x)

(* The statement fails otherwise, or the client is gone.                   *)
Fail(x) ==
    /\ pc[x] = "open"
    /\ Ends(x, "failed")
    /\ UNCHANGED <<exists, aborts>>

Step(x) == (\E h \in Host : Lock(x, h)) \/ Granted(x) \/ Commit(x) \/ Abort(x)

Next == \E x \in Tx : Step(x) \/ AbortRace(x) \/ Fail(x)

(* A transaction that has begun goes on: its client never waits for        *)
(* anything but the database, which grants free rows and ends deadlocks,   *)
(* and need not abort anybody for racing.                                  *)
Spec == Init /\ [][Next]_vars
FairSpec == Spec /\ \A x \in Tx : WF_vars(pc[x] = "open" /\ Step(x))
-----------------------------------------------------------------------------
(* The variables have their types, a row is locked by one transaction, and *)
(* a transaction has and waits for rows of its own hosts.                  *)
Ended == {"committed", "deadlocked", "failed"}
TypeOK ==
    /\ exists \in SUBSET Host
    /\ pc \in [Tx -> {"new", "open"} \cup Ended]
    /\ locked \in [Tx -> SUBSET Host]
    /\ waiting \in [Tx -> Host \cup {NoHost}]
    /\ ahead \in [Tx -> SUBSET Tx]
    /\ aborts \in [Tx -> 0..MaxAttempts]
    /\ \A x \in Tx : locked[x] \subseteq HostsOf[x] /\ waiting[x] \in Left(x) \cup {NoHost}
    /\ \A x, y \in Tx : x # y => locked[x] \cap locked[y] = {}

(* frontier.py, "a consistent cross-function lock order is what avoids an  *)
(* AB-BA deadlock": transactions in which each waits for another of them   *)
(* are not all add()s and one-host transactions.  One of them is a seed()  *)
(* or a submit_scrape_targets() on its way down, waiting for a host below  *)
(* one it has locked.                                                      *)
Unsorted == {x \in Tx \ Adds : \E g, h \in HostsOf[x] : g # h}
Descends(u) == waiting[u] # NoHost /\ \E g \in locked[u] : waiting[u] < g
CycleNeedsUnsorted ==
    \A C \in (SUBSET Tx) \ {{}} :
        (\A x \in C : ahead[x] \cap C # {}) => \E u \in C \cap Unsorted : Descends(u)

(* The comment in add() on its retries: sorted() leaves it only "the       *)
(* residual case where two transactions race to INSERT the same brand-new  *)
(* domain".  Besides that, whatever else is running, a transaction is      *)
(* aborted only while it and an operator's command on its way down wait    *)
(* for each other; among add()s and complete()s over known hosts no        *)
(* attempt is ever used up.                                                *)
AbortNeedsRaceOrDescent ==
    [][\A x \in Tx :
          aborts'[x] # aborts[x] =>
              \/ Races(x)
              \/ \E u \in Unsorted : Descends(u) /\ WaitsFor(x, u) /\ WaitsFor(u, x)]_vars

(* Every transaction that has begun ends, deadlocked or not.               *)
AllEnd == \A x \in Tx : pc[x] = "open" ~> pc[x] \in Ended
=============================================================================
