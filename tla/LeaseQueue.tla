----------------------------- MODULE LeaseQueue -----------------------------
(***************************************************************************)
(* The lease discipline of a work queue kept in Postgres: the columns      *)
(* status, lease_owner, lease_expires_at, next_crawl_at and                *)
(* consecutive_failures of the urls table, the SQL that moves them         *)
(* (claim_urls, reap_expired_leases and the outcome statements of          *)
(* PostgresFrontier) and the loop of the workers that run that SQL.        *)
(* Time is abstract here: a deadline is either ahead of now() or behind    *)
(* it, and Elapse moves any deadlines behind.  UrlTable gives the columns  *)
(* their clock values; TaskQueue leaves time out altogether.               *)
(***************************************************************************)
EXTENDS Integers, FiniteSets

CONSTANTS Item,         \* the rows the queue may ever hold
          Worker,       \* the workers of all processes (their names repeat, but
                        \* no statement that runs compares lease_owner)
          DomainOf,     \* the domain id of an item
          BatchSize,    \* BATCH_SIZE, the domains one claim may take from
          MaxFailures,  \* MAX_FAILURES, then the item is retired
          NoWorker      \* NULL in lease_owner

ASSUME QueueAssumption ==
    /\ IsFiniteSet(Item)
    /\ IsFiniteSet(Worker)
    /\ DomainOf \in [Item -> Nat]
    /\ BatchSize \in Nat \ {0}
    /\ MaxFailures \in Nat \ {0}
    /\ NoWorker \notin Worker

VARIABLES status,    \* the status column; "absent" before the row exists
          owner,     \* lease_owner
          lease,     \* lease_expires_at: "null", still "running", or "expired"
          due,       \* the rows with next_crawl_at <= now()
          failures,  \* consecutive_failures
          held,      \* the tasks a worker has claimed and not yet settled
          within     \* the grants of a worker whose lease time is not over

rowVars == <<status, owner, lease, due, failures>>
vars == <<status, owner, lease, due, failures, held, within>>

Settled == {"done", "failed", "skipped"}
Status == {"absent", "pending", "leased"} \cup Settled

\* Mutant: consecutive_failures without DEFAULT 0 starts as NULL, or -1 here.
InitNoDefault ==
    /\ status = [u \in Item |-> "absent"]
    /\ owner = [u \in Item |-> NoWorker]
    /\ lease = [u \in Item |-> "null"]
    /\ due = {}
    /\ failures = [u \in Item |-> -1]
    /\ held = [w \in Worker |-> {}]
    /\ within = [w \in Worker |-> {}]

Init ==
    /\ status = [u \in Item |-> "absent"]
    /\ owner = [u \in Item |-> NoWorker]
    /\ lease = [u \in Item |-> "null"]
    /\ due = {}
    /\ failures = [u \in Item |-> 0]
    /\ held = [w \in Worker |-> {}]
    /\ within = [w \in Worker |-> {}]

-----------------------------------------------------------------------------
(* Rows enter the queue: INSERT ... ON CONFLICT (url_key) DO NOTHING, so a *)
(* row that exists keeps every column.  One call inserts a batch of links. *)
FreshOrDone(u) == status[u] \in {"absent", "done"}  \* mutant: DO UPDATE
Fresh(u) == status[u] = "absent"

Enqueue(S) ==
    /\ S # {}
    /\ \A u \in S : Fresh(u)
    /\ status' = [u \in Item |-> IF u \in S THEN "pending" ELSE status[u]]
    /\ due' = due \cup S
    /\ UNCHANGED <<owner, lease, failures, held, within>>

(* claim_urls: the first BatchSize domain ids with claimable rows, and at  *)
(* most one row of each.  SKIP LOCKED passes over rows another transaction *)
(* has locked, so any claimable row of a domain, or none, may be the one.  *)
ClaimableRetired == {u \in Item : status[u] \in {"pending", "failed"} /\ u \in due}
Claimable == {u \in Item : status[u] = "pending" /\ u \in due}
EligibleDomains == {DomainOf[u] : u \in Claimable}
BatchDomains ==
    {d \in EligibleDomains :
        Cardinality({e \in EligibleDomains : e < d}) < BatchSize}

AnyRows(S) == TRUE  \* mutant: no LIMIT 1 inside the LATERAL join
OneRowEach(S) == \A u, v \in S : DomainOf[u] = DomainOf[v] => u = v

Claim(w, S) ==
    /\ held[w] = {}              \* run() awaits the whole batch first
    /\ S # {}
    /\ \A u \in S : u \in Claimable /\ DomainOf[u] \in BatchDomains
    /\ OneRowEach(S)
    /\ status' = [u \in Item |-> IF u \in S THEN "leased" ELSE status[u]]
    /\ owner' = [u \in Item |-> IF u \in S THEN w ELSE owner[u]]
    /\ lease' = [u \in Item |-> IF u \in S THEN "running" ELSE lease[u]]
    /\ held' = [held EXCEPT ![w] = S]
    /\ within' = [within EXCEPT ![w] = @ \cup S]
    /\ UNCHANGED <<due, failures>>

(* The part the outcome statements share.  Each is UPDATE ... WHERE id = u: *)
(* neither the status nor lease_owner is looked at, so a worker whose       *)
(* lease was reaped long ago still writes its outcome over the row.         *)
Release(w, u, newStatus) ==
    /\ u \in held[w]
    /\ status' = [status EXCEPT ![u] = newStatus]
    /\ owner' = [owner EXCEPT ![u] = NoWorker]
    /\ lease' = [lease EXCEPT ![u] = "null"]
    /\ held' = [held EXCEPT ![w] = @ \ {u}]
    /\ within' = [within EXCEPT ![w] = @ \ {u}]

(* complete() and reschedule(): next_crawl_at moves seven days ahead.      *)
Finish(w, u) ==
    /\ Release(w, u, "done")
    /\ failures' = [failures EXCEPT ![u] = 0]
    /\ due' = due \ {u}

(* skip(): a page with nothing to extract.                                 *)
Skip(w, u) ==
    /\ Release(w, u, "skipped")
    /\ UNCHANGED <<failures, due>>

(* fail(): back off by at least a minute, or retire the row.               *)
VerdictLate(n) == IF n + 1 > MaxFailures THEN "failed" ELSE "pending"
Verdict(n) == IF n + 1 >= MaxFailures THEN "failed" ELSE "pending"

Fail(w, u) ==
    /\ Release(w, u, Verdict(failures[u]))
    /\ failures' = [failures EXCEPT ![u] = @ + 1]
    /\ due' = due \ {u}

(* Tasks that end with no outcome statement: an exception gather() hands   *)
(* back, a cancellation at shutdown, or the death of the process.          *)
Drop(w, S) ==
    /\ S # {}
    /\ S \subseteq held[w]
    /\ held' = [held EXCEPT ![w] = @ \ S]
    /\ UNCHANGED <<rowVars, within>>

(* now() passes the deadlines of the grants in L and of the rows in D.     *)
Grants == {g \in Worker \X Item : g[2] \in within[g[1]]}
NotDue == {u \in Item : status[u] # "absent" /\ u \notin due}
Elapse(L, D) ==
    /\ L # {} \/ D # {}
    /\ L \subseteq Grants
    /\ D \subseteq NotDue
    /\ within' = [w \in Worker |-> {u \in within[w] : <<w, u>> \notin L}]
    /\ lease' = [u \in Item |-> IF <<owner[u], u>> \in L
                                THEN "expired" ELSE lease[u]]
    /\ due' = due \cup D
    /\ UNCHANGED <<status, owner, failures, held>>

(* reap_expired_leases: one UPDATE over every row past its lease.          *)
ExpiredOrNot == {u \in Item : status[u] = "leased"}
ExpiredBackoff == {u \in Item : status[u] = "leased" /\ lease[u] = "expired" /\ u \notin due}
Expired == {u \in Item : status[u] = "leased" /\ lease[u] = "expired"}

\* Mutant: the reaper forgets the lease columns.
ReapStatusOnly ==
    /\ Expired # {}
    /\ status' = [u \in Item |-> IF u \in Expired THEN "pending" ELSE status[u]]
    /\ UNCHANGED <<owner, lease, due, failures, held, within>>

Reap ==
    /\ Expired # {}
    /\ status' = [u \in Item |-> IF u \in Expired THEN "pending" ELSE status[u]]
    /\ owner' = [u \in Item |-> IF u \in Expired THEN NoWorker ELSE owner[u]]
    /\ lease' = [u \in Item |-> IF u \in Expired THEN "null" ELSE lease[u]]
    /\ UNCHANGED <<due, failures, held, within>>

Outcome(w) == \E u \in held[w] : Finish(w, u) \/ Skip(w, u) \/ Fail(w, u)

Next ==
    \/ \E S \in SUBSET Item : Enqueue(S)
    \/ \E w \in Worker : \E S \in SUBSET Item : Claim(w, S)
    \/ \E w \in Worker : Outcome(w)
    \/ \E w \in Worker : \E S \in SUBSET held[w] : Drop(w, S)
    \/ \E L \in SUBSET Grants : \E D \in SUBSET NotDue : Elapse(L, D)
    \/ Reap

Spec == Init /\ [][Next]_vars

(* Time passes and the reaper runs every minute (cron, or the loop of any  *)
(* crawl process), whatever becomes of the workers.                        *)
ReaperFairness ==
    /\ \A w \in Worker : \A u \in Item : WF_vars(Elapse({<<w, u>>}, {}))
    /\ \A u \in Item : WF_vars(Elapse({}, {u}))
    /\ WF_vars(Reap)

ReapedSpec == Spec /\ ReaperFairness

(* And, besides, a live worker works.  Nothing forces an enqueue, and      *)
(* nothing keeps tasks from being dropped.                                 *)
WorkerFairness ==
    \A w \in Worker : /\ WF_vars(\E S \in SUBSET Item : Claim(w, S))
                      /\ WF_vars(Outcome(w))

FairSpec == ReapedSpec /\ WorkerFairness

-----------------------------------------------------------------------------
(* The variables have their types.                                         *)
TypeOK ==
    /\ status \in [Item -> Status]
    /\ owner \in [Item -> Worker \cup {NoWorker}]
    /\ lease \in [Item -> {"null", "running", "expired"}]
    /\ due \in SUBSET Item
    /\ failures \in [Item -> Nat]
    /\ held \in [Worker -> SUBSET Item]
    /\ within \in [Worker -> SUBSET Item]

(* Reaped, late and regular writes of the lease columns never leave them   *)
(* half set: a row is leased exactly when it has an owner and a deadline,  *)
(* the deadline is the owner's own, and a leased row was due when claimed  *)
(* (so that a reaped row is claimable at once, with no backoff).           *)
LeaseCoherent ==
    \A u \in Item :
        /\ status[u] = "leased" <=> owner[u] # NoWorker
        /\ status[u] = "leased" <=> lease[u] # "null"
        /\ lease[u] = "running" => u \in within[owner[u]]
        /\ lease[u] = "expired" => u \notin within[owner[u]]
        /\ status[u] = "leased" => u \in due

(* However many workers report on one row, and however late, a row that    *)
(* used up MAX_FAILURES is out of the queue: fail() retires it.            *)
RetryBudget ==
    \A u \in Item : status[u] \notin Settled => failures[u] < MaxFailures

(* Late failures push a retired row's counter past MAX_FAILURES, but each  *)
(* of the other workers can do it once: the overrun and the tasks still    *)
(* open on the row stay below the number of workers.                       *)
Holders(u) == {w \in Worker : u \in held[w]}
RetryOverrun ==
    \A u \in Item :
        failures[u] >= MaxFailures =>
            failures[u] + Cardinality(Holders(u)) < MaxFailures + Cardinality(Worker)

(* A worker never has two tasks open against one host: one row per domain  *)
(* per claim, and no claim before the last batch is done.                  *)
OnePerDomain ==
    \A w \in Worker : \A u, v \in held[w] : DomainOf[u] = DomainOf[v] => u = v

(* A step on which some worker's task on row u is over.                    *)
TaskEnds(u) == \E w \in Worker : u \in held[w] /\ u \notin held'[w]

(* A lease that still runs is taken from its owner only by the outcome of  *)
(* a task on that row; claims and the reaper leave it alone.               *)
RunningLeaseStands ==
    [][\A u \in Item :
          lease[u] = "running" /\ owner'[u] # owner[u] => TaskEnds(u)]_vars

(* A settled row comes back to the queue, or changes its verdict, only by  *)
(* the late outcome of a worker that no longer has the lease.              *)
SettledUntilLateOutcome ==
    [][\A u \in Item :
          status[u] \in Settled /\ status'[u] # status[u] => TaskEnds(u)]_vars

(* Nothing is stranded: whatever happens to the worker, a leased row       *)
(* leaves the leased state.                                                *)
LeaseEnds == \A u \in Item : status[u] = "leased" ~> status[u] # "leased"

(* Seen without the clock, the queue is the one the workers' own modules   *)
(* build on: a claim takes one row of each of BatchSize domains at most,   *)
(* and the reaper takes back leased rows only.                             *)
Tasks == INSTANCE TaskQueue
ImplementsTaskQueue == Tasks!Spec

-----------------------------------------------------------------------------
(* schema.sql, claim_urls: "no two workers get the same URL".  Two workers *)
(* never work on one row while both of their leases run.                   *)
ExclusiveWithinLease ==
    \A u \in Item : \A v, w \in Worker :
        u \in held[v] \cap within[v] /\ u \in held[w] \cap within[w] => v = w

(* fetch.py: a conditional request is "worth doing on every revisit".  A   *)
(* row that was crawled is visited again once next_crawl_at has passed.    *)
Revisited == \A u \in Item : status[u] = "done" ~> status[u] = "leased"
=============================================================================
