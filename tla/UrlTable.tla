------------------------------ MODULE UrlTable ------------------------------
(***************************************************************************)
(* The urls table with its clock: the deadlines, retry times and counters  *)
(* that the SQL of schema.sql and frontier.py computes from now().  Each   *)
(* statement is one action of LeaseQueue, which this module implements;    *)
(* a tick of the clock is an Elapse of the deadlines it passes, or nothing.*)
(* The unit of time is whatever LeaseTime, Minute and Week are given in.   *)
(***************************************************************************)
EXTENDS Integers, Sequences, FiniteSets

CONSTANTS Url, Worker, DomainOf, BatchSize, MaxFailures, NoWorker,
          LeaseTime,   \* LEASE_SECONDS
          Minute,      \* the unit of the backoff
          Week,        \* the recrawl interval of complete() and reschedule()
          CrawlDelay,  \* crawl_delay_ms of a domain
          MaxTime      \* bound of the clock, for TLC

ASSUME TableAssumption ==
    /\ IsFiniteSet(Url)
    /\ IsFiniteSet(Worker)
    /\ DomainOf \in [Url -> Nat]
    /\ BatchSize \in Nat \ {0}
    /\ MaxFailures \in Nat \ {0}
    /\ NoWorker \notin Worker
    /\ LeaseTime \in Nat \ {0}
    /\ Minute \in Nat \ {0}
    /\ Week \in Nat \ {0}
    /\ CrawlDelay \in Nat
    /\ MaxTime \in Nat

VARIABLES now,           \* now(), the time of the current transaction
          status,
          leaseOwner,    \* lease_owner
          leaseExpires,  \* lease_expires_at
          nextCrawl,     \* next_crawl_at
          failures,      \* consecutive_failures
          attempts,      \* attempt_count
          held,          \* the tasks a worker has claimed and not settled
          grant,         \* when the lease a worker was given on a row is over
          claimedAt      \* history: when a row was last claimed

rowVars == <<status, leaseOwner, leaseExpires, nextCrawl, failures, attempts>>
vars == <<now, status, leaseOwner, leaseExpires, nextCrawl, failures,
          attempts, held, grant, claimedAt>>

NoTime == -1   \* NULL
Time == Nat \cup {NoTime}
Settled == {"done", "failed", "skipped"}
Status == {"absent", "pending", "leased"} \cup Settled

\* Mutant: attempt_count without DEFAULT 0 starts as NULL.
InitNoDefault ==
    /\ now = 0
    /\ status = [u \in Url |-> "absent"]
    /\ leaseOwner = [u \in Url |-> NoWorker]
    /\ leaseExpires = [u \in Url |-> NoTime]
    /\ nextCrawl = [u \in Url |-> NoTime]
    /\ failures = [u \in Url |-> 0]
    /\ attempts = [u \in Url |-> NoTime]
    /\ held = [w \in Worker |-> {}]
    /\ grant = [w \in Worker |-> [u \in Url |-> NoTime]]
    /\ claimedAt = [u \in Url |-> NoTime]

Init ==
    /\ now = 0
    /\ status = [u \in Url |-> "absent"]
    /\ leaseOwner = [u \in Url |-> NoWorker]
    /\ leaseExpires = [u \in Url |-> NoTime]
    /\ nextCrawl = [u \in Url |-> NoTime]
    /\ failures = [u \in Url |-> 0]
    /\ attempts = [u \in Url |-> 0]
    /\ held = [w \in Worker |-> {}]
    /\ grant = [w \in Worker |-> [u \in Url |-> NoTime]]
    /\ claimedAt = [u \in Url |-> NoTime]

-----------------------------------------------------------------------------
(* add() and seed(): INSERT ... ON CONFLICT (url_key) DO NOTHING, with     *)
(* next_crawl_at DEFAULT now().                                            *)
Enqueue(S) ==
    /\ S # {}
    /\ \A u \in S : status[u] = "absent"
    /\ status' = [u \in Url |-> IF u \in S THEN "pending" ELSE status[u]]
    /\ nextCrawl' = [u \in Url |-> IF u \in S THEN now ELSE nextCrawl[u]]
    /\ UNCHANGED <<now, leaseOwner, leaseExpires, failures, attempts,
                   held, grant, claimedAt>>

(* claim_urls.  Which row of a domain is taken is ORDER BY priority DESC,  *)
(* next_crawl_at among the rows no other transaction has locked: as those  *)
(* locks may be anywhere, any one claimable row of a domain, or none.      *)
Claimable == {u \in Url : status[u] = "pending" /\ nextCrawl[u] <= now}
EligibleDomains == {DomainOf[u] : u \in Claimable}
BatchDomains ==
    {d \in EligibleDomains :
        Cardinality({e \in EligibleDomains : e < d}) < BatchSize}

Claim(w, S) ==
    /\ held[w] = {}
    /\ S # {}
    /\ \A u \in S : u \in Claimable /\ DomainOf[u] \in BatchDomains
    /\ \A u, v \in S : DomainOf[u] = DomainOf[v] => u = v
    /\ status' = [u \in Url |-> IF u \in S THEN "leased" ELSE status[u]]
    /\ leaseOwner' = [u \in Url |-> IF u \in S THEN w ELSE leaseOwner[u]]
    /\ leaseExpires' = [u \in Url |-> IF u \in S THEN now + LeaseTime
                                                 ELSE leaseExpires[u]]
    /\ attempts' = [u \in Url |-> IF u \in S THEN attempts[u] + 1 ELSE attempts[u]]
    /\ held' = [held EXCEPT ![w] = S]
    /\ grant' = [grant EXCEPT ![w] =
                    [u \in Url |-> IF u \in S THEN now + LeaseTime ELSE @[u]]]
    /\ claimedAt' = [u \in Url |-> IF u \in S THEN now ELSE claimedAt[u]]
    /\ UNCHANGED <<now, nextCrawl, failures>>

(* What the outcome statements have in common: UPDATE ... WHERE id = u,    *)
(* whatever the row's status and owner are by now.                         *)
Release(w, u, newStatus) ==
    /\ u \in held[w]
    /\ status' = [status EXCEPT ![u] = newStatus]
    /\ leaseOwner' = [leaseOwner EXCEPT ![u] = NoWorker]
    /\ leaseExpires' = [leaseExpires EXCEPT ![u] = NoTime]
    /\ held' = [held EXCEPT ![w] = @ \ {u}]
    /\ grant' = [grant EXCEPT ![w][u] = NoTime]
    /\ UNCHANGED <<now, attempts, claimedAt>>

Finish(w, u) ==
    /\ Release(w, u, "done")
    /\ failures' = [failures EXCEPT ![u] = 0]
    /\ nextCrawl' = [nextCrawl EXCEPT ![u] = now + Week]

Skip(w, u) ==
    /\ Release(w, u, "skipped")
    /\ UNCHANGED <<failures, nextCrawl>>

(* make_interval(mins => 1) * power(2, least(consecutive_failures, 6)),    *)
(* with the count before this failure.                                     *)
PowersOfTwo == <<1, 2, 4, 8, 16, 32, 64>>
LinearBackoff(n) == Minute * n  \* mutant: nothing at the first failure
Backoff(n) == Minute * PowersOfTwo[IF n < 6 THEN n + 1 ELSE 7]

Fail(w, u) ==
    /\ Release(w, u, IF failures[u] + 1 >= MaxFailures
                     THEN "failed" ELSE "pending")
    /\ failures' = [failures EXCEPT ![u] = @ + 1]
    /\ nextCrawl' = [nextCrawl EXCEPT ![u] = now + Backoff(failures[u])]

Drop(w, S) ==
    /\ S # {}
    /\ S \subseteq held[w]
    /\ held' = [held EXCEPT ![w] = @ \ S]
    /\ UNCHANGED <<now, rowVars, grant, claimedAt>>

(* reap_expired_leases: lease_expires_at < now(), so not at the deadline.  *)
\* Mutant: due at the deadline already.
ExpiredAtDeadline == {u \in Url : /\ status[u] = "leased"
                                  /\ leaseExpires[u] # NoTime /\ leaseExpires[u] <= now}
Expired == {u \in Url : /\ status[u] = "leased"
                        /\ leaseExpires[u] # NoTime /\ leaseExpires[u] < now}
\* Mutant: the lease columns stay behind.
ReapStatusOnly ==
    /\ Expired # {}
    /\ status' = [u \in Url |-> IF u \in Expired THEN "pending" ELSE status[u]]
    /\ UNCHANGED <<now, leaseOwner, leaseExpires, nextCrawl, failures, attempts,
                   held, grant, claimedAt>>

\* Mutant: the reaper counts an expired lease as a failure.
ReapAsFailure ==
    /\ Expired # {}
    /\ status' = [u \in Url |-> IF u \in Expired THEN "pending" ELSE status[u]]
    /\ leaseOwner' = [u \in Url |-> IF u \in Expired THEN NoWorker ELSE leaseOwner[u]]
    /\ leaseExpires' = [u \in Url |-> IF u \in Expired THEN NoTime ELSE leaseExpires[u]]
    /\ failures' = [u \in Url |-> IF u \in Expired THEN failures[u] + 1 ELSE failures[u]]
    /\ UNCHANGED <<now, nextCrawl, attempts, held, grant, claimedAt>>

Reap ==
    /\ Expired # {}
    /\ status' = [u \in Url |-> IF u \in Expired THEN "pending" ELSE status[u]]
    /\ leaseOwner' = [u \in Url |-> IF u \in Expired THEN NoWorker ELSE leaseOwner[u]]
    /\ leaseExpires' = [u \in Url |-> IF u \in Expired THEN NoTime ELSE leaseExpires[u]]
    /\ UNCHANGED <<now, nextCrawl, failures, attempts, held, grant, claimedAt>>

Tick ==
    /\ now < MaxTime
    /\ now' = now + 1
    /\ UNCHANGED <<rowVars, held, grant, claimedAt>>

Outcome(w) == \E u \in held[w] : Finish(w, u) \/ Skip(w, u) \/ Fail(w, u)

Next ==
    \/ \E S \in SUBSET Url : Enqueue(S)
    \/ \E w \in Worker : \E S \in SUBSET Url : Claim(w, S)
    \/ \E w \in Worker : Outcome(w)
    \/ \E w \in Worker : \E S \in SUBSET held[w] : Drop(w, S)
    \/ Reap
    \/ Tick

Spec == Init /\ [][Next]_vars

-----------------------------------------------------------------------------
(* The columns have their types.                                           *)
TypeOK ==
    /\ now \in Nat
    /\ status \in [Url -> Status]
    /\ leaseOwner \in [Url -> Worker \cup {NoWorker}]
    /\ leaseExpires \in [Url -> Time]
    /\ nextCrawl \in [Url -> Time]
    /\ failures \in [Url -> Nat]
    /\ attempts \in [Url -> Nat]
    /\ held \in [Worker -> SUBSET Url]
    /\ grant \in [Worker -> [Url -> Time]]
    /\ claimedAt \in [Url -> Time]

(* Every failure counted on a row is an attempt that was counted, however  *)
(* the reaper, new claims and late outcomes interleave: the attempts cover *)
(* the failures since the last success and the tasks still open.           *)
Holders(u) == {w \in Worker : u \in held[w]}
AttemptsCover == \A u \in Url : failures[u] + Cardinality(Holders(u)) <= attempts[u]

(* The lease on a row ends when the owner was told it would: no later      *)
(* claim, reaping or outcome leaves one worker's deadline on a row that    *)
(* another one owns.  Tasks are only ever open on rows that exist.         *)
LeaseIsOwners ==
    \A u \in Url :
        /\ \A w \in Worker : u \in held[w] => status[u] # "absent"
        /\ status[u] = "leased" <=> leaseOwner[u] # NoWorker
        /\ status[u] = "leased" <=> leaseExpires[u] # NoTime
        /\ \A w \in Worker :
              leaseOwner[u] = w => /\ leaseExpires[u] = grant[w][u]
                                   /\ leaseExpires[u] = claimedAt[u] + LeaseTime

(* One page is never requested twice in quick succession: whatever was     *)
(* reaped, failed late or finished late, a row is claimed again only after *)
(* a backoff of at least a minute, or after a whole lease.                 *)
SpacedClaims ==
    [][\A u \in Url :
          claimedAt[u] # NoTime /\ attempts'[u] # attempts[u] =>
              now >= claimedAt[u] + Minute \/ now > claimedAt[u] + LeaseTime]_vars

(* The table implements the queue: a deadline is running or expired as     *)
(* reap_expired_leases would see it, and a row is due as claim_urls would. *)
LeaseState ==
    [u \in Url |-> IF leaseExpires[u] = NoTime THEN "null"
                   ELSE IF leaseExpires[u] < now THEN "expired" ELSE "running"]
DueRows == {u \in Url : status[u] # "absent" /\ nextCrawl[u] <= now}
GrantsWithin == [w \in Worker |-> {u \in Url : grant[w][u] >= now}]

Queue == INSTANCE LeaseQueue WITH
    Item <- Url,
    owner <- leaseOwner,
    lease <- LeaseState,
    due <- DueRows,
    within <- GrantsWithin

ImplementsQueue == Queue!Spec

-----------------------------------------------------------------------------
(* schema.sql, claim_urls: "crawl-delay enforced at SCHEDULE time".  Two   *)
(* pages of one domain are claimed at least a crawl delay apart.           *)
CrawlDelayAtSchedule ==
    [][\A u, v \in Url :
          /\ DomainOf[u] = DomainOf[v]
          /\ claimedAt[v] # NoTime
          /\ attempts'[u] # attempts[u]
          => now >= claimedAt[v] + CrawlDelay]_vars
=============================================================================
