-------------------------- MODULE LeaseQueueProofs --------------------------
(***************************************************************************)
(* The safety properties of LeaseQueue, for every set of rows, of workers  *)
(* and of domains and every value of the bounds.  Each proof is one step   *)
(* per statement of the queue.  LeaseCoherent is what RunningLeaseStands   *)
(* rests on: a row that can be claimed or reaped has no running lease.     *)
(* RetryBudget is what RetryOverrun rests on: a retired row gets no new    *)
(* holder, so its late failures are bounded by the holders it had.         *)
(***************************************************************************)
EXTENDS LeaseQueue, FiniteSetTheorems, TLAPS

(* Every reachable state is well typed. *)
THEOREM TypeCorrect == Spec => []TypeOK
<1>1. Init => TypeOK
  BY DEF Init, TypeOK, Status
<1>2. TypeOK /\ [Next]_vars => TypeOK'
  <2> SUFFICES ASSUME TypeOK, [Next]_vars PROVE TypeOK'
    OBVIOUS
  <2> USE QueueAssumption DEF TypeOK, Status, Settled
  <2>1. ASSUME NEW S \in SUBSET Item, Enqueue(S) PROVE TypeOK'
    BY <2>1 DEF Enqueue, Fresh
  <2>2. ASSUME NEW w \in Worker, NEW S \in SUBSET Item, Claim(w, S)
        PROVE  TypeOK'
    BY <2>2 DEF Claim, OneRowEach
  <2>3. ASSUME NEW w \in Worker, NEW u \in held[w], Finish(w, u) PROVE TypeOK'
    BY <2>3 DEF Finish, Release
  <2>4. ASSUME NEW w \in Worker, NEW u \in held[w], Skip(w, u) PROVE TypeOK'
    BY <2>4 DEF Skip, Release
  <2>5. ASSUME NEW w \in Worker, NEW u \in held[w], Fail(w, u) PROVE TypeOK'
    BY <2>5 DEF Fail, Release, Verdict
  <2>6. ASSUME NEW w \in Worker, NEW S \in SUBSET held[w], Drop(w, S)
        PROVE  TypeOK'
    BY <2>6 DEF Drop, rowVars
  <2>7. ASSUME NEW L \in SUBSET Grants, NEW D \in SUBSET NotDue,
               Elapse(L, D)
        PROVE  TypeOK'
    BY <2>7 DEF Elapse, Grants, NotDue
  <2>8. CASE Reap
    BY <2>8 DEF Reap
  <2>9. CASE UNCHANGED vars
    BY <2>9 DEF vars
  <2>10. QED
    BY <2>1, <2>2, <2>3, <2>4, <2>5, <2>6, <2>7, <2>8, <2>9 DEF Next, Outcome
<1>3. QED
  BY <1>1, <1>2, PTL DEF Spec

(* The lease columns are never half set: every statement that touches one  *)
(* of status, lease_owner and lease_expires_at writes all three.           *)
THEOREM LeaseColumns == Spec => []LeaseCoherent
<1>1. Init => LeaseCoherent
  BY QueueAssumption DEF Init, LeaseCoherent
<1>2. TypeOK /\ LeaseCoherent /\ [Next]_vars => LeaseCoherent'
  <2> SUFFICES ASSUME TypeOK, LeaseCoherent, [Next]_vars PROVE LeaseCoherent'
    OBVIOUS
  <2> USE QueueAssumption DEF TypeOK, Status, Settled, LeaseCoherent
  <2>1. ASSUME NEW S \in SUBSET Item, Enqueue(S) PROVE LeaseCoherent'
    BY <2>1 DEF Enqueue, Fresh
  <2>2. ASSUME NEW w \in Worker, NEW S \in SUBSET Item, Claim(w, S)
        PROVE  LeaseCoherent'
    BY <2>2 DEF Claim, Claimable
  <2>3. ASSUME NEW w \in Worker, NEW u \in held[w], Finish(w, u)
        PROVE  LeaseCoherent'
    BY <2>3 DEF Finish, Release
  <2>4. ASSUME NEW w \in Worker, NEW u \in held[w], Skip(w, u)
        PROVE  LeaseCoherent'
    BY <2>4 DEF Skip, Release
  <2>5. ASSUME NEW w \in Worker, NEW u \in held[w], Fail(w, u)
        PROVE  LeaseCoherent'
    BY <2>5 DEF Fail, Release, Verdict
  <2>6. ASSUME NEW w \in Worker, NEW S \in SUBSET held[w], Drop(w, S)
        PROVE  LeaseCoherent'
    BY <2>6 DEF Drop, rowVars
  <2>7. ASSUME NEW L \in SUBSET Grants, NEW D \in SUBSET NotDue,
               Elapse(L, D)
        PROVE  LeaseCoherent'
    BY <2>7 DEF Elapse, Grants, NotDue
  <2>8. CASE Reap
    BY <2>8 DEF Reap, Expired
  <2>9. CASE UNCHANGED vars
    BY <2>9 DEF vars
  <2>10. QED
    BY <2>1, <2>2, <2>3, <2>4, <2>5, <2>6, <2>7, <2>8, <2>9 DEF Next, Outcome
<1>3. QED
  BY <1>1, <1>2, TypeCorrect, PTL DEF Spec

(* However late the outcomes come, a row with MAX_FAILURES failures is not *)
(* in the queue: the one statement that counts a failure retires the row.  *)
THEOREM RetiredOnTime == Spec => []RetryBudget
<1>1. Init => RetryBudget
  BY QueueAssumption DEF Init, RetryBudget
<1>2. TypeOK /\ RetryBudget /\ [Next]_vars => RetryBudget'
  <2> SUFFICES ASSUME TypeOK, RetryBudget, [Next]_vars
               PROVE  RetryBudget'
    OBVIOUS
  <2> USE QueueAssumption DEF TypeOK, Status, Settled, RetryBudget
  <2>1. ASSUME NEW S \in SUBSET Item, Enqueue(S)
        PROVE  RetryBudget'
    BY <2>1 DEF Enqueue, Fresh
  <2>2. ASSUME NEW w \in Worker, NEW S \in SUBSET Item, Claim(w, S)
        PROVE  RetryBudget'
    BY <2>2 DEF Claim, Claimable
  <2>3. ASSUME NEW w \in Worker, NEW u \in held[w], Finish(w, u)
        PROVE  RetryBudget'
    BY <2>3 DEF Finish, Release
  <2>4. ASSUME NEW w \in Worker, NEW u \in held[w], Skip(w, u)
        PROVE  RetryBudget'
    BY <2>4 DEF Skip, Release
  <2>5. ASSUME NEW w \in Worker, NEW u \in held[w], Fail(w, u)
        PROVE  RetryBudget'
    BY <2>5 DEF Fail, Release, Verdict
  <2>6. ASSUME NEW w \in Worker, NEW S \in SUBSET held[w], Drop(w, S)
        PROVE  RetryBudget'
    BY <2>6 DEF Drop, rowVars
  <2>7. ASSUME NEW L \in SUBSET Grants, NEW D \in SUBSET NotDue,
               Elapse(L, D)
        PROVE  RetryBudget'
    BY <2>7 DEF Elapse, Grants, NotDue
  <2>8. CASE Reap
    BY <2>8 DEF Reap, Expired
  <2>9. CASE UNCHANGED vars
    BY <2>9 DEF vars
  <2>10. QED
    BY <2>1, <2>2, <2>3, <2>4, <2>5, <2>6, <2>7, <2>8, <2>9 DEF Next, Outcome
<1>3. QED
  BY <1>1, <1>2, TypeCorrect, PTL DEF Spec

(* No worker has two tasks open against one domain: claim_urls takes one   *)
(* row of a domain, and a worker claims only when its last batch is over.  *)
THEOREM OneTaskPerHost == Spec => []OnePerDomain
<1>1. Init => OnePerDomain
  BY DEF Init, OnePerDomain
<1>2. TypeOK /\ OnePerDomain /\ [Next]_vars => OnePerDomain'
  <2> SUFFICES ASSUME TypeOK, OnePerDomain, [Next]_vars
               PROVE  OnePerDomain'
    OBVIOUS
  <2> USE DEF TypeOK, OnePerDomain
  <2>1. ASSUME NEW S \in SUBSET Item, Enqueue(S)
        PROVE  OnePerDomain'
    BY <2>1 DEF Enqueue, Fresh
  <2>2. ASSUME NEW w \in Worker, NEW S \in SUBSET Item, Claim(w, S)
        PROVE  OnePerDomain'
    BY <2>2 DEF Claim, OneRowEach
  <2>3. ASSUME NEW w \in Worker, NEW u \in held[w], Finish(w, u)
        PROVE  OnePerDomain'
    BY <2>3 DEF Finish, Release
  <2>4. ASSUME NEW w \in Worker, NEW u \in held[w], Skip(w, u)
        PROVE  OnePerDomain'
    BY <2>4 DEF Skip, Release
  <2>5. ASSUME NEW w \in Worker, NEW u \in held[w], Fail(w, u)
        PROVE  OnePerDomain'
    BY <2>5 DEF Fail, Release, Verdict
  <2>6. ASSUME NEW w \in Worker, NEW S \in SUBSET held[w], Drop(w, S)
        PROVE  OnePerDomain'
    BY <2>6 DEF Drop, rowVars
  <2>7. ASSUME NEW L \in SUBSET Grants, NEW D \in SUBSET NotDue,
               Elapse(L, D)
        PROVE  OnePerDomain'
    BY <2>7 DEF Elapse, Grants, NotDue
  <2>8. CASE Reap
    BY <2>8 DEF Reap, Expired
  <2>9. CASE UNCHANGED vars
    BY <2>9 DEF vars
  <2>10. QED
    BY <2>1, <2>2, <2>3, <2>4, <2>5, <2>6, <2>7, <2>8, <2>9 DEF Next, Outcome
<1>3. QED
  BY <1>1, <1>2, TypeCorrect, PTL DEF Spec

(* No claim and no pass of the reaper takes a row from a worker whose      *)
(* lease runs; only the outcome of a task, its own or a late one, does.    *)
THEOREM LeaseStands == Spec => RunningLeaseStands
<1>1. TypeOK /\ LeaseCoherent /\ [Next]_vars =>
        (\A u \in Item : lease[u] = "running" /\ owner'[u] # owner[u] => TaskEnds(u))
  <2> SUFFICES ASSUME TypeOK, LeaseCoherent, [Next]_vars,
                      NEW x \in Item, lease[x] = "running", owner'[x] # owner[x]
               PROVE  TaskEnds(x)
    OBVIOUS
  <2> USE QueueAssumption DEF TypeOK, Status, Settled, LeaseCoherent, TaskEnds
  <2>1. ASSUME NEW S \in SUBSET Item, Enqueue(S)
        PROVE  TaskEnds(x)
    BY <2>1 DEF Enqueue, Fresh
  <2>2. ASSUME NEW w \in Worker, NEW S \in SUBSET Item, Claim(w, S)
        PROVE  TaskEnds(x)
    BY <2>2 DEF Claim, Claimable
  <2>3. ASSUME NEW w \in Worker, NEW u \in held[w], Finish(w, u)
        PROVE  TaskEnds(x)
    BY <2>3 DEF Finish, Release
  <2>4. ASSUME NEW w \in Worker, NEW u \in held[w], Skip(w, u)
        PROVE  TaskEnds(x)
    BY <2>4 DEF Skip, Release
  <2>5. ASSUME NEW w \in Worker, NEW u \in held[w], Fail(w, u)
        PROVE  TaskEnds(x)
    BY <2>5 DEF Fail, Release, Verdict
  <2>6. ASSUME NEW w \in Worker, NEW S \in SUBSET held[w], Drop(w, S)
        PROVE  TaskEnds(x)
    BY <2>6 DEF Drop, rowVars
  <2>7. ASSUME NEW L \in SUBSET Grants, NEW D \in SUBSET NotDue,
               Elapse(L, D)
        PROVE  TaskEnds(x)
    BY <2>7 DEF Elapse, Grants, NotDue
  <2>8. CASE Reap
    BY <2>8 DEF Reap, Expired
  <2>9. CASE UNCHANGED vars
    BY <2>9 DEF vars
  <2>10. QED
    BY <2>1, <2>2, <2>3, <2>4, <2>5, <2>6, <2>7, <2>8, <2>9 DEF Next, Outcome
<1>2. QED
  BY <1>1, TypeCorrect, LeaseColumns, PTL DEF Spec, RunningLeaseStands

(* A done, failed or skipped row changes its status only by the outcome of *)
(* a task that was still open on it: rediscovery, claims and the reaper    *)
(* leave it settled.                                                       *)
THEOREM SettledStays == Spec => SettledUntilLateOutcome
<1>1. TypeOK /\ [Next]_vars =>
        (\A u \in Item : status[u] \in Settled /\ status'[u] # status[u] => TaskEnds(u))
  <2> SUFFICES ASSUME TypeOK, [Next]_vars,
                      NEW x \in Item, status[x] \in Settled, status'[x] # status[x]
               PROVE  TaskEnds(x)
    OBVIOUS
  <2> USE DEF TypeOK, Status, Settled, TaskEnds
  <2>1. ASSUME NEW S \in SUBSET Item, Enqueue(S)
        PROVE  TaskEnds(x)
    BY <2>1 DEF Enqueue, Fresh
  <2>2. ASSUME NEW w \in Worker, NEW S \in SUBSET Item, Claim(w, S)
        PROVE  TaskEnds(x)
    BY <2>2 DEF Claim, Claimable
  <2>3. ASSUME NEW w \in Worker, NEW u \in held[w], Finish(w, u)
        PROVE  TaskEnds(x)
    BY <2>3 DEF Finish, Release
  <2>4. ASSUME NEW w \in Worker, NEW u \in held[w], Skip(w, u)
        PROVE  TaskEnds(x)
    BY <2>4 DEF Skip, Release
  <2>5. ASSUME NEW w \in Worker, NEW u \in held[w], Fail(w, u)
        PROVE  TaskEnds(x)
    BY <2>5 DEF Fail, Release, Verdict
  <2>6. ASSUME NEW w \in Worker, NEW S \in SUBSET held[w], Drop(w, S)
        PROVE  TaskEnds(x)
    BY <2>6 DEF Drop, rowVars
  <2>7. ASSUME NEW L \in SUBSET Grants, NEW D \in SUBSET NotDue,
               Elapse(L, D)
        PROVE  TaskEnds(x)
    BY <2>7 DEF Elapse, Grants, NotDue
  <2>8. CASE Reap
    BY <2>8 DEF Reap, Expired
  <2>9. CASE UNCHANGED vars
    BY <2>9 DEF vars
  <2>10. QED
    BY <2>1, <2>2, <2>3, <2>4, <2>5, <2>6, <2>7, <2>8, <2>9 DEF Next, Outcome
<1>2. QED
  BY <1>1, TypeCorrect, PTL DEF Spec, SettledUntilLateOutcome

(* The number of tasks open on a row is a natural number, at most the      *)
(* number of workers, and a step that only closes tasks does not raise it. *)
LEMMA HoldersCount ==
  ASSUME TypeOK, NEW u \in Item
  PROVE  /\ IsFiniteSet(Holders(u))
         /\ Cardinality(Holders(u)) \in Nat
         /\ Cardinality(Worker) \in Nat
         /\ Cardinality(Holders(u)) <= Cardinality(Worker)
BY QueueAssumption, FS_Subset, FS_CardinalityType DEF Holders

(* A step that only closes tasks leaves no more holders.                   *)
LEMMA HoldersShrink ==
  ASSUME TypeOK, NEW u \in Item, Holders(u)' \subseteq Holders(u)
  PROVE  /\ Cardinality(Holders(u)') \in Nat
         /\ Cardinality(Holders(u)') <= Cardinality(Holders(u))
BY HoldersCount, FS_Subset, FS_CardinalityType

(* The holder whose task closes is one holder less.                        *)
LEMMA HolderLeaves ==
  ASSUME TypeOK, NEW u \in Item, NEW w \in Worker, u \in held[w],
         held' = [held EXCEPT ![w] = @ \ {u}]
  PROVE  /\ Cardinality(Holders(u)') = Cardinality(Holders(u)) - 1
         /\ \A v \in Item : v # u => Holders(v)' = Holders(v)
<1>1. Holders(u)' = Holders(u) \ {w} /\ w \in Holders(u)
  BY DEF Holders, TypeOK
<1>2. \A v \in Item : v # u => Holders(v)' = Holders(v)
  BY DEF Holders, TypeOK
<1>3. QED
  BY <1>1, <1>2, HoldersCount, FS_RemoveElement

(* A retired row may be failed again, and past MAX_FAILURES, but by every  *)
(* other worker at most once: each further failure closes a task that was  *)
(* open when the row was retired, and a retired row is not claimed.        *)
THEOREM OverrunBounded == Spec => []RetryOverrun
<1>1. Init => RetryOverrun
  BY QueueAssumption DEF Init, RetryOverrun
<1>2. TypeOK /\ RetryBudget /\ RetryOverrun /\ [Next]_vars => RetryOverrun'
  <2> SUFFICES ASSUME TypeOK, RetryBudget, RetryOverrun, [Next]_vars,
                      NEW x \in Item, failures'[x] >= MaxFailures
               PROVE  failures'[x] + Cardinality(Holders(x)')
                          < MaxFailures + Cardinality(Worker)
    BY DEF RetryOverrun
  <2> DEFINE Bound == failures'[x] + Cardinality(Holders(x)')
                          < MaxFailures + Cardinality(Worker)
  <2>0. /\ failures[x] \in Nat /\ MaxFailures \in Nat
        /\ Cardinality(Worker) \in Nat /\ Cardinality(Holders(x)) \in Nat
        /\ Cardinality(Holders(x)) <= Cardinality(Worker)
    BY HoldersCount, QueueAssumption DEF TypeOK
  <2>a. ASSUME failures'[x] = failures[x], Holders(x)' \subseteq Holders(x)
        PROVE  Bound
    BY <2>a, <2>0, HoldersShrink DEF RetryOverrun
  <2> HIDE DEF Bound
  <2>1. ASSUME NEW S \in SUBSET Item, Enqueue(S) PROVE Bound
    BY <2>1, <2>a DEF Enqueue, Holders
  <2>2. ASSUME NEW w \in Worker, NEW S \in SUBSET Item, Claim(w, S) PROVE Bound
    <3>1. failures'[x] = failures[x] /\ x \notin S
      BY <2>2, <2>0 DEF Claim, Claimable, RetryBudget, Settled
    <3>2. Holders(x)' \subseteq Holders(x)
      BY <2>2, <3>1 DEF Claim, Holders, TypeOK
    <3>3. QED
      BY <3>1, <3>2, <2>a
  <2>3. ASSUME NEW w \in Worker, NEW u \in held[w], Finish(w, u) PROVE Bound
    <3>1. x # u /\ failures'[x] = failures[x]
      BY <2>3, QueueAssumption DEF Finish, TypeOK
    <3>2. QED
      BY <2>3, <3>1, <2>a, HolderLeaves DEF Finish, Release, TypeOK
  <2>4. ASSUME NEW w \in Worker, NEW u \in held[w], Skip(w, u) PROVE Bound
    <3>1. Holders(x)' \subseteq Holders(x)
      BY <2>4 DEF Skip, Release, Holders, TypeOK
    <3>2. QED
      BY <2>4, <3>1, <2>a DEF Skip
  <2>5. ASSUME NEW w \in Worker, NEW u \in held[w], Fail(w, u) PROVE Bound
    <3>1. CASE x # u
      BY <2>5, <3>1, <2>a, HolderLeaves DEF Fail, Release, TypeOK
    <3>2. CASE x = u
      <4>1. failures'[x] = failures[x] + 1
        BY <2>5, <3>2 DEF Fail, TypeOK
      <4>2. Cardinality(Holders(x)') = Cardinality(Holders(x)) - 1
        BY <2>5, <3>2, HolderLeaves DEF Fail, Release, TypeOK
      <4>3. CASE failures[x] >= MaxFailures
        BY <4>1, <4>2, <4>3, <2>0 DEF RetryOverrun, Bound
      <4>4. CASE failures[x] + 1 = MaxFailures
        BY <4>1, <4>2, <4>4, <2>0 DEF Bound
      <4>5. QED
        BY <4>1, <4>3, <4>4, <2>0
    <3>3. QED
      BY <3>1, <3>2
  <2>6. ASSUME NEW w \in Worker, NEW S \in SUBSET held[w], Drop(w, S) PROVE Bound
    <3>1. Holders(x)' \subseteq Holders(x)
      BY <2>6 DEF Drop, Holders, TypeOK
    <3>2. QED
      BY <2>6, <3>1, <2>a DEF Drop, rowVars
  <2>7. ASSUME NEW L \in SUBSET Grants, NEW D \in SUBSET NotDue,
               Elapse(L, D)
        PROVE  Bound
    BY <2>7, <2>a DEF Elapse, Grants, NotDue, Holders
  <2>8. ASSUME Reap PROVE Bound
    BY <2>8, <2>a DEF Reap, Holders
  <2>9. ASSUME UNCHANGED vars PROVE Bound
    BY <2>9, <2>a DEF vars, Holders
  <2>10. QED
    BY <2>1, <2>2, <2>3, <2>4, <2>5, <2>6, <2>7, <2>8, <2>9
    DEF Next, Outcome, Bound
<1>3. QED
  BY <1>1, <1>2, TypeCorrect, RetiredOnTime, PTL DEF Spec

(* One row of each batch domain is BatchSize rows at most: the rows map    *)
(* injectively to the number of eligible domains below their own.          *)
LEMMA BatchIsSmall ==
  ASSUME NEW S \in SUBSET Item,
         \A u \in S : u \in Claimable /\ DomainOf[u] \in BatchDomains,
         OneRowEach(S)
  PROVE  Cardinality(S) <= BatchSize
<1> DEFINE E == EligibleDomains
           Below(d) == {e \in E : e < d}
           rank == [u \in S |-> Cardinality(Below(DomainOf[u]))]
<1>1. IsFiniteSet(E) /\ E \subseteq Nat
  <2>1. IsFiniteSet(Claimable)
    BY QueueAssumption, FS_Subset DEF Claimable
  <2>2. IsFiniteSet({DomainOf[u] : u \in Claimable})
    <3> DEFINE f == [u \in Claimable |-> DomainOf[u]]
               T == {DomainOf[u] : u \in Claimable}
    <3>1. f \in Surjection(Claimable, T)
      BY DEF Surjection
    <3>2. QED
      BY <2>1, <3>1, FS_Surjection
  <2>3. QED
    BY <2>2, QueueAssumption DEF EligibleDomains, Claimable
<1>2. \A u \in S : DomainOf[u] \in E /\ DomainOf[u] \in Nat
  BY <1>1 DEF BatchDomains
<1>3. \A d \in E : IsFiniteSet(Below(d)) /\ Cardinality(Below(d)) \in Nat
  BY <1>1, FS_Subset, FS_CardinalityType
<1>4. ASSUME NEW c \in E, NEW d \in E, c < d
      PROVE  Cardinality(Below(c)) # Cardinality(Below(d))
  <2>1. Below(c) \subseteq Below(d)
    <3> SUFFICES ASSUME NEW e \in E, e < c PROVE e < d
      OBVIOUS
    <3> HIDE DEF E
    <3>1. QED
      BY <1>1, <1>4
  <2>2. c \in Below(d) /\ c \notin Below(c)
    BY <1>1, <1>4
  <2>3. QED
    BY <2>1, <2>2, <1>3, FS_Subset
<1>5. \A u \in S : rank[u] \in 0..(BatchSize - 1)
  <2> SUFFICES ASSUME NEW u \in S PROVE rank[u] \in 0..(BatchSize - 1)
    OBVIOUS
  <2>1. Cardinality(Below(DomainOf[u])) < BatchSize
    BY DEF BatchDomains
  <2>2. Cardinality(Below(DomainOf[u])) \in Nat
    BY <1>2, <1>3
  <2> HIDE DEF Below
  <2>3. QED
    BY <2>1, <2>2, QueueAssumption
<1>6. \A u, v \in S : rank[u] = rank[v] => u = v
  <2> SUFFICES ASSUME NEW u \in S, NEW v \in S, u # v PROVE rank[u] # rank[v]
    OBVIOUS
  <2>1. DomainOf[u] # DomainOf[v]
    BY DEF OneRowEach
  <2>2. DomainOf[u] < DomainOf[v] \/ DomainOf[v] < DomainOf[u]
    BY <2>1, <1>2
  <2> HIDE DEF Below
  <2>3. QED
    BY <2>2, <1>2, <1>4
<1>7. rank \in Injection(S, 0..(BatchSize - 1))
  BY <1>5, <1>6 DEF Injection, IsInjective
<1>8. IsFiniteSet(0..(BatchSize - 1)) /\ Cardinality(0..(BatchSize - 1)) = BatchSize
  BY FS_Interval, QueueAssumption
<1> HIDE DEF rank
<1>9. QED
  BY <1>7, <1>8, FS_Injection

(* The queue implements the clockless queue: each statement is the one of  *)
(* the same name, and time passing is a stutter.                           *)
THEOREM Implements == Spec => ImplementsTaskQueue
<1>1. Init => Tasks!Init
  BY DEF Init, Tasks!Init
<1>2. TypeOK /\ [Next]_vars => [Tasks!Next]_(Tasks!taskVars)
  <2> SUFFICES ASSUME TypeOK, [Next]_vars PROVE [Tasks!Next]_(Tasks!taskVars)
    OBVIOUS
  <2> USE DEF TypeOK
  <2>1. ASSUME NEW S \in SUBSET Item, Enqueue(S) PROVE Tasks!Enqueue(S)
    BY <2>1 DEF Enqueue, Fresh, Tasks!Enqueue, Tasks!Fresh
  <2>2. ASSUME NEW w \in Worker, NEW S \in SUBSET Item, Claim(w, S)
        PROVE  Tasks!Claim(w, S)
    <3>1. Cardinality(S) <= BatchSize
      BY <2>2, BatchIsSmall DEF Claim
    <3>2. Tasks!Cardinality(S) = Cardinality(S)
      BY DEF Tasks!Cardinality, Cardinality
    <3>3. QED
      BY <2>2, <3>1, <3>2 DEF Claim, Claimable, OneRowEach, Tasks!Claim
  <2>3. ASSUME NEW w \in Worker, NEW u \in held[w], Finish(w, u)
        PROVE  Tasks!Finish(w, u)
    BY <2>3 DEF Finish, Release, Tasks!Finish, Tasks!Release
  <2>4. ASSUME NEW w \in Worker, NEW u \in held[w], Skip(w, u)
        PROVE  Tasks!Skip(w, u)
    BY <2>4 DEF Skip, Release, Tasks!Skip, Tasks!Release
  <2>5. ASSUME NEW w \in Worker, NEW u \in held[w], Fail(w, u)
        PROVE  Tasks!Fail(w, u)
    BY <2>5 DEF Fail, Release, Verdict, Tasks!Fail, Tasks!Release
  <2>6. ASSUME NEW w \in Worker, NEW S \in SUBSET held[w], Drop(w, S)
        PROVE  Tasks!Drop(w, S)
    BY <2>6 DEF Drop, rowVars, Tasks!Drop
  <2>7. ASSUME NEW L \in SUBSET Grants, NEW D \in SUBSET NotDue, Elapse(L, D)
        PROVE  UNCHANGED Tasks!taskVars
    BY <2>7 DEF Elapse, Tasks!taskVars
  <2>8. ASSUME Reap PROVE Tasks!Reap(Expired)
    BY <2>8 DEF Reap, Expired, Tasks!Reap
  <2>9. ASSUME UNCHANGED vars PROVE UNCHANGED Tasks!taskVars
    BY <2>9 DEF vars, Tasks!taskVars
  <2>10. \A w \in Worker : held[w] \subseteq Item
    OBVIOUS
  <2>11. Expired \in SUBSET Item
    BY DEF Expired
  <2>12. QED
    BY <2>1, <2>2, <2>3, <2>4, <2>5, <2>6, <2>7, <2>8, <2>9, <2>10, <2>11
    DEF Next, Outcome, Tasks!Next
<1>3. QED
  BY <1>1, <1>2, TypeCorrect, PTL DEF Spec, ImplementsTaskQueue, Tasks!Spec
=============================================================================
