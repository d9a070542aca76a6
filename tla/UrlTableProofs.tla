--------------------------- MODULE UrlTableProofs ---------------------------
(***************************************************************************)
(* The timed table, for every number of rows and workers and every lease,  *)
(* backoff and recrawl time: its columns agree, a row is not claimed twice *)
(* in quick succession, and it implements LeaseQueue.  Spacing is the      *)
(* inductive form of SpacedClaims: it says of a row that waits, in the     *)
(* queue or under a lease, why it may not be claimed yet.                  *)
(***************************************************************************)
EXTENDS UrlTable, FiniteSetTheorems, TLAPS

(* A backoff is at least a minute. *)
LEMMA BackoffType == ASSUME NEW n \in Nat PROVE Backoff(n) \in Nat /\ Backoff(n) >= Minute
<1>1. \A i \in 1..7 : PowersOfTwo[i] \in Nat /\ PowersOfTwo[i] >= 1
  BY DEF PowersOfTwo
<1>2. PICK k \in 1..7 : Backoff(n) = Minute * PowersOfTwo[k]
  BY DEF Backoff
<1>3. PICK p \in Nat : p = PowersOfTwo[k] /\ p >= 1
  BY <1>1
<1>4. Minute * p \in Nat /\ Minute * p >= Minute
  BY <1>3, TableAssumption
<1>5. QED
  BY <1>2, <1>3, <1>4

(* Every reachable state is well typed. *)
THEOREM TypeCorrect == Spec => []TypeOK
<1>1. Init => TypeOK
  BY TableAssumption DEF Init, TypeOK, Status, Time, NoTime
<1>2. TypeOK /\ [Next]_vars => TypeOK'
  <2> SUFFICES ASSUME TypeOK, [Next]_vars
               PROVE  TypeOK'
    OBVIOUS
  <2> USE TableAssumption DEF TypeOK, Status, Settled, Time, NoTime
  <2>1. ASSUME NEW S \in SUBSET Url, Enqueue(S)
        PROVE  TypeOK'
    BY <2>1 DEF Enqueue
  <2>2. ASSUME NEW w \in Worker, NEW S \in SUBSET Url, Claim(w, S)
        PROVE  TypeOK'
    BY <2>2 DEF Claim, Claimable
  <2>3. ASSUME NEW w \in Worker, NEW u \in held[w], Finish(w, u)
        PROVE  TypeOK'
    BY <2>3 DEF Finish, Release
  <2>4. ASSUME NEW w \in Worker, NEW u \in held[w], Skip(w, u)
        PROVE  TypeOK'
    BY <2>4 DEF Skip, Release
  <2>5. ASSUME NEW w \in Worker, NEW u \in held[w], Fail(w, u)
        PROVE  TypeOK'
    BY <2>5, BackoffType DEF Fail, Release
  <2>6. ASSUME NEW w \in Worker, NEW S \in SUBSET held[w], Drop(w, S)
        PROVE  TypeOK'
    BY <2>6 DEF Drop, rowVars
  <2>7. ASSUME Reap
        PROVE  TypeOK'
    BY <2>7 DEF Reap, Expired
  <2>8. ASSUME Tick
        PROVE  TypeOK'
    BY <2>8 DEF Tick, rowVars
  <2>9. ASSUME UNCHANGED vars
        PROVE  TypeOK'
    BY <2>9 DEF vars
  <2>10. QED
    BY <2>1, <2>2, <2>3, <2>4, <2>5, <2>6, <2>7, <2>8, <2>9 DEF Next, Outcome
<1>3. QED
  BY <1>1, <1>2, PTL DEF Spec

(* A leased row carries its owner's deadline, LEASE_SECONDS after the claim *)
(* that set it, and a row that is not leased carries neither.              *)
THEOREM LeaseColumns == Spec => []LeaseIsOwners
<1>1. Init => LeaseIsOwners
  BY TableAssumption DEF Init, LeaseIsOwners, NoTime
<1>2. TypeOK /\ LeaseIsOwners /\ [Next]_vars => LeaseIsOwners'
  <2> SUFFICES ASSUME TypeOK, LeaseIsOwners, [Next]_vars
               PROVE  LeaseIsOwners'
    OBVIOUS
  <2> USE TableAssumption DEF TypeOK, Status, Settled, Time, NoTime, LeaseIsOwners
  <2>1. ASSUME NEW S \in SUBSET Url, Enqueue(S)
        PROVE  LeaseIsOwners'
    BY <2>1 DEF Enqueue
  <2>2. ASSUME NEW w \in Worker, NEW S \in SUBSET Url, Claim(w, S)
        PROVE  LeaseIsOwners'
    BY <2>2 DEF Claim, Claimable
  <2>3. ASSUME NEW w \in Worker, NEW u \in held[w], Finish(w, u)
        PROVE  LeaseIsOwners'
    BY <2>3 DEF Finish, Release
  <2>4. ASSUME NEW w \in Worker, NEW u \in held[w], Skip(w, u)
        PROVE  LeaseIsOwners'
    BY <2>4 DEF Skip, Release
  <2>5. ASSUME NEW w \in Worker, NEW u \in held[w], Fail(w, u)
        PROVE  LeaseIsOwners'
    BY <2>5 DEF Fail, Release
  <2>6. ASSUME NEW w \in Worker, NEW S \in SUBSET held[w], Drop(w, S)
        PROVE  LeaseIsOwners'
    BY <2>6 DEF Drop, rowVars
  <2>7. ASSUME Reap
        PROVE  LeaseIsOwners'
    BY <2>7 DEF Reap, Expired
  <2>8. ASSUME Tick
        PROVE  LeaseIsOwners'
    BY <2>8 DEF Tick, rowVars
  <2>9. ASSUME UNCHANGED vars
        PROVE  LeaseIsOwners'
    BY <2>9 DEF vars
  <2>10. QED
    BY <2>1, <2>2, <2>3, <2>4, <2>5, <2>6, <2>7, <2>8, <2>9 DEF Next, Outcome
<1>3. QED
  BY <1>1, <1>2, TypeCorrect, PTL DEF Spec

(* A claim lies in the past, and a row that was claimed and waits in the   *)
(* queue again waits for its backoff, or has outwaited the lease.          *)
Spacing ==
    \A u \in Url :
        /\ claimedAt[u] <= now
        /\ status[u] = "absent" => claimedAt[u] = NoTime
        /\ status[u] = "pending" /\ claimedAt[u] # NoTime =>
              nextCrawl[u] >= claimedAt[u] + Minute \/ now > claimedAt[u] + LeaseTime

(* What keeps claims apart is inductive: fail() counts its backoff from its *)
(* own now(), never earlier than the claim, and the reaper waits for the    *)
(* whole lease.                                                            *)
THEOREM SpacingHolds == Spec => []Spacing
<1>1. Init => Spacing
  BY TableAssumption DEF Init, Spacing, NoTime
<1>2. TypeOK /\ LeaseIsOwners /\ Spacing /\ [Next]_vars => Spacing'
  <2> SUFFICES ASSUME TypeOK, LeaseIsOwners, Spacing, [Next]_vars
               PROVE  Spacing'
    OBVIOUS
  <2> USE TableAssumption DEF TypeOK, Status, Settled, Time, NoTime, LeaseIsOwners, Spacing
  <2>1. ASSUME NEW S \in SUBSET Url, Enqueue(S)
        PROVE  Spacing'
    BY <2>1 DEF Enqueue
  <2>2. ASSUME NEW w \in Worker, NEW S \in SUBSET Url, Claim(w, S)
        PROVE  Spacing'
    BY <2>2 DEF Claim, Claimable
  <2>3. ASSUME NEW w \in Worker, NEW u \in held[w], Finish(w, u)
        PROVE  Spacing'
    BY <2>3 DEF Finish, Release
  <2>4. ASSUME NEW w \in Worker, NEW u \in held[w], Skip(w, u)
        PROVE  Spacing'
    BY <2>4 DEF Skip, Release
  <2>5. ASSUME NEW w \in Worker, NEW u \in held[w], Fail(w, u)
        PROVE  Spacing'
    BY <2>5, BackoffType DEF Fail, Release
  <2>6. ASSUME NEW w \in Worker, NEW S \in SUBSET held[w], Drop(w, S)
        PROVE  Spacing'
    BY <2>6 DEF Drop, rowVars
  <2>7. ASSUME Reap
        PROVE  Spacing'
    BY <2>7 DEF Reap, Expired
  <2>8. ASSUME Tick
        PROVE  Spacing'
    BY <2>8 DEF Tick, rowVars
  <2>9. ASSUME UNCHANGED vars
        PROVE  Spacing'
    BY <2>9 DEF vars
  <2>10. QED
    BY <2>1, <2>2, <2>3, <2>4, <2>5, <2>6, <2>7, <2>8, <2>9 DEF Next, Outcome
<1>3. QED
  BY <1>1, <1>2, TypeCorrect, LeaseColumns, PTL DEF Spec

(* No row is claimed again within a minute of its last claim, unless its   *)
(* whole lease has passed, whichever workers report late on it.            *)
THEOREM ClaimsAreSpaced == Spec => SpacedClaims
<1>1. TypeOK /\ Spacing /\ [Next]_vars =>
        (\A u \in Url :
            claimedAt[u] # NoTime /\ attempts'[u] # attempts[u] =>
                now >= claimedAt[u] + Minute \/ now > claimedAt[u] + LeaseTime)
  <2> SUFFICES ASSUME TypeOK, Spacing, [Next]_vars, NEW x \in Url,
                      claimedAt[x] # NoTime, attempts'[x] # attempts[x]
               PROVE  now >= claimedAt[x] + Minute \/ now > claimedAt[x] + LeaseTime
    OBVIOUS
  <2>1. PICK w \in Worker, S \in SUBSET Url : Claim(w, S)
    BY DEF Next, Outcome, Enqueue, Finish, Skip, Fail, Release, Drop, rowVars,
           Reap, Tick, vars
  <2>2. x \in S /\ status[x] = "pending" /\ nextCrawl[x] <= now
    BY <2>1 DEF Claim, Claimable, TypeOK
  <2>3. QED
    BY <2>2, TableAssumption DEF Spacing, TypeOK, Time, NoTime
<1>2. QED
  BY <1>1, TypeCorrect, SpacingHolds, PTL DEF Spec, SpacedClaims

(* A backoff is at most 64 minutes. *)
LEMMA BackoffBounded == ASSUME NEW n \in Nat PROVE Backoff(n) <= 64 * Minute
<1>1. \A i \in 1..7 : PowersOfTwo[i] \in {1, 2, 4, 8, 16, 32, 64}
  BY DEF PowersOfTwo
<1>2. PICK k \in 1..7 : Backoff(n) = Minute * PowersOfTwo[k]
  BY DEF Backoff
<1>3. PICK p \in {1, 2, 4, 8, 16, 32, 64} : p = PowersOfTwo[k]
  BY <1>1
<1>4. Minute * p <= 64 * Minute
  BY <1>3, TableAssumption
<1>5. QED
  BY <1>2, <1>3, <1>4

(* No row that is still to be crawled is put off for long: one that waits  *)
(* is due within the longest backoff, and one that is leased is overdue    *)
(* already and free for the reaper within a lease, whatever mix of late    *)
(* outcomes, reaping and new claims it has been through.                   *)
NothingPutOff ==
    \A u \in Url :
        /\ status[u] = "pending" => nextCrawl[u] <= now + 64 * Minute
        /\ status[u] = "leased" =>
              nextCrawl[u] <= now /\ leaseExpires[u] <= now + LeaseTime

(* What SQL computes from now() never lies further ahead than it should.   *)
THEOREM RowsComeBack == Spec => []NothingPutOff
<1>1. Init => NothingPutOff
  BY DEF Init, NothingPutOff
<1>2. TypeOK /\ NothingPutOff /\ [Next]_vars => NothingPutOff'
  <2> SUFFICES ASSUME TypeOK, NothingPutOff, [Next]_vars
               PROVE  NothingPutOff'
    OBVIOUS
  <2> DEFINE Hour == 64 * Minute
  <2>0. Hour \in Nat
    BY TableAssumption
  <2>00. \A n \in Nat : Backoff(n) \in Nat /\ Backoff(n) <= Hour
    BY BackoffType, BackoffBounded
  <2> HIDE DEF Hour
  <2> USE <2>0, TableAssumption DEF TypeOK, Status, Settled, Time, NoTime
  <2>a. NothingPutOff <=>
          \A u \in Url : /\ status[u] = "pending" => nextCrawl[u] <= now + Hour
                         /\ status[u] = "leased" =>
                               nextCrawl[u] <= now /\ leaseExpires[u] <= now + LeaseTime
    BY DEF NothingPutOff, Hour
  <2>b. NothingPutOff' <=>
          \A u \in Url : /\ status'[u] = "pending" => nextCrawl'[u] <= now' + Hour
                         /\ status'[u] = "leased" =>
                               nextCrawl'[u] <= now' /\ leaseExpires'[u] <= now' + LeaseTime
    BY DEF NothingPutOff, Hour
  <2>1. ASSUME NEW S \in SUBSET Url, Enqueue(S)
        PROVE  NothingPutOff'
    BY <2>1, <2>a, <2>b DEF Enqueue
  <2>2. ASSUME NEW w \in Worker, NEW S \in SUBSET Url, Claim(w, S)
        PROVE  NothingPutOff'
    BY <2>2, <2>a, <2>b DEF Claim, Claimable
  <2>3. ASSUME NEW w \in Worker, NEW u \in held[w], Finish(w, u) \/ Skip(w, u)
        PROVE  NothingPutOff'
    BY <2>3, <2>a, <2>b DEF Finish, Skip, Release
  <2>4. ASSUME NEW w \in Worker, NEW u \in held[w], Fail(w, u)
        PROVE  NothingPutOff'
    BY <2>4, <2>a, <2>b, <2>00 DEF Fail, Release
  <2>5. ASSUME NEW w \in Worker, NEW S \in SUBSET held[w], Drop(w, S)
        PROVE  NothingPutOff'
    BY <2>5, <2>a, <2>b DEF Drop, rowVars
  <2>6. CASE Reap
    BY <2>6, <2>a, <2>b DEF Reap, Expired
  <2>7. CASE Tick
    BY <2>7, <2>a, <2>b DEF Tick, rowVars
  <2>8. CASE UNCHANGED vars
    BY <2>8, <2>a, <2>b DEF vars
  <2>9. QED
    BY <2>1, <2>2, <2>3, <2>4, <2>5, <2>6, <2>7, <2>8 DEF Next, Outcome
<1>3. QED
  BY <1>1, <1>2, TypeCorrect, PTL DEF Spec

(* The tasks open on a row can be counted, and a step that opens none does *)
(* not raise the count.                                                    *)
LEMMA HoldersCount ==
  ASSUME TypeOK, NEW u \in Url
  PROVE  /\ IsFiniteSet(Holders(u))
         /\ Cardinality(Holders(u)) \in Nat
BY TableAssumption, FS_Subset, FS_CardinalityType DEF Holders

LEMMA HoldersShrink ==
  ASSUME TypeOK, NEW u \in Url, Holders(u)' \subseteq Holders(u)
  PROVE  /\ Cardinality(Holders(u)') \in Nat
         /\ Cardinality(Holders(u)') <= Cardinality(Holders(u))
BY HoldersCount, FS_Subset, FS_CardinalityType

(* The two counters of a row never drift apart the wrong way: a late       *)
(* failure counts against an attempt that was counted when it was claimed. *)
THEOREM AttemptsCoverFailures == Spec => []AttemptsCover
<1>1. Init => AttemptsCover
  <2> SUFFICES ASSUME Init, NEW u \in Url
               PROVE  failures[u] + Cardinality(Holders(u)) <= attempts[u]
    BY DEF AttemptsCover
  <2>1. Holders(u) = {}
    BY DEF Init, Holders
  <2>2. QED
    BY <2>1, FS_EmptySet DEF Init
<1>2. TypeOK /\ AttemptsCover /\ [Next]_vars => AttemptsCover'
  <2> SUFFICES ASSUME TypeOK, AttemptsCover, [Next]_vars, NEW x \in Url
               PROVE  failures'[x] + Cardinality(Holders(x)') <= attempts'[x]
    BY DEF AttemptsCover
  <2> DEFINE Covered == failures'[x] + Cardinality(Holders(x)') <= attempts'[x]
  <2>0. /\ failures[x] \in Nat /\ attempts[x] \in Nat
        /\ Cardinality(Holders(x)) \in Nat
        /\ failures[x] + Cardinality(Holders(x)) <= attempts[x]
    BY HoldersCount DEF TypeOK, AttemptsCover
  <2>a. ASSUME failures'[x] = failures[x] \/ failures'[x] = 0,
               attempts'[x] = attempts[x], Holders(x)' \subseteq Holders(x)
        PROVE  Covered
    BY <2>a, <2>0, HoldersShrink
  <2> HIDE DEF Covered
  <2>1. ASSUME NEW S \in SUBSET Url, Enqueue(S) PROVE Covered
    BY <2>1, <2>a DEF Enqueue, Holders
  <2>2. ASSUME NEW w \in Worker, NEW S \in SUBSET Url, Claim(w, S) PROVE Covered
    <3>1. CASE x \in S
      <4>1. Holders(x)' = Holders(x) \cup {w} /\ w \notin Holders(x)
        BY <2>2, <3>1 DEF Claim, Holders, TypeOK
      <4>2. Cardinality(Holders(x)') = Cardinality(Holders(x)) + 1
        BY <4>1, HoldersCount, FS_AddElement
      <4>3. failures'[x] = failures[x] /\ attempts'[x] = attempts[x] + 1
        BY <2>2, <3>1 DEF Claim, TypeOK
      <4>4. QED
        BY <2>0, <4>2, <4>3 DEF Covered
    <3>2. CASE x \notin S
      <4>1. Holders(x)' \subseteq Holders(x)
        BY <2>2, <3>2 DEF Claim, Holders, TypeOK
      <4>2. failures'[x] = failures[x] /\ attempts'[x] = attempts[x]
        BY <2>2, <3>2 DEF Claim, TypeOK
      <4>3. QED
        BY <4>1, <4>2, <2>a
    <3>3. QED
      BY <3>1, <3>2
  <2>3. ASSUME NEW w \in Worker, NEW u \in held[w], Finish(w, u) PROVE Covered
    <3>1. Holders(x)' \subseteq Holders(x)
      BY <2>3 DEF Finish, Release, Holders, TypeOK
    <3>2. QED
      BY <2>3, <3>1, <2>a DEF Finish, Release, TypeOK
  <2>4. ASSUME NEW w \in Worker, NEW u \in held[w], Skip(w, u) PROVE Covered
    <3>1. Holders(x)' \subseteq Holders(x)
      BY <2>4 DEF Skip, Release, Holders, TypeOK
    <3>2. QED
      BY <2>4, <3>1, <2>a DEF Skip, Release
  <2>5. ASSUME NEW w \in Worker, NEW u \in held[w], Fail(w, u) PROVE Covered
    <3>1. attempts'[x] = attempts[x]
      BY <2>5 DEF Fail, Release
    <3>2. CASE x # u
      <4>1. Holders(x)' \subseteq Holders(x)
        BY <2>5 DEF Fail, Release, Holders, TypeOK
      <4>2. failures'[x] = failures[x]
        BY <2>5, <3>2 DEF Fail, TypeOK
      <4>3. QED
        BY <3>1, <4>1, <4>2, <2>a
    <3>3. CASE x = u
      <4>1. Holders(x)' = Holders(x) \ {w} /\ w \in Holders(x)
        BY <2>5, <3>3 DEF Fail, Release, Holders, TypeOK
      <4>2. Cardinality(Holders(x)') = Cardinality(Holders(x)) - 1
        BY <4>1, HoldersCount, FS_RemoveElement
      <4>3. failures'[x] = failures[x] + 1
        BY <2>5, <3>3 DEF Fail, TypeOK
      <4>4. QED
        BY <2>0, <3>1, <4>2, <4>3 DEF Covered
    <3>4. QED
      BY <3>2, <3>3
  <2>6. ASSUME NEW w \in Worker, NEW S \in SUBSET held[w], Drop(w, S) PROVE Covered
    <3>1. Holders(x)' \subseteq Holders(x)
      BY <2>6 DEF Drop, Holders, TypeOK
    <3>2. QED
      BY <2>6, <3>1, <2>a DEF Drop, rowVars
  <2>7. ASSUME Reap PROVE Covered
    BY <2>7, <2>a DEF Reap, Holders
  <2>8. ASSUME Tick PROVE Covered
    BY <2>8, <2>a DEF Tick, rowVars, Holders
  <2>9. ASSUME UNCHANGED vars PROVE Covered
    BY <2>9, <2>a DEF vars, Holders
  <2>10. QED
    BY <2>1, <2>2, <2>3, <2>4, <2>5, <2>6, <2>7, <2>8, <2>9
    DEF Next, Outcome, Covered
<1>3. QED
  BY <1>1, <1>2, TypeCorrect, PTL DEF Spec

(* Every run of the timed table is a run of LeaseQueue, so what is proved  *)
(* of the queue holds of the table: each statement is the queue's, and a   *)
(* tick is an Elapse of the deadlines it passes, if it passes any.         *)
THEOREM Implements == Spec => ImplementsQueue
<1>1. Init => Queue!Init
  <2> SUFFICES ASSUME Init PROVE Queue!Init
    OBVIOUS
  <2>1. LeaseState = [u \in Url |-> "null"]
    BY DEF Init, LeaseState, NoTime
  <2>2. DueRows = {}
    BY DEF Init, DueRows
  <2>3. \A w \in Worker : GrantsWithin[w] = {}
    BY DEF Init, GrantsWithin, NoTime
  <2>4. GrantsWithin = [w \in Worker |-> {}]
    BY <2>3 DEF GrantsWithin
  <2>5. QED
    BY <2>1, <2>2, <2>4 DEF Init, Queue!Init
<1>2. TypeOK /\ LeaseIsOwners /\ [Next]_vars => [Queue!Next]_(Queue!vars)
  <2> SUFFICES ASSUME TypeOK, LeaseIsOwners, [Next]_vars
               PROVE  [Queue!Next]_(Queue!vars)
    OBVIOUS
  <2> USE TableAssumption DEF TypeOK, LeaseIsOwners, Time, NoTime, Settled, Status
  <2>1. ASSUME NEW S \in SUBSET Url, Enqueue(S) PROVE Queue!Enqueue(S)
    <3>1. LeaseState' = LeaseState
      BY <2>1 DEF Enqueue, LeaseState
    <3>2. DueRows' = DueRows \cup S
      BY <2>1 DEF Enqueue, DueRows
    <3>3. GrantsWithin' = GrantsWithin
      BY <2>1 DEF Enqueue, GrantsWithin
    <3>4. QED
      BY <2>1, <3>1, <3>2, <3>3 DEF Enqueue, Queue!Enqueue, Queue!Fresh
  <2>2. ASSUME NEW w \in Worker, NEW S \in SUBSET Url, Claim(w, S)
        PROVE  Queue!Claim(w, S)
    <3>1. LeaseState' = [u \in Url |-> IF u \in S THEN "running" ELSE LeaseState[u]]
      BY <2>2 DEF Claim, LeaseState
    <3>2. DueRows' = DueRows
      BY <2>2 DEF Claim, Claimable, DueRows
    <3>3. GrantsWithin' = [GrantsWithin EXCEPT ![w] = @ \cup S]
      <4>1. \A v \in Worker :
                GrantsWithin'[v] = IF v = w THEN GrantsWithin[w] \cup S
                                            ELSE GrantsWithin[v]
        BY <2>2 DEF Claim, GrantsWithin
      <4>2. QED
        BY <4>1 DEF GrantsWithin
    <3>4. Queue!Claimable = Claimable
      BY DEF Queue!Claimable, Claimable, DueRows
    <3>5. Queue!BatchDomains = BatchDomains
      <4>1. Queue!EligibleDomains = EligibleDomains
        BY <3>4 DEF Queue!EligibleDomains, EligibleDomains
      <4>2. \A T : Queue!Cardinality(T) = Cardinality(T)
        BY DEF Queue!Cardinality, Cardinality
      <4>3. QED
        BY <4>1, <4>2 DEF Queue!BatchDomains, BatchDomains
    <3>6. QED
      BY <2>2, <3>1, <3>2, <3>3, <3>4, <3>5 DEF Claim, Queue!Claim, Queue!OneRowEach
  <2>3. ASSUME NEW w \in Worker, NEW u \in held[w],
               NEW s \in {"done", "skipped", "failed", "pending"}, Release(w, u, s)
        PROVE  Queue!Release(w, u, s)
    <3>1. LeaseState' = [LeaseState EXCEPT ![u] = "null"]
      BY <2>3 DEF Release, LeaseState
    <3>2. GrantsWithin' = [GrantsWithin EXCEPT ![w] = @ \ {u}]
      <4>1. \A v \in Worker :
                GrantsWithin'[v] = IF v = w THEN GrantsWithin[w] \ {u}
                                            ELSE GrantsWithin[v]
        BY <2>3 DEF Release, GrantsWithin
      <4>2. QED
        BY <4>1 DEF GrantsWithin
    <3>3. QED
      BY <2>3, <3>1, <3>2 DEF Release, Queue!Release
  <2>4. ASSUME NEW w \in Worker, NEW u \in held[w], Finish(w, u)
        PROVE  Queue!Finish(w, u)
    <3>1. DueRows' = DueRows \ {u}
      BY <2>4 DEF Finish, Release, DueRows
    <3>2. QED
      BY <2>3, <2>4, <3>1 DEF Finish, Queue!Finish
  <2>5. ASSUME NEW w \in Worker, NEW u \in held[w], Skip(w, u)
        PROVE  Queue!Skip(w, u)
    <3>1. DueRows' = DueRows
      BY <2>5 DEF Skip, Release, DueRows
    <3>2. QED
      BY <2>3, <2>5, <3>1 DEF Skip, Queue!Skip
  <2>6. ASSUME NEW w \in Worker, NEW u \in held[w], Fail(w, u)
        PROVE  Queue!Fail(w, u)
    <3>1. DueRows' = DueRows \ {u}
      BY <2>6, BackoffType DEF Fail, Release, DueRows
    <3>2. QED
      BY <2>3, <2>6, <3>1 DEF Fail, Queue!Fail, Queue!Verdict
  <2>7. ASSUME NEW w \in Worker, NEW S \in SUBSET held[w], Drop(w, S)
        PROVE  Queue!Drop(w, S)
    BY <2>7 DEF Drop, rowVars, Queue!Drop, Queue!rowVars,
                LeaseState, DueRows, GrantsWithin
  <2>8. ASSUME Reap PROVE Queue!Reap
    <3>1. Queue!Expired = Expired
      BY DEF Queue!Expired, Expired, LeaseState
    <3>2. LeaseState' = [u \in Url |-> IF u \in Expired THEN "null" ELSE LeaseState[u]]
      BY <2>8 DEF Reap, Expired, LeaseState
    <3>3. DueRows' = DueRows
      BY <2>8 DEF Reap, Expired, DueRows
    <3>4. GrantsWithin' = GrantsWithin
      BY <2>8 DEF Reap, GrantsWithin
    <3>5. QED
      BY <2>8, <3>1, <3>2, <3>3, <3>4 DEF Reap, Queue!Reap
  <2>9. ASSUME Tick PROVE [Queue!Next]_(Queue!vars)
    <3> DEFINE L == {g \in Worker \X Url : grant[g[1]][g[2]] = now}
               D == {u \in Url : status[u] # "absent" /\ nextCrawl[u] = now + 1}
    <3>1. \A w \in Worker : GrantsWithin'[w] = {u \in GrantsWithin[w] : <<w, u>> \notin L}
      <4>1. \A w \in Worker, u \in Url : <<w, u>> \in L <=> grant[w][u] = now
        OBVIOUS
      <4>2. \A t \in Time : t >= now + 1 <=> t >= now /\ t # now
        OBVIOUS
      <4> HIDE DEF L
      <4>3. GrantsWithin' = [w \in Worker |-> {u \in Url : grant[w][u] >= now + 1}]
        BY <2>9 DEF Tick, GrantsWithin
      <4>4. ASSUME NEW w \in Worker, NEW u \in Url
            PROVE  u \in GrantsWithin'[w] <=> u \in GrantsWithin[w] /\ <<w, u>> \notin L
        <5>1. u \in GrantsWithin'[w] <=> grant[w][u] >= now + 1
          BY <4>3
        <5>2. u \in GrantsWithin[w] <=> grant[w][u] >= now
          BY DEF GrantsWithin
        <5>3. grant[w][u] \in Time
          OBVIOUS
        <5>4. QED
          BY <5>1, <5>2, <5>3, <4>1, <4>2
      <4>5. QED
        BY <4>3, <4>4 DEF GrantsWithin
    <3>2. GrantsWithin' = [w \in Worker |-> {u \in GrantsWithin[w] : <<w, u>> \notin L}]
      BY <3>1 DEF GrantsWithin
    <3>3. DueRows' = DueRows \cup D
      BY <2>9 DEF Tick, rowVars, DueRows
    <3>4. LeaseState' = [u \in Url |-> IF <<leaseOwner[u], u>> \in L
                                       THEN "expired" ELSE LeaseState[u]]
      <4>1. \A u \in Url : <<leaseOwner[u], u>> \in L <=>
                             leaseExpires[u] # NoTime /\ leaseExpires[u] = now
        <5> SUFFICES ASSUME NEW u \in Url
                     PROVE  <<leaseOwner[u], u>> \in L <=>
                              leaseExpires[u] # NoTime /\ leaseExpires[u] = now
          OBVIOUS
        <5>1. CASE leaseOwner[u] = NoWorker
          BY <5>1
        <5>2. CASE leaseOwner[u] \in Worker
          BY <5>2
        <5>3. QED
          BY <5>1, <5>2
      <4> HIDE DEF L
      <4>2. QED
        <5> SUFFICES ASSUME NEW u \in Url
                     PROVE  LeaseState'[u] = IF <<leaseOwner[u], u>> \in L
                                             THEN "expired" ELSE LeaseState[u]
          BY DEF LeaseState
        <5>1. LeaseState'[u] = IF leaseExpires[u] = NoTime THEN "null"
                               ELSE IF leaseExpires[u] < now + 1 THEN "expired"
                                                                 ELSE "running"
          BY <2>9 DEF Tick, rowVars, LeaseState
        <5>2. LeaseState[u] = IF leaseExpires[u] = NoTime THEN "null"
                              ELSE IF leaseExpires[u] < now THEN "expired"
                                                            ELSE "running"
          BY DEF LeaseState
        <5>0. leaseExpires[u] \in Int /\ now \in Int
          OBVIOUS
        <5>3. leaseExpires[u] < now + 1 <=> leaseExpires[u] < now \/ leaseExpires[u] = now
          BY ONLY <5>0
        <5>4. CASE leaseExpires[u] = NoTime
          BY <5>1, <5>2, <5>4, <4>1
        <5>5. CASE leaseExpires[u] # NoTime /\ leaseExpires[u] = now
          BY <5>1, <5>3, <5>5, <4>1
        <5>6. CASE leaseExpires[u] # NoTime /\ leaseExpires[u] # now
          BY <5>1, <5>2, <5>3, <5>6, <4>1
        <5>7. QED
          BY <5>4, <5>5, <5>6
    <3>5. L \subseteq Queue!Grants
      BY DEF Queue!Grants, GrantsWithin
    <3>10. D \subseteq Queue!NotDue
      BY DEF Queue!NotDue, DueRows
    <3>6. UNCHANGED <<status, leaseOwner, failures, held>>
      BY <2>9 DEF Tick, rowVars
    <3>7. CASE L # {} \/ D # {}
      <4> HIDE DEF L, D
      <4>1. Queue!Elapse(L, D)
        BY <3>2, <3>3, <3>4, <3>5, <3>10, <3>6, <3>7 DEF Queue!Elapse
      <4>2. QED
        BY <4>1, <3>5, <3>10 DEF Queue!Next
    <3>8. CASE L = {} /\ D = {}
      <4> HIDE DEF L, D
      <4>1. GrantsWithin' = GrantsWithin
        BY <3>2, <3>8 DEF GrantsWithin
      <4>2. DueRows' = DueRows
        BY <3>3, <3>8 DEF DueRows
      <4>3. LeaseState' = LeaseState
        BY <3>4, <3>8 DEF LeaseState
      <4>4. QED
        BY <3>6, <4>1, <4>2, <4>3 DEF Queue!vars
    <3>9. QED
      BY <3>7, <3>8
  <2>10. ASSUME UNCHANGED vars PROVE Queue!vars' = Queue!vars
    BY <2>10 DEF vars, Queue!vars, LeaseState, DueRows, GrantsWithin
  <2>11. QED
    BY <2>1, <2>2, <2>4, <2>5, <2>6, <2>7, <2>8, <2>9, <2>10
    DEF Next, Outcome, Queue!Next, Queue!Outcome
<1>3. QED
  BY <1>1, <1>2, TypeCorrect, LeaseColumns, PTL
  DEF Spec, ImplementsQueue, Queue!Spec
-----------------------------------------------------------------------------
(* What is proved of the queue holds of the table, which implements it.    *)
QueueFacts == INSTANCE LeaseQueueProofs WITH
    Item <- Url,
    owner <- leaseOwner,
    lease <- LeaseState,
    due <- DueRows,
    within <- GrantsWithin

(* The table's constants satisfy the assumptions of the queue's theorems.  *)
LEMMA AssumptionHolds == QueueFacts!QueueAssumption
<1>1. QueueFacts!IsFiniteSet(Url) /\ QueueFacts!IsFiniteSet(Worker)
  BY TableAssumption DEF QueueFacts!IsFiniteSet, IsFiniteSet
<1>2. QED
  BY <1>1, TableAssumption DEF QueueFacts!QueueAssumption

(* The queue the table implements is the one the theorems are about.       *)
LEMMA SameQueue == Queue!Spec => QueueFacts!Spec
<1>1. Queue!Init => QueueFacts!Init
  BY DEF Queue!Init, QueueFacts!Init
<1>2. ASSUME NEW S, Queue!Enqueue(S) PROVE QueueFacts!Enqueue(S)
  BY <1>2 DEF Queue!Enqueue, QueueFacts!Enqueue, Queue!Fresh, QueueFacts!Fresh
<1>3. ASSUME NEW w, NEW S, Queue!Claim(w, S) PROVE QueueFacts!Claim(w, S)
  <2>1. \A T : Queue!Cardinality(T) = QueueFacts!Cardinality(T)
    BY DEF Queue!Cardinality, QueueFacts!Cardinality
  <2>2. Queue!BatchDomains = QueueFacts!BatchDomains
    BY <2>1 DEF Queue!BatchDomains, QueueFacts!BatchDomains, Queue!EligibleDomains,
       QueueFacts!EligibleDomains, Queue!Claimable, QueueFacts!Claimable
  <2>3. QED
    BY <1>3, <2>2 DEF Queue!Claim, QueueFacts!Claim, Queue!OneRowEach,
       QueueFacts!OneRowEach, Queue!Claimable, QueueFacts!Claimable
<1>4. ASSUME NEW w, Queue!Outcome(w) PROVE QueueFacts!Outcome(w)
  BY <1>4 DEF Queue!Outcome, QueueFacts!Outcome, Queue!Finish, QueueFacts!Finish,
     Queue!Skip, QueueFacts!Skip, Queue!Fail, QueueFacts!Fail, Queue!Release,
     QueueFacts!Release, Queue!Verdict, QueueFacts!Verdict
<1>5. ASSUME NEW w, NEW S, Queue!Drop(w, S) PROVE QueueFacts!Drop(w, S)
  BY <1>5 DEF Queue!Drop, QueueFacts!Drop, Queue!rowVars, QueueFacts!rowVars
<1>6. ASSUME NEW L, NEW D, Queue!Elapse(L, D) PROVE QueueFacts!Elapse(L, D)
  BY <1>6 DEF Queue!Elapse, QueueFacts!Elapse, Queue!Grants, QueueFacts!Grants,
     Queue!NotDue, QueueFacts!NotDue
<1>7. ASSUME Queue!Reap PROVE QueueFacts!Reap
  BY <1>7 DEF Queue!Reap, QueueFacts!Reap, Queue!Expired, QueueFacts!Expired
<1>8. Queue!Next => QueueFacts!Next
  BY <1>2, <1>3, <1>4, <1>5, <1>6, <1>7 DEF Queue!Next, QueueFacts!Next,
     Queue!Grants, QueueFacts!Grants, Queue!NotDue, QueueFacts!NotDue
<1>9. [Queue!Next]_Queue!vars => [QueueFacts!Next]_QueueFacts!vars
  BY <1>8 DEF Queue!vars, QueueFacts!vars
<1>10. QED
  BY <1>1, <1>9, PTL DEF Queue!Spec, QueueFacts!Spec

(* Every behaviour of the table is one of theirs.                          *)
LEMMA TableIsQueue == Spec => QueueFacts!Spec
BY Implements, SameQueue, PTL DEF ImplementsQueue

(* The invariants the table gets from the queue: its lease columns agree,  *)
(* a row is retried within its budget and overruns it by the other workers *)
(* at most, and a worker has one task open on a domain.                    *)
QueuePromises ==
    /\ Queue!LeaseCoherent
    /\ Queue!RetryBudget
    /\ Queue!RetryOverrun
    /\ Queue!OnePerDomain

(* The table keeps the queue's promises.                                   *)
THEOREM TableKeepsPromises == Spec => []QueuePromises
<1>1. QueueFacts!Spec => [](/\ QueueFacts!LeaseCoherent /\ QueueFacts!RetryBudget
                            /\ QueueFacts!RetryOverrun /\ QueueFacts!OnePerDomain)
  BY QueueFacts!LeaseColumns, QueueFacts!RetiredOnTime, QueueFacts!OverrunBounded,
     QueueFacts!OneTaskPerHost, AssumptionHolds, PTL
<1>2. QueueFacts!LeaseCoherent => Queue!LeaseCoherent
  BY DEF QueueFacts!LeaseCoherent, Queue!LeaseCoherent
<1>3. QueueFacts!RetryBudget => Queue!RetryBudget
  BY DEF QueueFacts!RetryBudget, Queue!RetryBudget, QueueFacts!Settled, Queue!Settled
<1>4. QueueFacts!RetryOverrun => Queue!RetryOverrun
  BY DEF QueueFacts!RetryOverrun, Queue!RetryOverrun, QueueFacts!Holders, Queue!Holders,
     QueueFacts!Cardinality, Queue!Cardinality
<1>5. QueueFacts!OnePerDomain => Queue!OnePerDomain
  BY DEF QueueFacts!OnePerDomain, Queue!OnePerDomain
<1>6. QED
  BY <1>1, <1>2, <1>3, <1>4, <1>5, TableIsQueue, PTL DEF QueuePromises

(* A row whose deadline has not passed changes its owner only by the       *)
(* outcome of a task that was open on it.                                  *)
THEOREM TableLeaseStands == Spec => Queue!RunningLeaseStands
<1>1. QueueFacts!Spec => QueueFacts!RunningLeaseStands
  BY QueueFacts!LeaseStands, AssumptionHolds
<1>2. QueueFacts!RunningLeaseStands => Queue!RunningLeaseStands
  BY DEF QueueFacts!RunningLeaseStands, Queue!RunningLeaseStands, QueueFacts!TaskEnds,
     Queue!TaskEnds, QueueFacts!vars, Queue!vars
<1>3. QED
  BY <1>1, <1>2, TableIsQueue

(* A row that was crawled, skipped or given up comes back only by the late *)
(* outcome of a task that was open on it.                                  *)
THEOREM TableSettledStays == Spec => Queue!SettledUntilLateOutcome
<1>1. QueueFacts!Spec => QueueFacts!SettledUntilLateOutcome
  BY QueueFacts!SettledStays, AssumptionHolds
<1>2. QueueFacts!SettledUntilLateOutcome => Queue!SettledUntilLateOutcome
  BY DEF QueueFacts!SettledUntilLateOutcome, Queue!SettledUntilLateOutcome,
     QueueFacts!TaskEnds, Queue!TaskEnds, QueueFacts!Settled, Queue!Settled,
     QueueFacts!vars, Queue!vars
<1>3. QED
  BY <1>1, <1>2, TableIsQueue
=============================================================================
