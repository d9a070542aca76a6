--------------------------- MODULE TaskQueueProofs ---------------------------
(***************************************************************************)
(* What a worker can rely on from the clockless queue, whichever leases    *)
(* run out and whenever.  The modules that implement TaskQueue get these   *)
(* theorems with it: the crawl and the scrape pipeline, and the urls table.*)
(***************************************************************************)
EXTENDS TaskQueue, FiniteSetTheorems, TLAPS

Budget == TypeOK /\ OnePerDomain /\ RetryBudget /\ RetryOverrun

(* A step that counts no failure, opens no task and settles no row.        *)
Quiet ==
    /\ failures' = failures
    /\ status' \in [Item -> {"absent", "pending", "leased"} \cup Settled]
    /\ held' \in [Worker -> SUBSET Item]
    /\ \A w \in Worker : held'[w] \subseteq held[w]
    /\ \A u \in Item : status[u] # "absent" => status'[u] # "absent"
    /\ \A u \in Item : status'[u] \in Settled <=> status[u] \in Settled

(* At first no row exists and no task is open.                             *)
LEMMA InitBudget == TaskAssumption /\ Init => Budget
BY DEF TaskAssumption, Init, Budget, TypeOK, OnePerDomain, RetryBudget, RetryOverrun

(* The holders of a row are counted by a natural number.                   *)
LEMMA HoldersCount ==
    ASSUME TaskAssumption, NEW u \in Item
    PROVE  /\ IsFiniteSet(Holders(u))
           /\ Cardinality(Holders(u)) \in Nat
           /\ Cardinality(Worker) \in Nat
           /\ Cardinality(Holders(u)) <= Cardinality(Worker)
BY FS_Subset, FS_CardinalityType DEF TaskAssumption, Holders

(* There are no more of them after a step that only closes tasks.          *)
LEMMA HoldersShrink ==
    ASSUME TaskAssumption, NEW u \in Item, Holders(u)' \subseteq Holders(u)
    PROVE  /\ Cardinality(Holders(u)') \in Nat
           /\ Cardinality(Holders(u)') <= Cardinality(Holders(u))
BY HoldersCount, FS_Subset, FS_CardinalityType

(* The holder whose task closes is one holder less.                        *)
LEMMA HolderLeaves ==
    ASSUME TypeOK, TaskAssumption, NEW w \in Worker, NEW u \in held[w],
           held' = [held EXCEPT ![w] = @ \ {u}]
    PROVE  /\ Cardinality(Holders(u)') = Cardinality(Holders(u)) - 1
           /\ \A v \in Item : v # u => Holders(v)' = Holders(v)
<1>1. Holders(u)' = Holders(u) \ {w} /\ w \in Holders(u) /\ u \in Item
    BY DEF Holders, TypeOK
<1>2. \A v \in Item : v # u => Holders(v)' = Holders(v)
    BY DEF Holders, TypeOK
<1> QED
    BY <1>1, <1>2, HoldersCount, FS_RemoveElement

(* The row of a task that reports gets a verdict, or another try within    *)
(* its budget; nothing happens to any other row.                           *)
LEMMA OutcomeDoes ==
    ASSUME TypeOK, TaskAssumption, NEW w \in Worker, NEW u \in held[w],
           Finish(w, u) \/ Skip(w, u) \/ Fail(w, u)
    PROVE  /\ u \in Item
           /\ held' = [held EXCEPT ![w] = @ \ {u}]
           /\ status' \in [Item -> {"absent", "pending", "leased"} \cup Settled]
           /\ failures' \in [Item -> Nat]
           /\ \A v \in Item : v # u => status'[v] = status[v] /\ failures'[v] = failures[v]
           /\ failures'[u] \in {0, failures[u], failures[u] + 1}
           /\ status'[u] \in Settled \/ (status'[u] = "pending" /\ failures'[u] < MaxFailures)
<1> USE DEF TypeOK, TaskAssumption
<1>1. u \in Item /\ failures[u] \in Nat /\ MaxFailures \in Nat
    OBVIOUS
<1>2. ASSUME NEW new \in {"done", "skipped", "failed", "pending"}, Release(w, u, new)
      PROVE  /\ held' = [held EXCEPT ![w] = @ \ {u}]
             /\ status' \in [Item -> {"absent", "pending", "leased"} \cup Settled]
             /\ \A v \in Item : v # u => status'[v] = status[v]
             /\ status'[u] = new
    BY <1>1, <1>2 DEF Release, Settled
<1>3. CASE Finish(w, u)
    BY <1>1, <1>2, <1>3 DEF Finish, Settled
<1>4. CASE Skip(w, u)
  <2>1. Release(w, u, "skipped") /\ failures' = failures
    BY <1>4 DEF Skip
  <2>2. failures' \in [Item -> Nat]
    BY <2>1
  <2> QED
    BY <1>1, <1>2, <2>1, <2>2 DEF Settled
<1>5. CASE Fail(w, u)
  <2>1. /\ failures' \in [Item -> Nat] /\ failures'[u] = failures[u] + 1
        /\ \A v \in Item : v # u => failures'[v] = failures[v]
    BY <1>1, <1>5 DEF Fail
  <2>2. CASE failures[u] + 1 >= MaxFailures
    <3>1. Release(w, u, "failed")
        BY <1>5, <2>2 DEF Fail
    <3> QED
        BY <1>1, <1>2, <2>1, <3>1 DEF Settled
  <2>3. CASE ~(failures[u] + 1 >= MaxFailures)
    <3>1. Release(w, u, "pending") /\ failures'[u] < MaxFailures
        BY <1>1, <1>5, <2>1, <2>3 DEF Fail
    <3> QED
        BY <1>1, <1>2, <2>1, <3>1
  <2> QED
    BY <2>2, <2>3
<1> QED
    BY <1>3, <1>4, <1>5

(* An outcome keeps the promises: the task that adds a failure is one      *)
(* holder less.                                                            *)
LEMMA OutcomeKeeps ==
    ASSUME Budget, TaskAssumption, NEW w \in Worker, NEW u \in held[w],
           Finish(w, u) \/ Skip(w, u) \/ Fail(w, u)
    PROVE  Budget'
<1>1. /\ u \in Item
      /\ held' = [held EXCEPT ![w] = @ \ {u}]
      /\ status' \in [Item -> {"absent", "pending", "leased"} \cup Settled]
      /\ failures' \in [Item -> Nat]
      /\ \A v \in Item : v # u => status'[v] = status[v] /\ failures'[v] = failures[v]
      /\ failures'[u] \in {0, failures[u], failures[u] + 1}
      /\ status'[u] \in Settled \/ (status'[u] = "pending" /\ failures'[u] < MaxFailures)
    BY OutcomeDoes DEF Budget
<1>2. held' \in [Worker -> SUBSET Item] /\ \A v \in Worker : held'[v] \subseteq held[v]
    BY <1>1 DEF Budget, TypeOK
<1>3. TypeOK'
  <2>1. \A v \in Item : status[v] # "absent" => status'[v] # "absent"
    BY <1>1 DEF Settled
  <2> QED
    BY <1>1, <1>2, <2>1 DEF Budget, TypeOK
<1>4. OnePerDomain'
    BY <1>2 DEF Budget, OnePerDomain
<1>5. RetryBudget'
    BY <1>1 DEF Budget, RetryBudget
<1>6. ASSUME NEW x \in Item, failures'[x] >= MaxFailures
      PROVE  failures'[x] + Cardinality(Holders(x)') < MaxFailures + Cardinality(Worker)
  <2>0. /\ failures[x] \in Nat /\ MaxFailures \in Nat \ {0}
        /\ Cardinality(Worker) \in Nat /\ Cardinality(Holders(x)) \in Nat
        /\ Cardinality(Holders(x)) <= Cardinality(Worker)
    BY HoldersCount DEF Budget, TypeOK, TaskAssumption
  <2>1. /\ Cardinality(Holders(u)') = Cardinality(Holders(u)) - 1
        /\ \A v \in Item : v # u => Holders(v)' = Holders(v)
    BY <1>1, HolderLeaves DEF Budget
  <2>2. CASE x # u
    BY <1>1, <1>6, <2>1, <2>2 DEF Budget, RetryOverrun
  <2>3. CASE x = u /\ failures[x] >= MaxFailures
    <3>1. failures[x] + Cardinality(Holders(x)) < MaxFailures + Cardinality(Worker)
        BY <2>3 DEF Budget, RetryOverrun
    <3> QED
        BY <1>1, <1>6, <2>0, <2>1, <2>3, <3>1
  <2>4. CASE x = u /\ ~(failures[x] >= MaxFailures)
    BY <1>1, <1>6, <2>0, <2>1, <2>4
  <2> QED
    BY <2>2, <2>3, <2>4
<1> QED
    BY <1>3, <1>4, <1>5, <1>6 DEF Budget, RetryOverrun

(* A quiet step keeps them: it leaves no more holders than there were.     *)
LEMMA QuietKeeps ==
    ASSUME Budget, TaskAssumption, Quiet
    PROVE  Budget'
<1>1. TypeOK'
    BY DEF Budget, TypeOK, Quiet
<1>2. OnePerDomain' /\ RetryBudget'
    BY DEF Budget, OnePerDomain, RetryBudget, Quiet
<1>3. ASSUME NEW x \in Item, failures'[x] >= MaxFailures
      PROVE  failures'[x] + Cardinality(Holders(x)') < MaxFailures + Cardinality(Worker)
  <2>1. Holders(x)' \subseteq Holders(x)
    BY DEF Holders, Quiet
  <2>2. failures' = failures /\ failures[x] + Cardinality(Holders(x)) < MaxFailures + Cardinality(Worker)
    BY <1>3 DEF Budget, RetryOverrun, Quiet
  <2>3. /\ failures[x] \in Nat /\ MaxFailures \in Nat /\ Cardinality(Worker) \in Nat
        /\ Cardinality(Holders(x)) \in Nat /\ Cardinality(Holders(x)') \in Nat
        /\ Cardinality(Holders(x)') <= Cardinality(Holders(x))
    BY <2>1, HoldersCount, HoldersShrink DEF Budget, TypeOK, TaskAssumption
  <2> QED
    BY <2>2, <2>3
<1> QED
    BY <1>1, <1>2, <1>3 DEF Budget, RetryOverrun

(* Every step keeps them: an outcome, a quiet step, or a claim, which only *)
(* opens tasks on rows that are within their budget.                       *)
LEMMA NextBudget == TaskAssumption /\ Budget /\ [Next]_taskVars => Budget'
<1> SUFFICES ASSUME TaskAssumption, Budget, [Next]_taskVars PROVE Budget'
    OBVIOUS
<1>1. ASSUME NEW S \in SUBSET Item, Enqueue(S) PROVE Quiet
    BY <1>1 DEF Enqueue, Fresh, Budget, TypeOK, Settled, Quiet
<1>2. ASSUME NEW S \in SUBSET Item, Reap(S) PROVE Quiet
    BY <1>2 DEF Reap, Budget, TypeOK, Settled, Quiet
<1>3. ASSUME NEW w \in Worker, NEW S \in SUBSET Item, Drop(w, S) PROVE Quiet
    BY <1>3 DEF Drop, Budget, TypeOK, Quiet
<1>4. CASE UNCHANGED taskVars
    BY <1>4, QuietKeeps DEF taskVars, Budget, TypeOK, Quiet
<1>5. ASSUME NEW w \in Worker, NEW S \in SUBSET Item, Claim(w, S) PROVE Budget'
  <2>1. /\ failures' = failures
        /\ held' = [held EXCEPT ![w] = S]
        /\ status' \in [Item -> {"absent", "pending", "leased"} \cup Settled]
        /\ \A u \in Item : status'[u] \in Settled <=> status[u] \in Settled
        /\ \A u \in Item : u \notin S => status'[u] = status[u]
        /\ \A u \in S : status[u] = "pending" /\ status'[u] = "leased"
        /\ \A u, v \in S : DomainOf[u] = DomainOf[v] => u = v
    BY <1>5 DEF Claim, Budget, TypeOK, Settled
  <2>2. TypeOK'
    BY <2>1 DEF Budget, TypeOK
  <2>3. OnePerDomain' /\ RetryBudget'
    BY <2>1 DEF Budget, TypeOK, OnePerDomain, RetryBudget
  <2>4. ASSUME NEW x \in Item, failures'[x] >= MaxFailures
        PROVE  failures'[x] + Cardinality(Holders(x)') < MaxFailures + Cardinality(Worker)
    <3>1. failures[x] \in Nat /\ MaxFailures \in Nat
        BY DEF Budget, TypeOK, TaskAssumption
    <3>2. x \notin S
        BY <2>1, <2>4, <3>1 DEF Budget, RetryBudget, Settled
    <3>3. Holders(x)' \subseteq Holders(x)
        BY <2>1, <3>2 DEF Holders, Budget, TypeOK
    <3>4. failures[x] + Cardinality(Holders(x)) < MaxFailures + Cardinality(Worker)
        BY <2>1, <2>4 DEF Budget, RetryOverrun
    <3>5. /\ Cardinality(Worker) \in Nat /\ Cardinality(Holders(x)) \in Nat
          /\ Cardinality(Holders(x)') \in Nat
          /\ Cardinality(Holders(x)') <= Cardinality(Holders(x))
        BY <3>3, HoldersCount, HoldersShrink
    <3> QED
        BY <2>1, <3>1, <3>4, <3>5
  <2> QED
    BY <2>2, <2>3, <2>4 DEF Budget, RetryOverrun
<1> QED
    BY <1>1, <1>2, <1>3, <1>4, <1>5, OutcomeKeeps, QuietKeeps DEF Next

(* All of it holds of every behaviour of the queue: types, one task per    *)
(* domain and worker, retries within the budget, a bounded overrun.        *)
THEOREM QueueKeepsBudget == TaskAssumption /\ Spec => []Budget
<1> SUFFICES ASSUME TaskAssumption PROVE Spec => []Budget
    OBVIOUS
<1>1. Init => Budget
    BY InitBudget
<1>2. Budget /\ [Next]_taskVars => Budget'
    BY NextBudget
<1> QED
    BY <1>1, <1>2, PTL DEF Spec

(* Claims, the reaper and rediscovery leave settled rows alone.            *)
THEOREM QueueLeavesSettled == TaskAssumption /\ Spec => SettledUntilOutcome
<1> SUFFICES ASSUME TaskAssumption PROVE Spec => SettledUntilOutcome
    OBVIOUS
<1> DEFINE Stays ==
      \A u \in Item : status[u] \in Settled /\ status'[u] # status[u] => TaskEnds(u)
<1>1. Budget /\ [Next]_taskVars => [Stays]_taskVars
  <2> SUFFICES ASSUME Budget, Next, NEW x \in Item, status[x] \in Settled,
                      status'[x] # status[x]
               PROVE  TaskEnds(x)
    BY DEF taskVars
  <2> USE DEF Budget, TypeOK, Settled
  <2>1. ASSUME NEW S \in SUBSET Item, Enqueue(S) \/ Reap(S) PROVE FALSE
    BY <2>1 DEF Enqueue, Fresh, Reap
  <2>2. ASSUME NEW w \in Worker, NEW S \in SUBSET Item, Claim(w, S) \/ Drop(w, S)
        PROVE  FALSE
    BY <2>2 DEF Claim, Drop
  <2>3. ASSUME NEW w \in Worker, NEW u \in held[w],
               Finish(w, u) \/ Skip(w, u) \/ Fail(w, u)
        PROVE  TaskEnds(x)
    BY <2>3, OutcomeDoes DEF TaskEnds
  <2> QED
    BY <2>1, <2>2, <2>3 DEF Next
<1>2. Spec => [][Stays]_taskVars
    BY <1>1, QueueKeepsBudget, PTL DEF Spec
<1> QED
    BY <1>2 DEF SettledUntilOutcome
=============================================================================
