-------------------------- MODULE DomainLocksProofs --------------------------
(***************************************************************************)
(* Proofs about DomainLocks, for every set of transactions and hosts.      *)
(* LineInv says that nobody waits in vain: who is in ahead[x] holds the    *)
(* row x waits for, or waits for it too and has a shorter line, and who    *)
(* holds that row is there; it takes no order among those that race.       *)
(* SortedInv says that add() climbs through the hosts.  In a cycle without *)
(* an unsorted transaction, the highest host waited for would be held by   *)
(* one that waits for a higher one still.                                  *)
(***************************************************************************)
EXTENDS DomainLocks, FiniteSetTheorems, WellFoundedInduction, TLAPS

LineInv ==
    /\ \A x \in Tx : waiting[x] = NoHost => ahead[x] = {}
    /\ \A x \in Tx : \A y \in ahead[x] :
          y # x /\ (waiting[x] \in locked[y] \/ waiting[y] = waiting[x])
    /\ \A x, y \in Tx : x # y /\ waiting[x] \in locked[y] => y \in ahead[x]
    /\ \A x \in Tx : \A y \in ahead[x] :
          waiting[y] = waiting[x] => ahead[y] \subseteq ahead[x]

SortedInv ==
    /\ \A x \in Adds : \A g \in locked[x], h \in Left(x) : g < h
    /\ \A x \in Adds : waiting[x] # NoHost => \A h \in Left(x) : waiting[x] <= h

AttemptInv ==
    /\ \A x \in Tx : waiting[x] # NoHost \/ locked[x] # {} => pc[x] = "open"
    /\ \A x \in Tx : pc[x] \in {"new", "open"} => aborts[x] < MaxAttempts

IInv == TypeOK /\ LineInv /\ SortedInv /\ AttemptInv

(* The initial state satisfies the invariant: nobody has a lock or waits.  *)
LEMMA InitIInv == Init => IInv
<1> SUFFICES ASSUME Init PROVE IInv
    OBVIOUS
<1> USE LocksAssumption DEF Init
<1>1. TypeOK
    BY DEF TypeOK, Left
<1>2. LineInv
    BY DEF LineInv
<1>3. SortedInv /\ AttemptInv
    BY DEF SortedInv, AttemptInv
<1> QED
    BY <1>1, <1>2, <1>3 DEF IInv

(* What a statement that asks for a row changes.                           *)
LEMMA LockDoes ==
    ASSUME IInv, NEW x \in Tx, NEW h \in Host, Lock(x, h)
    PROVE  /\ pc[x] \in {"new", "open"} /\ waiting[x] = NoHost /\ ahead[x] = {}
           /\ h \in Left(x) /\ h \in Host /\ h # NoHost /\ h \notin locked[x]
           /\ x \in Adds => \A g \in Left(x) : h <= g
           /\ locked' = locked /\ aborts' = aborts
           /\ pc'[x] = "open" /\ waiting'[x] = h
           /\ ahead'[x] = InLine(h) \/ ahead'[x] = Holders(h)
           /\ exists' = exists
           /\ \A y \in Tx \ {x} : pc'[y] = pc[y] /\ waiting'[y] = waiting[y]
                                  /\ ahead'[y] = ahead[y]
<1>1. h # NoHost
    BY LocksAssumption
<1>2. waiting[x] = NoHost /\ ahead[x] = {}
    BY DEF Lock, IInv, LineInv
<1>3. h \in Left(x) /\ (x \in Adds => \A g \in Left(x) : h <= g)
    BY DEF Lock, IsNext
<1>4. h \notin locked[x]
    BY <1>3 DEF Left
<1> QED
    BY <1>1, <1>2, <1>3, <1>4 DEF Lock, IInv, TypeOK

(* What a granted lock changes.                                            *)
LEMMA GrantedDoes ==
    ASSUME IInv, NEW x \in Tx, Granted(x)
    PROVE  /\ waiting[x] # NoHost /\ waiting[x] \in Left(x) /\ ahead[x] = {}
           /\ pc' = pc /\ aborts' = aborts /\ exists' = exists /\ ahead'[x] = {}
           /\ locked'[x] = locked[x] \cup {waiting[x]} /\ waiting'[x] = NoHost
           /\ \A y \in Tx \ {x} :
                 /\ locked'[y] = locked[y] /\ waiting'[y] = waiting[y]
                 /\ ahead'[y] = ahead[y] \cup (IF waiting[y] = waiting[x] THEN {x} ELSE {})
<1>1. waiting[x] # NoHost /\ waiting[x] \in Left(x)
    BY DEF Granted, IInv, TypeOK
<1> QED
    BY <1>1 DEF Granted, IInv, TypeOK

(* What the end of a transaction changes.                                  *)
LEMMA EndsDoes ==
    ASSUME IInv, NEW x \in Tx, NEW how, Ends(x, how)
    PROVE  /\ pc'[x] = how /\ locked'[x] = {} /\ waiting'[x] = NoHost /\ ahead'[x] = {}
           /\ \A y \in Tx \ {x} : /\ pc'[y] = pc[y] /\ locked'[y] = locked[y]
                                  /\ waiting'[y] = waiting[y]
                                  /\ ahead'[y] = ahead[y] \ {x}
BY DEF Ends, IInv, TypeOK

(* A transaction on a cycle waits for somebody, and so is open.            *)
LEMMA OnCycleWaits ==
    ASSUME IInv, NEW x \in Tx, OnCycle(x)
    PROVE  ahead[x] # {} /\ waiting[x] # NoHost /\ pc[x] = "open" /\ aborts[x] < MaxAttempts
<1>1. ahead[x] # {}
    BY DEF OnCycle, WaitsFor
<1>2. waiting[x] # NoHost
    BY <1>1 DEF IInv, LineInv
<1>3. pc[x] = "open" /\ aborts[x] < MaxAttempts
    BY <1>2 DEF IInv, AttemptInv
<1> QED
    BY <1>1, <1>2, <1>3

(* One that races to insert a host waits for its row, and so is open.      *)
LEMMA RaceWaits ==
    ASSUME IInv, NEW x \in Tx, Races(x)
    PROVE  pc[x] = "open" /\ aborts[x] < MaxAttempts
<1>1. waiting[x] # NoHost
    BY LocksAssumption DEF Races
<1> QED
    BY <1>1 DEF IInv, AttemptInv

(* Asking for a row keeps the invariant: it goes to the end of the line.   *)
LEMMA LockKeeps ==
    ASSUME IInv, NEW x \in Tx, NEW h \in Host, Lock(x, h)
    PROVE  IInv'
<1> USE LocksAssumption
<1>1. /\ pc[x] \in {"new", "open"} /\ waiting[x] = NoHost /\ ahead[x] = {}
      /\ h \in Left(x) /\ h \in Host /\ h # NoHost /\ h \notin locked[x]
      /\ x \in Adds => \A g \in Left(x) : h <= g
      /\ locked' = locked /\ aborts' = aborts
      /\ pc'[x] = "open" /\ waiting'[x] = h
      /\ ahead'[x] = InLine(h) \/ ahead'[x] = Holders(h)
      /\ exists' = exists
      /\ \A y \in Tx \ {x} : pc'[y] = pc[y] /\ waiting'[y] = waiting[y]
                             /\ ahead'[y] = ahead[y]
    BY LockDoes
<1>2. TypeOK'
  <2>1. /\ pc' \in [Tx -> {"new", "open"} \cup Ended]
        /\ waiting' \in [Tx -> Host \cup {NoHost}]
        /\ ahead' \in [Tx -> SUBSET Tx]
    BY DEF Lock, IInv, TypeOK, InLine, Holders
  <2>2. \A y \in Tx : locked'[y] \subseteq HostsOf[y]
                      /\ waiting'[y] \in Left(y)' \cup {NoHost}
    BY <1>1 DEF IInv, TypeOK, Left
  <2> QED
    BY <1>1, <2>1, <2>2 DEF IInv, TypeOK
<1>3. ASSUME NEW y \in Tx, x \in ahead[y] PROVE y # x /\ waiting[y] \in locked[x] /\ waiting[y] # h
    BY <1>1, <1>3 DEF IInv, LineInv
<1>4. ASSUME NEW y \in ahead'[x] PROVE y \in Tx /\ y # x /\ (h \in locked[y] \/ waiting[y] = h)
    BY <1>1, <1>4 DEF InLine, Holders
<1>5. LineInv'
  <2>1. \A y \in Tx : waiting'[y] = NoHost => ahead'[y] = {}
    BY <1>1 DEF IInv, LineInv
  <2>2. ASSUME NEW y \in Tx, NEW z \in ahead'[y]
        PROVE  z # y /\ (waiting'[y] \in locked'[z] \/ waiting'[z] = waiting'[y])
    <3>1. CASE y = x
        BY <1>1, <1>4, <2>2, <3>1
    <3>2. CASE y # x /\ z = x
        BY <1>1, <1>3, <2>2, <3>2
    <3>3. CASE y # x /\ z # x
        BY <1>1, <2>2, <3>3 DEF IInv, LineInv, TypeOK
    <3> QED
        BY <3>1, <3>2, <3>3
  <2>3. ASSUME NEW y \in Tx, NEW z \in Tx, y # z, waiting'[y] \in locked'[z]
        PROVE  z \in ahead'[y]
    <3>1. CASE y = x
        BY <1>1, <2>3, <3>1 DEF InLine, Holders
    <3>2. CASE y # x
        BY <1>1, <2>3, <3>2 DEF IInv, LineInv
    <3> QED
        BY <3>1, <3>2
  <2>4. ASSUME NEW y \in Tx, NEW z \in ahead'[y], waiting'[z] = waiting'[y]
        PROVE  ahead'[z] \subseteq ahead'[y]
    <3>1. CASE y = x
      <4>1. z \in Tx \ {x} /\ waiting[z] = h /\ ahead'[z] = ahead[z]
        BY <1>1, <1>4, <2>4, <3>1
      <4>2. h \notin locked[z]
        BY <4>1 DEF IInv, TypeOK, Left
      <4>3. ahead'[x] = InLine(h)
        BY <1>1, <2>4, <3>1, <4>2 DEF Holders
      <4>4. ahead[z] \subseteq InLine(h)
        BY <4>1 DEF IInv, LineInv, InLine, Holders, TypeOK
      <4> QED
        BY <3>1, <4>1, <4>3, <4>4
    <3>2. CASE y # x /\ z = x
        BY <1>1, <1>3, <2>4, <3>2
    <3>3. CASE y # x /\ z # x
        BY <1>1, <2>4, <3>3 DEF IInv, LineInv, TypeOK
    <3> QED
        BY <3>1, <3>2, <3>3
  <2> QED
    BY <2>1, <2>2, <2>3, <2>4 DEF LineInv
<1>6. SortedInv'
    BY <1>1 DEF IInv, SortedInv, Left
<1>7. AttemptInv'
    BY <1>1 DEF IInv, AttemptInv
<1> QED
    BY <1>2, <1>5, <1>6, <1>7 DEF IInv

(* A grant keeps the invariant: nobody is ahead, so nobody has the row,    *)
(* and who else waits for it is behind.                                    *)
LEMMA GrantedKeeps ==
    ASSUME IInv, NEW x \in Tx, Granted(x)
    PROVE  IInv'
<1> USE LocksAssumption
<1>1. /\ waiting[x] # NoHost /\ waiting[x] \in Left(x) /\ ahead[x] = {}
      /\ pc' = pc /\ aborts' = aborts /\ exists' = exists /\ ahead'[x] = {}
      /\ locked'[x] = locked[x] \cup {waiting[x]} /\ waiting'[x] = NoHost
      /\ \A y \in Tx \ {x} :
            /\ locked'[y] = locked[y] /\ waiting'[y] = waiting[y]
            /\ ahead'[y] = ahead[y] \cup (IF waiting[y] = waiting[x] THEN {x} ELSE {})
    BY GrantedDoes
<1>2. \A y \in Tx \ {x} : waiting[x] \notin locked[y]
    BY <1>1 DEF IInv, LineInv
<1>3. TypeOK'
  <2>1. /\ locked' \in [Tx -> SUBSET Host]
        /\ waiting' \in [Tx -> Host \cup {NoHost}]
        /\ ahead' \in [Tx -> SUBSET Tx]
    BY <1>1 DEF Granted, IInv, TypeOK, Left
  <2>2. \A y \in Tx : locked'[y] \subseteq HostsOf[y]
                      /\ waiting'[y] \in Left(y)' \cup {NoHost}
    BY <1>1 DEF IInv, TypeOK, Left
  <2>3. \A y, z \in Tx : y # z => locked'[y] \cap locked'[z] = {}
    BY <1>1, <1>2 DEF IInv, TypeOK
  <2> QED
    BY <1>1, <2>1, <2>2, <2>3 DEF IInv, TypeOK
<1>4. LineInv'
  <2>1. ASSUME NEW y \in Tx, NEW z \in ahead'[y]
        PROVE  /\ y \in Tx \ {x} /\ z \in Tx /\ z # y
               /\ z \in ahead[y] \/ (z = x /\ waiting[y] = waiting[x])
    BY <1>1, <2>1 DEF IInv, LineInv, TypeOK
  <2>2. \A y \in Tx : waiting'[y] = NoHost => ahead'[y] = {}
    BY <1>1 DEF IInv, LineInv
  <2>3. ASSUME NEW y \in Tx, NEW z \in ahead'[y]
        PROVE  z # y /\ (waiting'[y] \in locked'[z] \/ waiting'[z] = waiting'[y])
    <3>1. CASE z \in ahead[y]
      <4>1. waiting[y] \in locked[z] \/ waiting[z] = waiting[y]
        BY <2>1, <3>1 DEF IInv, LineInv
      <4> QED
        BY <1>1, <2>1, <4>1
    <3>2. CASE z = x /\ waiting[y] = waiting[x]
        BY <1>1, <2>1, <3>2
    <3> QED
        BY <2>1, <3>1, <3>2
  <2>4. ASSUME NEW y \in Tx, NEW z \in Tx, y # z, waiting'[y] \in locked'[z]
        PROVE  z \in ahead'[y]
    <3>0. y # x
        BY <1>1, <2>4, LocksAssumption DEF IInv, TypeOK, Left
    <3>1. CASE z = x
      <4>1. waiting[y] \in locked[x] \/ waiting[y] = waiting[x]
        BY <1>1, <2>4, <3>0, <3>1
      <4> QED
        BY <1>1, <3>0, <3>1, <4>1 DEF IInv, LineInv
    <3>2. CASE z # x
        BY <1>1, <2>4, <3>0, <3>2 DEF IInv, LineInv
    <3> QED
        BY <3>1, <3>2
  <2>5. ASSUME NEW y \in Tx, NEW z \in ahead'[y], waiting'[z] = waiting'[y]
        PROVE  ahead'[z] \subseteq ahead'[y]
    <3>1. waiting[y] # NoHost
      <4>1. CASE z \in ahead[y]
        BY <4>1 DEF IInv, LineInv
      <4>2. CASE waiting[y] = waiting[x]
        BY <1>1, <4>2
      <4> QED
        BY <2>1, <4>1, <4>2
    <3>2. z \in Tx \ {x} /\ y \in Tx \ {x} /\ z \in ahead[y] /\ waiting[z] = waiting[y]
        BY <1>1, <2>1, <2>5, <3>1
    <3>3. ahead[z] \subseteq ahead[y]
        BY <3>2 DEF IInv, LineInv
    <3> QED
        BY <1>1, <3>2, <3>3
  <2> QED
    BY <2>2, <2>3, <2>4, <2>5 DEF LineInv
<1>5. SortedInv'
  <2>1. ASSUME NEW y \in Adds, NEW g \in locked'[y], NEW h \in Left(y)' PROVE g < h
    <3>1. y \in Tx /\ h \in Left(y) /\ h \in Nat
        BY <1>1, <2>1 DEF IInv, TypeOK, Left, Host
    <3>2. CASE g \in locked[y]
        BY <3>1, <3>2 DEF IInv, SortedInv
    <3>3. CASE g \notin locked[y]
      <4>1. y = x /\ g = waiting[x] /\ g # h /\ g \in Nat
        BY <1>1, <2>1, <3>3 DEF IInv, TypeOK, Left, Host
      <4>2. g <= h
        BY <1>1, <3>1, <4>1 DEF IInv, SortedInv
      <4> QED
        BY <3>1, <4>1, <4>2
    <3> QED
        BY <3>2, <3>3
  <2>2. ASSUME NEW y \in Adds, waiting'[y] # NoHost, NEW h \in Left(y)' PROVE waiting'[y] <= h
    BY <1>1, <2>2 DEF IInv, SortedInv, Left
  <2> QED
    BY <2>1, <2>2 DEF SortedInv
<1>6. AttemptInv'
    BY <1>1 DEF IInv, AttemptInv
<1> QED
    BY <1>3, <1>4, <1>5, <1>6 DEF IInv

(* The end of a transaction takes it out of every line.                    *)
LEMMA EndsKeeps ==
    ASSUME IInv, NEW x \in Tx, NEW how, Ends(x, how)
    PROVE  /\ locked' \in [Tx -> SUBSET Host]
           /\ waiting' \in [Tx -> Host \cup {NoHost}]
           /\ ahead' \in [Tx -> SUBSET Tx]
           /\ \A y \in Tx : locked'[y] \subseteq HostsOf[y]
                            /\ waiting'[y] \in Left(y)' \cup {NoHost}
           /\ \A y, z \in Tx : y # z => locked'[y] \cap locked'[z] = {}
           /\ LineInv' /\ SortedInv'
<1> USE LocksAssumption
<1>1. /\ pc'[x] = how /\ locked'[x] = {} /\ waiting'[x] = NoHost /\ ahead'[x] = {}
      /\ \A y \in Tx \ {x} : /\ pc'[y] = pc[y] /\ locked'[y] = locked[y]
                             /\ waiting'[y] = waiting[y]
                             /\ ahead'[y] = ahead[y] \ {x}
    BY EndsDoes
<1>2. /\ locked' \in [Tx -> SUBSET Host]
      /\ waiting' \in [Tx -> Host \cup {NoHost}]
      /\ ahead' \in [Tx -> SUBSET Tx]
    BY DEF Ends, IInv, TypeOK
<1>3. \A y \in Tx : locked'[y] \subseteq HostsOf[y]
                    /\ waiting'[y] \in Left(y)' \cup {NoHost}
    BY <1>1 DEF IInv, TypeOK, Left
<1>4. \A y, z \in Tx : y # z => locked'[y] \cap locked'[z] = {}
    BY <1>1 DEF IInv, TypeOK
<1>5. LineInv'
  <2>1. \A y \in Tx : waiting'[y] = NoHost => ahead'[y] = {}
    BY <1>1 DEF IInv, LineInv
  <2>2. ASSUME NEW y \in Tx, NEW z \in ahead'[y]
        PROVE  /\ y # x /\ z \in Tx \ {x} /\ z \in ahead[y] /\ z # y
               /\ waiting'[y] \in locked'[z] \/ waiting'[z] = waiting'[y]
    <3>1. y # x /\ z \in Tx \ {x} /\ z \in ahead[y]
        BY <1>1, <2>2 DEF IInv, TypeOK
    <3> QED
        BY <1>1, <3>1 DEF IInv, LineInv
  <2>3. ASSUME NEW y \in Tx, NEW z \in Tx, y # z, waiting'[y] \in locked'[z]
        PROVE  z \in ahead'[y]
    <3>1. y # x /\ z # x
        BY <1>1, <1>2, <2>3
    <3> QED
        BY <1>1, <2>3, <3>1 DEF IInv, LineInv
  <2>4. ASSUME NEW y \in Tx, NEW z \in ahead'[y], waiting'[z] = waiting'[y]
        PROVE  ahead'[z] \subseteq ahead'[y]
    <3>1. ahead[z] \subseteq ahead[y]
        BY <1>1, <2>2, <2>4 DEF IInv, LineInv
    <3> QED
        BY <1>1, <2>2, <3>1
  <2> QED
    BY <2>1, <2>2, <2>3, <2>4 DEF LineInv
<1>6. SortedInv'
    BY <1>1 DEF IInv, SortedInv, Left
<1> QED
    BY <1>2, <1>3, <1>4, <1>5, <1>6

(* Every step keeps the invariant.                                         *)
LEMMA NextIInv == IInv /\ [Next]_vars => IInv'
<1> SUFFICES ASSUME IInv, [Next]_vars PROVE IInv'
    OBVIOUS
<1> USE LocksAssumption
<1>1. ASSUME NEW x \in Tx, NEW h \in Host, Lock(x, h) PROVE IInv'
    BY <1>1, LockKeeps
<1>2. ASSUME NEW x \in Tx, Granted(x) PROVE IInv'
    BY <1>2, GrantedKeeps
<1>3. ASSUME NEW x \in Tx, NEW how \in {"committed", "failed"}, Ends(x, how), aborts' = aborts,
             exists' \in SUBSET Host
      PROVE IInv'
  <2>1. pc' \in [Tx -> {"new", "open"} \cup Ended]
    BY <1>3 DEF Ends, IInv, TypeOK, Ended
  <2>2. AttemptInv'
    BY <1>3, EndsDoes DEF IInv, AttemptInv
  <2> QED
    BY <1>3, <2>1, <2>2, EndsKeeps DEF IInv, TypeOK
<1>4. ASSUME NEW x \in Tx, Abort(x) \/ AbortRace(x) PROVE IInv'
  <2> DEFINE how == IF Retried(x) THEN "open" ELSE "deadlocked"
  <2>1. Ends(x, how) /\ aborts' = [aborts EXCEPT ![x] = @ + 1] /\ exists' = exists
    BY <1>4 DEF Abort, AbortRace, Aborted
  <2>2. pc[x] = "open" /\ aborts[x] < MaxAttempts
    BY <1>4, OnCycleWaits, RaceWaits DEF Abort, AbortRace
  <2>3. pc' \in [Tx -> {"new", "open"} \cup Ended]
    BY <2>1 DEF Ends, IInv, TypeOK, Ended
  <2>4. aborts' \in [Tx -> 0..MaxAttempts]
    BY <2>1, <2>2 DEF IInv, TypeOK
  <2>5. AttemptInv'
    <3>1. pc'[x] = how /\ waiting'[x] = NoHost /\ locked'[x] = {}
          /\ \A y \in Tx \ {x} : pc'[y] = pc[y] /\ waiting'[y] = waiting[y]
                                 /\ locked'[y] = locked[y]
        BY <2>1, EndsDoes
    <3>2. aborts'[x] = aborts[x] + 1 /\ \A y \in Tx \ {x} : aborts'[y] = aborts[y]
        BY <2>1 DEF IInv, TypeOK
    <3>3. how \in {"new", "open"} => aborts[x] + 1 < MaxAttempts
        BY DEF Retried
    <3> QED
        BY <3>1, <3>2, <3>3 DEF IInv, AttemptInv
  <2> HIDE DEF how
  <2> QED
    BY <2>1, <2>3, <2>4, <2>5, EndsKeeps DEF IInv, TypeOK
<1>5. CASE UNCHANGED vars
    BY <1>5 DEF vars, IInv, TypeOK, LineInv, SortedInv, AttemptInv, Left
<1>6. ASSUME NEW x \in Tx, Commit(x) \/ Fail(x) PROVE IInv'
    BY <1>3, <1>6 DEF Commit, Fail, IInv, TypeOK
<1> QED
    BY <1>1, <1>2, <1>4, <1>5, <1>6 DEF Next, Step

-----------------------------------------------------------------------------
(* A nonempty set of hosts has a highest one.                              *)
LEMMA HighestHost ==
    ASSUME NEW W, W \subseteq Host, W # {}
    PROVE  \E m \in W : \A h \in W : h <= m
<1> USE LocksAssumption
<1> DEFINE Above(h) == {g \in Host : g > h}
           T == {Above(h) : h \in W}
<1>1. IsFiniteSet(Host)
    BY FS_Interval DEF Host
<1>2. T \subseteq FiniteSubsetsOf(Host) /\ T # {}
  <2>1. \A h \in W : Above(h) \in SUBSET Host
    OBVIOUS
  <2>2. T \subseteq SUBSET Host
    BY <2>1
  <2>3. FiniteSubsetsOf(Host) = SUBSET Host
    BY <1>1, FS_FiniteSubsetsOfFinite
  <2>4. T # {}
    <3>1. PICK h : h \in W
        OBVIOUS
    <3>2. Above(h) \in T
        BY <3>1
    <3> QED
        BY <3>2
  <2> HIDE DEF T
  <2> QED
    BY <2>2, <2>3, <2>4
<1>3. PICK a \in T : \A b \in T : ~(<<b, a>> \in StrictSubsetOrdering(Host))
    <2> HIDE DEF T
    <2> QED
        BY <1>2, FS_StrictSubsetOrderingWellFounded, WFMin
<1>4. PICK m \in W : a = Above(m)
    BY <1>3
<1>5. ASSUME NEW h \in W, h > m PROVE FALSE
  <2>1. Above(h) \subseteq Above(m) /\ h \in Above(m) /\ h \notin Above(h)
    BY <1>5 DEF Host
  <2>2. <<Above(h), Above(m)>> \in StrictSubsetOrdering(Host)
    BY <2>1 DEF StrictSubsetOrdering
  <2> QED
    BY <1>3, <1>4, <2>2
<1>6. \A h \in W : h <= m
    BY <1>5 DEF Host
<1> QED
    BY <1>6

(* And a lowest one.                                                       *)
LEMMA LowestHost ==
    ASSUME NEW W, W \subseteq Host, W # {}
    PROVE  \E m \in W : \A h \in W : m <= h
<1> USE LocksAssumption
<1> DEFINE V == {NumHosts + 1 - h : h \in W}
<1>1. V \subseteq Host /\ V # {}
  <2>1. \A h \in W : NumHosts + 1 - h \in Host
    BY DEF Host
  <2>2. PICK h : h \in W
    OBVIOUS
  <2>3. NumHosts + 1 - h \in V
    BY <2>2
  <2> QED
    BY <2>1, <2>3
<1>2. PICK k \in V : \A v \in V : v <= k
    <2> HIDE DEF V
    <2> QED
        BY <1>1, HighestHost
<1>3. PICK m \in W : k = NumHosts + 1 - m
    BY <1>2
<1>4. ASSUME NEW h \in W PROVE m <= h
  <2>1. NumHosts + 1 - h <= NumHosts + 1 - m
    BY <1>2, <1>3
  <2>2. m \in Int /\ h \in Int
    BY DEF Host
  <2> QED
    BY <2>1, <2>2
<1> QED
    BY <1>4

(* Of a nonempty set of transactions, one has no smaller line than any.    *)
LEMMA ShortestLine ==
    ASSUME IInv, NEW M, M \subseteq Tx, M # {}
    PROVE  \E x \in M : \A y \in M : ~(ahead[y] \subseteq ahead[x] /\ ahead[y] # ahead[x])
<1> USE LocksAssumption
<1> DEFINE T == {ahead[x] : x \in M}
<1>1. T \subseteq FiniteSubsetsOf(Tx) /\ T # {}
    BY FS_FiniteSubsetsOfFinite DEF IInv, TypeOK
<1>2. PICK a \in T : \A b \in T : ~(<<b, a>> \in StrictSubsetOrdering(Tx))
    <2> HIDE DEF T
    <2> QED
        BY <1>1, FS_StrictSubsetOrderingWellFounded, WFMin
<1>3. PICK x \in M : a = ahead[x]
    BY <1>2
<1>4. ASSUME NEW y \in M, ahead[y] \subseteq ahead[x], ahead[y] # ahead[x] PROVE FALSE
  <2>1. <<ahead[y], ahead[x]>> \in StrictSubsetOrdering(Tx)
    BY <1>4 DEF StrictSubsetOrdering, IInv, TypeOK
  <2> QED
    BY <1>2, <1>3, <2>1
<1> QED
    BY <1>4

(* A transaction that is not an unsorted one on its way down waits for a   *)
(* host above those it has: an add() climbs, and one with a single host    *)
(* has none yet.                                                           *)
LEMMA SortedClimbs ==
    ASSUME IInv, NEW y \in Tx, ~(y \in Unsorted /\ Descends(y)),
           waiting[y] # NoHost, NEW g \in locked[y]
    PROVE  g < waiting[y]
<1>1. waiting[y] \in Left(y) /\ g \in HostsOf[y]
    BY DEF IInv, TypeOK
<1>2. CASE y \in Adds
    BY <1>1, <1>2 DEF IInv, SortedInv
<1>3. CASE y \in Unsorted
  <2>1. ~(waiting[y] < g)
    BY <1>3 DEF Descends
  <2>2. g # waiting[y] /\ g \in Nat /\ waiting[y] \in Nat
    BY <1>1, LocksAssumption DEF IInv, TypeOK, Left, Host
  <2> QED
    BY <2>1, <2>2
<1>4. CASE y \notin Adds /\ y \notin Unsorted
    BY <1>1, <1>4 DEF Unsorted, Left
<1> QED
    BY <1>2, <1>3, <1>4

(* The invariant excludes a cycle in which everybody climbs: the one       *)
(* waiting for the highest host, with the shortest line among those, would *)
(* have to wait for one that waits for a higher host or in a shorter line. *)
LEMMA NoSortedCycle == IInv => CycleNeedsUnsorted
<1> SUFFICES ASSUME IInv, NEW C \in (SUBSET Tx) \ {{}},
                    \A x \in C : ahead[x] \cap C # {},
                    \A u \in C : ~(u \in Unsorted /\ Descends(u))
             PROVE  FALSE
    BY DEF CycleNeedsUnsorted
<1>1. \A x \in C : waiting[x] # NoHost /\ waiting[x] \in Host
    BY DEF IInv, LineInv, TypeOK
<1> DEFINE W == {waiting[x] : x \in C}
<1>2. PICK m \in W : \A h \in W : h <= m
  <2>1. W \subseteq Host
    BY <1>1
  <2>2. PICK x : x \in C
    OBVIOUS
  <2>3. waiting[x] \in W
    BY <2>2
  <2> HIDE DEF W
  <2> QED
    BY <2>1, <2>3, HighestHost
<1> DEFINE M == {x \in C : waiting[x] = m}
<1>3. M \subseteq Tx /\ M # {}
    BY <1>2
<1>4. PICK x \in M : \A y \in M : ~(ahead[y] \subseteq ahead[x] /\ ahead[y] # ahead[x])
    BY <1>3, ShortestLine
<1>5. PICK y \in C : y \in ahead[x]
    BY <1>4
<1>6. m \in locked[y] \/ waiting[y] = m
    BY <1>4, <1>5 DEF IInv, LineInv
<1>7. CASE m \in locked[y]
  <2>1. m < waiting[y] /\ waiting[y] <= m
    BY <1>1, <1>2, <1>5, <1>7, SortedClimbs
  <2>2. m \in Nat /\ waiting[y] \in Nat
    BY <1>1, <1>2 DEF Host
  <2> QED
    BY <2>1, <2>2
<1>8. CASE waiting[y] = m
  <2>1. y \in M /\ ahead[y] \subseteq ahead[x]
    BY <1>4, <1>5, <1>8 DEF IInv, LineInv
  <2>2. y \notin ahead[y]
    BY <1>5 DEF IInv, LineInv
  <2> QED
    BY <1>4, <1>5, <2>1, <2>2
<1> QED
    BY <1>6, <1>7, <1>8

(* Waiting goes on from one transaction to the next: x waits for those     *)
(* that a transaction ahead of it waits for.                               *)
LEMMA WaitsOnward ==
    ASSUME IInv, NEW x \in Tx, NEW y \in ahead[x]
    PROVE  /\ y \in Tx /\ WaitsFor(x, y)
           /\ \A z : WaitsFor(y, z) => WaitsFor(x, z)
<1>1. y \in Tx
    BY DEF IInv, TypeOK
<1> QED
    BY <1>1 DEF WaitsFor

(* Whom y, for whom x waits, has ahead of it, x waits for as well.         *)
LEMMA WaitsThrough ==
    ASSUME NEW x \in Tx, NEW y \in Tx, WaitsFor(x, y), NEW z \in ahead[y]
    PROVE  WaitsFor(x, z)
BY DEF WaitsFor

(* Whoever waits for x has a transaction ahead that is x or waits for it.  *)
LEMMA WaitsNext ==
    ASSUME IInv, NEW y \in Tx, NEW x \in Tx, WaitsFor(y, x)
    PROVE  x \in ahead[y] \/ \E z \in ahead[y] : WaitsFor(z, x)
<1> SUFFICES ASSUME x \notin ahead[y], \A z \in ahead[y] : ~WaitsFor(z, x) PROVE FALSE
    OBVIOUS
<1> DEFINE D == {w \in Tx : w # x /\ ~WaitsFor(w, x)}
<1>1. ahead[y] \subseteq D
    BY DEF IInv, TypeOK
<1>2. ASSUME NEW w \in D, NEW v \in ahead[w] PROVE v \in D
    BY <1>2, WaitsOnward DEF IInv, TypeOK
<1>3. x \notin D /\ D \in SUBSET Tx
    OBVIOUS
<1> HIDE DEF D
<1> QED
    BY <1>1, <1>2, <1>3 DEF WaitsFor

(* Those on a cycle with x each wait for another of them, so one of them   *)
(* is a command on its way down.                                           *)
LEMMA CycleHasDescent ==
    ASSUME IInv, NEW x \in Tx, OnCycle(x)
    PROVE  \E u \in Unsorted : Descends(u) /\ WaitsFor(x, u) /\ WaitsFor(u, x)
<1> DEFINE C == {y \in Tx : WaitsFor(x, y) /\ WaitsFor(y, x)}
<1>1. x \in C
    BY DEF OnCycle
<1>2. ASSUME NEW y \in C PROVE ahead[y] \cap C # {}
  <2>1. y \in Tx /\ WaitsFor(x, y) /\ WaitsFor(y, x)
    OBVIOUS
  <2>2. CASE x \in ahead[y]
    BY <1>1, <2>2
  <2>3. CASE \E z \in ahead[y] : WaitsFor(z, x)
    <3>1. PICK z \in ahead[y] : WaitsFor(z, x)
        BY <2>3
    <3>2. z \in Tx /\ WaitsFor(x, z)
        BY <2>1, WaitsThrough DEF IInv, TypeOK
    <3> QED
        BY <3>1, <3>2
  <2> QED
    BY <2>1, <2>2, <2>3, WaitsNext
<1>3. C \in (SUBSET Tx) \ {{}}
    BY <1>1
<1>4. \E u \in C \cap Unsorted : Descends(u)
  <2> HIDE DEF C
  <2> QED
    BY <1>2, <1>3, NoSortedCycle DEF CycleNeedsUnsorted
<1> QED
    BY <1>4

(* The invariant always holds.                                             *)
LEMMA IInvAlways == Spec => []IInv
<1>1. Init => IInv
    BY InitIInv
<1>2. IInv /\ [Next]_vars => IInv'
    BY NextIInv
<1> QED
    BY <1>1, <1>2, PTL DEF Spec

(* Some transaction's statement can be granted, its next one be sent, or   *)
(* it can commit or be the victim of a deadlock: the guards of Step.  That *)
(* one that races may be aborted is not counted on.                        *)
CanGoOn(x) ==
    /\ pc[x] = "open"
    /\ \/ waiting[x] = NoHost /\ (Left(x) = {} \/ \E h \in Host : IsNext(x, h))
       \/ waiting[x] # NoHost /\ ahead[x] = {}
       \/ OnCycle(x)

(* An open transaction that waits for nothing can send a statement or end. *)
LEMMA IdleGoesOn ==
    ASSUME IInv, NEW x \in Tx, pc[x] = "open", waiting[x] = NoHost
    PROVE  CanGoOn(x)
<1>1. CASE Left(x) = {}
    BY <1>1 DEF CanGoOn
<1>2. CASE Left(x) # {}
  <2>1. Left(x) \subseteq Host
    BY LocksAssumption DEF Left
  <2>2. PICK h \in Left(x) : \A g \in Left(x) : h <= g
    BY <1>2, <2>1, LowestHost
  <2> QED
    BY <2>1, <2>2 DEF CanGoOn, IsNext
<1> QED
    BY <1>1, <1>2

(* As long as a transaction is open, there is one that can go on: whoever  *)
(* waits does so for an open one, and waiting without a cycle ends with    *)
(* one that does not wait.                                                 *)
LEMMA NoStandstill ==
    IInv => ((\E x \in Tx : pc[x] = "open") => \E x \in Tx : CanGoOn(x))
<1> SUFFICES ASSUME IInv, NEW o \in Tx, pc[o] = "open", \A x \in Tx : ~CanGoOn(x)
             PROVE  FALSE
    OBVIOUS
<1> DEFINE M == {x \in Tx : pc[x] = "open"}
           Behind(x) == {y \in Tx : WaitsFor(x, y)}
           T == {Behind(x) : x \in M}
<1>1. ASSUME NEW x \in M
      PROVE  waiting[x] # NoHost /\ ahead[x] # {} /\ ~OnCycle(x)
    BY IdleGoesOn DEF CanGoOn
<1>2. ASSUME NEW x \in M, NEW y \in ahead[x] PROVE y \in M
  <2>1. y \in Tx /\ (waiting[x] \in locked[y] \/ waiting[y] = waiting[x])
    BY DEF IInv, TypeOK, LineInv
  <2>2. waiting[y] # NoHost \/ locked[y] # {}
    BY <1>1, <2>1
  <2> QED
    BY <2>1, <2>2 DEF IInv, AttemptInv
<1>3. T \subseteq FiniteSubsetsOf(Tx) /\ T # {}
  <2>1. T \subseteq SUBSET Tx
    OBVIOUS
  <2>2. Behind(o) \in T
    OBVIOUS
  <2> HIDE DEF T
  <2> QED
    BY <2>1, <2>2, LocksAssumption, FS_FiniteSubsetsOfFinite
<1>4. PICK a \in T : \A b \in T : ~(<<b, a>> \in StrictSubsetOrdering(Tx))
    <2> HIDE DEF T
    <2> QED
        BY <1>3, LocksAssumption, FS_StrictSubsetOrderingWellFounded, WFMin
<1>5. PICK x \in M : a = Behind(x)
    BY <1>4
<1>6. PICK y \in ahead[x] : y \in M
    BY <1>1, <1>2
<1>7. Behind(y) \subseteq Behind(x) /\ y \in Behind(x) /\ y \notin Behind(y)
  <2>1. /\ y \in Tx /\ WaitsFor(x, y)
        /\ \A z : WaitsFor(y, z) => WaitsFor(x, z)
    BY <1>6, WaitsOnward
  <2>2. ~WaitsFor(y, y)
    BY <1>1, <1>6 DEF OnCycle
  <2> QED
    BY <2>1, <2>2
<1>8. <<Behind(y), Behind(x)>> \in StrictSubsetOrdering(Tx)
    BY <1>7 DEF StrictSubsetOrdering
<1> QED
    BY <1>4, <1>5, <1>6, <1>8

(* Rows are locked by one transaction at a time, by those whose rows they  *)
(* are, and no add() is aborted more than MaxAttempts times.               *)
THEOREM LocksTyped == Spec => []TypeOK
<1>1. IInv => TypeOK
    BY DEF IInv
<1> QED
    BY <1>1, IInvAlways, PTL

(* Transactions that wait for each other have one among them that locks    *)
(* out of order, on its way down, for any number of them and any hosts.    *)
THEOREM CyclesNeedUnsorted == Spec => []CycleNeedsUnsorted
<1>1. IInv => CycleNeedsUnsorted
    BY NoSortedCycle
<1> QED
    BY <1>1, IInvAlways, PTL

(* No transaction is aborted, and no add() needs its retry, but in a race  *)
(* to insert a new host, or in a deadlock with an operator's command on    *)
(* its way down: the hosts add() sorts, new ones among them, never form a  *)
(* cycle of their own.                                                     *)
THEOREM AbortsNeedRaceOrDescent == Spec => AbortNeedsRaceOrDescent
<1> DEFINE Excused == \A x \in Tx : aborts'[x] # aborts[x] =>
                \/ Races(x)
                \/ \E u \in Unsorted : Descends(u) /\ WaitsFor(x, u) /\ WaitsFor(u, x)
<1>1. IInv /\ [Next]_vars => [Excused]_vars
  <2> SUFFICES ASSUME IInv, Next, NEW x \in Tx, aborts'[x] # aborts[x]
               PROVE  \/ Races(x)
                      \/ \E u \in Unsorted : Descends(u) /\ WaitsFor(x, u) /\ WaitsFor(u, x)
    BY DEF vars
  <2>1. PICK y \in Tx : Abort(y) \/ AbortRace(y)
    BY DEF Next, Step, Lock, Granted, Commit, Fail
  <2>2. x = y
    BY <2>1 DEF Abort, AbortRace, Aborted, IInv, TypeOK
  <2> QED
    BY <2>1, <2>2, CycleHasDescent DEF Abort, AbortRace
<1>2. Spec => [][Excused]_vars
    BY <1>1, IInvAlways, PTL DEF Spec
<1> QED
    BY <1>2 DEF AbortNeedsRaceOrDescent

(* The transactions never stand still: as long as one is open, some open   *)
(* one has its next statement to send, a row to get, its commit, or its    *)
(* abort ahead of it.  With a scheduler that lets it, AllEnd rests on this.*)
NeverStill == (\E x \in Tx : pc[x] = "open") => \E x \in Tx : CanGoOn(x)
THEOREM NobodyIsStuck == Spec => []NeverStill
<1>1. IInv => NeverStill
    BY NoStandstill DEF NeverStill
<1> QED
    BY <1>1, IInvAlways, PTL
=============================================================================
