-------------------------- MODULE RenderSlotsProofs -------------------------
(***************************************************************************)
(* The render cap for every number of processes, tasks and slots, under    *)
(* lost connections, cancellations and crashes.  PoolCoherent carries the  *)
(* argument: a lock sits on a connection that is in use or leaked, never   *)
(* on one that another task could get from the pool.                       *)
(***************************************************************************)
EXTENDS RenderSlots, FiniteSetTheorems, TLAPS

(* One step keeps the types and the agreement of pools, tasks and locks;   *)
(* each needs the other, as a task gives back the connection it has.       *)
LEMMA TypeStep == TypeOK /\ PoolCoherent /\ [Next]_vars => TypeOK'
  <2> SUFFICES ASSUME TypeOK, PoolCoherent, [Next]_vars PROVE TypeOK'
    OBVIOUS
  <2> USE SlotsAssumption DEF PoolCoherent, HasConn, TypeOK, Session, Key, PoolOf
  <2>1. ASSUME NEW t \in Task, Want(t) PROVE TypeOK'
    BY <2>1 DEF Want
  <2>2. ASSUME NEW t \in Task, AcquireConn(t) PROVE TypeOK'
    BY <2>2 DEF AcquireConn
  <2>3. ASSUME NEW t \in Task, TryHit(t) PROVE TypeOK'
    BY <2>3 DEF TryHit, Granted
  <2>4. ASSUME NEW t \in Task, TryMiss(t) PROVE TypeOK'
    BY <2>4 DEF TryMiss, NextKey, GiveBack, Unlocked
  <2>5. ASSUME NEW t \in Task, TryError(t) PROVE TypeOK'
    BY <2>5 DEF TryError
  <2>6. ASSUME NEW t \in Task, RenderEnds(t) PROVE TypeOK'
    BY <2>6 DEF RenderEnds
  <2>7. ASSUME NEW t \in Task, Unlock(t) PROVE TypeOK'
    BY <2>7 DEF Unlock, GiveBack, Unlocked
  <2>8. ASSUME NEW t \in Task, CancelWaiting(t) PROVE TypeOK'
    BY <2>8 DEF CancelWaiting
  <2>9. ASSUME NEW t \in Task, CancelTrying(t) PROVE TypeOK'
    <3>1. CASE lock' = lock
      BY <2>9, <3>1 DEF CancelTrying
    <3>2. CASE conn[t] # NoSession /\ lock' = [lock EXCEPT ![key[t]] = conn[t]]
      <4>1. conn[t] \in Session /\ key[t] \in Key
        BY <3>2
      <4>2. lock' \in [Key -> Session \cup {NoSession}]
        BY <3>2, <4>1
      <4>3. QED
        BY <2>9, <4>2 DEF CancelTrying
    <3>3. QED
      BY <2>9, <3>1, <3>2 DEF CancelTrying
  <2>10. ASSUME NEW p \in Process, Stop(p) PROVE TypeOK'
    BY <2>10 DEF Stop
  <2>11. ASSUME NEW p \in Process, Close(p) PROVE TypeOK'
    BY <2>11 DEF Close
  <2>12. ASSUME NEW p \in Process, Crash(p) PROVE TypeOK'
    BY <2>12 DEF Crash, Unlocked
  <2>13. ASSUME NEW p \in Process, Start(p) PROVE TypeOK'
    BY <2>13 DEF Start
  <2>14. ASSUME NEW s \in Session, Lose(s) PROVE TypeOK'
    BY <2>14 DEF Lose, Unlocked
  <2>15. ASSUME UNCHANGED vars PROVE TypeOK'
    BY <2>15 DEF vars
  <2>16. QED
    BY <2>1, <2>2, <2>3, <2>4, <2>5, <2>6, <2>7, <2>8, <2>9, <2>10, <2>11,
       <2>12, <2>13, <2>14, <2>15
    DEF Next, Try

LEMMA CoherentStep == TypeOK /\ PoolCoherent /\ [Next]_vars => PoolCoherent'
  <2> SUFFICES ASSUME TypeOK, PoolCoherent, [Next]_vars PROVE PoolCoherent'
    OBVIOUS
  <2> USE SlotsAssumption DEF PoolCoherent, HasConn, TypeOK, Session, Key, PoolOf
  <2>1. ASSUME NEW t \in Task, Want(t) PROVE PoolCoherent'
    BY <2>1 DEF Want
  <2>2. ASSUME NEW t \in Task, AcquireConn(t) PROVE PoolCoherent'
    BY <2>2 DEF AcquireConn
  <2>3. ASSUME NEW t \in Task, TryHit(t) PROVE PoolCoherent'
    BY <2>3 DEF TryHit, Granted
  <2>4. ASSUME NEW t \in Task, TryMiss(t) PROVE PoolCoherent'
    BY <2>4 DEF TryMiss, NextKey, GiveBack, Unlocked
  <2>5. ASSUME NEW t \in Task, TryError(t) PROVE PoolCoherent'
    BY <2>5 DEF TryError
  <2>6. ASSUME NEW t \in Task, RenderEnds(t) PROVE PoolCoherent'
    BY <2>6 DEF RenderEnds
  <2>7. ASSUME NEW t \in Task, Unlock(t) PROVE PoolCoherent'
    BY <2>7 DEF Unlock, GiveBack, Unlocked
  <2>8. ASSUME NEW t \in Task, CancelWaiting(t) PROVE PoolCoherent'
    <3>1. conn[t] = NoSession
      BY <2>8 DEF CancelWaiting
    <3>2. \A u \in Task : u # t => pc'[u] = pc[u]
      BY <2>8 DEF CancelWaiting
    <3>3. pc'[t] = "idle"
      BY <2>8 DEF CancelWaiting
    <3>4. proc' = proc /\ conn' = conn /\ free' = free /\ lock' = lock
      BY <2>8 DEF CancelWaiting
    <3>5. QED
      BY <3>1, <3>2, <3>3, <3>4
  <2>9. ASSUME NEW t \in Task, CancelTrying(t) PROVE PoolCoherent'
    <3>1. CASE lock' = lock
      BY <2>9, <3>1 DEF CancelTrying
    <3>2. CASE conn[t] # NoSession /\ lock' = [lock EXCEPT ![key[t]] = conn[t]]
      BY <2>9, <3>2 DEF CancelTrying
    <3>3. QED
      BY <2>9, <3>1, <3>2 DEF CancelTrying
  <2>10. ASSUME NEW p \in Process, Stop(p) PROVE PoolCoherent'
    BY <2>10 DEF Stop
  <2>11. ASSUME NEW p \in Process, Close(p) PROVE PoolCoherent'
    BY <2>11 DEF Close
  <2>12. ASSUME NEW p \in Process, Crash(p) PROVE PoolCoherent'
    BY <2>12 DEF Crash, Unlocked
  <2>13. ASSUME NEW p \in Process, Start(p) PROVE PoolCoherent'
    BY <2>13 DEF Start
  <2>14. ASSUME NEW s \in Session, Lose(s) PROVE PoolCoherent'
    BY <2>14 DEF Lose, Unlocked
  <2>15. ASSUME UNCHANGED vars PROVE PoolCoherent'
    BY <2>15 DEF vars
  <2>16. QED
    BY <2>1, <2>2, <2>3, <2>4, <2>5, <2>6, <2>7, <2>8, <2>9, <2>10, <2>11,
       <2>12, <2>13, <2>14, <2>15
    DEF Next, Try

(* Every reachable state is well typed; a connection is in one place, and  *)
(* one that is back in its pool holds no slot, whatever is cancelled, lost *)
(* or killed in between.                                                   *)
THEOREM PoolsAgree == Spec => [](TypeOK /\ PoolCoherent)
<1>1. Init => TypeOK /\ PoolCoherent
  BY SlotsAssumption DEF Init, PoolCoherent, HasConn, TypeOK, Session, Key, PoolOf
<1>2. QED
  BY <1>1, TypeStep, CoherentStep, PTL DEF Spec

(* Tasks, pools, locks and processes keep their types, whoever is          *)
(* cancelled, lost or killed.                                              *)
THEOREM TypeCorrect == Spec => []TypeOK
BY PoolsAgree, PTL

(* A page that renders over a connection that stands has its slot to       *)
(* itself.                                                                 *)
THEOREM SlotIsHeld == Spec => []SlotHeld
<1>1. Init => SlotHeld
  BY DEF Init, SlotHeld
<1>2. TypeOK /\ PoolCoherent /\ SlotHeld /\ [Next]_vars => SlotHeld'
  <2> SUFFICES ASSUME TypeOK, PoolCoherent, SlotHeld, [Next]_vars PROVE SlotHeld'
    OBVIOUS
  <2> USE SlotsAssumption DEF SlotHeld, PoolCoherent, HasConn, TypeOK, Session, Key, PoolOf
  <2>1. ASSUME NEW t \in Task, Want(t) PROVE SlotHeld'
    BY <2>1 DEF Want
  <2>2. ASSUME NEW t \in Task, AcquireConn(t) PROVE SlotHeld'
    BY <2>2 DEF AcquireConn
  <2>3. ASSUME NEW t \in Task, TryHit(t) PROVE SlotHeld'
    BY <2>3 DEF TryHit, Granted
  <2>4. ASSUME NEW t \in Task, TryMiss(t) PROVE SlotHeld'
    BY <2>4 DEF TryMiss, NextKey, GiveBack, Unlocked
  <2>5. ASSUME NEW t \in Task, TryError(t) PROVE SlotHeld'
    BY <2>5 DEF TryError
  <2>6. ASSUME NEW t \in Task, RenderEnds(t) PROVE SlotHeld'
    BY <2>6 DEF RenderEnds
  <2>7. ASSUME NEW t \in Task, Unlock(t) PROVE SlotHeld'
    BY <2>7 DEF Unlock, GiveBack, Unlocked
  <2>8. ASSUME NEW t \in Task, CancelWaiting(t) PROVE SlotHeld'
    BY <2>8 DEF CancelWaiting
  <2>9. ASSUME NEW t \in Task, CancelTrying(t) PROVE SlotHeld'
    BY <2>9 DEF CancelTrying, Granted
  <2>10. ASSUME NEW p \in Process, Stop(p) PROVE SlotHeld'
    BY <2>10 DEF Stop
  <2>11. ASSUME NEW p \in Process, Close(p) PROVE SlotHeld'
    BY <2>11 DEF Close
  <2>12. ASSUME NEW p \in Process, Crash(p) PROVE SlotHeld'
    BY <2>12 DEF Crash, Unlocked
  <2>13. ASSUME NEW p \in Process, Start(p) PROVE SlotHeld'
    BY <2>13 DEF Start
  <2>14. ASSUME NEW s \in Session, Lose(s) PROVE SlotHeld'
    BY <2>14 DEF Lose, Unlocked
  <2>15. ASSUME UNCHANGED vars PROVE SlotHeld'
    BY <2>15 DEF vars
  <2>16. QED
    BY <2>1, <2>2, <2>3, <2>4, <2>5, <2>6, <2>7, <2>8, <2>9, <2>10, <2>11,
       <2>12, <2>13, <2>14, <2>15
    DEF Next, Try
<1>3. QED
  BY <1>1, <1>2, PoolsAgree, PTL DEF Spec

(* With the pools coherent, a locked connection is leaked when no task has *)
(* it: it cannot be in a pool.                                             *)
Stranded(k) == lock[k] # NoSession /\ \A t \in Task : conn[t] # lock[k]

LEMMA StrandedIsLeaked ==
  ASSUME TypeOK, PoolCoherent, NEW k \in Key
  PROVE  lock[k] \in Leaked <=> Stranded(k)
BY SlotsAssumption DEF TypeOK, PoolCoherent, Leaked, Stranded, Session

LEMMA StrandedIsLeakedNext ==
  ASSUME TypeOK', PoolCoherent', NEW k \in Key
  PROVE  lock'[k] \in Leaked' <=> Stranded(k)'
BY SlotsAssumption DEF TypeOK, PoolCoherent, Leaked, Stranded, Session

(* No slot is ever locked by a connection that a running process has lost  *)
(* track of.                                                               *)
THEOREM SlotsStayWithTasks == Spec => []SlotsLostInShutdownOnly
<1>1. Init => SlotsLostInShutdownOnly
  BY SlotsAssumption DEF Init, SlotsLostInShutdownOnly, Leaked, TypeOK, Session, Key, PoolOf
<1>2. TypeOK /\ PoolCoherent /\ SlotsLostInShutdownOnly /\ [Next]_vars
        => SlotsLostInShutdownOnly'
  <2> SUFFICES ASSUME TypeOK, PoolCoherent, SlotsLostInShutdownOnly, [Next]_vars,
                      NEW x \in Key, Stranded(x)'
               PROVE  proc'[lock'[x][1]] = "stopping"
    BY TypeStep, CoherentStep, StrandedIsLeakedNext DEF SlotsLostInShutdownOnly
  <2>0. Stranded(x) => proc[lock[x][1]] = "stopping"
    BY StrandedIsLeaked DEF SlotsLostInShutdownOnly
  <2> DEFINE Shut == proc'[lock'[x][1]] = "stopping"
  <2> USE <2>0, SlotsAssumption DEF Stranded, PoolCoherent, HasConn, TypeOK, Session, Key, PoolOf
  <2>1. ASSUME NEW t \in Task, Want(t) PROVE Shut
    BY <2>1 DEF Want
  <2>2. ASSUME NEW t \in Task, AcquireConn(t) PROVE Shut
    <3>1. PICK s \in free \cap PoolOf(ProcessOf[t]) : conn' = [conn EXCEPT ![t] = s]
      BY <2>2 DEF AcquireConn
    <3>2. conn[t] = NoSession
      BY <2>2 DEF AcquireConn
    <3>3. lock' = lock /\ proc' = proc
      BY <2>2 DEF AcquireConn
    <3>4. Stranded(x)
      BY <3>1, <3>2, <3>3
    <3>5. QED
      BY <3>3, <3>4
  <2>3. ASSUME NEW t \in Task, TryHit(t) PROVE Shut
    BY <2>3 DEF TryHit, Granted
  <2>4. ASSUME NEW t \in Task, TryMiss(t) PROVE Shut
    BY <2>4 DEF TryMiss, NextKey, GiveBack, Unlocked
  <2>5. ASSUME NEW t \in Task, TryError(t) PROVE Shut
    BY <2>5 DEF TryError
  <2>6. ASSUME NEW t \in Task, RenderEnds(t) PROVE Shut
    BY <2>6 DEF RenderEnds
  <2>7. ASSUME NEW t \in Task, Unlock(t) PROVE Shut
    BY <2>7 DEF Unlock, GiveBack, Unlocked
  <2>8. ASSUME NEW t \in Task, CancelWaiting(t) PROVE Shut
    BY <2>8 DEF CancelWaiting
  <2>9. ASSUME NEW t \in Task, CancelTrying(t) PROVE Shut
    <3>1. conn[t] # NoSession => conn[t] \in Session /\ conn[t][1] = ProcessOf[t]
      OBVIOUS
    <3>2. proc' = proc /\ proc[ProcessOf[t]] = "stopping"
      BY <2>9 DEF CancelTrying
    <3>3. CASE lock'[x] = conn[t]
      BY <3>1, <3>2, <3>3
    <3>4. CASE lock'[x] # conn[t]
      <4>1. lock'[x] = lock[x]
        BY <2>9, <3>4 DEF CancelTrying
      <4>2. Stranded(x)
        BY <2>9, <3>4, <4>1 DEF CancelTrying
      <4>3. QED
        BY <3>2, <4>1, <4>2
    <3>5. QED
      BY <3>3, <3>4
  <2>10. ASSUME NEW p \in Process, Stop(p) PROVE Shut
    BY <2>10 DEF Stop
  <2>11. ASSUME NEW p \in Process, Close(p) PROVE Shut
    BY <2>11 DEF Close
  <2>12. ASSUME NEW p \in Process, Crash(p) PROVE Shut
    BY <2>12 DEF Crash, Unlocked
  <2>13. ASSUME NEW p \in Process, Start(p) PROVE Shut
    BY <2>13 DEF Start
  <2>14. ASSUME NEW s \in Session, Lose(s) PROVE Shut
    BY <2>14 DEF Lose, Unlocked
  <2>15. ASSUME UNCHANGED vars PROVE Shut
    BY <2>15 DEF vars
  <2>16. QED
    BY <2>1, <2>2, <2>3, <2>4, <2>5, <2>6, <2>7, <2>8, <2>9, <2>10, <2>11,
       <2>12, <2>13, <2>14, <2>15
    DEF Next, Try
<1>3. QED
  BY <1>1, <1>2, PoolsAgree, PTL DEF Spec

(* A session has one lock at most: a task tries one key at a time, and its *)
(* connection starts every try without a lock.                             *)
OneKeyEach == \A j, k \in Key : lock[j] = lock[k] /\ lock[j] # NoSession => j = k

LEMMA OneKeyAlways == Spec => []OneKeyEach
<1>1. Init => OneKeyEach
  BY DEF Init, OneKeyEach
<1>2. TypeOK /\ PoolCoherent /\ OneKeyEach /\ [Next]_vars => OneKeyEach'
  <2> SUFFICES ASSUME TypeOK, PoolCoherent, OneKeyEach, [Next]_vars PROVE OneKeyEach'
    OBVIOUS
  <2> USE SlotsAssumption DEF OneKeyEach, PoolCoherent, HasConn, TypeOK, Session, Key, PoolOf
  <2>1. ASSUME NEW t \in Task, Want(t) PROVE OneKeyEach'
    BY <2>1 DEF Want
  <2>2. ASSUME NEW t \in Task, AcquireConn(t) PROVE OneKeyEach'
    BY <2>2 DEF AcquireConn
  <2>3. ASSUME NEW t \in Task, TryHit(t) PROVE OneKeyEach'
    BY <2>3 DEF TryHit, Granted
  <2>4. ASSUME NEW t \in Task, TryMiss(t) PROVE OneKeyEach'
    BY <2>4 DEF TryMiss, GiveBack, Unlocked
  <2>5. ASSUME NEW t \in Task, TryError(t) PROVE OneKeyEach'
    BY <2>5 DEF TryError
  <2>6. ASSUME NEW t \in Task, RenderEnds(t) PROVE OneKeyEach'
    BY <2>6 DEF RenderEnds
  <2>7. ASSUME NEW t \in Task, Unlock(t) PROVE OneKeyEach'
    BY <2>7 DEF Unlock, GiveBack, Unlocked
  <2>8. ASSUME NEW t \in Task, CancelWaiting(t) PROVE OneKeyEach'
    BY <2>8 DEF CancelWaiting
  <2>9. ASSUME NEW t \in Task, CancelTrying(t) PROVE OneKeyEach'
    BY <2>9 DEF CancelTrying
  <2>10. ASSUME NEW p \in Process, Stop(p) \/ Close(p) \/ Start(p) PROVE OneKeyEach'
    BY <2>10 DEF Stop, Close, Start
  <2>11. ASSUME NEW p \in Process, Crash(p) PROVE OneKeyEach'
    BY <2>11 DEF Crash, Unlocked
  <2>12. ASSUME NEW s \in Session, Lose(s) PROVE OneKeyEach'
    BY <2>12 DEF Lose, Unlocked
  <2>13. ASSUME UNCHANGED vars PROVE OneKeyEach'
    BY <2>13 DEF vars
  <2>14. QED
    BY <2>1, <2>2, <2>3, <2>4, <2>5, <2>6, <2>7, <2>8, <2>9, <2>10, <2>11, <2>12, <2>13
    DEF Next, Try
<1>3. QED
  BY <1>1, <1>2, PoolsAgree, PTL DEF Spec

(* Every slot of the cap is accounted for: it is free, or a task has it    *)
(* whose finally will free it, or a shutdown left it locked.               *)
SlotsAccounted ==
    \A k \in Key :
        \/ lock[k] = NoSession
        \/ lock[k] \in Leaked /\ proc[lock[k][1]] = "stopping"
        \/ \E t \in Task : conn[t] = lock[k] /\ key[t] = k /\ pc[t] \in {"render", "unlock"}

(* No slot is ever lost to a page that is not being rendered: the state    *)
(* behind SlotReturns.                                                     *)
THEOREM EverySlotAccounted == Spec => []SlotsAccounted
<1>1. TypeOK /\ PoolCoherent /\ SlotHeld /\ OneKeyEach /\ SlotsLostInShutdownOnly
        => SlotsAccounted
  <2> SUFFICES ASSUME TypeOK, PoolCoherent, SlotHeld, OneKeyEach, SlotsLostInShutdownOnly,
                      NEW k \in Key, lock[k] # NoSession, lock[k] \notin Leaked
               PROVE  \E t \in Task : /\ conn[t] = lock[k] /\ key[t] = k
                                      /\ pc[t] \in {"render", "unlock"}
    BY DEF SlotsAccounted, SlotsLostInShutdownOnly
  <2>1. PICK t \in Task : conn[t] = lock[k]
    BY StrandedIsLeaked DEF Stranded
  <2>2. pc[t] \in {"render", "unlock"}
    BY <2>1 DEF PoolCoherent, HasConn
  <2>3. lock[key[t]] = conn[t] /\ key[t] \in Key
    BY <2>1, <2>2 DEF SlotHeld, TypeOK
  <2>4. QED
    BY <2>1, <2>2, <2>3 DEF OneKeyEach
<1>2. QED
  BY <1>1, PoolsAgree, SlotIsHeld, OneKeyAlways, SlotsStayWithTasks, PTL

(* The guards of the steps that FairSpec asks of a task: only acquire()    *)
(* waits, for a connection.                                                *)
CanGoOn(t) ==
    \/ pc[t] \in HasConn
    \/ pc[t] = "acquire" /\ free \cap PoolOf(ProcessOf[t]) # {}

(* Whoever waits for a connection waits for a task that can go on, as long *)
(* as the pool has one connection left: no task keeps a connection while   *)
(* it waits for another one, or for a lock.                                *)
NeverStuck ==
    \A p \in Process :
        Waiting(p) # {} /\ ~(PoolOf(p) \subseteq Leaked) =>
            \E t \in Task : ProcessOf[t] = p /\ CanGoOn(t)

(* The tasks of a process never wait for each other: the state behind      *)
(* SomebodyRenders.                                                        *)
THEOREM NobodyIsStuck == Spec => []NeverStuck
<1>1. TypeOK /\ PoolCoherent => NeverStuck
  <2> SUFFICES ASSUME TypeOK, PoolCoherent, NEW p \in Process,
                      NEW s \in PoolOf(p), s \notin Leaked, Waiting(p) # {}
               PROVE  \E t \in Task : ProcessOf[t] = p /\ CanGoOn(t)
    BY DEF NeverStuck
  <2>1. PICK w \in Task : ProcessOf[w] = p /\ pc[w] \in {"acquire", "try"}
    BY DEF Waiting
  <2>2. CASE s \in free
    BY <2>1, <2>2 DEF CanGoOn, HasConn
  <2>3. CASE s \notin free
    <3>1. PICK t \in Task : conn[t] = s
      BY <2>3 DEF Leaked, PoolOf
    <3>2. pc[t] \in HasConn /\ s \in PoolOf(ProcessOf[t])
      BY <3>1, SlotsAssumption DEF PoolCoherent, PoolOf, Session
    <3>3. ProcessOf[t] = p
      BY <3>2 DEF PoolOf
    <3>4. QED
      BY <3>2, <3>3 DEF CanGoOn
  <2>4. QED
    BY <2>2, <2>3
<1>2. QED
  BY <1>1, PoolsAgree, PTL

(* Pages that render over a connection that stands hold different keys, so *)
(* there are at most Cap of them; the rest have lost their session.        *)
LEMMA HoldersFitTheCap ==
  ASSUME TypeOK, PoolCoherent, SlotHeld
  PROVE  OverCapOnlyByLoss
<1> DEFINE B == {t \in Rendering : conn[t] = NoSession}
           C == Rendering \ B
           f == [t \in C |-> key[t]]
<1>1. IsFiniteSet(B) /\ IsFiniteSet(C) /\ B \cup C = Rendering /\ B \cap C = {}
  BY SlotsAssumption, FS_Subset DEF Rendering
<1>2. f \in [C -> Key]
  BY DEF TypeOK, Rendering
<1>3. ASSUME NEW s \in C, NEW t \in C, f[s] = f[t] PROVE s = t
  <2>1. conn[s] = lock[key[s]] /\ conn[t] = lock[key[t]] /\ key[s] = key[t]
    BY <1>3 DEF SlotHeld, Rendering
  <2>2. conn[s] # NoSession
    BY DEF PoolCoherent, HasConn, Rendering
  <2>3. QED
    BY <2>1, <2>2 DEF PoolCoherent, Rendering
<1>4. IsFiniteSet(Key) /\ Cardinality(Key) = Cap
  BY SlotsAssumption, FS_Interval DEF Key
<1>5. Cardinality(C) <= Cap
  <2>1. f \in Injection(C, Key)
    BY <1>2, <1>3 DEF Injection, IsInjective
  <2>2. QED
    BY <2>1, <1>4, FS_Injection
<1>6. Cardinality(Rendering) = Cardinality(B) + Cardinality(C)
  <2> HIDE DEF B, C
  <2>1. Cardinality(B \cup C) = Cardinality(B) + Cardinality(C) - Cardinality(B \cap C)
    BY <1>1, FS_Union
  <2>2. Cardinality(B \cap C) = 0
    BY <1>1, FS_EmptySet
  <2>3. Cardinality(B) \in Nat /\ Cardinality(C) \in Nat
    BY <1>1, FS_CardinalityType
  <2>4. QED
    BY <1>1, <2>1, <2>2, <2>3
<1>7. QED
  BY <1>1, <1>5, <1>6, SlotsAssumption, FS_CardinalityType DEF OverCapOnlyByLoss

(* The cap is exceeded at most by the pages that have lost their session.  *)
THEOREM CapHoldsButForLoss == Spec => []OverCapOnlyByLoss
BY HoldersFitTheCap, PoolsAgree, SlotIsHeld, PTL

(* One step leaks only the connection of a task thrown out of its try.     *)
LEMMA LeakStep ==
  ASSUME TypeOK, PoolCoherent, [Next]_vars,
         NEW c \in Session, c \in Leaked' \ Leaked
  PROVE  \E u \in Task : conn[u] = c /\ pc[u] = "try" /\ pc'[u] = "idle"
<2> DEFINE Excused == \E u \in Task : conn[u] = c /\ pc[u] = "try" /\ pc'[u] = "idle"
<2> USE SlotsAssumption DEF Leaked, PoolCoherent, HasConn, TypeOK, Session, Key, PoolOf
<2>1. ASSUME NEW t \in Task, Want(t) PROVE Excused
  BY <2>1 DEF Want
<2>2. ASSUME NEW t \in Task, AcquireConn(t) PROVE Excused
  <3>1. PICK s \in free \cap PoolOf(ProcessOf[t]) :
           conn' = [conn EXCEPT ![t] = s] /\ free' = free \ {s}
    BY <2>2 DEF AcquireConn
  <3>2. conn[t] = NoSession
    BY <2>2 DEF AcquireConn
  <3>3. conn'[t] = s
    BY <3>1
  <3>4. c # s
    BY <3>3
  <3>5. c \notin free
    BY <3>1, <3>4
  <3>6. PICK u \in Task : conn[u] = c
    BY <3>5
  <3>7. conn'[u] = c
    BY <3>1, <3>2, <3>6
  <3>8. QED
    BY <3>7
<2>3. ASSUME NEW t \in Task, TryHit(t) PROVE Excused
  BY <2>3 DEF TryHit, Granted
<2>4. ASSUME NEW t \in Task, TryMiss(t) PROVE Excused
  BY <2>4 DEF TryMiss, NextKey, GiveBack
<2>5. ASSUME NEW t \in Task, TryError(t) PROVE Excused
  BY <2>5 DEF TryError
<2>6. ASSUME NEW t \in Task, RenderEnds(t) PROVE Excused
  BY <2>6 DEF RenderEnds
<2>7. ASSUME NEW t \in Task, Unlock(t) PROVE Excused
  BY <2>7 DEF Unlock, GiveBack
<2>8. ASSUME NEW t \in Task, CancelWaiting(t) PROVE Excused
  BY <2>8 DEF CancelWaiting
<2>9. ASSUME NEW t \in Task, CancelTrying(t) PROVE Excused
  BY <2>9 DEF CancelTrying
<2>10. ASSUME NEW p \in Process, Stop(p) PROVE Excused
  BY <2>10 DEF Stop
<2>11. ASSUME NEW p \in Process, Close(p) PROVE Excused
  BY <2>11 DEF Close
<2>12. ASSUME NEW p \in Process, Crash(p) PROVE Excused
  BY <2>12 DEF Crash
<2>13. ASSUME NEW p \in Process, Start(p) PROVE Excused
  BY <2>13 DEF Start
<2>14. ASSUME NEW s \in Session, Lose(s) PROVE Excused
  BY <2>14 DEF Lose
<2>15. ASSUME UNCHANGED vars PROVE Excused
  BY <2>15 DEF vars
<2>16. QED
  BY <2>1, <2>2, <2>3, <2>4, <2>5, <2>6, <2>7, <2>8, <2>9, <2>10, <2>11,
     <2>12, <2>13, <2>14, <2>15
  DEF Next, Try

(* The pool shrinks only by a task that is thrown out of its try.          *)
THEOREM PoolsLeakWhileTrying == Spec => LeaksWhileTryingOnly
<1>1. TypeOK /\ PoolCoherent /\ [Next]_vars
        => [\A s \in Session :
              s \in Leaked' \ Leaked =>
                 \E t \in Task : conn[t] = s /\ pc[t] = "try" /\ pc'[t] = "idle"]_vars
  BY LeakStep
<1>2. QED
  BY <1>1, PoolsAgree, PTL DEF Spec, LeaksWhileTryingOnly
=============================================================================
