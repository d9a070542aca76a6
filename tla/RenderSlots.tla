---------------------------- MODULE RenderSlots -----------------------------
(***************************************************************************)
(* The render cap shared by every crawl and scrape process: a page may be  *)
(* rendered by who holds one of max_pages Postgres advisory locks, taken   *)
(* over a connection of a pool of max_pages connections that each process  *)
(* keeps for nothing else (PlaywrightRenderer).  Postgres frees a lock     *)
(* when its session ends, and asyncpg puts the place of a connection that  *)
(* it finds closed back in the pool; nobody tells the task that had it.    *)
(* A session is named by its place in the pool of its process.             *)
(***************************************************************************)
EXTENDS Integers, FiniteSets

CONSTANTS Task,       \* the tasks of the workers that may want to render
          Process,
          ProcessOf,  \* the process a task runs in
          MaxPages,   \* --render-pages of a process
          Cap,        \* the largest of them
          NoSession

ASSUME SlotsAssumption ==
    /\ IsFiniteSet(Task)
    /\ ProcessOf \in [Task -> Process]
    /\ Cap \in Nat
    /\ MaxPages \in [Process -> 1..Cap]
    /\ NoSession \notin Process \X (1..Cap)

Key == 1..Cap   \* RENDER_LOCK_BASE_KEY + 0, + 1, ...
Session == {s \in Process \X (1..Cap) : s[2] <= MaxPages[s[1]]}
PoolOf(p) == {s \in Session : s[1] = p}

VARIABLES proc,    \* "running", "stopping" (after the stop signal) or "down"
          pc,      \* where a task is in render()
          key,     \* the lock key it tries or holds
          conn,    \* the connection it has acquired and that still stands
          free,    \* the connections that are in their pool
          lock     \* the advisory locks: the session that has each key

vars == <<proc, pc, key, conn, free, lock>>

Init ==
    /\ proc = [p \in Process |-> "running"]
    /\ pc = [t \in Task |-> "idle"]
    /\ key = [t \in Task |-> 1]
    /\ conn = [t \in Task |-> NoSession]
    /\ free = Session
    /\ lock = [k \in Key |-> NoSession]

(* Connections no task has and the pool never got back.                    *)
Leaked == Session \ (free \cup {conn[t] : t \in Task})
Rendering == {t \in Task : pc[t] = "render"}
SameLocks(S) == lock  \* mutant: locks outlive the session's use of them
Unlocked(S) == [k \in Key |-> IF lock[k] \in S THEN NoSession ELSE lock[k]]

-----------------------------------------------------------------------------
(* render() is called and starts over from the first key.                  *)
Want(t) ==
    /\ proc[ProcessOf[t]] = "running"
    /\ pc[t] = "idle"
    /\ pc' = [pc EXCEPT ![t] = "acquire"]
    /\ key' = [key EXCEPT ![t] = 1]
    /\ UNCHANGED <<proc, conn, free, lock>>

(* await self._lock_pool.acquire(): waits while the pool is empty, and     *)
(* opens a new connection if the one it finds was closed.                  *)
AcquireConn(t) ==
    /\ pc[t] = "acquire"
    /\ \E s \in free \cap PoolOf(ProcessOf[t]) :
          /\ conn' = [conn EXCEPT ![t] = s]
          /\ free' = free \ {s}
    /\ pc' = [pc EXCEPT ![t] = "try"]
    /\ UNCHANGED <<proc, key, lock>>

(* await self._lock_pool.release(conn): the session's locks go with it     *)
(* (asyncpg resets it).  Nothing is left to do for a connection that was   *)
(* lost meanwhile.                                                         *)
\* Mutant: a pool that does not reset what it gets back.
GiveBackLocked(t) ==
    /\ conn' = [conn EXCEPT ![t] = NoSession]
    /\ free' = free \cup ({conn[t]} \ {NoSession})
    /\ UNCHANGED lock

GiveBack(t) ==
    /\ conn' = [conn EXCEPT ![t] = NoSession]
    /\ free' = free \cup ({conn[t]} \ {NoSession})
    /\ lock' = Unlocked({conn[t]} \ {NoSession})

(* pg_try_advisory_lock: granted if nobody else's session has the key.     *)
GrantedShared(t) == TRUE  \* mutant: pg_try_advisory_lock_shared
Granted(t) == lock[key[t]] \in {NoSession, conn[t]}

TryHit(t) ==
    /\ pc[t] = "try"
    /\ conn[t] # NoSession
    /\ Granted(t)
    /\ lock' = [lock EXCEPT ![key[t]] = conn[t]]
    /\ pc' = [pc EXCEPT ![t] = "render"]
    /\ UNCHANGED <<proc, key, conn, free>>

(* Refused: give the connection back and try the next key, or the first    *)
(* again after a sleep.                                                    *)
NextKeyPastEnd(t) == IF key[t] <= MaxPages[ProcessOf[t]] THEN key[t] + 1 ELSE 1
NextKey(t) == IF key[t] < MaxPages[ProcessOf[t]] THEN key[t] + 1 ELSE 1

\* Mutant: the connection of a refused lock is forgotten.
TryMissKeeps(t) ==
    /\ pc[t] = "try"
    /\ conn[t] # NoSession
    /\ ~Granted(t)
    /\ conn' = [conn EXCEPT ![t] = NoSession]
    /\ pc' = [pc EXCEPT ![t] = "acquire"]
    /\ key' = [key EXCEPT ![t] = NextKey(t)]
    /\ UNCHANGED <<proc, free, lock>>

TryMiss(t) ==
    /\ pc[t] = "try"
    /\ conn[t] # NoSession
    /\ ~Granted(t)
    /\ GiveBack(t)
    /\ pc' = [pc EXCEPT ![t] = "acquire"]
    /\ key' = [key EXCEPT ![t] = NextKey(t)]
    /\ UNCHANGED proc

(* The query raises: the connection was lost, or the server answers with   *)
(* an error.  Nothing in _acquire_slot() gives the connection back.        *)
TryError(t) ==
    /\ pc[t] = "try"
    /\ pc' = [pc EXCEPT ![t] = "idle"]
    /\ conn' = [conn EXCEPT ![t] = NoSession]
    /\ UNCHANGED <<proc, key, free, lock>>

(* The page is done, timed out, failed or was cancelled: finally.          *)
\* Mutant: no finally.
RenderEndsNoFinally(t) ==
    /\ pc[t] = "render"
    /\ pc' = [pc EXCEPT ![t] = "idle"]
    /\ conn' = [conn EXCEPT ![t] = NoSession]
    /\ UNCHANGED <<proc, key, free, lock>>

\* Mutant: goto() without a timeout; only the shutdown ends a page.
RenderEndsInShutdown(t) ==
    /\ pc[t] = "render"
    /\ proc[ProcessOf[t]] = "stopping"
    /\ pc' = [pc EXCEPT ![t] = "unlock"]
    /\ UNCHANGED <<proc, key, conn, free, lock>>

RenderEnds(t) ==
    /\ pc[t] = "render"
    /\ pc' = [pc EXCEPT ![t] = "unlock"]
    /\ UNCHANGED <<proc, key, conn, free, lock>>

(* _release_slot(): pg_advisory_unlock, and the connection goes back even  *)
(* if that raises.                                                         *)
Unlock(t) ==
    /\ pc[t] = "unlock"
    /\ GiveBack(t)
    /\ pc' = [pc EXCEPT ![t] = "idle"]
    /\ UNCHANGED <<proc, key>>

-----------------------------------------------------------------------------
(* The stop signal, and the cancellation of each task.  While it awaits    *)
(* pg_try_advisory_lock the task loses its connection, and the lock too if *)
(* the server had granted it; elsewhere a cancelled task cleans up.        *)
Stop(p) ==
    /\ proc[p] = "running"
    /\ proc' = [proc EXCEPT ![p] = "stopping"]
    /\ UNCHANGED <<pc, key, conn, free, lock>>

CancelWaiting(t) ==
    /\ proc[ProcessOf[t]] = "stopping"
    /\ pc[t] = "acquire"
    /\ pc' = [pc EXCEPT ![t] = "idle"]
    /\ UNCHANGED <<proc, key, conn, free, lock>>

CancelTrying(t) ==
    /\ proc[ProcessOf[t]] = "stopping"
    /\ pc[t] = "try"
    /\ pc' = [pc EXCEPT ![t] = "idle"]
    /\ conn' = [conn EXCEPT ![t] = NoSession]
    /\ \/ UNCHANGED lock
       \/ /\ conn[t] # NoSession
          /\ Granted(t)
          /\ lock' = [lock EXCEPT ![key[t]] = conn[t]]
    /\ UNCHANGED <<proc, key, free>>

(* aclose() waits until every connection is back in the pool.              *)
Close(p) ==
    /\ proc[p] = "stopping"
    /\ \A t \in Task : ProcessOf[t] = p => pc[t] = "idle"
    /\ PoolOf(p) \subseteq free
    /\ proc' = [proc EXCEPT ![p] = "down"]
    /\ UNCHANGED <<pc, key, conn, free, lock>>

(* The process dies: Postgres ends its sessions.                           *)
Crash(p) ==
    /\ proc[p] # "down"
    /\ proc' = [proc EXCEPT ![p] = "down"]
    /\ pc' = [t \in Task |-> IF ProcessOf[t] = p THEN "idle" ELSE pc[t]]
    /\ conn' = [t \in Task |-> IF ProcessOf[t] = p THEN NoSession ELSE conn[t]]
    /\ free' = free \cup PoolOf(p)
    /\ lock' = Unlocked(PoolOf(p))
    /\ UNCHANGED key

Start(p) ==
    /\ proc[p] = "down"
    /\ proc' = [proc EXCEPT ![p] = "running"]
    /\ UNCHANGED <<pc, key, conn, free, lock>>

(* A connection that is in use, or leaked, is lost: a network failure, or  *)
(* a restart of Postgres, which loses all of them one by one.              *)
Lose(s) ==
    /\ s \notin free
    /\ free' = free \cup {s}
    /\ conn' = [t \in Task |-> IF conn[t] = s THEN NoSession ELSE conn[t]]
    /\ lock' = Unlocked({s})
    /\ UNCHANGED <<proc, pc, key>>

Try(t) == TryHit(t) \/ TryMiss(t) \/ TryError(t)

Next ==
    \/ \E t \in Task :
          \/ Want(t) \/ AcquireConn(t) \/ Try(t) \/ RenderEnds(t) \/ Unlock(t)
          \/ CancelWaiting(t) \/ CancelTrying(t)
    \/ \E p \in Process : Stop(p) \/ Close(p) \/ Crash(p) \/ Start(p)
    \/ \E s \in Session : Lose(s)

Spec == Init /\ [][Next]_vars

(* The event loop runs every task that can run, and a page ends: goto() is *)
(* under RENDER_TIMEOUT_MS.  Nothing is assumed of processes that stop or  *)
(* die, of lost connections or of who wins a race for a lock.              *)
FairSpec ==
    /\ Spec
    /\ \A t \in Task : /\ WF_vars(AcquireConn(t))
                       /\ WF_vars(Try(t))
                       /\ WF_vars(RenderEnds(t))
                       /\ WF_vars(Unlock(t))

-----------------------------------------------------------------------------
(* The variables have their types.                                         *)
TypeOK ==
    /\ proc \in [Process -> {"running", "stopping", "down"}]
    /\ pc \in [Task -> {"idle", "acquire", "try", "render", "unlock"}]
    /\ key \in [Task -> Key]
    /\ conn \in [Task -> Session \cup {NoSession}]
    /\ free \in SUBSET Session
    /\ lock \in [Key -> Session \cup {NoSession}]

(* Postgres, the pools and the tasks agree: a connection is with one task, *)
(* in its pool, or leaked; a task has one only while it tries, renders or  *)
(* unlocks; no connection of a pool, or of a task that still tries, has a  *)
(* lock; and a process that is down has left nothing behind.               *)
HasConn == {"try", "render", "unlock"}
PoolCoherent ==
    /\ \A t \in Task : conn[t] # NoSession =>
          /\ pc[t] \in HasConn
          /\ conn[t] \notin free
          /\ conn[t] \in PoolOf(ProcessOf[t])
    /\ \A s, t \in Task : conn[s] = conn[t] /\ conn[s] # NoSession => s = t
    /\ \A k \in Key : lock[k] \notin free
    /\ \A t \in Task : \A k \in Key :
          pc[t] = "try" /\ conn[t] # NoSession => lock[k] # conn[t]
    /\ \A p \in Process : proc[p] = "down" => PoolOf(p) \subseteq free
    /\ \A t \in Task : proc[ProcessOf[t]] = "down" => pc[t] = "idle"

(* Whoever renders over a connection that still stands has the lock of its *)
(* slot, whatever happened to other connections and processes meanwhile;   *)
(* so two such pages never share a slot.                                   *)
SlotHeld ==
    \A t \in Task :
        pc[t] \in {"render", "unlock"} /\ conn[t] # NoSession =>
            lock[key[t]] = conn[t]

(* The cap of render.py, as far as it goes: more than Cap pages render at  *)
(* once only by as many as have lost the session that had their lock.      *)
OverCapOnlyByLoss ==
    Cardinality(Rendering) <=
        Cap + Cardinality({t \in Rendering : conn[t] = NoSession})

(* A slot that nobody renders on is locked only by a process that is       *)
(* shutting down: while a process runs it may lose connections, but never  *)
(* a slot of the cap it shares with the others.                            *)
SlotsLostInShutdownOnly ==
    \A k \in Key : lock[k] \in Leaked => proc[lock[k][1]] = "stopping"

(* The pool of a process shrinks only when a task is thrown out of         *)
(* pg_try_advisory_lock: neither a refused lock nor, once a task has its   *)
(* slot, a failure, timeout or cancellation of the page costs the pool a   *)
(* connection.                                                             *)
LeaksWhileTryingOnly ==
    [][\A s \in Session :
          s \in Leaked' \ Leaked =>
              \E t \in Task : conn[t] = s /\ pc[t] = "try" /\ pc'[t] = "idle"]_vars

(* A slot that is taken comes back, unless a shutdown left it locked.      *)
SlotReturns ==
    \A k \in Key :
        lock[k] # NoSession ~> lock[k] = NoSession \/ lock[k] \in Leaked

(* Tasks that wait do not wait on each other: once connections and queries *)
(* stop failing, while a process has waiting tasks, one connection left to *)
(* try with and one slot that no shutdown has left locked, somebody gets   *)
(* to render.                                                              *)
Fault ==
    \/ \E s \in Session : Lose(s)
    \/ \E t \in Task : conn[t] # NoSession /\ TryError(t)
Waiting(p) == {t \in Task : ProcessOf[t] = p /\ pc[t] \in {"acquire", "try"}}
CutOff(p) ==
    \/ PoolOf(p) \subseteq Leaked
    \/ \A k \in 1..MaxPages[p] : lock[k] \in Leaked
SomebodyRenders ==
    <>[][~Fault]_vars =>
        \A p \in Process :
            Waiting(p) # {} ~> Rendering # {} \/ Waiting(p) = {} \/ CutOff(p)

-----------------------------------------------------------------------------
(* render.py: "A hard cap limits concurrent pages", "a genuinely           *)
(* cross-process limit".                                                   *)
HardCap == Cardinality(Rendering) <= Cap
=============================================================================
