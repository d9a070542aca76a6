------------------------ MODULE ScrapePipelineProofs ------------------------
(***************************************************************************)
(* The safety properties of ScrapePipeline, for every set of targets and   *)
(* workers, every assignment of specs and every history of the pages.      *)
(* Typed is the invariant under all of them; Warned, Single and Backed say *)
(* of the tasks in between what the properties say of their results.       *)
(***************************************************************************)
EXTENDS ScrapePipeline, TLAPS

Task == [at : Stages, ver : Version \cup {None}]

(* add() comes after the transaction that gave the target's page its row.  *)
Rooted ==
    \A w \in Worker, t \in Target : task[w][t].at = "links" => PageOf[t] \in urls

Typed == TypeOK /\ Rooted

(* A task that finds its spec inactive, or will, had its target in hand    *)
(* when the spec was deactivated.                                          *)
Warned ==
    \A w \in Worker, t \in Target :
        \/ task[w][t].at = "inactive"
        \/ task[w][t].at = "spec" /\ ~active[SpecOf[t]]
        => t \in caught

(* A target that was never claimed twice at a time is in one worker's      *)
(* hands at most, and in nobody's once it has a record.                    *)
Single ==
    \A t \in Target \ shared :
        /\ \A v, w \in Worker : t \in held[v] /\ t \in held[w] => v = w
        /\ record[t] # None => status[t] = "done" /\ \A w \in Worker : t \notin held[w]

(* Its blob is what its record was taken from, or is about to be.          *)
Backed ==
    \A t \in Target \ (shared \cup clashed) :
        /\ record[t] # None => raw[t] = record[t]
        /\ \A w \in Worker : task[w][t].at = "commit" => raw[t] = task[w][t].ver

-----------------------------------------------------------------------------
(* What a step does to the task it belongs to, and to the queue.           *)
OnlyTask(w, t) ==
    /\ task' \in [Worker -> [Target -> Task]]
    /\ \A v \in Worker, x \in Target : v # w \/ x # t => task'[v][x] = task[v][x]

(* The step goes on with the task, or settles it.                          *)
Goes(w, t) ==
    /\ OnlyTask(w, t)
    /\ task[w][t].at \in OpenStages <=> task'[w][t].at \in OpenStages
    /\ UNCHANGED queueVars

Leaves(w, t) ==
    /\ OnlyTask(w, t)
    /\ t \in held[w] /\ task'[w][t].at \notin OpenStages
    /\ status' \in [Target -> Status]
    /\ failures' \in [Target -> Nat]
    /\ held' = [held EXCEPT ![w] = @ \ {t}]
    /\ \A x \in Target : x # t => status'[x] = status[x]

LEMMA MovesOne ==
    ASSUME TypeOK, NEW w \in Worker, NEW t \in Target, NEW stage \in Stages,
           NEW ver \in Version \cup {None}, Moves(w, t, stage, ver)
    PROVE  OnlyTask(w, t) /\ task'[w][t].at = stage /\ task'[w][t].ver = ver
BY DEF TypeOK, Moves, OnlyTask, Task

LEMMA EndsOne ==
    ASSUME TypeOK, NEW w \in Worker, NEW t \in Target, Ends(w, t)
    PROVE  OnlyTask(w, t) /\ task'[w][t].at = "none"
<1>1. NoTask \in Task /\ NoTask.at = "none"
    BY DEF NoTask, Task, Stages, None
<1> QED
    BY <1>1 DEF TypeOK, Ends, OnlyTask, Task

(* The statements that settle a row.                                       *)
LEMMA ReleaseDoes ==
    ASSUME TypeOK, NEW w \in Worker, NEW t \in Target,
           Queue!Finish(w, t) \/ Queue!Skip(w, t) \/ Queue!Fail(w, t)
    PROVE  /\ t \in held[w]
           /\ status' \in [Target -> Status]
           /\ failures' \in [Target -> Nat]
           /\ held' = [held EXCEPT ![w] = @ \ {t}]
           /\ \A x \in Target : x # t => status'[x] = status[x]
<1>1. ASSUME NEW new \in Status, Queue!Release(w, t, new)
      PROVE  /\ t \in held[w]
             /\ status' \in [Target -> Status]
             /\ held' = [held EXCEPT ![w] = @ \ {t}]
             /\ \A x \in Target : x # t => status'[x] = status[x]
    BY <1>1 DEF TypeOK, Queue!Release
<1>2. CASE Queue!Finish(w, t)
    BY <1>1, <1>2 DEF Queue!Finish, TypeOK, Status
<1>3. CASE Queue!Skip(w, t)
    BY <1>1, <1>3 DEF Queue!Skip, TypeOK, Status
<1>4. CASE Queue!Fail(w, t)
  <2>1. failures[t] + 1 \in Nat /\ failures' = [failures EXCEPT ![t] = failures[t] + 1]
    BY <1>4 DEF Queue!Fail, TypeOK
  <2>2. Queue!Release(w, t, "failed") \/ Queue!Release(w, t, "pending")
    BY <1>4 DEF Queue!Fail
  <2>3. failures' \in [Target -> Nat]
    BY <2>1 DEF TypeOK
  <2> QED
    BY <1>1, <2>2, <2>3 DEF Status
<1> QED
    BY <1>2, <1>3, <1>4

-----------------------------------------------------------------------------
(* What each step of a task does, in the form the invariants need it.      *)
LEMMA ReadSpecDoes ==
    ASSUME TypeOK, NEW w \in Worker, NEW t \in Target, ReadSpec(w, t)
    PROVE  /\ Goes(w, t)
           /\ task[w][t].at = "spec"
           /\ task'[w][t].at \in {"inactive", "skip", "fetch"}
           /\ task'[w][t].at = "inactive" => ~active[SpecOf[t]]
           /\ UNCHANGED <<storeVars, feedVars, pauseVars, page, lost, shared>>
<1>1. /\ task[w][t].at = "spec" /\ task[w][t].ver \in Version \cup {None}
      /\ UNCHANGED <<queueVars, storeVars, feedVars, pauseVars, page, lost, shared>>
    BY DEF TypeOK, ReadSpec, At
<1> DEFINE next == IF ~active[SpecOf[t]] THEN "inactive"
                   ELSE IF SpecOf[t] \in Always /\ w \notin Renderer THEN "skip"
                   ELSE "fetch"
<1>2. next \in {"inactive", "skip", "fetch"} /\ (next = "inactive" => ~active[SpecOf[t]])
    OBVIOUS
<1>3. Moves(w, t, next, task[w][t].ver)
    BY DEF ReadSpec
<1> HIDE DEF next
<1>4. OnlyTask(w, t) /\ task'[w][t].at = next
    BY <1>1, <1>2, <1>3, MovesOne DEF Stages, OpenStages
<1> QED
    BY <1>1, <1>2, <1>4 DEF Goes, OpenStages

LEMMA FetchDoes ==
    ASSUME TypeOK, NEW w \in Worker, NEW t \in Target, Fetch(w, t)
    PROVE  /\ Goes(w, t)
           /\ \/ task'[w][t].at = "store" /\ task'[w][t].ver # None
              \/ task'[w][t].at \in {"unchanged", "skip", "failed"}
           /\ UNCHANGED <<storeVars, feedVars, pauseVars, page, lost, shared>>
<1>1. /\ task[w][t].at = "fetch"
      /\ UNCHANGED <<queueVars, storeVars, feedVars, pauseVars, page, lost, shared>>
      /\ page[t] \in Version /\ page[t] # None /\ None \in Version \cup {None}
    BY ScrapeAssumption DEF TypeOK, Fetch, At, Version, None
<1>2. \/ Moves(w, t, "store", page[t]) \/ Moves(w, t, "unchanged", None)
      \/ Moves(w, t, "skip", None) \/ Moves(w, t, "failed", None)
    BY DEF Fetch
<1>3. /\ OnlyTask(w, t)
      /\ \/ task'[w][t].at = "store" /\ task'[w][t].ver # None
         \/ task'[w][t].at \in {"unchanged", "skip", "failed"}
    BY <1>1, <1>2, MovesOne DEF Stages, OpenStages
<1> QED
    BY <1>1, <1>3 DEF Goes, OpenStages

LEMMA SettleDoes ==
    ASSUME TypeOK, NEW w \in Worker, NEW t \in Target, Settle(w, t)
    PROVE  /\ Leaves(w, t)
           /\ task'[w][t].at = "none"
           /\ lost' = lost \/ (lost' = lost \cup {t} /\ task[w][t].at = "inactive")
           /\ UNCHANGED <<storeVars, feedVars, pauseVars, page, shared>>
<1>1. OnlyTask(w, t) /\ task'[w][t].at = "none"
    BY EndsOne DEF Settle
<1>2. /\ Queue!Finish(w, t) \/ Queue!Skip(w, t) \/ Queue!Fail(w, t)
      /\ lost' = lost \/ (lost' = lost \cup {t} /\ task[w][t].at = "inactive")
      /\ UNCHANGED <<storeVars, feedVars, pauseVars, page, shared>>
    BY DEF Settle, At
<1> QED
    BY <1>1, <1>2, ReleaseDoes DEF Leaves, OpenStages

LEMMA PutRawDoes ==
    ASSUME TypeOK, NEW w \in Worker, NEW t \in Target, PutRaw(w, t)
    PROVE  /\ Goes(w, t)
           /\ task[w][t].at = "store"
           /\ task'[w][t].at = "commit"
           /\ task'[w][t].ver = task[w][t].ver /\ task[w][t].ver \in Version
           /\ raw' = [raw EXCEPT ![t] = task[w][t].ver]
           /\ clashed' = clashed \ {t}
           /\ UNCHANGED <<record, feedVars, pauseVars, page, lost, shared>>
<1>1. /\ task[w][t].at = "store"
      /\ task[w][t].ver \in Version \cup {None} /\ task[w][t].ver # None
      /\ raw' = [raw EXCEPT ![t] = task[w][t].ver]
      /\ clashed' = clashed \ {t}
      /\ UNCHANGED <<queueVars, record, feedVars, pauseVars, page, lost, shared>>
    BY DEF TypeOK, PutRaw, At
<1>2. Moves(w, t, "commit", task[w][t].ver)
    BY DEF PutRaw
<1>3. OnlyTask(w, t) /\ task'[w][t].at = "commit" /\ task'[w][t].ver = task[w][t].ver
    BY <1>1, <1>2, MovesOne DEF Stages, OpenStages
<1> QED
    BY <1>1, <1>3 DEF Goes, OpenStages

LEMMA PutFailsDoes ==
    ASSUME TypeOK, NEW w \in Worker, NEW t \in Target, PutFails(w, t)
    PROVE  /\ Goes(w, t)
           /\ task[w][t].at = "store"
           /\ task'[w][t].at = "failed"
           /\ \/ UNCHANGED <<raw, clashed>>
              \/ /\ raw' = [raw EXCEPT ![t] = task[w][t].ver]
                 /\ task[w][t].ver \in Version
                 /\ clashed' = clashed \ {t}
           /\ UNCHANGED <<record, feedVars, pauseVars, page, lost, shared>>
<1>1. /\ task[w][t].at = "store"
      /\ task[w][t].ver \in Version \cup {None} /\ task[w][t].ver # None
      /\ \/ UNCHANGED <<raw, clashed>>
         \/ raw' = [raw EXCEPT ![t] = task[w][t].ver] /\ clashed' = clashed \ {t}
      /\ UNCHANGED <<queueVars, record, feedVars, pauseVars, page, lost, shared>>
    BY DEF TypeOK, PutFails, At
<1>2. Moves(w, t, "failed", None)
    BY DEF PutFails
<1>3. OnlyTask(w, t) /\ task'[w][t].at = "failed"
    BY <1>2, MovesOne DEF Stages, OpenStages
<1> QED
    BY <1>1, <1>3 DEF Goes, OpenStages

LEMMA CompleteDoes ==
    ASSUME TypeOK, NEW w \in Worker, NEW t \in Target, Complete(w, t)
    PROVE  /\ Leaves(w, t)
           /\ task[w][t].at = "commit" /\ status'[t] = "done"
           /\ task[w][t].ver \in Version
           /\ record' = [record EXCEPT ![t] = task[w][t].ver]
           /\ \/ /\ task'[w][t].at = "origin" /\ task'[w][t].ver = task[w][t].ver
              \/ /\ task'[w][t].at = "none"
                 /\ SpecOf[t] \notin FeedTo \/ LinksOf[t][task[w][t].ver] = {}
           /\ UNCHANGED <<raw, clashed, feedVars, pauseVars, page, lost, shared>>
<1>1. /\ task[w][t].at = "commit"
      /\ task[w][t].ver \in Version \cup {None} /\ task[w][t].ver # None
      /\ Queue!Finish(w, t)
      /\ record' = [record EXCEPT ![t] = task[w][t].ver]
      /\ UNCHANGED <<raw, clashed, feedVars, pauseVars, page, lost, shared>>
    BY DEF TypeOK, Complete, At
<1>2. status'[t] = "done"
    BY <1>1 DEF TypeOK, Queue!Finish, Queue!Release
<1>3. CASE Feeds(w, t)
  <2>1. OnlyTask(w, t) /\ task'[w][t].at = "origin" /\ task'[w][t].ver = task[w][t].ver
    BY <1>1, <1>3, MovesOne DEF Complete, Stages
  <2> QED
    BY <1>1, <1>2, <2>1, ReleaseDoes DEF Leaves, OpenStages
<1>4. CASE ~Feeds(w, t)
  <2>1. OnlyTask(w, t) /\ task'[w][t].at = "none"
    BY <1>4, EndsOne DEF Complete
  <2>2. SpecOf[t] \notin FeedTo \/ LinksOf[t][task[w][t].ver] = {}
    BY <1>4 DEF Feeds, Links
  <2> QED
    BY <1>1, <1>2, <2>1, <2>2, ReleaseDoes DEF Leaves, OpenStages
<1> QED
    BY <1>3, <1>4

LEMMA FeedOriginDoes ==
    ASSUME TypeOK, NEW w \in Worker, NEW t \in Target, FeedOrigin(w, t)
    PROVE  /\ Goes(w, t)
           /\ task[w][t].at = "origin" /\ task'[w][t].at = "links"
           /\ task'[w][t].ver = task[w][t].ver /\ task[w][t].ver # None
           /\ urls' = urls \cup {PageOf[t]}
           /\ UNCHANGED <<storeVars, edges, cut, pauseVars, page, lost, shared>>
<1>1. /\ task[w][t].at = "origin"
      /\ task[w][t].ver \in Version \cup {None} /\ task[w][t].ver # None
      /\ urls' = urls \cup {PageOf[t]}
      /\ UNCHANGED <<queueVars, storeVars, edges, cut, pauseVars, page, lost, shared>>
    BY DEF TypeOK, FeedOrigin, At
<1>2. Moves(w, t, "links", task[w][t].ver)
    BY DEF FeedOrigin
<1>3. OnlyTask(w, t) /\ task'[w][t].at = "links" /\ task'[w][t].ver = task[w][t].ver
    BY <1>1, <1>2, MovesOne DEF Stages
<1> QED
    BY <1>1, <1>3 DEF Goes, OpenStages

LEMMA FeedLinksDoes ==
    ASSUME TypeOK, NEW w \in Worker, NEW t \in Target, FeedLinks(w, t)
    PROVE  /\ Goes(w, t)
           /\ task[w][t].at = "links" /\ task'[w][t].at = "none"
           /\ task[w][t].ver \in Version
           /\ urls' = urls \cup LinksOf[t][task[w][t].ver]
           /\ edges' = edges \cup ({PageOf[t]} \X LinksOf[t][task[w][t].ver])
           /\ UNCHANGED <<storeVars, cut, pauseVars, page, lost, shared>>
<1>1. /\ task[w][t].at = "links"
      /\ task[w][t].ver \in Version \cup {None} /\ task[w][t].ver # None
      /\ urls' = urls \cup LinksOf[t][task[w][t].ver]
      /\ edges' = edges \cup ({PageOf[t]} \X LinksOf[t][task[w][t].ver])
      /\ UNCHANGED <<queueVars, storeVars, cut, pauseVars, page, lost, shared>>
    BY DEF TypeOK, FeedLinks, At, AllEdges, Links
<1>2. OnlyTask(w, t) /\ task'[w][t].at = "none"
    BY EndsOne DEF FeedLinks
<1> QED
    BY <1>1, <1>2 DEF Goes, OpenStages

LEMMA DropDoes ==
    ASSUME TypeOK, NEW w \in Worker, NEW t \in Target, Drop(w, t)
    PROVE  /\ Goes(w, t) \/ (Leaves(w, t) /\ UNCHANGED status)
           /\ task'[w][t].at = "none"
           /\ cut \subseteq cut' /\ cut' \subseteq Target
           /\ task[w][t].at \in {"origin", "links"} => t \in cut'
           /\ UNCHANGED <<storeVars, urls, edges, pauseVars, page, lost, shared>>
<1>1. OnlyTask(w, t) /\ task'[w][t].at = "none"
    BY EndsOne DEF Drop
<1>2. /\ cut \subseteq cut' /\ cut' \subseteq Target
      /\ task[w][t].at \in {"origin", "links"} => t \in cut'
      /\ UNCHANGED <<storeVars, urls, edges, pauseVars, page, lost, shared>>
    BY DEF TypeOK, Drop
<1>3. CASE t \in held[w]
  <2>1. /\ held' = [held EXCEPT ![w] = @ \ {t}]
        /\ UNCHANGED <<status, failures>>
    BY <1>3 DEF Drop, Queue!Drop
  <2> QED
    BY <1>1, <1>2, <1>3, <2>1 DEF TypeOK, Leaves, OpenStages
<1>4. CASE t \notin held[w]
  <2>1. UNCHANGED queueVars
    BY <1>4 DEF Drop
  <2>2. task[w][t].at \notin OpenStages
    BY <1>4 DEF TypeOK
  <2> QED
    BY <1>1, <1>2, <2>1, <2>2 DEF Goes, OpenStages
<1> QED
    BY <1>3, <1>4

(* A claim opens tasks on pending targets of active specs, each with the   *)
(* version that its last record has.                                       *)
ClaimDoesThis(w, S) ==
    /\ task' \in [Worker -> [Target -> Task]]
    /\ \A v \in Worker, x \in Target : v # w \/ x \notin S => task'[v][x] = task[v][x]
    /\ \A x \in S : task'[w][x].at = "spec" /\ active[SpecOf[x]]
                    /\ status[x] = "pending"
    /\ held[w] = {} /\ held' = [held EXCEPT ![w] = S]
    /\ status' \in [Target -> Status] /\ UNCHANGED failures
    /\ \A x \in Target \ S : status'[x] = status[x]
    /\ shared' = shared \cup {t \in S : InFlight(t)}
    /\ UNCHANGED <<storeVars, feedVars, pauseVars, page, lost>>

LEMMA ClaimDoes ==
    ASSUME TypeOK, NEW w \in Worker, NEW S \in SUBSET Target, Claim(w, S)
    PROVE  ClaimDoesThis(w, S)
<1>1. /\ \A x \in Target : task[w][x].at = "none"
      /\ \A x \in S : active[SpecOf[x]] /\ status[x] = "pending"
      /\ held[w] = {} /\ held' = [held EXCEPT ![w] = S]
      /\ status' = [x \in Target |-> IF x \in S THEN "leased" ELSE status[x]]
      /\ UNCHANGED failures
      /\ shared' = shared \cup {t \in S : InFlight(t)}
      /\ UNCHANGED <<storeVars, feedVars, pauseVars, page, lost>>
    BY DEF Claim, Claimable, Queue!Claim, At
<1>2. task' = [task EXCEPT ![w] =
                  [t \in Target |-> IF t \in S THEN [at |-> "spec", ver |-> record[t]]
                                               ELSE task[w][t]]]
    BY DEF Claim
<1>3. \A x \in S : [at |-> "spec", ver |-> record[x]] \in Task
    BY DEF TypeOK, Task, Stages, OpenStages
<1>4. task \in [Worker -> [Target -> Task]]
    BY DEF TypeOK, Task
<1>5. /\ task' \in [Worker -> [Target -> Task]]
      /\ \A v \in Worker, x \in Target : v # w \/ x \notin S => task'[v][x] = task[v][x]
      /\ \A x \in S : task'[w][x].at = "spec"
    BY <1>2, <1>3, <1>4
<1>6. status' \in [Target -> Status] /\ \A x \in Target \ S : status'[x] = status[x]
    BY <1>1 DEF TypeOK, Status
<1> QED
    BY <1>1, <1>5, <1>6 DEF ClaimDoesThis

-----------------------------------------------------------------------------
(* Types.  The queue and the tasks go together: a task is open exactly     *)
(* while the queue counts its target as held.                              *)
QueueTyped ==
    /\ status \in [Target -> Status]
    /\ failures \in [Target -> Nat]
    /\ held \in [Worker -> SUBSET Target]
    /\ task \in [Worker -> [Target -> Task]]
    /\ \A w \in Worker, t \in Target : task[w][t].at \in OpenStages <=> t \in held[w]

StoreTyped ==
    /\ active \in [ScrapeSpec -> BOOLEAN]
    /\ page \in [Target -> Version]
    /\ raw \in [Target -> Version \cup {None, Foreign}]
    /\ record \in [Target -> Version \cup {None}]
    /\ caught \in SUBSET Target
    /\ lost \in SUBSET Target
    /\ shared \in SUBSET Target
    /\ clashed \in SUBSET Clash

FeedTyped ==
    /\ urls \in SUBSET Page
    /\ edges \in SUBSET (urls \X urls)
    /\ cut \in SUBSET Target
    /\ Rooted

Loaded ==
    \A w \in Worker, t \in Target :
        task[w][t].at \in {"store", "commit", "origin", "links"} => task[w][t].ver # None

LEMMA TypedParts == Typed <=> QueueTyped /\ StoreTyped /\ FeedTyped /\ Loaded
BY DEF Typed, TypeOK, QueueTyped, StoreTyped, FeedTyped, Loaded, Task

LEMMA PartsTyped ==
    ASSUME QueueTyped', StoreTyped', FeedTyped', Loaded'
    PROVE  Typed'
BY DEF Typed, TypeOK, QueueTyped, StoreTyped, FeedTyped, Loaded, Task

LEMMA GoesTyped ==
    ASSUME QueueTyped, NEW w \in Worker, NEW t \in Target, Goes(w, t)
    PROVE  QueueTyped'
<1>1. UNCHANGED <<status, failures, held>>
    BY DEF Goes, queueVars
<1> QED
    BY <1>1 DEF QueueTyped, Goes, OnlyTask

LEMMA LeavesTyped ==
    ASSUME QueueTyped, NEW w \in Worker, NEW t \in Target, Leaves(w, t)
    PROVE  QueueTyped'
<1>1. \A v \in Worker, x \in Target : v # w \/ x # t => (x \in held'[v] <=> x \in held[v])
    BY DEF Leaves, QueueTyped
<1>2. t \notin held'[w] /\ held' \in [Worker -> SUBSET Target]
    BY DEF Leaves, QueueTyped
<1> QED
    BY <1>1, <1>2 DEF QueueTyped, Leaves, OnlyTask

LEMMA InitTyped == Init => Typed
<1> SUFFICES ASSUME Init PROVE Typed
    OBVIOUS
<1>1. NoTask \in Task /\ NoTask.at = "none"
    BY DEF NoTask, Task, Stages, None
<1>2. 1 \in Version
    BY ScrapeAssumption DEF Version
<1>3. QueueTyped
    BY <1>1 DEF Init, Queue!Init, QueueTyped, Status, OpenStages
<1>4. StoreTyped
    BY <1>2 DEF Init, StoreTyped
<1>5. FeedTyped /\ Loaded
    BY <1>1 DEF Init, FeedTyped, Rooted, Loaded
<1> QED
    BY <1>3, <1>4, <1>5, TypedParts

(* The steps around the workers touch no task.                             *)
Outside ==
    \/ \E t \in Target : Publish(t) \/ CrawlerPutRaw(t)
    \/ \E s \in ScrapeSpec, yes \in BOOLEAN : SetActive(s, yes)
    \/ \E s \in ScrapeSpec, S \in SUBSET Target : Submit(s, S)
    \/ \E p \in Page : Seed(p) \/ Enroll(p)
    \/ \E S \in SUBSET Target : Reap(S)

LEMMA EnqueueDoes ==
    ASSUME TypeOK, NEW S \in SUBSET Target, Queue!Enqueue(S) \/ Queue!Reap(S)
    PROVE  /\ status' \in [Target -> Status]
           /\ UNCHANGED <<failures, held>>
           /\ \A t \in Target : status'[t] # status[t] => status[t] \in {"absent", "leased"}
BY DEF TypeOK, Queue!Enqueue, Queue!Reap, Queue!Fresh, Status

KeepsTasks ==
    /\ status' \in [Target -> Status]
    /\ UNCHANGED <<failures, held, task, record, lost, shared, edges, cut>>
    /\ urls \subseteq urls' /\ urls' \subseteq Page
    /\ \A t \in Target : status'[t] # status[t] => status[t] \in {"absent", "leased"}

LEMMA OutsideDoes == TypeOK /\ Outside => KeepsTasks
<1> SUFFICES ASSUME TypeOK, Outside PROVE KeepsTasks
    OBVIOUS
<1>1. ASSUME NEW S \in SUBSET Target, Queue!Enqueue(S) \/ Queue!Reap(S),
             UNCHANGED <<storeVars, feedVars, pauseVars, page, task, lost, shared>>
      PROVE  KeepsTasks
    BY <1>1, EnqueueDoes DEF KeepsTasks, storeVars, feedVars, TypeOK
<1>2. ASSUME NEW s \in ScrapeSpec, NEW S \in SUBSET Target, Submit(s, S) PROVE KeepsTasks
    BY <1>1, <1>2 DEF Submit
<1>3. ASSUME NEW p \in Page, Enroll(p) PROVE KeepsTasks
  <2>1. Fed(p) \in SUBSET Target
    BY DEF Fed
  <2> QED
    BY <1>1, <1>3, <2>1 DEF Enroll
<1>4. ASSUME NEW S \in SUBSET Target, Reap(S) PROVE KeepsTasks
    BY <1>1, <1>4 DEF Reap
<1>5. ASSUME NEW t \in Target, Publish(t) \/ CrawlerPutRaw(t) PROVE KeepsTasks
    BY <1>5 DEF Publish, CrawlerPutRaw, KeepsTasks, TypeOK, queueVars, storeVars, feedVars
<1>6. ASSUME NEW s \in ScrapeSpec, NEW yes \in BOOLEAN, SetActive(s, yes) PROVE KeepsTasks
    BY <1>6 DEF SetActive, KeepsTasks, TypeOK, queueVars, storeVars, feedVars
<1>7. ASSUME NEW p \in Page, Seed(p) PROVE KeepsTasks
    BY <1>7 DEF Seed, KeepsTasks, TypeOK, queueVars, storeVars
<1> QED
    BY <1>2, <1>3, <1>4, <1>5, <1>6, <1>7 DEF Outside

LEMMA OutsideTyped == Typed /\ Outside => Typed'
<1> SUFFICES ASSUME Typed, Outside PROVE Typed'
    OBVIOUS
<1>1. KeepsTasks /\ QueueTyped /\ StoreTyped /\ FeedTyped /\ Loaded
    BY OutsideDoes, TypedParts DEF Typed
<1>2. QueueTyped' /\ Loaded'
    BY <1>1 DEF KeepsTasks, QueueTyped, Loaded
<1>3. FeedTyped'
    BY <1>1 DEF KeepsTasks, FeedTyped, Rooted
<1>4. UNCHANGED <<record, lost, shared>>
    BY <1>1 DEF KeepsTasks
<1>5. StoreTyped'
  <2>1. ASSUME NEW t \in Target, Publish(t) PROVE StoreTyped'
    <3>1. page[t] \in Nat /\ 1 <= page[t] /\ page[t] < LastVersion[t]
        BY <1>1, <2>1 DEF StoreTyped, Version, Publish
    <3>2. LastVersion[t] \in 1..MaxVersion
        BY ScrapeAssumption DEF Version
    <3>3. page[t] + 1 \in Version
        BY <3>1, <3>2, ScrapeAssumption DEF Version
    <3>4. page' \in [Target -> Version]
        BY <1>1, <2>1, <3>3 DEF StoreTyped, Publish
    <3> QED
        BY <1>1, <2>1, <3>4 DEF StoreTyped, Publish, storeVars, pauseVars
  <2>2. ASSUME NEW t \in Target, CrawlerPutRaw(t) PROVE StoreTyped'
    BY <1>1, <2>2 DEF StoreTyped, CrawlerPutRaw, pauseVars
  <2>3. ASSUME NEW s \in ScrapeSpec, NEW yes \in BOOLEAN, SetActive(s, yes) PROVE StoreTyped'
    BY <1>1, <2>3 DEF StoreTyped, SetActive, storeVars
  <2>4. ASSUME UNCHANGED <<storeVars, pauseVars, page>> PROVE StoreTyped'
    BY <1>1, <1>4, <2>4 DEF StoreTyped, storeVars, pauseVars
  <2> QED
    BY <2>1, <2>2, <2>3, <2>4 DEF Outside, Submit, Seed, Enroll, Reap
<1> QED
    BY <1>2, <1>3, <1>5, PartsTyped

(* The steps of the workers.                                               *)
LEMMA ClaimTyped ==
    ASSUME Typed, NEW w \in Worker, NEW S \in SUBSET Target, Claim(w, S)
    PROVE  Typed'
<1>1. /\ ClaimDoesThis(w, S)
      /\ QueueTyped /\ StoreTyped /\ FeedTyped /\ Loaded
    BY ClaimDoes, TypedParts DEF Typed
<1>2. /\ held' \in [Worker -> SUBSET Target]
      /\ held'[w] = S
      /\ \A v \in Worker : v # w => held'[v] = held[v]
    BY <1>1 DEF ClaimDoesThis, QueueTyped
<1>3. ASSUME NEW v \in Worker, NEW t \in Target
      PROVE  task'[v][t].at \in OpenStages <=> t \in held'[v]
    BY <1>1, <1>2 DEF ClaimDoesThis, QueueTyped, OpenStages
<1>4. QueueTyped'
    BY <1>1, <1>2, <1>3 DEF ClaimDoesThis, QueueTyped
<1>5. StoreTyped'
    BY <1>1 DEF ClaimDoesThis, StoreTyped, storeVars, pauseVars
<1>6. FeedTyped'
    BY <1>1 DEF ClaimDoesThis, FeedTyped, Rooted, feedVars
<1>7. Loaded'
    BY <1>1 DEF ClaimDoesThis, Loaded
<1> QED
    BY <1>4, <1>5, <1>6, <1>7, PartsTyped

LEMMA HandleTyped ==
    ASSUME Typed, NEW w \in Worker, NEW t \in Target, Handle(w, t)
    PROVE  Typed'
<1>1. TypeOK /\ QueueTyped /\ StoreTyped /\ FeedTyped /\ Loaded
    BY TypedParts DEF Typed
<1>2. Goes(w, t) \/ Leaves(w, t)
    BY <1>1, ReadSpecDoes, FetchDoes, SettleDoes, PutRawDoes, PutFailsDoes, CompleteDoes,
       FeedOriginDoes, FeedLinksDoes, DropDoes DEF Handle
<1>3. QueueTyped' /\ OnlyTask(w, t)
    BY <1>1, <1>2, GoesTyped, LeavesTyped DEF Goes, Leaves
<1>4. task'[w][t].at \in {"store", "commit", "origin", "links"} => task'[w][t].ver # None
    BY <1>1, ReadSpecDoes, FetchDoes, SettleDoes, PutRawDoes, PutFailsDoes, CompleteDoes,
       FeedOriginDoes, FeedLinksDoes, DropDoes DEF Handle, Version, None
<1>5. Loaded'
    BY <1>1, <1>3, <1>4 DEF Loaded, OnlyTask
<1>6. UNCHANGED <<pauseVars, page, shared>>
    BY <1>1, ReadSpecDoes, FetchDoes, SettleDoes, PutRawDoes, PutFailsDoes, CompleteDoes,
       FeedOriginDoes, FeedLinksDoes, DropDoes DEF Handle
<1>7. lost' \in SUBSET Target
    BY <1>1, ReadSpecDoes, FetchDoes, SettleDoes, PutRawDoes, PutFailsDoes, CompleteDoes,
       FeedOriginDoes, FeedLinksDoes, DropDoes DEF Handle, StoreTyped
<1>8. /\ raw' \in [Target -> Version \cup {None, Foreign}]
      /\ record' \in [Target -> Version \cup {None}]
      /\ clashed' \in SUBSET Clash
  <2>1. CASE PutRaw(w, t)
    BY <1>1, <2>1, PutRawDoes DEF StoreTyped
  <2>2. CASE PutFails(w, t)
    BY <1>1, <2>2, PutFailsDoes DEF StoreTyped
  <2>3. CASE Complete(w, t)
    BY <1>1, <2>3, CompleteDoes DEF StoreTyped
  <2>4. CASE UNCHANGED storeVars
    BY <1>1, <2>4 DEF StoreTyped, storeVars
  <2> QED
    BY <1>1, <2>1, <2>2, <2>3, <2>4, ReadSpecDoes, FetchDoes, SettleDoes,
       FeedOriginDoes, FeedLinksDoes, DropDoes DEF Handle
<1>9. StoreTyped'
    BY <1>1, <1>6, <1>7, <1>8 DEF StoreTyped, pauseVars
<1>10. FeedTyped'
  <2>1. PageOf[t] \in Page /\ \A ver \in Version : LinksOf[t][ver] \subseteq Page
    BY ScrapeAssumption
  <2>2. CASE FeedOrigin(w, t)
    BY <1>1, <1>3, <2>1, <2>2, FeedOriginDoes DEF FeedTyped, Rooted, OnlyTask
  <2>3. CASE FeedLinks(w, t)
    BY <1>1, <1>3, <2>1, <2>3, FeedLinksDoes DEF FeedTyped, Rooted, OnlyTask
  <2>4. ASSUME UNCHANGED <<urls, edges>>, cut' \subseteq Target, task'[w][t].at # "links"
        PROVE  FeedTyped'
    BY <1>1, <1>3, <2>4 DEF FeedTyped, Rooted, OnlyTask
  <2>5. CASE Drop(w, t)
    BY <1>1, <2>4, <2>5, DropDoes
  <2>6. CASE Complete(w, t)
    BY <1>1, <2>4, <2>6, CompleteDoes DEF feedVars, FeedTyped
  <2>7. CASE ReadSpec(w, t) \/ Fetch(w, t) \/ Settle(w, t) \/ PutRaw(w, t) \/ PutFails(w, t)
    BY <1>1, <2>4, <2>7, ReadSpecDoes, FetchDoes, SettleDoes, PutRawDoes, PutFailsDoes
    DEF feedVars, FeedTyped
  <2> QED
    BY <2>2, <2>3, <2>5, <2>6, <2>7 DEF Handle
<1> QED
    BY <1>3, <1>5, <1>9, <1>10, PartsTyped

(* Every step is one around the workers, a claim, or a step of a task.     *)
LEMMA StepSplits ==
    Next => \/ Outside
            \/ \E w \in Worker : \E S \in SUBSET Target : Claim(w, S)
            \/ \E w \in Worker, t \in Target : Handle(w, t)
BY DEF Next, Outside

LEMMA TypedAlways == Spec => []Typed
<1>1. Typed /\ [Next]_vars => Typed'
  <2> SUFFICES ASSUME Typed, [Next]_vars PROVE Typed'
    OBVIOUS
  <2>1. CASE UNCHANGED vars
    BY <2>1 DEF vars, queueVars, storeVars, feedVars, pauseVars, Typed, TypeOK, Rooted
  <2> QED
    BY <2>1, OutsideTyped, ClaimTyped, HandleTyped, StepSplits
<1> QED
    BY InitTyped, <1>1, PTL DEF Spec

(* Each variable keeps its type, and the queue counts a target as held     *)
(* exactly while a worker's task on it has not settled it.                 *)
THEOREM ScrapeTypes == Spec => []TypeOK
BY TypedAlways, PTL DEF Typed

-----------------------------------------------------------------------------
(* A spec is deactivated with the names of its open tasks taken down, so   *)
(* that whoever finds it inactive later is among them.                     *)
LEMMA WarnedStep ==
    ASSUME Typed, Warned, lost \subseteq caught, Next
    PROVE  Warned' /\ lost' \subseteq caught'
<1> USE DEF Typed
<1>1. ASSUME UNCHANGED <<task, active, caught, lost>> PROVE Warned' /\ lost' \subseteq caught'
    BY <1>1 DEF Warned
<1>2. ASSUME NEW s \in ScrapeSpec, NEW yes \in BOOLEAN, SetActive(s, yes)
      PROVE  Warned' /\ lost' \subseteq caught'
  <2>1. UNCHANGED <<task, lost>> /\ active' = [active EXCEPT ![s] = yes] /\ caught \subseteq caught'
    BY <1>2 DEF SetActive
  <2>2. \A w \in Worker, t \in Target :
            task[w][t].at = "spec" /\ SpecOf[t] = s /\ ~yes => t \in caught'
    BY <1>2 DEF SetActive, InFlight, TypeOK, OpenStages
  <2>3. \A t \in Target : ~active'[SpecOf[t]] => ~active[SpecOf[t]] \/ (SpecOf[t] = s /\ ~yes)
    BY <2>1, ScrapeAssumption DEF TypeOK
  <2> QED
    BY <2>1, <2>2, <2>3 DEF Warned
<1>3. CASE Outside
  <2>1. UNCHANGED <<task, lost>>
    BY <1>3, OutsideDoes DEF KeepsTasks
  <2>2. \/ UNCHANGED pauseVars
        \/ \E s \in ScrapeSpec, yes \in BOOLEAN : SetActive(s, yes)
    BY <1>3 DEF Outside, Publish, CrawlerPutRaw, Submit, Seed, Enroll, Reap
  <2> QED
    BY <1>1, <1>2, <2>1, <2>2 DEF pauseVars
<1>4. ASSUME NEW w \in Worker, NEW S \in SUBSET Target, Claim(w, S)
      PROVE  Warned' /\ lost' \subseteq caught'
  <2>1. ClaimDoesThis(w, S)
    BY <1>4, ClaimDoes
  <2> QED
    BY <2>1 DEF ClaimDoesThis, Warned, pauseVars
<1>5. ASSUME NEW w \in Worker, NEW t \in Target, Handle(w, t)
      PROVE  Warned' /\ lost' \subseteq caught'
  <2>1. OnlyTask(w, t) /\ UNCHANGED pauseVars
    BY <1>5, ReadSpecDoes, FetchDoes, SettleDoes, PutRawDoes, PutFailsDoes, CompleteDoes,
       FeedOriginDoes, FeedLinksDoes, DropDoes DEF Handle, Goes, Leaves
  <2>2. /\ task'[w][t].at # "spec"
        /\ task'[w][t].at = "inactive" => task[w][t].at = "spec" /\ ~active[SpecOf[t]]
    BY <1>5, ReadSpecDoes, FetchDoes, SettleDoes, PutRawDoes, PutFailsDoes, CompleteDoes,
       FeedOriginDoes, FeedLinksDoes, DropDoes DEF Handle
  <2>3. lost' = lost \/ (lost' = lost \cup {t} /\ task[w][t].at = "inactive")
    BY <1>5, ReadSpecDoes, FetchDoes, SettleDoes, PutRawDoes, PutFailsDoes, CompleteDoes,
       FeedOriginDoes, FeedLinksDoes, DropDoes DEF Handle
  <2> QED
    BY <2>1, <2>2, <2>3 DEF Warned, OnlyTask, pauseVars
<1> QED
    BY <1>3, <1>4, <1>5, StepSplits

(* Deactivating a spec loses only targets that were in a worker's hands at *)
(* that moment.                                                            *)
THEOREM LostInFlight == Spec => []LostOnlyInFlight
<1>1. Init => Warned /\ LostOnlyInFlight
    BY DEF Init, Warned, NoTask, LostOnlyInFlight
<1>2. Typed /\ Warned /\ LostOnlyInFlight /\ [Next]_vars => Warned' /\ LostOnlyInFlight'
  <2> SUFFICES ASSUME Typed, Warned, lost \subseteq caught, UNCHANGED vars
               PROVE  Warned' /\ lost' \subseteq caught'
    BY WarnedStep DEF LostOnlyInFlight
  <2> QED
    BY DEF vars, pauseVars, Warned
<1> QED
    BY <1>1, <1>2, TypedAlways, PTL DEF Spec

-----------------------------------------------------------------------------
(* A target that is not shared keeps to one worker, and to none after its  *)
(* record.                                                                 *)
LEMMA SingleStep ==
    ASSUME Typed, Single, Next
    PROVE  Single'
<1> USE DEF Typed
<1>1. CASE Outside
    BY <1>1, OutsideDoes DEF KeepsTasks, Single
<1>2. ASSUME NEW w \in Worker, NEW S \in SUBSET Target, Claim(w, S) PROVE Single'
  <2>1. ClaimDoesThis(w, S)
    BY <1>2, ClaimDoes
  <2>2. /\ held'[w] = S /\ held[w] = {}
        /\ \A v \in Worker : v # w => held'[v] = held[v]
    BY <2>1 DEF ClaimDoesThis, TypeOK
  <2>3. \A t \in S : t \notin shared' => \A v \in Worker : t \notin held[v]
    BY <2>1 DEF ClaimDoesThis, InFlight
  <2>4. shared \subseteq shared' /\ UNCHANGED record
    BY <2>1 DEF ClaimDoesThis, storeVars
  <2>5. \A t \in Target \ shared' : t \in S => record[t] = None
    BY <2>1, <2>4 DEF ClaimDoesThis, Single
  <2>6. \A t \in Target : t \notin S => status'[t] = status[t]
    BY <2>1 DEF ClaimDoesThis
  <2> QED
    BY <2>2, <2>3, <2>4, <2>5, <2>6 DEF Single
<1>3. ASSUME NEW w \in Worker, NEW t \in Target, Goes(w, t), UNCHANGED <<record, shared>>
      PROVE  Single'
    BY <1>3 DEF Goes, Single, queueVars
<1>4. ASSUME NEW w \in Worker, NEW t \in Target, Leaves(w, t), UNCHANGED shared,
             \A x \in Target : x # t => record'[x] = record[x],
             record'[t] = record[t] \/ status'[t] = "done"
      PROVE  Single'
  <2>1. /\ t \in held[w] /\ t \notin held'[w]
        /\ \A v \in Worker, x \in Target : v # w \/ x # t => (x \in held'[v] <=> x \in held[v])
        /\ \A x \in Target : x # t => status'[x] = status[x]
    BY <1>4 DEF Leaves, TypeOK
  <2>2. t \notin shared => record[t] = None /\ \A v \in Worker : t \notin held'[v]
    BY <2>1 DEF Single
  <2> QED
    BY <1>4, <2>1, <2>2 DEF Single
<1>5. ASSUME NEW w \in Worker, NEW t \in Target, Handle(w, t) PROVE Single'
  <2>1. CASE Complete(w, t)
    BY <1>4, <2>1, CompleteDoes DEF TypeOK
  <2>2. CASE Settle(w, t)
    BY <1>4, <2>2, SettleDoes DEF storeVars
  <2>3. CASE Drop(w, t)
    BY <1>3, <1>4, <2>3, DropDoes DEF storeVars
  <2>4. CASE ~(Complete(w, t) \/ Settle(w, t) \/ Drop(w, t))
    BY <1>3, <1>5, <2>4, ReadSpecDoes, FetchDoes, PutRawDoes, PutFailsDoes,
       FeedOriginDoes, FeedLinksDoes DEF Handle, storeVars
  <2> QED
    BY <2>1, <2>2, <2>3, <2>4
<1> QED
    BY <1>1, <1>2, <1>5, StepSplits

(* Nobody else writes the blob of such a target, but the crawler.          *)
LEMMA BackedStep ==
    ASSUME Typed, Single, Backed, Next
    PROVE  Backed'
<1> USE DEF Typed
<1>1. ASSUME NEW t \in Target, CrawlerPutRaw(t) PROVE Backed'
  <2>1. /\ UNCHANGED <<record, task, shared>> /\ clashed' = clashed \cup {t}
        /\ \A x \in Target : x # t => raw'[x] = raw[x]
    BY <1>1 DEF CrawlerPutRaw, TypeOK
  <2> QED
    BY <2>1 DEF Backed
<1>2. CASE Outside
  <2>1. UNCHANGED <<record, task, shared>>
    BY <1>2, OutsideDoes DEF KeepsTasks
  <2>2. UNCHANGED storeVars \/ \E t \in Target : CrawlerPutRaw(t)
    BY <1>2 DEF Outside, Publish, SetActive, Submit, Seed, Enroll, Reap
  <2> QED
    BY <1>1, <2>1, <2>2 DEF Backed, storeVars
<1>3. ASSUME NEW w \in Worker, NEW S \in SUBSET Target, Claim(w, S) PROVE Backed'
  <2>1. ClaimDoesThis(w, S)
    BY <1>3, ClaimDoes
  <2> QED
    BY <2>1 DEF ClaimDoesThis, Backed, storeVars
<1>4. ASSUME NEW w \in Worker, NEW t \in Target, OnlyTask(w, t), task'[w][t].at # "commit",
             UNCHANGED <<storeVars, shared>>
      PROVE  Backed'
    BY <1>4 DEF OnlyTask, Backed, storeVars
<1>5. ASSUME NEW w \in Worker, NEW t \in Target, Handle(w, t) PROVE Backed'
  <2>1. ASSUME task[w][t].at \in {"store", "commit"}, t \notin shared
        PROVE  /\ record[t] = None
               /\ \A v \in Worker : v # w => task[v][t].at # "commit"
    <3>1. t \in held[w] /\ \A v \in Worker : task[v][t].at = "commit" => t \in held[v]
        BY <2>1 DEF TypeOK, OpenStages
    <3> QED
        BY <2>1, <3>1 DEF Single
  <2>2. CASE PutRaw(w, t)
    <3>1. /\ OnlyTask(w, t) /\ UNCHANGED <<record, shared>>
          /\ raw'[t] = task'[w][t].ver
          /\ \A x \in Target : x # t => raw'[x] = raw[x]
          /\ clashed' = clashed \ {t}
          /\ task[w][t].at = "store"
        BY <2>2, PutRawDoes DEF Goes, TypeOK
    <3> QED
        BY <2>1, <3>1 DEF OnlyTask, Backed
  <2>3. CASE PutFails(w, t)
    <3>1. /\ OnlyTask(w, t) /\ UNCHANGED <<record, shared>>
          /\ task'[w][t].at = "failed" /\ task[w][t].at = "store"
        BY <2>3, PutFailsDoes DEF Goes
    <3>2. \/ UNCHANGED <<raw, clashed>>
          \/ raw' = [raw EXCEPT ![t] = task[w][t].ver] /\ clashed' = clashed \ {t}
        BY <2>3, PutFailsDoes
    <3>3. \A x \in Target : x # t => raw'[x] = raw[x] /\ (x \in clashed' <=> x \in clashed)
        BY <3>2 DEF TypeOK
    <3> QED
        BY <2>1, <3>1, <3>3 DEF OnlyTask, Backed
  <2>4. CASE Complete(w, t)
    <3>1. /\ OnlyTask(w, t) /\ UNCHANGED <<raw, clashed, shared>>
          /\ record'[t] = task[w][t].ver
          /\ \A x \in Target : x # t => record'[x] = record[x]
          /\ task[w][t].at = "commit" /\ task'[w][t].at # "commit"
        BY <2>4, CompleteDoes DEF Leaves, TypeOK
    <3> QED
        BY <2>1, <3>1 DEF OnlyTask, Backed
  <2>5. CASE ~(PutRaw(w, t) \/ PutFails(w, t) \/ Complete(w, t))
    <3>1. OnlyTask(w, t) /\ task'[w][t].at # "commit" /\ UNCHANGED <<storeVars, shared>>
        BY <1>5, <2>5, ReadSpecDoes, FetchDoes, SettleDoes, FeedOriginDoes, FeedLinksDoes,
           DropDoes DEF Handle, Goes, Leaves
    <3> QED
        BY <1>4, <3>1
  <2> QED
    BY <2>2, <2>3, <2>4, <2>5
<1> QED
    BY <1>2, <1>3, <1>5, StepSplits

(* The raw blob of a record is the page the record was extracted from,     *)
(* unless two workers or the crawler came in between.                      *)
THEOREM BlobsMatch == Spec => []BlobMatches
<1>1. Init => Single /\ Backed
    BY DEF Init, Queue!Init, Single, Backed, NoTask
<1>2. Typed /\ Single /\ Backed /\ [Next]_vars => Single' /\ Backed'
  <2> SUFFICES ASSUME Typed, Single, Backed, UNCHANGED vars PROVE Single' /\ Backed'
    BY SingleStep, BackedStep
  <2> QED
    BY DEF vars, queueVars, storeVars, Single, Backed
<1>3. Backed => BlobMatches
    BY DEF Backed, BlobMatches
<1> QED
    BY <1>1, <1>2, <1>3, TypedAlways, PTL DEF Spec

(* A target that was never in two workers' hands is recorded once.         *)
RecordedOnce ==
    [][\A t \in Target \ shared : record[t] # None => record'[t] = record[t]]_vars

(* complete_scrape() replaces a record only after two workers had its      *)
(* target at a time.                                                       *)
THEOREM RecordsStand == Spec => RecordedOnce
<1>1. Init => Single
    BY DEF Init, Queue!Init, Single
<1>2. Typed /\ Single /\ [Next]_vars => Single'
  <2> SUFFICES ASSUME Typed, Single, UNCHANGED vars PROVE Single'
    BY SingleStep
  <2> QED
    BY DEF vars, queueVars, storeVars, Single
<1>3. Typed /\ Single /\ [Next]_vars =>
        [\A t \in Target \ shared : record[t] # None => record'[t] = record[t]]_vars
  <2> SUFFICES ASSUME Typed, Single, Next, NEW x \in Target \ shared, record[x] # None
               PROVE  record'[x] = record[x]
    OBVIOUS
  <2>1. \A w \in Worker : x \notin held[w]
    BY DEF Single
  <2>2. ASSUME NEW w \in Worker, NEW t \in Target, Complete(w, t) PROVE record'[x] = record[x]
    <3>1. t \in held[w] /\ \A y \in Target : y # t => record'[y] = record[y]
        BY <2>2, CompleteDoes DEF Leaves, Typed, TypeOK
    <3> QED
        BY <2>1, <3>1
  <2>3. CASE ~\E w \in Worker, t \in Target : Complete(w, t)
    BY <2>3 DEF Next, Handle, Publish, CrawlerPutRaw, SetActive, Submit, Seed, Enroll, Reap,
       Claim, ReadSpec, Fetch, Settle, PutRaw, PutFails, FeedOrigin, FeedLinks, Drop, storeVars
  <2> QED
    BY <2>2, <2>3
<1>4. Spec => RecordedOnce
    BY <1>1, <1>2, <1>3, TypedAlways, PTL DEF Spec, RecordedOnce
<1> QED
    BY <1>4

-----------------------------------------------------------------------------
(* Links are in the graph, or with a task that has only to add them.       *)
Adding(w, t, p) ==
    task[w][t].at \in {"origin", "links"} /\ p \in LinksOf[t][task[w][t].ver]

LEMMA FeedStep ==
    ASSUME Typed, FeedKept, Next
    PROVE  FeedKept'
<1> USE DEF Typed
<1>1. ASSUME NEW t \in Target, t \notin cut, record[t] # None, SpecOf[t] \in FeedTo,
             NEW p \in LinksOf[t][record[t]]
      PROVE  <<PageOf[t], p>> \in edges \/ \E w \in Worker : Adding(w, t, p)
    BY <1>1 DEF FeedKept, Adding, Links
<1>2. SUFFICES ASSUME NEW t \in Target, t \notin cut', record'[t] # None, SpecOf[t] \in FeedTo,
                      NEW p \in LinksOf[t][record'[t]]
               PROVE  <<PageOf[t], p>> \in edges' \/ \E w \in Worker : Adding(w, t, p)'
    BY DEF FeedKept, Adding, Links
<1>3. ASSUME cut \subseteq cut', record'[t] = record[t], edges \subseteq edges',
             \A w \in Worker : Adding(w, t, p) => Adding(w, t, p)' \/ <<PageOf[t], p>> \in edges'
      PROVE  <<PageOf[t], p>> \in edges' \/ \E w \in Worker : Adding(w, t, p)'
    BY <1>1, <1>2, <1>3
<1>4. CASE Outside
    BY <1>3, <1>4, OutsideDoes DEF KeepsTasks, Adding
<1>5. ASSUME NEW w \in Worker, NEW S \in SUBSET Target, Claim(w, S)
      PROVE  <<PageOf[t], p>> \in edges' \/ \E v \in Worker : Adding(v, t, p)'
  <2>1. \A x \in Target : task[w][x].at = "none"
    BY <1>5 DEF Claim, At
  <2>2. ClaimDoesThis(w, S)
    BY <1>5, ClaimDoes
  <2>3. \A v \in Worker : Adding(v, t, p) => Adding(v, t, p)'
    BY <2>1, <2>2 DEF ClaimDoesThis, Adding
  <2> QED
    BY <1>3, <2>2, <2>3 DEF ClaimDoesThis, storeVars, feedVars
<1>6. ASSUME NEW w \in Worker, NEW x \in Target, Handle(w, x)
      PROVE  <<PageOf[t], p>> \in edges' \/ \E v \in Worker : Adding(v, t, p)'
  <2>1. OnlyTask(w, x)
    BY <1>6, ReadSpecDoes, FetchDoes, SettleDoes, PutRawDoes, PutFailsDoes, CompleteDoes,
       FeedOriginDoes, FeedLinksDoes, DropDoes DEF Handle, Goes, Leaves
  <2>2. cut \subseteq cut' /\ edges \subseteq edges'
    BY <1>6, ReadSpecDoes, FetchDoes, SettleDoes, PutRawDoes, PutFailsDoes, CompleteDoes,
       FeedOriginDoes, FeedLinksDoes, DropDoes DEF Handle, feedVars
  <2>3. \A v \in Worker : v # w \/ x # t => (Adding(v, t, p) => Adding(v, t, p)')
    BY <2>1 DEF OnlyTask, Adding
  <2>4. CASE x # t
    <3>1. record'[t] = record[t]
        BY <1>6, <2>4, ReadSpecDoes, FetchDoes, SettleDoes, PutRawDoes, PutFailsDoes,
           CompleteDoes, FeedOriginDoes, FeedLinksDoes, DropDoes
        DEF Handle, storeVars, TypeOK
    <3> QED
        BY <1>3, <2>2, <2>3, <2>4, <3>1
  <2>5. CASE x = t /\ Complete(w, t)
    <3>1. record'[t] = task[w][t].ver
        BY <2>5, CompleteDoes DEF TypeOK
    <3>2. task'[w][t].at = "origin" /\ task'[w][t].ver = task[w][t].ver
        BY <1>2, <2>5, <3>1, CompleteDoes
    <3> QED
        BY <1>2, <3>1, <3>2 DEF Adding
  <2>6. CASE x = t /\ ~Complete(w, t)
    <3>1. record'[t] = record[t]
        BY <1>6, <2>6, ReadSpecDoes, FetchDoes, SettleDoes, PutRawDoes, PutFailsDoes,
           FeedOriginDoes, FeedLinksDoes, DropDoes DEF Handle, storeVars
    <3>2. CASE FeedLinks(w, t)
        BY <1>3, <2>2, <2>3, <3>1, <3>2, FeedLinksDoes DEF Adding
    <3>3. CASE FeedOrigin(w, t)
        BY <1>3, <2>2, <2>3, <3>1, <3>3, FeedOriginDoes DEF Adding
    <3>4. CASE Drop(w, t)
      <4>1. ~Adding(w, t, p)
        BY <1>2, <3>4, DropDoes DEF Adding
      <4> QED
        BY <1>3, <2>2, <2>3, <3>1, <4>1
    <3>5. CASE ~(FeedLinks(w, t) \/ FeedOrigin(w, t) \/ Drop(w, t))
      <4>1. ~Adding(w, t, p)
        BY <1>6, <2>6, <3>5 DEF Handle, ReadSpec, Fetch, Settle, PutRaw, PutFails, At, Adding
      <4> QED
        BY <1>3, <2>2, <2>3, <3>1, <4>1
    <3> QED
        BY <3>2, <3>3, <3>4, <3>5
  <2> QED
    BY <2>4, <2>5, <2>6
<1> QED
    BY <1>4, <1>5, <1>6, StepSplits

(* The links of a record that are to be fed to the crawler get lost only   *)
(* with a task that ended between its commit and the end of its feed.      *)
THEOREM FeedsKept == Spec => []FeedKept
<1>1. Init => FeedKept
    BY DEF Init, FeedKept
<1>2. Typed /\ FeedKept /\ [Next]_vars => FeedKept'
  <2> SUFFICES ASSUME Typed, FeedKept, UNCHANGED vars PROVE FeedKept'
    BY FeedStep
  <2> QED
    BY DEF vars, storeVars, feedVars, FeedKept, Links
<1> QED
    BY <1>1, <1>2, TypedAlways, PTL DEF Spec
-----------------------------------------------------------------------------
(* What is proved of TaskQueue holds of the scrape targets: the pipeline   *)
(* drives their queue by its statements only.                              *)
QueueFacts == INSTANCE TaskQueueProofs WITH Item <- Target

(* The constants satisfy what those theorems assume of them.               *)
LEMMA AssumptionHolds == QueueFacts!TaskAssumption
<1>1. QueueFacts!IsFiniteSet(Worker)
  BY ScrapeAssumption DEF QueueFacts!IsFiniteSet, IsFiniteSet
<1>2. QED
  BY <1>1, ScrapeAssumption DEF QueueFacts!TaskAssumption

(* The queue of the pipeline is the one the theorems are about.            *)
LEMMA SameQueue == Queue!Spec => QueueFacts!Spec
<1>1. Queue!Init => QueueFacts!Init
  BY DEF Queue!Init, QueueFacts!Init
<1>2. ASSUME NEW S, Queue!Enqueue(S) \/ Queue!Reap(S)
      PROVE  QueueFacts!Enqueue(S) \/ QueueFacts!Reap(S)
  BY <1>2 DEF Queue!Enqueue, QueueFacts!Enqueue, Queue!Fresh, QueueFacts!Fresh,
     Queue!Reap, QueueFacts!Reap
<1>3. ASSUME NEW w, NEW S, Queue!Claim(w, S) \/ Queue!Drop(w, S)
      PROVE  QueueFacts!Claim(w, S) \/ QueueFacts!Drop(w, S)
  <2>1. Queue!Cardinality(S) = QueueFacts!Cardinality(S)
    BY DEF Queue!Cardinality, QueueFacts!Cardinality
  <2>2. QED
    BY <1>3, <2>1 DEF Queue!Claim, QueueFacts!Claim, Queue!Drop, QueueFacts!Drop
<1>4. ASSUME NEW w, NEW u, Queue!Finish(w, u) \/ Queue!Skip(w, u) \/ Queue!Fail(w, u)
      PROVE  QueueFacts!Finish(w, u) \/ QueueFacts!Skip(w, u) \/ QueueFacts!Fail(w, u)
  BY <1>4 DEF Queue!Finish, QueueFacts!Finish, Queue!Skip, QueueFacts!Skip,
     Queue!Fail, QueueFacts!Fail, Queue!Release, QueueFacts!Release
<1>5. [Queue!Next]_Queue!taskVars => [QueueFacts!Next]_QueueFacts!taskVars
  BY <1>2, <1>3, <1>4 DEF Queue!Next, QueueFacts!Next, Queue!taskVars, QueueFacts!taskVars
<1>6. QED
  BY <1>1, <1>5, PTL DEF Queue!Spec, QueueFacts!Spec

(* A step of the pipeline is a step of its queue, or leaves it alone.      *)
LEMMA QueueStep == [Next]_vars => [Queue!Next]_Queue!taskVars
<1> SUFFICES ASSUME [Next]_vars PROVE [Queue!Next]_Queue!taskVars
  OBVIOUS
<1> USE DEF Queue!Next, Queue!taskVars, queueVars
<1>1. ASSUME NEW t \in Target, Publish(t) \/ CrawlerPutRaw(t) PROVE UNCHANGED Queue!taskVars
  BY <1>1 DEF Publish, CrawlerPutRaw
<1>2. ASSUME NEW s \in ScrapeSpec, NEW yes \in BOOLEAN, SetActive(s, yes)
      PROVE  UNCHANGED Queue!taskVars
  BY <1>2 DEF SetActive
<1>3. ASSUME NEW p \in Page, Seed(p) PROVE UNCHANGED Queue!taskVars
  BY <1>3 DEF Seed
<1>4. ASSUME NEW s \in ScrapeSpec, NEW S \in SUBSET Target, Submit(s, S)
      PROVE  Queue!Next
  BY <1>4 DEF Submit
<1>5. ASSUME NEW p \in Page, Enroll(p) PROVE Queue!Next
  <2>1. Fed(p) \in SUBSET Target /\ Queue!Enqueue(Fed(p))
    BY <1>5 DEF Enroll, Fed
  <2>2. QED
    BY <2>1
<1>6. ASSUME NEW S \in SUBSET Target, Reap(S) PROVE Queue!Next
  BY <1>6 DEF Reap
<1>7. ASSUME NEW w \in Worker, NEW S \in SUBSET Target, Claim(w, S) PROVE Queue!Next
  BY <1>7 DEF Claim
<1>8. ASSUME NEW w \in Worker, NEW t \in Target, Handle(w, t)
      PROVE  [Queue!Next]_Queue!taskVars
  <2>1. CASE ReadSpec(w, t) \/ Fetch(w, t) \/ PutRaw(w, t) \/ PutFails(w, t)
             \/ FeedOrigin(w, t) \/ FeedLinks(w, t)
    BY <2>1 DEF ReadSpec, Fetch, PutRaw, PutFails, FeedOrigin, FeedLinks
  <2>2. CASE Settle(w, t) \/ Complete(w, t)
    <3>1. Queue!Finish(w, t) \/ Queue!Skip(w, t) \/ Queue!Fail(w, t)
      BY <2>2 DEF Settle, Complete
    <3>2. t \in held[w]
      BY <3>1 DEF Queue!Finish, Queue!Skip, Queue!Fail, Queue!Release
    <3>3. QED
      BY <3>1, <3>2
  <2>3. CASE Drop(w, t)
    <3>1. UNCHANGED queueVars \/ Queue!Drop(w, {t})
      BY <2>3 DEF Drop
    <3>2. QED
      BY <3>1
  <2>4. QED
    BY <1>8, <2>1, <2>2, <2>3 DEF Handle
<1>9. QED
  BY <1>1, <1>2, <1>3, <1>4, <1>5, <1>6, <1>7, <1>8 DEF Next, vars

(* The pipeline implements the queue it is built on: no step of a worker,  *)
(* of the site or of an operator touches a row but by a queue's statement. *)
THEOREM ImplementsQueue == Spec => Queue!Spec
<1>1. Init => Queue!Init
  BY DEF Init
<1>2. QED
  BY <1>1, QueueStep, TypedAlways, PTL DEF Spec, Queue!Spec

(* What a target is promised: retries in budget, which late failures      *)
(* overrun by the other workers at most, and one task per worker and host. *)
QueuePromises == Queue!RetryBudget /\ Queue!RetryOverrun /\ Queue!OnePerDomain

(* The pipeline keeps the queue's promises.                                *)
THEOREM KeepsPromises == Spec => []QueuePromises
<1>1. QueueFacts!Spec => []QueueFacts!Budget
  BY QueueFacts!QueueKeepsBudget, AssumptionHolds
<1>2. QueueFacts!Budget => QueuePromises
  BY DEF QueuePromises, QueueFacts!Budget, QueueFacts!RetryBudget, Queue!RetryBudget,
     QueueFacts!RetryOverrun, Queue!RetryOverrun, QueueFacts!OnePerDomain,
     Queue!OnePerDomain, QueueFacts!Settled, Queue!Settled, QueueFacts!Holders,
     Queue!Holders, QueueFacts!Cardinality, Queue!Cardinality
<1>3. QED
  BY <1>1, <1>2, ImplementsQueue, SameQueue, PTL

(* And one that was done, skipped or given up changes only by the outcome  *)
(* of a task that was open on it.                                          *)
THEOREM SettledStays == Spec => Queue!SettledUntilOutcome
<1>1. QueueFacts!Spec => QueueFacts!SettledUntilOutcome
  BY QueueFacts!QueueLeavesSettled, AssumptionHolds
<1>2. QueueFacts!SettledUntilOutcome => Queue!SettledUntilOutcome
  BY DEF QueueFacts!SettledUntilOutcome, Queue!SettledUntilOutcome, QueueFacts!TaskEnds,
     Queue!TaskEnds, QueueFacts!Settled, Queue!Settled, QueueFacts!taskVars, Queue!taskVars
<1>3. QED
  BY <1>1, <1>2, ImplementsQueue, SameQueue
=============================================================================
