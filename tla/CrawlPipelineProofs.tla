------------------------ MODULE CrawlPipelineProofs ------------------------
(***************************************************************************)
(* The safety properties of CrawlPipeline, for every set of pages and      *)
(* workers, every link structure and every history of the pages.  Typed    *)
(* is the invariant the others stand on: what a task carries at each of    *)
(* its steps, and that a row with a task, a document or an edge exists.    *)
(***************************************************************************)
EXTENDS CrawlPipeline, TLAPS

(* From the body to the links a task has a version in its hands; only a    *)
(* page above MAX_DEPTH is ever about to add its links.                    *)
Carried ==
    \A w \in Worker, u \in Url :
        /\ task[w][u].at \in {"store", "raw", "commit", "links"} => task[w][u].ver \in Version
        /\ task[w][u].at = "links" => depth[u] < MaxDepth

(* Work is only done on rows that exist.                                   *)
Known ==
    \A u \in Url :
        status[u] = "absent" =>
            /\ \A w \in Worker : task[w][u].at = "none"
            /\ \A v \in Url : <<u, v>> \notin edges
            /\ doc[u] = None

Typed == TypeOK /\ Carried /\ Known

(* A task that moves changes its own record and no other.                  *)
LEMMA MovesOne ==
  ASSUME task \in [Worker -> [Url -> Task]],
         NEW w \in Worker, NEW u \in Url, NEW stage \in Stages,
         NEW ver \in Version \cup {None}, Moves(w, u, stage, ver)
  PROVE  /\ task' \in [Worker -> [Url -> Task]]
         /\ task'[w][u].at = stage /\ task'[w][u].ver = ver
         /\ \A v \in Worker, x \in Url : v # w \/ x # u => task'[v][x] = task[v][x]
BY DEF Moves, Task

(* A task that ends clears its own record and no other.                    *)
LEMMA EndsOne ==
  ASSUME task \in [Worker -> [Url -> Task]],
         NEW w \in Worker, NEW u \in Url, Ends(w, u)
  PROVE  /\ task' \in [Worker -> [Url -> Task]]
         /\ task'[w][u].at = "none" /\ task'[w][u].ver = None
         /\ \A v \in Worker, x \in Url : v # w \/ x # u => task'[v][x] = task[v][x]
BY DEF Ends, Task, NoTask, Stages

(* Held rows and open tasks stay the same thing if they do at one task.    *)
LEMMA CoupledStep ==
  ASSUME Coupled, NEW w \in Worker, NEW u \in Url,
         \A v \in Worker, x \in Url : v # w \/ x # u => task'[v][x] = task[v][x],
         \A v \in Worker, x \in Url : v # w \/ x # u => (x \in held'[v] <=> x \in held[v]),
         task'[w][u].at \in OpenStages <=> u \in held'[w]
  PROVE  Coupled'
<1> SUFFICES ASSUME NEW v \in Worker, NEW x \in Url
             PROVE  task'[v][x].at \in OpenStages <=> x \in held'[v]
  BY DEF Coupled, OpenStages
<1>1. CASE v = w /\ x = u
  BY <1>1
<1>2. CASE v # w \/ x # u
  BY <1>2 DEF Coupled
<1>3. QED
  BY <1>1, <1>2

(* Only the task of worker w on row u changes its record, and the queue    *)
(* takes no other held row away.                                           *)
OnlyTask(w, u) ==
    /\ task' \in [Worker -> [Url -> Task]]
    /\ \A v \in Worker, x \in Url : v # w \/ x # u => task'[v][x] = task[v][x]

OnlyHeld(w, u) ==
    /\ \A x \in Url : x # u => status'[x] = status[x]
    /\ status'[u] # "absent"
    /\ \A v \in Worker, x \in Url : v # w \/ x # u => (x \in held'[v] <=> x \in held[v])
    /\ u \notin held'[w]

(***************************************************************************)
(* What each step does to the tasks and the rows, in the form the          *)
(* invariants need it.                                                     *)
(***************************************************************************)
(* The scraper's write replaces one raw blob and nothing else.             *)
LEMMA ScraperPutRawDoes ==
  ASSUME Typed, NEW u \in Url, ScraperPutRaw(u)
  PROVE  /\ u \in Clash
         /\ raw' \in [Url -> Version \cup {None, Foreign}]
         /\ raw'[u] = Foreign /\ \A x \in Url : x # u => raw'[x] = raw[x]
         /\ UNCHANGED <<status, failures, held, depth, edges, cut, page, task, text, doc, shared>>
BY DEF Typed, TypeOK, ScraperPutRaw, queueVars, graphVars

(* A claim opens tasks on pending rows only, each with its row's ETag.     *)
LEMMA BatchDoes ==
  ASSUME Typed, NEW w \in Worker, NEW S \in SUBSET Url, Claim(w, S)
  PROVE  /\ task' \in [Worker -> [Url -> Task]]
         /\ \A v \in Worker, x \in Url : v # w \/ x \notin S => task'[v][x] = task[v][x]
         /\ \A x \in S : task'[w][x].at = "fetch" /\ task'[w][x].ver = doc[x]
         /\ \A x \in Url : task[w][x].at = "none"
         /\ \A x \in S : status[x] = "pending" /\ status'[x] = "leased"
         /\ \A x \in Url \ S : status'[x] = status[x]
         /\ held'[w] = S /\ \A v \in Worker : v # w => held'[v] = held[v]
         /\ shared' = shared \cup {x \in S : \E v \in Worker : x \in held[v]}
         /\ UNCHANGED <<depth, edges, cut, page, raw, text, doc>>
BY DEF Typed, TypeOK, Claim, Queue!Claim, At, Task, Stages, OpenStages, storeVars, graphVars

(* A fetch leaves its task with a version, believes a 304 only on the      *)
(* page's own ETag, and touches no row.                                    *)
LEMMA FetchDoes ==
  ASSUME Typed, NEW w \in Worker, NEW u \in Url, Fetch(w, u)
  PROVE  /\ OnlyTask(w, u)
         /\ \/ task'[w][u].at = "store" /\ task'[w][u].ver \in Version
            \/ task'[w][u].at = "unchanged" /\ task[w][u].ver # None
            \/ task'[w][u].at \in {"empty", "failed"}
         /\ task[w][u].at = "fetch"
         /\ UNCHANGED <<status, failures, held, depth, edges, cut, page, raw, text, doc, shared>>
<1>1. /\ OnlyTask(w, u)
      /\ \/ task'[w][u].at = "store" /\ task'[w][u].ver \in Version
         \/ task'[w][u].at = "unchanged" /\ task[w][u].ver # None
         \/ task'[w][u].at \in {"empty", "failed"}
  BY MovesOne, PipelineAssumption
  DEF Typed, TypeOK, Fetch, Unmodified, OnlyTask, Stages, OpenStages, Version, None
<1>2. /\ task[w][u].at = "fetch"
      /\ UNCHANGED <<status, failures, held, depth, edges, cut, page, raw, text, doc, shared>>
  BY DEF Fetch, At, queueVars, storeVars, graphVars
<1>3. QED
  BY <1>1, <1>2

(* An outcome without content closes the task and stores nothing.          *)
LEMMA SettleDoes ==
  ASSUME Typed, NEW w \in Worker, NEW u \in Url, Settle(w, u)
  PROVE  /\ OnlyTask(w, u)
         /\ task'[w][u].at = "none"
         /\ task[w][u].at \in {"unchanged", "empty", "failed"}
         /\ OnlyHeld(w, u)
         /\ status'[u] = "done" => task[w][u].at = "unchanged"
         /\ UNCHANGED <<depth, edges, cut, page, raw, text, doc, shared>>
<1>1. /\ OnlyTask(w, u)
      /\ task'[w][u].at = "none"
  BY EndsOne DEF Typed, TypeOK, Settle, OnlyTask
<1>2. /\ task[w][u].at \in {"unchanged", "empty", "failed"}
      /\ OnlyHeld(w, u)
      /\ status'[u] = "done" => task[w][u].at = "unchanged"
      /\ UNCHANGED <<depth, edges, cut, page, raw, text, doc, shared>>
  BY DEF Typed, TypeOK, OnlyHeld, Settle, Queue!Finish, Queue!Skip, Queue!Fail,
         Queue!Release, At, queueVars, storeVars, graphVars
<1>3. QED
  BY <1>1, <1>2

(* The raw blob becomes the content in the task's hands.                   *)
LEMMA PutRawDoes ==
  ASSUME Typed, NEW w \in Worker, NEW u \in Url, PutRaw(w, u)
  PROVE  /\ OnlyTask(w, u)
         /\ task'[w][u].at = "raw" /\ task'[w][u].ver = task[w][u].ver
         /\ task[w][u].at = "store" /\ task[w][u].ver \in Version
         /\ raw' \in [Url -> Version \cup {None, Foreign}]
         /\ raw'[u] = task[w][u].ver /\ \A x \in Url : x # u => raw'[x] = raw[x]
         /\ UNCHANGED <<status, failures, held, depth, edges, cut, page, text, doc, shared>>
<1>1. /\ OnlyTask(w, u)
      /\ task'[w][u].at = "raw" /\ task'[w][u].ver = task[w][u].ver
  BY MovesOne DEF Typed, TypeOK, Carried, PutRaw, OnlyTask, At, Stages, OpenStages
<1>2. /\ task[w][u].at = "store" /\ task[w][u].ver \in Version
      /\ raw' \in [Url -> Version \cup {None, Foreign}]
      /\ raw'[u] = task[w][u].ver /\ \A x \in Url : x # u => raw'[x] = raw[x]
      /\ UNCHANGED <<status, failures, held, depth, edges, cut, page, text, doc, shared>>
  BY DEF Typed, TypeOK, Carried, PutRaw, At, queueVars, storeVars, graphVars
<1>3. QED
  BY <1>1, <1>2

(* The text blob becomes the content in the task's hands.                  *)
LEMMA PutTextDoes ==
  ASSUME Typed, NEW w \in Worker, NEW u \in Url, PutText(w, u)
  PROVE  /\ OnlyTask(w, u)
         /\ task'[w][u].at = "commit" /\ task'[w][u].ver = task[w][u].ver
         /\ task[w][u].at = "raw" /\ task[w][u].ver \in Version
         /\ text' \in [Url -> Version \cup {None}]
         /\ text'[u] = task[w][u].ver /\ \A x \in Url : x # u => text'[x] = text[x]
         /\ UNCHANGED <<status, failures, held, depth, edges, cut, page, raw, doc, shared>>
<1>1. /\ OnlyTask(w, u)
      /\ task'[w][u].at = "commit" /\ task'[w][u].ver = task[w][u].ver
  BY MovesOne DEF Typed, TypeOK, Carried, PutText, OnlyTask, At, Stages, OpenStages
<1>2. /\ task[w][u].at = "raw" /\ task[w][u].ver \in Version
      /\ text' \in [Url -> Version \cup {None}]
      /\ text'[u] = task[w][u].ver /\ \A x \in Url : x # u => text'[x] = text[x]
      /\ UNCHANGED <<status, failures, held, depth, edges, cut, page, raw, doc, shared>>
  BY DEF Typed, TypeOK, Carried, PutText, At, queueVars, storeVars, graphVars
<1>3. QED
  BY <1>1, <1>2

(* A failed put leaves the blob as it was or replaced, and the task        *)
(* failed.                                                                 *)
LEMMA PutFailsDoes ==
  ASSUME Typed, NEW w \in Worker, NEW u \in Url, PutFails(w, u)
  PROVE  /\ OnlyTask(w, u)
         /\ task'[w][u].at = "failed"
         /\ task[w][u].at \in {"store", "raw"} /\ task[w][u].ver \in Version
         /\ raw' \in [Url -> Version \cup {None, Foreign}]
         /\ text' \in [Url -> Version \cup {None}]
         /\ raw'[u] \in {raw[u], task[w][u].ver} /\ text'[u] \in {text[u], task[w][u].ver}
         /\ \A x \in Url : x # u => raw'[x] = raw[x] /\ text'[x] = text[x]
         /\ UNCHANGED <<status, failures, held, depth, edges, cut, page, doc, shared>>
<1>1. /\ OnlyTask(w, u)
      /\ task'[w][u].at = "failed"
  BY MovesOne DEF Typed, TypeOK, PutFails, OnlyTask, Stages, OpenStages
<1>2. /\ task[w][u].at \in {"store", "raw"} /\ task[w][u].ver \in Version
      /\ raw' \in [Url -> Version \cup {None, Foreign}]
      /\ text' \in [Url -> Version \cup {None}]
      /\ raw'[u] \in {raw[u], task[w][u].ver} /\ text'[u] \in {text[u], task[w][u].ver}
      /\ \A x \in Url : x # u => raw'[x] = raw[x] /\ text'[x] = text[x]
      /\ UNCHANGED <<status, failures, held, depth, edges, cut, page, doc, shared>>
  BY DEF Typed, TypeOK, Carried, PutFails, At, queueVars, storeVars, graphVars
<1>3. QED
  BY <1>1, <1>2

(* The commit describes the content in the task's hands and closes the     *)
(* task or goes on to the links.                                           *)
LEMMA CompleteDoes ==
  ASSUME Typed, NEW w \in Worker, NEW u \in Url, Complete(w, u)
  PROVE  /\ OnlyTask(w, u)
         /\ \/ /\ task'[w][u].at = "none"
               /\ depth[u] >= MaxDepth \/ LinksOf[u][task[w][u].ver] = {}
            \/ /\ task'[w][u].at = "links" /\ task'[w][u].ver = task[w][u].ver
               /\ depth[u] < MaxDepth
         /\ task[w][u].at = "commit" /\ task[w][u].ver \in Version
         /\ OnlyHeld(w, u) /\ status'[u] = "done"
         /\ doc' \in [Url -> Version \cup {None}]
         /\ doc'[u] = task[w][u].ver /\ \A x \in Url : x # u => doc'[x] = doc[x]
         /\ UNCHANGED <<depth, edges, cut, page, raw, text, shared>>
<1>1. /\ OnlyTask(w, u)
      /\ \/ /\ task'[w][u].at = "none"
            /\ depth[u] >= MaxDepth \/ LinksOf[u][task[w][u].ver] = {}
         \/ /\ task'[w][u].at = "links" /\ task'[w][u].ver = task[w][u].ver
            /\ depth[u] < MaxDepth
  BY MovesOne, EndsOne, PipelineAssumption
  DEF Typed, TypeOK, Carried, Complete, FollowsLinks, OnlyTask, At, Stages, OpenStages
<1>2. /\ task[w][u].at = "commit" /\ task[w][u].ver \in Version
      /\ OnlyHeld(w, u) /\ status'[u] = "done"
      /\ doc' \in [Url -> Version \cup {None}]
      /\ doc'[u] = task[w][u].ver /\ \A x \in Url : x # u => doc'[x] = doc[x]
      /\ UNCHANGED <<depth, edges, cut, page, raw, text, shared>>
  BY DEF Typed, TypeOK, Carried, OnlyHeld, Complete, Queue!Finish, Queue!Release, At,
         queueVars, storeVars, graphVars
<1>3. QED
  BY <1>1, <1>2

(* Every link has an edge afterwards; a row that was inserted lies one     *)
(* level below the page, and no other row changes.                         *)
LEMMA AddLinksDoes ==
  ASSUME Typed, NEW w \in Worker, NEW u \in Url, AddLinks(w, u)
  PROVE  /\ OnlyTask(w, u)
         /\ task'[w][u].at = "none"
         /\ task[w][u].at = "links" /\ task[w][u].ver \in Version /\ depth[u] < MaxDepth
         /\ status[u] # "absent"
         /\ \A x \in Url : \/ status'[x] = status[x] /\ depth'[x] = depth[x]
                           \/ /\ status[x] = "absent" /\ status'[x] = "pending"
                              /\ depth'[x] = depth[u] + 1 /\ <<u, x>> \in edges'
         /\ \A x \in LinksOf[u][task[w][u].ver] : <<u, x>> \in edges'
         /\ \A x, y \in Url : <<x, y>> \in edges' /\ x # u => <<x, y>> \in edges
         /\ edges \subseteq edges' /\ edges' \subseteq Url \X Url
         /\ UNCHANGED <<failures, held, cut, page, raw, text, doc, shared>>
<1>1. /\ OnlyTask(w, u)
      /\ task'[w][u].at = "none"
  BY EndsOne DEF Typed, TypeOK, AddLinks, OnlyTask
<1>2. /\ task[w][u].at = "links" /\ task[w][u].ver \in Version /\ depth[u] < MaxDepth
      /\ status[u] # "absent"
      /\ \A x \in Url : \/ status'[x] = status[x] /\ depth'[x] = depth[x]
                        \/ /\ status[x] = "absent" /\ status'[x] = "pending"
                           /\ depth'[x] = depth[u] + 1 /\ <<u, x>> \in edges'
      /\ \A x \in LinksOf[u][task[w][u].ver] : <<u, x>> \in edges'
      /\ \A x, y \in Url : <<x, y>> \in edges' /\ x # u => <<x, y>> \in edges
      /\ edges \subseteq edges' /\ edges' \subseteq Url \X Url
      /\ UNCHANGED <<failures, held, cut, page, raw, text, doc, shared>>
  BY PipelineAssumption
  DEF Typed, TypeOK, Carried, Known, AddLinks, NewRows, FoundRows, Linked, Deepened,
      Queue!Enqueue, Queue!Fresh, At, queueVars, storeVars, graphVars
<1>3. QED
  BY <1>1, <1>2

(* A lost task leaves the stores and the graph as they were.               *)
LEMMA DropDoes ==
  ASSUME Typed, NEW w \in Worker, NEW u \in Url, Drop(w, u)
  PROVE  /\ OnlyTask(w, u)
         /\ task'[w][u].at = "none"
         /\ task[w][u].at # "none" /\ OnlyHeld(w, u)
         /\ cut \subseteq cut'
         /\ task[w][u].at = "links" => u \in cut'
         /\ UNCHANGED <<status, failures, depth, edges, page, raw, text, doc, shared>>
<1>1. /\ OnlyTask(w, u)
      /\ task'[w][u].at = "none"
  BY EndsOne DEF Typed, TypeOK, Drop, OnlyTask
<1>2. /\ task[w][u].at # "none" /\ OnlyHeld(w, u)
      /\ cut \subseteq cut'
      /\ task[w][u].at = "links" => u \in cut'
      /\ UNCHANGED <<status, failures, depth, edges, page, raw, text, doc, shared>>
  BY DEF Typed, TypeOK, Known, OnlyHeld, Drop, Queue!Drop, At,
         queueVars, storeVars, graphVars
<1>3. QED
  BY <1>1, <1>2

(* What the other proofs stand on: types, what tasks carry, and that work  *)
(* is only done on rows that exist.                                        *)
LEMMA TypedInvariant == Spec => []Typed
<1>1. Init => Typed
  BY PipelineAssumption DEF Init, Queue!Init, Typed, TypeOK, Coupled, Carried, Known,
     Version, None, Status, Task, Stages, OpenStages, NoTask
<1>2. Typed /\ [Next]_vars => Typed'
  <2> SUFFICES ASSUME Typed, [Next]_vars PROVE Typed'
    OBVIOUS
  <2>a. /\ TypeOK /\ Carried /\ Known
        /\ task \in [Worker -> [Url -> Task]]
    BY DEF Typed, TypeOK
  <2>c. Coupled
    BY <2>a DEF TypeOK
  <2>b. \A u \in Url : page[u] \in Version /\ page[u] # None
    BY <2>a DEF TypeOK, Version, None
  <2>1. ASSUME NEW u \in Url, Publish(u) PROVE Typed'
    <3>1. UNCHANGED task
      BY <2>a, <2>b, <2>1 DEF Publish
    <3>2. /\ UNCHANGED <<status, held, depth, edges, doc>>
      BY <2>a, <2>b, <2>1 DEF Publish, queueVars, storeVars, graphVars, At
    <3>3. Coupled'
      BY <2>a, <3>1, <3>2 DEF TypeOK, Coupled, OpenStages
    <3>4. TypeOK'
      <4>1. page[u] + 1 \in Version
        <5>1. page[u] \in Int /\ 1 <= page[u] /\ page[u] < LastVersion[u]
          BY <2>1, <2>b DEF Publish, Version
        <5>2. LastVersion[u] \in Version /\ MaxVersion \in Int
          BY PipelineAssumption
        <5>3. LastVersion[u] \in Int /\ LastVersion[u] <= MaxVersion
          BY <5>2 DEF Version
        <5>4. QED
          BY <5>1, <5>2, <5>3 DEF Version
      <4>2. page' \in [Url -> Version]
        BY <2>a, <2>1, <4>1 DEF TypeOK, Publish
      <4>3. QED
        BY <2>a, <2>1, <3>1, <3>2, <3>3, <4>2
        DEF TypeOK, None, queueVars, storeVars, graphVars, Publish
    <3>5. Carried'
      BY <2>a, <3>1, <3>2 DEF Carried
    <3>6. Known'
      BY <2>a, <3>1, <3>2 DEF Known
    <3>7. QED
      BY <3>4, <3>5, <3>6 DEF Typed
  <2>1a. ASSUME NEW u \in Url, ScraperPutRaw(u) PROVE Typed'
    <3>1. /\ raw' \in [Url -> Version \cup {None, Foreign}]
          /\ UNCHANGED <<status, failures, held, depth, edges, cut, page, task, text, doc, shared>>
      BY <2>1a, ScraperPutRawDoes
    <3>2. QED
      BY <2>a, <3>1 DEF Typed, TypeOK, Coupled, Carried, Known
  <2>2. ASSUME NEW S \in SUBSET Url, Seed(S) PROVE Typed'
    <3>1. UNCHANGED task
      BY <2>a, <2>b, <2>2 DEF Seed
    <3>2. /\ UNCHANGED <<held, depth, edges, doc>>
          /\ \A x \in Url : status'[x] = "absent" => status[x] = "absent"
      BY <2>a, <2>b, <2>2 DEF Seed, Queue!Enqueue, queueVars, storeVars, graphVars, At
    <3>3. Coupled'
      BY <2>a, <3>1, <3>2 DEF TypeOK, Coupled, OpenStages
    <3>4. TypeOK'
      BY <2>a, <2>b, <2>2, <3>1, <3>2, <3>3, PipelineAssumption
      DEF TypeOK, None, Status, queueVars, storeVars, graphVars, Seed, Queue!Enqueue
    <3>5. Carried'
      BY <2>a, <3>1, <3>2 DEF Carried
    <3>6. Known'
      BY <2>a, <3>1, <3>2 DEF Known
    <3>7. QED
      BY <3>4, <3>5, <3>6 DEF Typed
  <2>3. ASSUME NEW S \in SUBSET Url, Reap(S) PROVE Typed'
    <3>1. UNCHANGED task
      BY <2>a, <2>b, <2>3 DEF Reap
    <3>2. /\ UNCHANGED <<held, depth, edges, doc>>
          /\ \A x \in Url : status'[x] = "absent" => status[x] = "absent"
      BY <2>a, <2>b, <2>3 DEF TypeOK, Reap, Queue!Reap, queueVars, storeVars, graphVars, At
    <3>3. Coupled'
      BY <2>a, <3>1, <3>2 DEF TypeOK, Coupled, OpenStages
    <3>4. TypeOK'
      BY <2>a, <2>b, <2>3, <3>1, <3>2, <3>3, PipelineAssumption
      DEF TypeOK, None, Status, queueVars, storeVars, graphVars, Reap, Queue!Reap
    <3>5. Carried'
      BY <2>a, <3>1, <3>2 DEF Carried
    <3>6. Known'
      BY <2>a, <3>1, <3>2 DEF Known
    <3>7. QED
      BY <3>4, <3>5, <3>6 DEF Typed
  <2>4. ASSUME NEW w \in Worker, NEW S \in SUBSET Url, Claim(w, S) PROVE Typed'
    <3>1. /\ task' \in [Worker -> [Url -> Task]]
          /\ \A v \in Worker, x \in Url : v # w \/ x \notin S => task'[v][x] = task[v][x]
          /\ \A x \in S : task'[w][x].at = "fetch"
      BY <2>a, <2>b, <2>4 DEF Claim, Task, Stages, OpenStages, TypeOK
    <3>2. /\ UNCHANGED <<depth, edges, doc>>
          /\ \A x \in Url : task[w][x].at = "none"
          /\ \A x \in S : status'[x] # "absent"
          /\ \A x \in Url : status'[x] = "absent" => status[x] = "absent"
          /\ held'[w] = S /\ \A v \in Worker : v # w => held'[v] = held[v]
      BY <2>a, <2>b, <2>4 DEF TypeOK, Claim, Queue!Claim, queueVars, storeVars, graphVars, At
    <3>3. Coupled'
      BY <2>a, <3>1, <3>2 DEF TypeOK, Coupled, OpenStages
    <3>4. TypeOK'
      BY <2>a, <2>b, <2>4, <3>1, <3>2, <3>3, PipelineAssumption
      DEF TypeOK, None, Status, queueVars, storeVars, graphVars, Claim, Queue!Claim
    <3>5. Carried'
      BY <2>a, <3>1, <3>2 DEF Carried
    <3>6. Known'
      BY <2>a, <3>1, <3>2 DEF Known
    <3>7. QED
      BY <3>4, <3>5, <3>6 DEF Typed
  <2>5. ASSUME NEW w \in Worker, NEW u \in Url, Fetch(w, u) PROVE Typed'
    <3>1. /\ task' \in [Worker -> [Url -> Task]]
          /\ \A v \in Worker, x \in Url : v # w \/ x # u => task'[v][x] = task[v][x]
          /\ \/ task'[w][u].at = "store" /\ task'[w][u].ver \in Version
             \/ task'[w][u].at \in {"unchanged", "empty", "failed"}
      BY <2>a, <2>b, <2>5, MovesOne DEF Fetch, Stages, OpenStages, None
    <3>2. /\ UNCHANGED <<status, held, depth, edges, doc>>
          /\ task[w][u].at = "fetch"
      BY <2>a, <2>b, <2>5 DEF Fetch, queueVars, storeVars, graphVars, At
    <3>3. Coupled'
      <4>1. task'[w][u].at \in OpenStages <=> u \in held'[w]
        BY <2>a, <3>1, <3>2 DEF TypeOK, Coupled, OpenStages
      <4>2. QED
        BY <2>c, <3>1, <3>2, <4>1, CoupledStep
    <3>4. TypeOK'
      BY <2>a, <2>b, <2>5, <3>1, <3>2, <3>3, PipelineAssumption
      DEF TypeOK, None, Status, queueVars, storeVars, graphVars, Fetch
    <3>5. Carried'
      BY <2>a, <3>1, <3>2 DEF Carried
    <3>6. Known'
      BY <2>a, <3>1, <3>2 DEF Known
    <3>7. QED
      BY <3>4, <3>5, <3>6 DEF Typed
  <2>6. ASSUME NEW w \in Worker, NEW u \in Url, Settle(w, u) PROVE Typed'
    <3>1. /\ task' \in [Worker -> [Url -> Task]]
          /\ \A v \in Worker, x \in Url : v # w \/ x # u => task'[v][x] = task[v][x]
          /\ task'[w][u].at = "none"
      BY <2>a, <2>b, <2>6, EndsOne DEF Settle
    <3>2. /\ UNCHANGED <<depth, edges, doc>>
          /\ task[w][u].at \in {"unchanged", "empty", "failed"}
          /\ \A x \in Url : x # u => status'[x] = status[x]
          /\ status'[u] # "absent"
          /\ \A v \in Worker, x \in Url : v # w \/ x # u => (x \in held'[v] <=> x \in held[v])
          /\ u \notin held'[w]
      BY <2>a, <2>b, <2>6 DEF TypeOK, Settle, Queue!Finish, Queue!Skip, Queue!Fail, Queue!Release, queueVars, storeVars, graphVars, At
    <3>3. Coupled'
      <4>1. task'[w][u].at \in OpenStages <=> u \in held'[w]
        BY <2>a, <3>1, <3>2 DEF TypeOK, Coupled, OpenStages
      <4>2. QED
        BY <2>c, <3>1, <3>2, <4>1, CoupledStep
    <3>4. TypeOK'
      <4>0. /\ u \in held[w] /\ held' = [held EXCEPT ![w] = @ \ {u}]
            /\ \E n \in Nat : failures' = [failures EXCEPT ![u] = n]
        <5>1. CASE Queue!Finish(w, u)
          BY <5>1 DEF Queue!Finish, Queue!Release
        <5>2. CASE Queue!Skip(w, u)
          <6>1. failures' = [failures EXCEPT ![u] = failures[u]] /\ failures[u] \in Nat
            BY <5>2, <2>a DEF Queue!Skip, TypeOK
          <6>2. QED
            BY <5>2, <6>1 DEF Queue!Skip, Queue!Release
        <5>3. CASE Queue!Fail(w, u)
          <6>1. failures[u] + 1 \in Nat
            BY <2>a DEF TypeOK
          <6>2. QED
            BY <5>3, <6>1 DEF Queue!Fail, Queue!Release
        <5>4. QED
          BY <2>6, <5>1, <5>2, <5>3 DEF Settle
      <4>1. status' \in [Url -> Status]
        BY <2>a, <2>6, PipelineAssumption
        DEF TypeOK, Status, At, Settle, Queue!Finish, Queue!Skip, Queue!Fail, Queue!Release
      <4>2. failures' \in [Url -> Nat]
        BY <2>a, <4>0 DEF TypeOK
      <4>3. held' \in [Worker -> SUBSET Url]
        BY <2>a, <4>0 DEF TypeOK
      <4>4. QED
        BY <2>a, <2>6, <3>1, <3>2, <3>3, <4>1, <4>2, <4>3
        DEF TypeOK, None, queueVars, storeVars, graphVars, Settle
    <3>5. Carried'
      BY <2>a, <3>1, <3>2 DEF Carried
    <3>6. Known'
      BY <2>a, <3>1, <3>2 DEF Known
    <3>7. QED
      BY <3>4, <3>5, <3>6 DEF Typed
  <2>7. ASSUME NEW w \in Worker, NEW u \in Url, PutRaw(w, u) PROVE Typed'
    <3>1. /\ task' \in [Worker -> [Url -> Task]]
          /\ \A v \in Worker, x \in Url : v # w \/ x # u => task'[v][x] = task[v][x]
          /\ task'[w][u].at = "raw" /\ task'[w][u].ver \in Version
      BY <2>a, <2>b, <2>7, MovesOne DEF PutRaw, Carried, At, Stages, OpenStages
    <3>2. /\ UNCHANGED <<status, held, depth, edges, doc>>
          /\ task[w][u].at = "store"
      BY <2>a, <2>b, <2>7 DEF PutRaw, queueVars, storeVars, graphVars, At
    <3>3. Coupled'
      <4>1. task'[w][u].at \in OpenStages <=> u \in held'[w]
        BY <2>a, <3>1, <3>2 DEF TypeOK, Coupled, OpenStages
      <4>2. QED
        BY <2>c, <3>1, <3>2, <4>1, CoupledStep
    <3>4. TypeOK'
      BY <2>a, <2>b, <2>7, <3>1, <3>2, <3>3, PipelineAssumption
      DEF TypeOK, None, Status, queueVars, storeVars, graphVars, PutRaw, Carried, At
    <3>5. Carried'
      BY <2>a, <3>1, <3>2 DEF Carried
    <3>6. Known'
      BY <2>a, <3>1, <3>2 DEF Known
    <3>7. QED
      BY <3>4, <3>5, <3>6 DEF Typed
  <2>8. ASSUME NEW w \in Worker, NEW u \in Url, PutText(w, u) PROVE Typed'
    <3>1. /\ task' \in [Worker -> [Url -> Task]]
          /\ \A v \in Worker, x \in Url : v # w \/ x # u => task'[v][x] = task[v][x]
          /\ task'[w][u].at = "commit" /\ task'[w][u].ver \in Version
      BY <2>a, <2>b, <2>8, MovesOne DEF PutText, Carried, At, Stages, OpenStages
    <3>2. /\ UNCHANGED <<status, held, depth, edges, doc>>
          /\ task[w][u].at = "raw"
      BY <2>a, <2>b, <2>8 DEF PutText, queueVars, storeVars, graphVars, At
    <3>3. Coupled'
      <4>1. task'[w][u].at \in OpenStages <=> u \in held'[w]
        BY <2>a, <3>1, <3>2 DEF TypeOK, Coupled, OpenStages
      <4>2. QED
        BY <2>c, <3>1, <3>2, <4>1, CoupledStep
    <3>4. TypeOK'
      BY <2>a, <2>b, <2>8, <3>1, <3>2, <3>3, PipelineAssumption
      DEF TypeOK, None, Status, queueVars, storeVars, graphVars, PutText, Carried, At
    <3>5. Carried'
      BY <2>a, <3>1, <3>2 DEF Carried
    <3>6. Known'
      BY <2>a, <3>1, <3>2 DEF Known
    <3>7. QED
      BY <3>4, <3>5, <3>6 DEF Typed
  <2>9. ASSUME NEW w \in Worker, NEW u \in Url, PutFails(w, u) PROVE Typed'
    <3>1. /\ task' \in [Worker -> [Url -> Task]]
          /\ \A v \in Worker, x \in Url : v # w \/ x # u => task'[v][x] = task[v][x]
          /\ task'[w][u].at = "failed"
      BY <2>a, <2>b, <2>9, MovesOne DEF PutFails, Stages, OpenStages
    <3>2. /\ UNCHANGED <<status, held, depth, edges, doc>>
          /\ task[w][u].at \in {"store", "raw"}
          /\ task[w][u].ver \in Version
      BY <2>a, <2>b, <2>9 DEF PutFails, Carried, queueVars, storeVars, graphVars, At
    <3>3. Coupled'
      <4>1. task'[w][u].at \in OpenStages <=> u \in held'[w]
        BY <2>a, <3>1, <3>2 DEF TypeOK, Coupled, OpenStages
      <4>2. QED
        BY <2>c, <3>1, <3>2, <4>1, CoupledStep
    <3>4. TypeOK'
      <4>1. /\ raw' \in [Url -> Version \cup {None, Foreign}]
            /\ text' \in [Url -> Version \cup {None}]
            /\ UNCHANGED <<status, failures, held, depth, edges, cut, page, doc, shared>>
        BY <2>9, PutFailsDoes
      <4>2. QED
        BY <2>a, <3>1, <3>3, <4>1 DEF TypeOK
    <3>5. Carried'
      BY <2>a, <3>1, <3>2 DEF Carried
    <3>6. Known'
      BY <2>a, <3>1, <3>2 DEF Known
    <3>7. QED
      BY <3>4, <3>5, <3>6 DEF Typed
  <2>10. ASSUME NEW w \in Worker, NEW u \in Url, Complete(w, u) PROVE Typed'
    <3>1. /\ task' \in [Worker -> [Url -> Task]]
          /\ \A v \in Worker, x \in Url : v # w \/ x # u => task'[v][x] = task[v][x]
          /\ \/ task'[w][u].at = "none"
             \/ /\ task'[w][u].at = "links" /\ task'[w][u].ver \in Version
                /\ depth[u] < MaxDepth
      BY <2>a, <2>b, <2>10, MovesOne, EndsOne
      DEF Complete, FollowsLinks, Carried, At, Stages, OpenStages
    <3>2. /\ UNCHANGED <<depth, edges>>
          /\ task[w][u].at = "commit"
          /\ task[w][u].ver \in Version
          /\ \A x \in Url : x # u => doc'[x] = doc[x]
          /\ \A x \in Url : x # u => status'[x] = status[x]
          /\ status'[u] # "absent"
          /\ \A v \in Worker, x \in Url : v # w \/ x # u => (x \in held'[v] <=> x \in held[v])
          /\ u \notin held'[w]
      BY <2>a, <2>b, <2>10 DEF TypeOK, Complete, Carried, Queue!Finish, Queue!Release, queueVars, storeVars, graphVars, At
    <3>3. Coupled'
      <4>1. task'[w][u].at \in OpenStages <=> u \in held'[w]
        BY <2>a, <3>1, <3>2 DEF TypeOK, Coupled, OpenStages
      <4>2. QED
        BY <2>c, <3>1, <3>2, <4>1, CoupledStep
    <3>4. TypeOK'
      <4>1. /\ status' \in [Url -> Status]
            /\ failures' \in [Url -> Nat]
            /\ held' \in [Worker -> SUBSET Url]
        BY <2>a, <2>b, <2>10, <3>1, <3>2, PipelineAssumption
        DEF TypeOK, Status, At, queueVars, storeVars, graphVars, Complete, Queue!Finish, Queue!Release
      <4>2. /\ doc' \in [Url -> Version \cup {None}]
            /\ UNCHANGED <<depth, edges, cut, page, raw, text, shared>>
        BY <2>10, CompleteDoes
      <4>3. QED
        BY <2>a, <3>1, <3>3, <4>1, <4>2 DEF TypeOK
    <3>5. Carried'
      BY <2>a, <3>1, <3>2 DEF Carried
    <3>6. Known'
      BY <2>a, <3>1, <3>2 DEF Known
    <3>7. QED
      BY <3>4, <3>5, <3>6 DEF Typed
  <2>11. ASSUME NEW w \in Worker, NEW u \in Url, AddLinks(w, u) PROVE Typed'
    <3>1. /\ task' \in [Worker -> [Url -> Task]]
          /\ \A v \in Worker, x \in Url : v # w \/ x # u => task'[v][x] = task[v][x]
          /\ task'[w][u].at = "none"
      BY <2>a, <2>b, <2>11, EndsOne DEF AddLinks
    <3>2. /\ UNCHANGED <<held, doc>>
          /\ task[w][u].at = "links"
          /\ status[u] # "absent"
          /\ \A x \in Url : status'[x] = "absent" => status[x] = "absent"
          /\ \A x \in Url : status[x] # "absent" => depth'[x] = depth[x]
          /\ \A x, y \in Url : <<x, y>> \in edges' /\ x # u => <<x, y>> \in edges
      BY <2>a, <2>b, <2>11 DEF TypeOK, Known, AddLinks, NewRows, FoundRows,
          Linked, Deepened, Queue!Enqueue, Queue!Fresh, queueVars, storeVars, graphVars, At
    <3>3. Coupled'
      <4>1. task'[w][u].at \in OpenStages <=> u \in held'[w]
        BY <2>a, <3>1, <3>2 DEF TypeOK, Coupled, OpenStages
      <4>2. QED
        BY <2>c, <3>1, <3>2, <4>1, CoupledStep
    <3>4. TypeOK'
      <4>1. /\ status' \in [Url -> Status]
            /\ failures' \in [Url -> Nat]
            /\ held' \in [Worker -> SUBSET Url]
            /\ depth' \in [Url -> 0..MaxDepth]
            /\ edges' \in SUBSET (Url \X Url)
        BY <2>a, <2>b, <2>11, <3>1, <3>2, PipelineAssumption
        DEF TypeOK, Status, At, queueVars, storeVars, graphVars, AddLinks, NewRows, FoundRows, Linked, Deepened,
          Queue!Enqueue, Queue!Fresh, Carried, At
      <4>2. QED
        BY <2>a, <2>11, <3>1, <3>2, <3>3, <4>1
        DEF TypeOK, None, queueVars, storeVars, graphVars, AddLinks
    <3>5. Carried'
      BY <2>a, <3>1, <3>2 DEF Carried, Known
    <3>6. Known'
      BY <2>a, <3>1, <3>2 DEF Known
    <3>7. QED
      BY <3>4, <3>5, <3>6 DEF Typed
  <2>12. ASSUME NEW w \in Worker, NEW u \in Url, Drop(w, u) PROVE Typed'
    <3>1. /\ task' \in [Worker -> [Url -> Task]]
          /\ \A v \in Worker, x \in Url : v # w \/ x # u => task'[v][x] = task[v][x]
          /\ task'[w][u].at = "none"
      BY <2>a, <2>b, <2>12, EndsOne DEF Drop
    <3>2. /\ UNCHANGED <<status, depth, edges, doc>>
          /\ task[w][u].at # "none"
          /\ \A v \in Worker, x \in Url : v # w \/ x # u => (x \in held'[v] <=> x \in held[v])
          /\ u \notin held'[w]
      BY <2>a, <2>b, <2>12 DEF TypeOK, Drop, Queue!Drop, queueVars, storeVars, graphVars, At
    <3>3. Coupled'
      <4>1. task'[w][u].at \in OpenStages <=> u \in held'[w]
        BY <2>a, <3>1, <3>2 DEF TypeOK, Coupled, OpenStages
      <4>2. QED
        BY <2>c, <3>1, <3>2, <4>1, CoupledStep
    <3>4. TypeOK'
      <4>1. /\ status' \in [Url -> Status]
            /\ failures' \in [Url -> Nat]
            /\ held' \in [Worker -> SUBSET Url]
        BY <2>a, <2>b, <2>12, <3>1, <3>2, PipelineAssumption
        DEF TypeOK, Status, At, queueVars, storeVars, graphVars, Drop, Queue!Drop
      <4>2. QED
        BY <2>a, <2>12, <3>1, <3>2, <3>3, <4>1
        DEF TypeOK, None, queueVars, storeVars, graphVars, Drop
    <3>5. Carried'
      BY <2>a, <3>1, <3>2 DEF Carried
    <3>6. Known'
      BY <2>a, <3>1, <3>2 DEF Known
    <3>7. QED
      BY <3>4, <3>5, <3>6 DEF Typed
  <2>13. ASSUME UNCHANGED vars PROVE Typed'
    <3>1. UNCHANGED task
      BY <2>a, <2>b, <2>13 DEF vars
    <3>2. /\ UNCHANGED <<status, held, depth, edges, doc>>
      BY <2>a, <2>b, <2>13 DEF vars, queueVars, storeVars, graphVars, At
    <3>3. Coupled'
      BY <2>a, <3>1, <3>2 DEF TypeOK, Coupled, OpenStages
    <3>4. TypeOK'
      BY <2>a, <2>b, <2>13, <3>1, <3>2, <3>3, PipelineAssumption
      DEF TypeOK, None, Status, queueVars, storeVars, graphVars, vars
    <3>5. Carried'
      BY <2>a, <3>1, <3>2 DEF Carried
    <3>6. Known'
      BY <2>a, <3>1, <3>2 DEF Known
    <3>7. QED
      BY <3>4, <3>5, <3>6 DEF Typed
  <2>14. QED
    BY <2>1, <2>1a, <2>2, <2>3, <2>4, <2>5, <2>6, <2>7, <2>8, <2>9, <2>10, <2>11,
       <2>12, <2>13 DEF Next, Handle
<1>3. QED
  BY <1>1, <1>2, PTL DEF Spec

(* Every reachable state is well typed. *)
THEOREM TypeCorrect == Spec => []TypeOK
BY TypedInvariant, PTL DEF Typed

(* Nothing stored is not a version.                                        *)
LEMMA NoneIsNoVersion == None \notin Version
BY DEF None, Version

(* Once an object is stored it stays; a task that is past a put has put.   *)
Stored ==
    \A u \in Url :
        /\ doc[u] # None => raw[u] # None /\ text[u] # None
        /\ \A w \in Worker :
              /\ task[w][u].at \in {"raw", "commit"} => raw[u] # None
              /\ task[w][u].at = "commit" => text[u] # None

(* A task past a put has a blob under that key, and blobs are never        *)
(* removed.                                                                *)
LEMMA StoredInvariant == Spec => []Stored
<1>1. Init => Stored
  BY DEF Init, Queue!Init, Stored, NoTask
<1>2. Typed /\ Stored /\ [Next]_vars => Stored'
  <2> SUFFICES ASSUME Typed, Stored, [Next]_vars PROVE Stored'
    OBVIOUS
  <2>1. ASSUME NEW u \in Url, Publish(u) PROVE Stored'
    BY <2>1 DEF Publish, Stored, queueVars, storeVars, graphVars
  <2>1a. ASSUME NEW u \in Url, ScraperPutRaw(u) PROVE Stored'
    <3>1. Foreign # None
      BY PipelineAssumption
    <3>2. QED
      BY <2>1a, <3>1, ScraperPutRawDoes DEF Stored
  <2>2. ASSUME NEW S \in SUBSET Url, Seed(S) PROVE Stored'
    BY <2>2 DEF Seed, Queue!Enqueue, Queue!Fresh, Stored, queueVars, storeVars, graphVars
  <2>3. ASSUME NEW S \in SUBSET Url, Reap(S) PROVE Stored'
    BY <2>3 DEF Reap, Queue!Reap, Stored, queueVars, storeVars, graphVars
  <2>4. ASSUME NEW w \in Worker, NEW S \in SUBSET Url, Claim(w, S) PROVE Stored'
    BY <2>4, BatchDoes, NoneIsNoVersion DEF Stored, OnlyTask, OnlyHeld
  <2>5. ASSUME NEW w \in Worker, NEW u \in Url, Fetch(w, u) PROVE Stored'
    BY <2>5, FetchDoes, NoneIsNoVersion DEF Stored, OnlyTask, OnlyHeld
  <2>6. ASSUME NEW w \in Worker, NEW u \in Url, Settle(w, u) PROVE Stored'
    BY <2>6, SettleDoes, NoneIsNoVersion DEF Stored, OnlyTask, OnlyHeld
  <2>7. ASSUME NEW w \in Worker, NEW u \in Url, PutRaw(w, u) PROVE Stored'
    BY <2>7, PutRawDoes, NoneIsNoVersion DEF Stored, OnlyTask, OnlyHeld
  <2>8. ASSUME NEW w \in Worker, NEW u \in Url, PutText(w, u) PROVE Stored'
    BY <2>8, PutTextDoes, NoneIsNoVersion DEF Stored, OnlyTask, OnlyHeld
  <2>9. ASSUME NEW w \in Worker, NEW u \in Url, PutFails(w, u) PROVE Stored'
    BY <2>9, PutFailsDoes, NoneIsNoVersion DEF Stored, OnlyTask, OnlyHeld
  <2>10. ASSUME NEW w \in Worker, NEW u \in Url, Complete(w, u) PROVE Stored'
    <3>1. /\ OnlyTask(w, u)
          /\ task'[w][u].at \in {"none", "links"} /\ task[w][u].at = "commit"
          /\ \A x \in Url : x # u => doc'[x] = doc[x]
          /\ UNCHANGED <<raw, text>>
      BY <2>10, CompleteDoes
    <3>2. raw[u] # None /\ text[u] # None
      BY <3>1 DEF Stored
    <3>3. QED
      BY <3>1, <3>2 DEF Stored, OnlyTask
  <2>11. ASSUME NEW w \in Worker, NEW u \in Url, AddLinks(w, u) PROVE Stored'
    BY <2>11, AddLinksDoes, NoneIsNoVersion DEF Stored, OnlyTask, OnlyHeld
  <2>12. ASSUME NEW w \in Worker, NEW u \in Url, Drop(w, u) PROVE Stored'
    BY <2>12, DropDoes, NoneIsNoVersion DEF Stored, OnlyTask, OnlyHeld
  <2>13. ASSUME UNCHANGED vars PROVE Stored'
    BY <2>13 DEF vars, Stored, queueVars, storeVars, graphVars
  <2>14. QED
    BY <2>1, <2>1a, <2>2, <2>3, <2>4, <2>5, <2>6, <2>7, <2>8, <2>9, <2>10, <2>11,
       <2>12, <2>13 DEF Next, Handle
<1>3. QED
  BY <1>1, <1>2, TypedInvariant, PTL DEF Spec

(* Whatever fails, races or is dropped, a documents row points at blobs    *)
(* that exist.                                                             *)
THEOREM BlobBeforeRow == Spec => []ContentStored
<1>1. Stored => ContentStored
  BY DEF Stored, ContentStored
<1>2. QED
  BY <1>1, StoredInvariant, PTL

(* A task holds an ETag, or was told 304, only on a row with a document.   *)
Tagged ==
    \A u \in Url :
        /\ status[u] = "done" => doc[u] # None
        /\ \A w \in Worker :
              \/ task[w][u].at = "unchanged"
              \/ task[w][u].at = "fetch" /\ task[w][u].ver # None
              => doc[u] # None

(* A task with an ETag, or with a 304, is on a row that was completed      *)
(* before.                                                                 *)
LEMMA TaggedInvariant == Spec => []Tagged
<1>1. Init => Tagged
  BY DEF Init, Queue!Init, Tagged, NoTask
<1>2. Typed /\ Tagged /\ [Next]_vars => Tagged'
  <2> SUFFICES ASSUME Typed, Tagged, [Next]_vars PROVE Tagged'
    OBVIOUS
  <2>1. ASSUME NEW u \in Url, Publish(u) PROVE Tagged'
    BY <2>1 DEF Publish, Tagged, queueVars, storeVars, graphVars
  <2>1a. ASSUME NEW u \in Url, ScraperPutRaw(u) PROVE Tagged'
    BY <2>1a, ScraperPutRawDoes DEF Tagged
  <2>2. ASSUME NEW S \in SUBSET Url, Seed(S) PROVE Tagged'
    BY <2>2 DEF Seed, Queue!Enqueue, Queue!Fresh, Tagged, queueVars, storeVars, graphVars
  <2>3. ASSUME NEW S \in SUBSET Url, Reap(S) PROVE Tagged'
    BY <2>3 DEF Reap, Queue!Reap, Tagged, queueVars, storeVars, graphVars
  <2>4. ASSUME NEW w \in Worker, NEW S \in SUBSET Url, Claim(w, S) PROVE Tagged'
    BY <2>4, BatchDoes, NoneIsNoVersion DEF Tagged, OnlyTask, OnlyHeld
  <2>5. ASSUME NEW w \in Worker, NEW u \in Url, Fetch(w, u) PROVE Tagged'
    BY <2>5, FetchDoes, NoneIsNoVersion DEF Tagged, OnlyTask, OnlyHeld
  <2>6. ASSUME NEW w \in Worker, NEW u \in Url, Settle(w, u) PROVE Tagged'
    BY <2>6, SettleDoes, NoneIsNoVersion DEF Tagged, OnlyTask, OnlyHeld
  <2>7. ASSUME NEW w \in Worker, NEW u \in Url, PutRaw(w, u) PROVE Tagged'
    BY <2>7, PutRawDoes, NoneIsNoVersion DEF Tagged, OnlyTask, OnlyHeld
  <2>8. ASSUME NEW w \in Worker, NEW u \in Url, PutText(w, u) PROVE Tagged'
    BY <2>8, PutTextDoes, NoneIsNoVersion DEF Tagged, OnlyTask, OnlyHeld
  <2>9. ASSUME NEW w \in Worker, NEW u \in Url, PutFails(w, u) PROVE Tagged'
    BY <2>9, PutFailsDoes, NoneIsNoVersion DEF Tagged, OnlyTask, OnlyHeld
  <2>10. ASSUME NEW w \in Worker, NEW u \in Url, Complete(w, u) PROVE Tagged'
    BY <2>10, CompleteDoes, NoneIsNoVersion DEF Tagged, OnlyTask, OnlyHeld
  <2>11. ASSUME NEW w \in Worker, NEW u \in Url, AddLinks(w, u) PROVE Tagged'
    <3>1. \A x \in Url : status'[x] = "done" => status[x] = "done"
      BY <2>11, AddLinksDoes
    <3>2. QED
      BY <2>11, <3>1, AddLinksDoes DEF Tagged, OnlyTask
  <2>12. ASSUME NEW w \in Worker, NEW u \in Url, Drop(w, u) PROVE Tagged'
    BY <2>12, DropDoes, NoneIsNoVersion DEF Tagged, OnlyTask, OnlyHeld
  <2>13. ASSUME UNCHANGED vars PROVE Tagged'
    BY <2>13 DEF vars, Tagged, queueVars, storeVars, graphVars
  <2>14. QED
    BY <2>1, <2>1a, <2>2, <2>3, <2>4, <2>5, <2>6, <2>7, <2>8, <2>9, <2>10, <2>11,
       <2>12, <2>13 DEF Next, Handle
<1>3. QED
  BY <1>1, <1>2, TypedInvariant, PTL DEF Spec

(* A done row has a document: reschedule() settles no row that was not     *)
(* completed before.                                                       *)
THEOREM DoneIsDocumented == Spec => []DoneHasDocument
<1>1. Tagged => DoneHasDocument
  BY DEF Tagged, DoneHasDocument
<1>2. QED
  BY <1>1, TaggedInvariant, PTL

(* A row that never was in two hands has one task at most; once committed  *)
(* it is settled for good, so nobody writes to its blobs again; and a task *)
(* past a put finds there what it stored, or what the scraper put over it. *)
RawFrom(u, ver) == raw[u] = ver \/ (u \in Clash /\ raw[u] = Foreign)

SoleAt(u) ==
    /\ \A v, w \in Worker : u \in held[v] /\ u \in held[w] => v = w
    /\ doc[u] # None => /\ RawFrom(u, doc[u]) /\ text[u] = doc[u]
                       /\ status[u] = "done"
                       /\ \A w \in Worker : u \notin held[w]
    /\ \A w \in Worker :
          /\ task[w][u].at \in {"raw", "commit"} => RawFrom(u, task[w][u].ver)
          /\ task[w][u].at = "commit" => text[u] = task[w][u].ver

Sole == \A u \in Url \ shared : SoleAt(u)

(* A task at one of its first stages holds its row.                        *)
LEMMA WorkerHolds ==
  ASSUME Typed
  PROVE  \A w \in Worker, u \in Url : task[w][u].at \in OpenStages <=> u \in held[w]
BY DEF Typed, TypeOK, Coupled

(* On a row that one task at a time had, the blobs follow the task's       *)
(* stages.                                                                 *)
LEMMA SoleInvariant == Spec => []Sole
<1>1. Init => Sole
  BY DEF Init, Queue!Init, Sole, SoleAt, RawFrom, NoTask
<1>2. Typed /\ Sole /\ [Next]_vars => Sole'
  <2> SUFFICES ASSUME Typed, Sole, [Next]_vars PROVE Sole'
    OBVIOUS
  <2>1. ASSUME NEW u \in Url, Publish(u) PROVE Sole'
    BY <2>1 DEF Publish, Sole, queueVars, storeVars, graphVars, SoleAt, RawFrom
  <2>1a. ASSUME NEW u \in Url, ScraperPutRaw(u) PROVE Sole'
    <3> SUFFICES ASSUME NEW x \in Url \ shared' PROVE SoleAt(x)'
      BY DEF Sole
    <3>1. SoleAt(x) /\ x \in Url
      BY <2>1a, ScraperPutRawDoes DEF Sole
    <3>2. QED
      BY <2>1a, <3>1, ScraperPutRawDoes DEF SoleAt, RawFrom
  <2>2. ASSUME NEW S \in SUBSET Url, Seed(S) PROVE Sole'
    BY <2>2 DEF Seed, Queue!Enqueue, Queue!Fresh, Sole, queueVars, storeVars, graphVars, SoleAt, RawFrom
  <2>3. ASSUME NEW S \in SUBSET Url, Reap(S) PROVE Sole'
    BY <2>3 DEF Reap, Queue!Reap, Sole, queueVars, storeVars, graphVars, SoleAt, RawFrom
  <2>4. ASSUME NEW w \in Worker, NEW S \in SUBSET Url, Claim(w, S) PROVE Sole'
    BY <2>4, BatchDoes, NoneIsNoVersion DEF Sole, OnlyTask, OnlyHeld, SoleAt, RawFrom
  <2>5. ASSUME NEW w \in Worker, NEW u \in Url, Fetch(w, u) PROVE Sole'
    <3>1. /\ OnlyTask(w, u)
          /\ task'[w][u].at \notin {"raw", "commit"}
          /\ UNCHANGED <<status, held, raw, text, doc, shared>>
      BY <2>5, FetchDoes
    <3>2. QED
      BY <3>1 DEF Sole, SoleAt, RawFrom, OnlyTask
  <2>6. ASSUME NEW w \in Worker, NEW u \in Url, Settle(w, u) PROVE Sole'
    <3> SUFFICES ASSUME NEW x \in Url \ shared' PROVE SoleAt(x)'
      BY DEF Sole
    <3>1. SoleAt(x) /\ x \in Url
      BY <2>6, SettleDoes DEF Sole
    <3>2. CASE x # u
      BY <2>6, <3>1, <3>2, SettleDoes DEF SoleAt, RawFrom, OnlyTask, OnlyHeld
    <3>3. CASE x = u
      <4>1. u \in held[w]
        BY <2>6, WorkerHolds, SettleDoes DEF OpenStages
      <4>2. \A v \in Worker : v # w => u \notin held[v]
        BY <3>1, <3>3, <4>1 DEF SoleAt, RawFrom
      <4>3. \A v \in Worker : v # w => task[v][u].at \notin {"raw", "commit"}
        BY <4>2, WorkerHolds DEF OpenStages
      <4>4. doc[u] = None
        BY <3>1, <3>3, <4>1 DEF SoleAt, RawFrom
      <4>5. QED
        BY <2>6, <3>1, <3>3, <4>1, <4>2, <4>3, <4>4, SettleDoes, NoneIsNoVersion
        DEF SoleAt, RawFrom, OnlyTask, OnlyHeld
    <3>4. QED
      BY <3>2, <3>3
  <2>7. ASSUME NEW w \in Worker, NEW u \in Url, PutRaw(w, u) PROVE Sole'
    <3> SUFFICES ASSUME NEW x \in Url \ shared' PROVE SoleAt(x)'
      BY DEF Sole
    <3>1. SoleAt(x) /\ x \in Url
      BY <2>7, PutRawDoes DEF Sole
    <3>2. CASE x # u
      BY <2>7, <3>1, <3>2, PutRawDoes DEF SoleAt, RawFrom, OnlyTask, OnlyHeld
    <3>3. CASE x = u
      <4>1. u \in held[w]
        BY <2>7, WorkerHolds, PutRawDoes DEF OpenStages
      <4>2. \A v \in Worker : v # w => u \notin held[v]
        BY <3>1, <3>3, <4>1 DEF SoleAt, RawFrom
      <4>3. \A v \in Worker : v # w => task[v][u].at \notin {"raw", "commit"}
        BY <4>2, WorkerHolds DEF OpenStages
      <4>4. doc[u] = None
        BY <3>1, <3>3, <4>1 DEF SoleAt, RawFrom
      <4>5. QED
        BY <2>7, <3>1, <3>3, <4>1, <4>2, <4>3, <4>4, PutRawDoes, NoneIsNoVersion
        DEF SoleAt, RawFrom, OnlyTask, OnlyHeld
    <3>4. QED
      BY <3>2, <3>3
  <2>8. ASSUME NEW w \in Worker, NEW u \in Url, PutText(w, u) PROVE Sole'
    <3> SUFFICES ASSUME NEW x \in Url \ shared' PROVE SoleAt(x)'
      BY DEF Sole
    <3>1. SoleAt(x) /\ x \in Url
      BY <2>8, PutTextDoes DEF Sole
    <3>2. CASE x # u
      BY <2>8, <3>1, <3>2, PutTextDoes DEF SoleAt, RawFrom, OnlyTask, OnlyHeld
    <3>3. CASE x = u
      <4>1. u \in held[w]
        BY <2>8, WorkerHolds, PutTextDoes DEF OpenStages
      <4>2. \A v \in Worker : v # w => u \notin held[v]
        BY <3>1, <3>3, <4>1 DEF SoleAt, RawFrom
      <4>3. \A v \in Worker : v # w => task[v][u].at \notin {"raw", "commit"}
        BY <4>2, WorkerHolds DEF OpenStages
      <4>4. doc[u] = None
        BY <3>1, <3>3, <4>1 DEF SoleAt, RawFrom
      <4>5. QED
        BY <2>8, <3>1, <3>3, <4>1, <4>2, <4>3, <4>4, PutTextDoes, NoneIsNoVersion
        DEF SoleAt, RawFrom, OnlyTask, OnlyHeld
    <3>4. QED
      BY <3>2, <3>3
  <2>9. ASSUME NEW w \in Worker, NEW u \in Url, PutFails(w, u) PROVE Sole'
    <3> SUFFICES ASSUME NEW x \in Url \ shared' PROVE SoleAt(x)'
      BY DEF Sole
    <3>1. SoleAt(x) /\ x \in Url
      BY <2>9, PutFailsDoes DEF Sole
    <3>2. CASE x # u
      BY <2>9, <3>1, <3>2, PutFailsDoes DEF SoleAt, RawFrom, OnlyTask, OnlyHeld
    <3>3. CASE x = u
      <4>1. u \in held[w]
        BY <2>9, WorkerHolds, PutFailsDoes DEF OpenStages
      <4>2. \A v \in Worker : v # w => u \notin held[v]
        BY <3>1, <3>3, <4>1 DEF SoleAt, RawFrom
      <4>3. \A v \in Worker : v # w => task[v][u].at \notin {"raw", "commit"}
        BY <4>2, WorkerHolds DEF OpenStages
      <4>4. doc[u] = None
        BY <3>1, <3>3, <4>1 DEF SoleAt, RawFrom
      <4>5. QED
        BY <2>9, <3>1, <3>3, <4>1, <4>2, <4>3, <4>4, PutFailsDoes, NoneIsNoVersion
        DEF SoleAt, RawFrom, OnlyTask, OnlyHeld
    <3>4. QED
      BY <3>2, <3>3
  <2>10. ASSUME NEW w \in Worker, NEW u \in Url, Complete(w, u) PROVE Sole'
    <3> SUFFICES ASSUME NEW x \in Url \ shared' PROVE SoleAt(x)'
      BY DEF Sole
    <3>1. SoleAt(x) /\ x \in Url
      BY <2>10, CompleteDoes DEF Sole
    <3>2. CASE x # u
      BY <2>10, <3>1, <3>2, CompleteDoes DEF SoleAt, RawFrom, OnlyTask, OnlyHeld
    <3>3. CASE x = u
      <4>1. u \in held[w]
        BY <2>10, WorkerHolds, CompleteDoes DEF OpenStages
      <4>2. \A v \in Worker : v # w => u \notin held[v]
        BY <3>1, <3>3, <4>1 DEF SoleAt, RawFrom
      <4>3. \A v \in Worker : v # w => task[v][u].at \notin {"raw", "commit"}
        BY <4>2, WorkerHolds DEF OpenStages
      <4>4. doc[u] = None
        BY <3>1, <3>3, <4>1 DEF SoleAt, RawFrom
      <4>5. QED
        BY <2>10, <3>1, <3>3, <4>1, <4>2, <4>3, <4>4, CompleteDoes, NoneIsNoVersion
        DEF SoleAt, RawFrom, OnlyTask, OnlyHeld
    <3>4. QED
      BY <3>2, <3>3
  <2>11. ASSUME NEW w \in Worker, NEW u \in Url, AddLinks(w, u) PROVE Sole'
    <3> SUFFICES ASSUME NEW x \in Url \ shared' PROVE SoleAt(x)'
      BY DEF Sole
    <3>1. SoleAt(x) /\ x \in Url
      BY <2>11, AddLinksDoes DEF Sole
    <3>2. status[x] = "done" => status'[x] = "done"
      BY <2>11, <3>1, AddLinksDoes
    <3>3. \A v \in Worker : \/ task'[v][x] = task[v][x]
                            \/ task'[v][x].at = "none"
      BY <2>11, <3>1, AddLinksDoes DEF OnlyTask
    <3>4. UNCHANGED <<held, doc, raw, text>>
      BY <2>11, AddLinksDoes
    <3>5. QED
      BY <3>1, <3>2, <3>3, <3>4 DEF SoleAt, RawFrom
  <2>12. ASSUME NEW w \in Worker, NEW u \in Url, Drop(w, u) PROVE Sole'
    <3>1. /\ OnlyTask(w, u) /\ task'[w][u].at = "none" /\ OnlyHeld(w, u)
          /\ UNCHANGED <<status, raw, text, doc, shared>>
      BY <2>12, DropDoes
    <3>2. \A v \in Worker, x \in Url : x \in held'[v] => x \in held[v]
      BY <3>1 DEF OnlyHeld
    <3>3. \A v \in Worker, x \in Url : task'[v][x] = task[v][x] \/ task'[v][x].at = "none"
      BY <3>1 DEF OnlyTask
    <3>4. QED
      BY <3>1, <3>2, <3>3 DEF Sole, SoleAt, RawFrom
  <2>13. ASSUME UNCHANGED vars PROVE Sole'
    BY <2>13 DEF vars, Sole, queueVars, storeVars, graphVars, SoleAt, RawFrom
  <2>14. QED
    BY <2>1, <2>1a, <2>2, <2>3, <2>4, <2>5, <2>6, <2>7, <2>8, <2>9, <2>10, <2>11,
       <2>12, <2>13 DEF Next, Handle
<1>3. QED
  BY <1>1, <1>2, TypedInvariant, PTL DEF Spec

(* The blobs of a committed row are the content the row describes, unless  *)
(* two tasks once had the row at a time, or a scrape target of the host    *)
(* has the row's id: then the raw blob may be that target's.               *)
THEOREM TornOnlyByTwo == Spec => []TornOnlyWhenShared
<1>1. Sole => TornOnlyWhenShared
  BY DEF Sole, SoleAt, RawFrom, TornOnlyWhenShared
<1>2. QED
  BY <1>1, SoleInvariant, PTL

(* A row that never was in two hands is committed once: nothing but a      *)
(* second task that was open at the same time rewrites a documents row.    *)
CommittedOnce == [][\A u \in Url \ shared : doc[u] # None => doc'[u] = doc[u]]_vars

(* complete() rewrites a documents row only after two tasks had it.        *)
THEOREM DocumentsStand == Spec => CommittedOnce
<1>1. Typed /\ Sole /\ [Next]_vars =>
        [\A u \in Url \ shared : doc[u] # None => doc'[u] = doc[u]]_vars
  <2> SUFFICES ASSUME Typed, Sole, Next, NEW x \in Url \ shared, doc[x] # None
               PROVE  doc'[x] = doc[x]
    OBVIOUS
  <2>1. \A w \in Worker : x \notin held[w]
    BY DEF Sole, SoleAt
  <2>2. ASSUME NEW w \in Worker, NEW u \in Url, Complete(w, u) PROVE doc'[x] = doc[x]
    <3>1. u \in held[w]
      BY <2>2, CompleteDoes, WorkerHolds DEF OpenStages
    <3>2. QED
      BY <2>1, <2>2, <3>1, CompleteDoes
  <2>3. CASE ~\E w \in Worker, u \in Url : Complete(w, u)
    BY <2>3 DEF Next, Handle, Publish, ScraperPutRaw, Seed, Reap, Claim, Fetch, Settle, PutRaw, PutText,
       PutFails, AddLinks, Drop, storeVars
  <2>4. QED
    BY <2>2, <2>3
<1>2. Spec => CommittedOnce
  BY <1>1, TypedInvariant, SoleInvariant, PTL DEF Spec, CommittedOnce
<1>3. QED
  BY <1>2

(* What there is of conditional requests: as done rows are not claimed, a  *)
(* 304 is only ever answered to the second of two tasks on a row.          *)
NotModifiedWhenShared ==
    \A w \in Worker, u \in Url : At(w, u, "unchanged") => u \in shared

(* reschedule() is reached on rows only that two tasks had at a time.      *)
THEOREM RescheduledWhenShared == Spec => []NotModifiedWhenShared
<1>1. Typed /\ Sole /\ Tagged => NotModifiedWhenShared
  <2> SUFFICES ASSUME Typed, Sole, Tagged, NEW w \in Worker, NEW u \in Url \ shared,
                      At(w, u, "unchanged")
               PROVE  FALSE
    BY DEF NotModifiedWhenShared
  <2>1. doc[u] # None
    BY DEF Tagged, At
  <2>2. u \in held[w]
    BY WorkerHolds DEF At, OpenStages
  <2>3. QED
    BY <2>1, <2>2 DEF Sole, SoleAt
<1>2. QED
  BY <1>1, TypedInvariant, SoleInvariant, TaggedInvariant, PTL

(* Every row below the seeds was reached by a recorded edge from a page    *)
(* one level up: add() writes row and edge in one transaction, and a depth *)
(* is never rewritten.                                                     *)
THEOREM DepthIsWitnessed == Spec => []DepthWitnessed
<1>1. Init => DepthWitnessed
  BY DEF Init, Queue!Init, DepthWitnessed, NoTask
<1>2. Typed /\ DepthWitnessed /\ [Next]_vars => DepthWitnessed'
  <2> SUFFICES ASSUME Typed, DepthWitnessed, [Next]_vars PROVE DepthWitnessed'
    OBVIOUS
  <2>1. ASSUME NEW u \in Url, Publish(u) PROVE DepthWitnessed'
    BY <2>1 DEF Publish, DepthWitnessed, queueVars, storeVars, graphVars
  <2>1a. ASSUME NEW u \in Url, ScraperPutRaw(u) PROVE DepthWitnessed'
    BY <2>1a, ScraperPutRawDoes DEF DepthWitnessed
  <2>2. ASSUME NEW S \in SUBSET Url, Seed(S) PROVE DepthWitnessed'
    BY <2>2 DEF Seed, Queue!Enqueue, Queue!Fresh, DepthWitnessed, queueVars, storeVars, graphVars
  <2>3. ASSUME NEW S \in SUBSET Url, Reap(S) PROVE DepthWitnessed'
    BY <2>3 DEF Reap, Queue!Reap, DepthWitnessed, queueVars, storeVars, graphVars
  <2>4. ASSUME NEW w \in Worker, NEW S \in SUBSET Url, Claim(w, S) PROVE DepthWitnessed'
    <3>1. UNCHANGED <<depth, edges>>
      BY <2>4, BatchDoes
    <3>2. QED
      BY <3>1 DEF DepthWitnessed
  <2>5. ASSUME NEW w \in Worker, NEW u \in Url, Fetch(w, u) PROVE DepthWitnessed'
    <3>1. UNCHANGED <<depth, edges>>
      BY <2>5, FetchDoes
    <3>2. QED
      BY <3>1 DEF DepthWitnessed
  <2>6. ASSUME NEW w \in Worker, NEW u \in Url, Settle(w, u) PROVE DepthWitnessed'
    <3>1. UNCHANGED <<depth, edges>>
      BY <2>6, SettleDoes
    <3>2. QED
      BY <3>1 DEF DepthWitnessed
  <2>7. ASSUME NEW w \in Worker, NEW u \in Url, PutRaw(w, u) PROVE DepthWitnessed'
    <3>1. UNCHANGED <<depth, edges>>
      BY <2>7, PutRawDoes
    <3>2. QED
      BY <3>1 DEF DepthWitnessed
  <2>8. ASSUME NEW w \in Worker, NEW u \in Url, PutText(w, u) PROVE DepthWitnessed'
    <3>1. UNCHANGED <<depth, edges>>
      BY <2>8, PutTextDoes
    <3>2. QED
      BY <3>1 DEF DepthWitnessed
  <2>9. ASSUME NEW w \in Worker, NEW u \in Url, PutFails(w, u) PROVE DepthWitnessed'
    <3>1. UNCHANGED <<depth, edges>>
      BY <2>9, PutFailsDoes
    <3>2. QED
      BY <3>1 DEF DepthWitnessed
  <2>10. ASSUME NEW w \in Worker, NEW u \in Url, Complete(w, u) PROVE DepthWitnessed'
    <3>1. UNCHANGED <<depth, edges>>
      BY <2>10, CompleteDoes
    <3>2. QED
      BY <3>1 DEF DepthWitnessed
  <2>11. ASSUME NEW w \in Worker, NEW u \in Url, AddLinks(w, u) PROVE DepthWitnessed'
    <3> SUFFICES ASSUME NEW x \in Url, depth'[x] > 0
                 PROVE  \E v \in Url : <<v, x>> \in edges' /\ depth'[v] = depth'[x] - 1
      BY DEF DepthWitnessed
    <3>0. \A v \in Url : status[v] # "absent" => depth'[v] = depth[v]
      BY <2>11, AddLinksDoes
    <3>1. CASE depth'[x] = depth[x]
      <4>1. PICK v \in Url : <<v, x>> \in edges /\ depth[v] = depth[x] - 1
        BY <3>1 DEF DepthWitnessed
      <4>2. status[v] # "absent"
        BY <4>1 DEF Typed, Known
      <4>3. <<v, x>> \in edges'
        BY <2>11, <4>1, AddLinksDoes
      <4>4. QED
        BY <3>0, <3>1, <4>1, <4>2, <4>3
    <3>2. CASE depth'[x] = depth[u] + 1 /\ <<u, x>> \in edges'
      <4>1. depth'[u] = depth[u] /\ depth[u] \in Int
        BY <2>11, <3>0, AddLinksDoes, PipelineAssumption DEF Typed, TypeOK
      <4>2. QED
        BY <3>2, <4>1
    <3>3. QED
      BY <2>11, <3>1, <3>2, AddLinksDoes
  <2>12. ASSUME NEW w \in Worker, NEW u \in Url, Drop(w, u) PROVE DepthWitnessed'
    <3>1. UNCHANGED <<depth, edges>>
      BY <2>12, DropDoes
    <3>2. QED
      BY <3>1 DEF DepthWitnessed
  <2>13. ASSUME UNCHANGED vars PROVE DepthWitnessed'
    BY <2>13 DEF vars, DepthWitnessed, queueVars, storeVars, graphVars
  <2>14. QED
    BY <2>1, <2>1a, <2>2, <2>3, <2>4, <2>5, <2>6, <2>7, <2>8, <2>9, <2>10, <2>11,
       <2>12, <2>13 DEF Next, Handle
<1>3. QED
  BY <1>1, <1>2, TypedInvariant, PTL DEF Spec

(* The links of a committed page are recorded or about to be, unless a     *)
(* task ended between its commit and its add().                            *)
THEOREM LinksAreKept == Spec => []LinksKept
<1>1. Init => LinksKept
  BY DEF Init, Queue!Init, LinksKept, NoTask
<1>2. Typed /\ LinksKept /\ [Next]_vars => LinksKept'
  <2> SUFFICES ASSUME Typed, LinksKept, [Next]_vars PROVE LinksKept'
    OBVIOUS
  <2>1. ASSUME NEW u \in Url, Publish(u) PROVE LinksKept'
    BY <2>1 DEF Publish, LinksKept, queueVars, storeVars, graphVars, At
  <2>1a. ASSUME NEW u \in Url, ScraperPutRaw(u) PROVE LinksKept'
    BY <2>1a, ScraperPutRawDoes DEF LinksKept, At
  <2>2. ASSUME NEW S \in SUBSET Url, Seed(S) PROVE LinksKept'
    BY <2>2 DEF Seed, Queue!Enqueue, Queue!Fresh, LinksKept, queueVars, storeVars, graphVars, At
  <2>3. ASSUME NEW S \in SUBSET Url, Reap(S) PROVE LinksKept'
    BY <2>3 DEF Reap, Queue!Reap, LinksKept, queueVars, storeVars, graphVars, At
  <2>4. ASSUME NEW w \in Worker, NEW S \in SUBSET Url, Claim(w, S) PROVE LinksKept'
    BY <2>4, BatchDoes, NoneIsNoVersion DEF LinksKept, OnlyTask, OnlyHeld, At
  <2>5. ASSUME NEW w \in Worker, NEW u \in Url, Fetch(w, u) PROVE LinksKept'
    BY <2>5, FetchDoes, NoneIsNoVersion DEF LinksKept, OnlyTask, OnlyHeld, At
  <2>6. ASSUME NEW w \in Worker, NEW u \in Url, Settle(w, u) PROVE LinksKept'
    <3>1. /\ OnlyTask(w, u) /\ task[w][u].at # "links"
          /\ UNCHANGED <<depth, edges, cut, doc>>
      BY <2>6, SettleDoes
    <3>2. QED
      BY <3>1 DEF LinksKept, OnlyTask, At
  <2>7. ASSUME NEW w \in Worker, NEW u \in Url, PutRaw(w, u) PROVE LinksKept'
    BY <2>7, PutRawDoes, NoneIsNoVersion DEF LinksKept, OnlyTask, OnlyHeld, At
  <2>8. ASSUME NEW w \in Worker, NEW u \in Url, PutText(w, u) PROVE LinksKept'
    BY <2>8, PutTextDoes, NoneIsNoVersion DEF LinksKept, OnlyTask, OnlyHeld, At
  <2>9. ASSUME NEW w \in Worker, NEW u \in Url, PutFails(w, u) PROVE LinksKept'
    BY <2>9, PutFailsDoes, NoneIsNoVersion DEF LinksKept, OnlyTask, OnlyHeld, At
  <2>10. ASSUME NEW w \in Worker, NEW u \in Url, Complete(w, u) PROVE LinksKept'
    <3> SUFFICES ASSUME NEW x \in Url, doc'[x] # None, depth'[x] < MaxDepth, x \notin cut',
                        NEW y \in LinksOf[x][doc'[x]]
                 PROVE  \/ <<x, y>> \in edges'
                        \/ \E v \in Worker : /\ task'[v][x].at = "links"
                                             /\ y \in LinksOf[x][task'[v][x].ver]
      BY DEF LinksKept, At
    <3>1. CASE x = u
      <4>1. depth[u] \in Int /\ MaxDepth \in Int
        BY PipelineAssumption DEF Typed, TypeOK
      <4>2. task'[w][u].at = "links" /\ y \in LinksOf[u][task'[w][u].ver]
        BY <2>10, <3>1, <4>1, CompleteDoes
      <4>3. QED
        BY <3>1, <4>2
    <3>2. CASE x # u
      <4>1. \/ <<x, y>> \in edges
          \/ \E v \in Worker : task[v][x].at = "links" /\ y \in LinksOf[x][task[v][x].ver]
        BY <2>10, <3>2, CompleteDoes DEF LinksKept, At
      <4>2. QED
        BY <2>10, <3>2, <4>1, CompleteDoes DEF OnlyTask
    <3>3. QED
      BY <3>1, <3>2
  <2>11. ASSUME NEW w \in Worker, NEW u \in Url, AddLinks(w, u) PROVE LinksKept'
    <3> SUFFICES ASSUME NEW x \in Url, doc'[x] # None, depth'[x] < MaxDepth, x \notin cut',
                        NEW y \in LinksOf[x][doc'[x]]
                 PROVE  \/ <<x, y>> \in edges'
                        \/ \E v \in Worker : /\ task'[v][x].at = "links"
                                             /\ y \in LinksOf[x][task'[v][x].ver]
      BY DEF LinksKept, At
    <3>1. status[x] # "absent"
      BY <2>11, AddLinksDoes DEF Typed, Known
    <3>2. doc'[x] = doc[x] /\ depth'[x] = depth[x] /\ cut' = cut
      BY <2>11, <3>1, AddLinksDoes
    <3>3. \/ <<x, y>> \in edges
          \/ \E v \in Worker : task[v][x].at = "links" /\ y \in LinksOf[x][task[v][x].ver]
      BY <3>2 DEF LinksKept, At
    <3>4. CASE <<x, y>> \in edges
      BY <2>11, <3>4, AddLinksDoes
    <3>5. ASSUME NEW v \in Worker, task[v][x].at = "links", y \in LinksOf[x][task[v][x].ver]
          PROVE  <<x, y>> \in edges' \/ task'[v][x] = task[v][x]
      BY <2>11, <3>5, AddLinksDoes DEF OnlyTask
    <3>6. QED
      BY <3>3, <3>4, <3>5
  <2>12. ASSUME NEW w \in Worker, NEW u \in Url, Drop(w, u) PROVE LinksKept'
    <3>1. /\ OnlyTask(w, u) /\ cut \subseteq cut'
          /\ task[w][u].at = "links" => u \in cut'
          /\ UNCHANGED <<depth, edges, doc>>
      BY <2>12, DropDoes
    <3>2. \A x \in Url \ cut', v \in Worker :
             task[v][x].at = "links" => task'[v][x] = task[v][x]
      BY <3>1 DEF OnlyTask
    <3>3. QED
      BY <3>1, <3>2 DEF LinksKept, At
  <2>13. ASSUME UNCHANGED vars PROVE LinksKept'
    BY <2>13 DEF vars, LinksKept, queueVars, storeVars, graphVars, At
  <2>14. QED
    BY <2>1, <2>1a, <2>2, <2>3, <2>4, <2>5, <2>6, <2>7, <2>8, <2>9, <2>10, <2>11,
       <2>12, <2>13 DEF Next, Handle
<1>3. QED
  BY <1>1, <1>2, TypedInvariant, PTL DEF Spec
-----------------------------------------------------------------------------
(* What is proved of TaskQueue holds of the crawler's queue: the pipeline  *)
(* drives it by its statements only.                                       *)
QueueFacts == INSTANCE TaskQueueProofs WITH Item <- Url

(* The constants satisfy what those theorems assume of them.               *)
LEMMA AssumptionHolds == QueueFacts!TaskAssumption
<1>1. QueueFacts!IsFiniteSet(Worker)
  BY PipelineAssumption DEF QueueFacts!IsFiniteSet, IsFiniteSet
<1>2. QED
  BY <1>1, PipelineAssumption DEF QueueFacts!TaskAssumption

(* The queue of the pipeline is the one the theorems are about.            *)
LEMMA SameQueue == Queue!Spec => QueueFacts!Spec
<1>1. Queue!Init => QueueFacts!Init
  BY DEF Queue!Init, QueueFacts!Init
<1>2. ASSUME NEW S, Queue!Enqueue(S) \/ Queue!Reap(S)
      PROVE  QueueFacts!Enqueue(S) \/ QueueFacts!Reap(S)
  BY <1>2 DEF Queue!Enqueue, QueueFacts!Enqueue, Queue!Fresh, QueueFacts!Fresh,
     Queue!Reap, QueueFacts!Reap
<1>3. ASSUME NEW w, NEW S, Queue!Claim(w, S) \/ Queue!Drop(w, S)
      PROVE  QueueFacts!Claim(w, S) \/ QueueFacts!Drop(w, S)
  <2>1. Queue!Cardinality(S) = QueueFacts!Cardinality(S)
    BY DEF Queue!Cardinality, QueueFacts!Cardinality
  <2>2. QED
    BY <1>3, <2>1 DEF Queue!Claim, QueueFacts!Claim, Queue!Drop, QueueFacts!Drop
<1>4. ASSUME NEW w, NEW u, Queue!Finish(w, u) \/ Queue!Skip(w, u) \/ Queue!Fail(w, u)
      PROVE  QueueFacts!Finish(w, u) \/ QueueFacts!Skip(w, u) \/ QueueFacts!Fail(w, u)
  BY <1>4 DEF Queue!Finish, QueueFacts!Finish, Queue!Skip, QueueFacts!Skip,
     Queue!Fail, QueueFacts!Fail, Queue!Release, QueueFacts!Release
<1>5. [Queue!Next]_Queue!taskVars => [QueueFacts!Next]_QueueFacts!taskVars
  BY <1>2, <1>3, <1>4 DEF Queue!Next, QueueFacts!Next, Queue!taskVars, QueueFacts!taskVars
<1>6. QED
  BY <1>1, <1>5, PTL DEF Queue!Spec, QueueFacts!Spec

(* A step of the pipeline is a step of its queue, or leaves it alone.      *)
LEMMA QueueStep == Typed /\ [Next]_vars => [Queue!Next]_Queue!taskVars
<1> SUFFICES ASSUME Typed, [Next]_vars PROVE [Queue!Next]_Queue!taskVars
  OBVIOUS
<1> USE DEF Queue!Next, Queue!taskVars, queueVars
<1>1. ASSUME NEW u \in Url, Publish(u) \/ ScraperPutRaw(u) PROVE UNCHANGED Queue!taskVars
  BY <1>1 DEF Publish, ScraperPutRaw
<1>2. ASSUME NEW S \in SUBSET Url, Seed(S) \/ Reap(S) PROVE Queue!Next
  BY <1>2 DEF Seed, Reap
<1>3. ASSUME NEW w \in Worker, NEW S \in SUBSET Url, Claim(w, S) PROVE Queue!Next
  BY <1>3 DEF Claim
<1>4. ASSUME NEW w \in Worker, NEW u \in Url, Handle(w, u)
      PROVE  [Queue!Next]_Queue!taskVars
  <2>1. CASE Fetch(w, u) \/ PutRaw(w, u) \/ PutText(w, u) \/ PutFails(w, u)
    BY <2>1 DEF Fetch, PutRaw, PutText, PutFails
  <2>2. CASE Settle(w, u) \/ Complete(w, u)
    <3>1. Queue!Finish(w, u) \/ Queue!Skip(w, u) \/ Queue!Fail(w, u)
      BY <2>2 DEF Settle, Complete
    <3>2. u \in held[w]
      BY <3>1 DEF Queue!Finish, Queue!Skip, Queue!Fail, Queue!Release
    <3>3. QED
      BY <3>1, <3>2
  <2>3. CASE AddLinks(w, u)
    <3>1. PICK S : S = NewRows(LinksOf[u][task[w][u].ver])
      OBVIOUS
    <3>2. S \in SUBSET Url
      BY <2>3, <3>1, PipelineAssumption DEF Typed, TypeOK, Carried, AddLinks, At, NewRows
    <3>3. UNCHANGED queueVars \/ Queue!Enqueue(S)
      BY <2>3, <3>1 DEF AddLinks
    <3>4. QED
      BY <3>2, <3>3
  <2>4. CASE Drop(w, u)
    <3>1. UNCHANGED queueVars \/ Queue!Drop(w, {u})
      BY <2>4 DEF Drop
    <3>2. QED
      BY <3>1
  <2>5. QED
    BY <1>4, <2>1, <2>2, <2>3, <2>4 DEF Handle
<1>5. QED
  BY <1>1, <1>2, <1>3, <1>4 DEF Next, vars

(* The pipeline implements the queue it is built on: no step of a worker,  *)
(* of the site or of an operator touches a row but by a queue's statement. *)
THEOREM ImplementsQueue == Spec => Queue!Spec
<1>1. Init => Queue!Init
  BY DEF Init
<1>2. QED
  BY <1>1, QueueStep, TypedInvariant, PTL DEF Spec, Queue!Spec

(* What a row is promised: retries within the budget, which late failures  *)
(* overrun by the other workers at most, and one task per worker and host. *)
QueuePromises == Queue!RetryBudget /\ Queue!RetryOverrun /\ Queue!OnePerDomain

(* The pipeline keeps the queue's promises.                                *)
THEOREM KeepsPromises == Spec => []QueuePromises
<1>1. QueueFacts!Spec => []QueueFacts!Budget
  BY QueueFacts!QueueKeepsBudget, AssumptionHolds
<1>2. QueueFacts!Budget => QueuePromises
  BY DEF QueuePromises, QueueFacts!Budget, QueueFacts!RetryBudget, Queue!RetryBudget,
     QueueFacts!RetryOverrun, Queue!RetryOverrun, QueueFacts!OnePerDomain,
     Queue!OnePerDomain, QueueFacts!Settled, Queue!Settled, QueueFacts!Holders,
     Queue!Holders, QueueFacts!Cardinality, Queue!Cardinality
<1>3. QED
  BY <1>1, <1>2, ImplementsQueue, SameQueue, PTL

(* And one that was done, skipped or given up changes only by the outcome  *)
(* of a task that was open on it.                                          *)
THEOREM SettledStays == Spec => Queue!SettledUntilOutcome
<1>1. QueueFacts!Spec => QueueFacts!SettledUntilOutcome
  BY QueueFacts!QueueLeavesSettled, AssumptionHolds
<1>2. QueueFacts!SettledUntilOutcome => Queue!SettledUntilOutcome
  BY DEF QueueFacts!SettledUntilOutcome, Queue!SettledUntilOutcome, QueueFacts!TaskEnds,
     Queue!TaskEnds, QueueFacts!Settled, Queue!Settled, QueueFacts!taskVars, Queue!taskVars
<1>3. QED
  BY <1>1, <1>2, ImplementsQueue, SameQueue
============================================================================
