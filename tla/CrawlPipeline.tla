---------------------------- MODULE CrawlPipeline ----------------------------
(***************************************************************************)
(* CrawlWorker._handle step by step over the work queue: fetch, raw blob,  *)
(* text blob, the commit of complete(), and the links of add() after it.   *)
(* Blob keys are made of the host and the row id, so every crawl of a row  *)
(* writes to the same two keys; nothing but the lease keeps two tasks off  *)
(* one row, and a task may end between any two steps.  The scrape worker   *)
(* makes its raw keys in the same way, of numbers of its own.              *)
(* Content is a version number of the page; 0 stands for nothing stored.   *)
(* Left out: counters of the domains table, the crawl_attempts log and     *)
(* enrol_scrape_targets, whose failure is caught and changes nothing here. *)
(***************************************************************************)
EXTENDS Integers, FiniteSets

CONSTANTS Url, Worker, DomainOf, BatchSize, MaxFailures,
          MaxDepth,    \* MAX_DEPTH, below which links are followed
          LinksOf,     \* the links on each version of a page
          MaxVersion,  \* the versions of any page,
          LastVersion, \* and how many of them each page goes through
          Clash,       \* rows with the id of a scrape target on their host
          Foreign      \* what the scraper stores for such a target

Version == 1..MaxVersion
None == 0

ASSUME PipelineAssumption ==
    /\ IsFiniteSet(Url)
    /\ IsFiniteSet(Worker)
    /\ DomainOf \in [Url -> Nat]
    /\ BatchSize \in Nat \ {0}
    /\ MaxFailures \in Nat \ {0}
    /\ MaxDepth \in Nat
    /\ MaxVersion \in Nat \ {0}
    /\ LastVersion \in [Url -> Version]
    /\ LinksOf \in [Url -> [Version -> SUBSET Url]]
    /\ Clash \subseteq Url
    /\ Foreign \notin Version \cup {None}

VARIABLES status, failures, held,  \* of TaskQueue
          depth,     \* the depth column, written once
          page,      \* the version that the site serves
          task,      \* where each worker is with its task on a row, and the
                     \* version it holds: of the ETag first, then of the fetch
          raw,       \* the blob under the row's raw key, be it the scraper's
          text,      \* the blob under the row's text key
          doc,       \* the version that the documents row describes
          edges,     \* the links table
          shared,    \* history: rows claimed while a task was open on them
          cut        \* history: rows with a task that ended before its add()

queueVars == <<status, failures, held>>
storeVars == <<raw, text, doc>>
graphVars == <<depth, edges, cut>>
vars == <<queueVars, storeVars, graphVars, page, task, shared>>

Queue == INSTANCE TaskQueue WITH Item <- Url

NoTask == [at |-> "none", ver |-> None]
At(w, u, stage) == task[w][u].at = stage
Moves(w, u, stage, ver) ==
    task' = [task EXCEPT ![w][u] = [at |-> stage, ver |-> ver]]
Ends(w, u) == task' = [task EXCEPT ![w][u] = NoTask]

Init ==
    /\ Queue!Init
    /\ depth = [u \in Url |-> 0]
    /\ page = [u \in Url |-> 1]
    /\ task = [w \in Worker |-> [u \in Url |-> NoTask]]
    /\ raw = [u \in Url |-> None]
    /\ text = [u \in Url |-> None]
    /\ doc = [u \in Url |-> None]
    /\ edges = {}
    /\ shared = {}
    /\ cut = {}

-----------------------------------------------------------------------------
(* The environment: a site changes a page, an operator seeds rows, leases  *)
(* run out and the reaper takes their rows back.                           *)
Publish(u) ==
    /\ page[u] < LastVersion[u]
    /\ page' = [page EXCEPT ![u] = @ + 1]
    /\ UNCHANGED <<queueVars, storeVars, graphVars, task, shared>>

Seed(S) ==
    /\ Queue!Enqueue(S)
    /\ UNCHANGED <<storeVars, graphVars, page, task, shared>>

Reap(S) ==
    /\ Queue!Reap(S)
    /\ UNCHANGED <<storeVars, graphVars, page, task, shared>>

(* ScrapeWorker._handle() stores a target of another page of the host, and *)
(* its key is the one of the row that happens to have the target's id.     *)
ScraperPutRaw(u) ==
    /\ u \in Clash
    /\ raw' = [raw EXCEPT ![u] = Foreign]
    /\ UNCHANGED <<queueVars, text, doc, graphVars, page, task, shared>>

-----------------------------------------------------------------------------
(* run(): a batch is claimed when every task of the last one has ended.    *)
(* The task carries the ETag of the last complete(), if there is one.      *)
Claim(w, S) ==
    /\ \A u \in Url : At(w, u, "none")
    /\ Queue!Claim(w, S)
    /\ task' = [task EXCEPT ![w] =
                   [u \in Url |-> IF u \in S THEN [at |-> "fetch", ver |-> doc[u]]
                                             ELSE @[u]]]
    /\ shared' = shared \cup {u \in S : \E v \in Worker : u \in held[v]}
    /\ UNCHANGED <<storeVars, graphVars, page>>

(* The fetch, static or rendered, with its challenge resolved or not.  The *)
(* body is the page's current version.  304 answers a conditional request, *)
(* so the version of the task's ETag is still the page's.                  *)
Unconditional(w, u) == TRUE  \* mutant: a 304 is believed without an ETag
Unmodified(w, u) == task[w][u].ver = page[u]

Fetch(w, u) ==
    /\ At(w, u, "fetch")
    /\ \/ Moves(w, u, "store", page[u])
       \/ Unmodified(w, u) /\ Moves(w, u, "unchanged", None)
       \/ Moves(w, u, "empty", None)
       \/ Moves(w, u, "failed", None)
    /\ UNCHANGED <<queueVars, storeVars, graphVars, page, shared>>

(* The outcomes without content: reschedule(), skip() and fail().          *)
Settle(w, u) ==
    /\ \/ At(w, u, "unchanged") /\ Queue!Finish(w, u)
       \/ At(w, u, "empty") /\ Queue!Skip(w, u)
       \/ At(w, u, "failed") /\ Queue!Fail(w, u)
    /\ Ends(w, u)
    /\ UNCHANGED <<storeVars, graphVars, page, shared>>

(* The two blobs, each overwriting what an earlier task stored.            *)
PutRaw(w, u) ==
    /\ At(w, u, "store")
    /\ raw' = [raw EXCEPT ![u] = task[w][u].ver]
    /\ Moves(w, u, "raw", task[w][u].ver)
    /\ UNCHANGED <<queueVars, text, doc, graphVars, page, shared>>

\* Mutant: the text blob is taken for written when the key is already there.
PutTextOnce(w, u) ==
    /\ At(w, u, "raw")
    /\ text' = [text EXCEPT ![u] = IF @ = None THEN task[w][u].ver ELSE @]
    /\ Moves(w, u, "commit", task[w][u].ver)
    /\ UNCHANGED <<queueVars, raw, doc, graphVars, page, shared>>

PutText(w, u) ==
    /\ At(w, u, "raw")
    /\ text' = [text EXCEPT ![u] = task[w][u].ver]
    /\ Moves(w, u, "commit", task[w][u].ver)
    /\ UNCHANGED <<queueVars, raw, doc, graphVars, page, shared>>

(* A put raises, though the object may have been stored: STORAGE_ERROR.    *)
\* Mutant: the failure is swallowed and the task goes on.
PutFailsIgnored(w, u) ==
    /\ \/ At(w, u, "store") /\ Moves(w, u, "raw", task[w][u].ver)
       \/ At(w, u, "raw") /\ Moves(w, u, "commit", task[w][u].ver)
    /\ UNCHANGED <<queueVars, storeVars, graphVars, page, shared>>

PutFails(w, u) ==
    /\ \/ /\ At(w, u, "store")
          /\ raw' \in {raw, [raw EXCEPT ![u] = task[w][u].ver]}
          /\ UNCHANGED text
       \/ /\ At(w, u, "raw")
          /\ text' \in {text, [text EXCEPT ![u] = task[w][u].ver]}
          /\ UNCHANGED raw
    /\ Moves(w, u, "failed", None)
    /\ UNCHANGED <<queueVars, doc, graphVars, page, shared>>

(* complete(): the urls and documents rows in one transaction.  Links of a *)
(* page at MAX_DEPTH are not followed.                                     *)
FollowsLinks(w, u) == depth[u] < MaxDepth /\ LinksOf[u][task[w][u].ver] # {}

Complete(w, u) ==
    /\ At(w, u, "commit")
    /\ Queue!Finish(w, u)
    /\ doc' = [doc EXCEPT ![u] = task[w][u].ver]
    /\ IF FollowsLinks(w, u) THEN Moves(w, u, "links", task[w][u].ver) ELSE Ends(w, u)
    /\ UNCHANGED <<raw, text, graphVars, page, shared>>

(* add(): one transaction that inserts the rows not there yet, a level     *)
(* deeper than the page, and an edge to every link, new or found.          *)
NewRows(links) == {v \in links : Queue!Fresh(v)}
FoundRows(links) == {v \in links : ~Queue!Fresh(v)}
LinkedNew(links) == NewRows(links)  \* mutant: no edge to a row that was found
Linked(links) == NewRows(links) \cup FoundRows(links)

\* Mutant: _handle() passes depth + 1 and add() adds one more.
DeepenedTwice(u, links) == [v \in Url |-> IF v \in NewRows(links) THEN depth[u] + 2 ELSE depth[v]]
\* Mutant: DO UPDATE SET depth on a row that is there already.
DeepenedAll(u, links) == [v \in Url |-> IF v \in links THEN depth[u] + 1 ELSE depth[v]]
Deepened(u, links) == [v \in Url |-> IF v \in NewRows(links) THEN depth[u] + 1 ELSE depth[v]]

AddLinks(w, u) ==
    LET links == LinksOf[u][task[w][u].ver]
    IN  /\ At(w, u, "links")
        /\ IF NewRows(links) = {} THEN UNCHANGED queueVars ELSE Queue!Enqueue(NewRows(links))
        /\ depth' = Deepened(u, links)
        /\ edges' = edges \cup ({u} \X Linked(links))
        /\ Ends(w, u)
        /\ UNCHANGED <<storeVars, cut, page, shared>>

(* A task ends where it stands: an exception that gather() hands back (a   *)
(* lost database, a third deadlock in add()), a cancellation, the death of *)
(* the process, which ends all its tasks, one after the other here.        *)
Drop(w, u) ==
    /\ ~At(w, u, "none")
    /\ IF u \in held[w] THEN Queue!Drop(w, {u}) ELSE UNCHANGED queueVars
    /\ cut' = IF At(w, u, "links") THEN cut \cup {u} ELSE cut
    /\ Ends(w, u)
    /\ UNCHANGED <<storeVars, depth, edges, page, shared>>

Handle(w, u) ==
    \/ Fetch(w, u)    \/ Settle(w, u)   \/ PutRaw(w, u)    \/ PutText(w, u)
    \/ PutFails(w, u) \/ Complete(w, u) \/ AddLinks(w, u)  \/ Drop(w, u)

Next ==
    \/ \E u \in Url : Publish(u) \/ ScraperPutRaw(u)
    \/ \E S \in SUBSET Url : Seed(S) \/ Reap(S)
    \/ \E w \in Worker : \E S \in SUBSET Url : Claim(w, S)
    \/ \E w \in Worker, u \in Url : Handle(w, u)

Spec == Init /\ [][Next]_vars
-----------------------------------------------------------------------------
(* The variables have their types, and the queue counts a task as open     *)
(* until complete() has committed.                                         *)
OpenStages == {"fetch", "unchanged", "empty", "failed", "store", "raw", "commit"}
Status == {"absent", "pending", "leased", "done", "failed", "skipped"}
Stages == OpenStages \cup {"none", "links"}
Task == [at : Stages, ver : Version \cup {None}]
Coupled == \A w \in Worker, u \in Url : task[w][u].at \in OpenStages <=> u \in held[w]

TypeOK ==
    /\ status \in [Url -> Status]
    /\ failures \in [Url -> Nat]
    /\ held \in [Worker -> SUBSET Url]
    /\ depth \in [Url -> 0..MaxDepth]
    /\ page \in [Url -> Version]
    /\ task \in [Worker -> [Url -> Task]]
    /\ raw \in [Url -> Version \cup {None, Foreign}]
    /\ text \in [Url -> Version \cup {None}]
    /\ doc \in [Url -> Version \cup {None}]
    /\ edges \in SUBSET (Url \X Url)
    /\ shared \in SUBSET Url
    /\ cut \in SUBSET Url
    /\ Coupled

(* worker.py, "blob first, then the row that points at it": whatever       *)
(* fails, is dropped or races, a documents row points at blobs that exist. *)
ContentStored == \A u \in Url : doc[u] # None => raw[u] # None /\ text[u] # None

(* The blobs of a committed row are the content the row describes,         *)
(* whatever earlier tasks left behind, unless the row was once in the      *)
(* hands of two tasks: only then can they come from different fetches.     *)
(* But a raw blob may be the scraper's, even of a row that one task had,   *)
(* if a target of the same host has the row's id.                          *)
TornOnlyWhenShared ==
    \A u \in Url \ shared :
        doc[u] # None =>
            /\ text[u] = doc[u]
            /\ raw[u] = doc[u] \/ (u \in Clash /\ raw[u] = Foreign)

(* A done row has a document: reschedule() never settles a row that was    *)
(* not completed before, as only complete() hands out an ETag.             *)
DoneHasDocument == \A u \in Url : status[u] = "done" => doc[u] # None

(* Every row deeper than a seed was reached by a recorded edge from a page *)
(* one level up, so it hangs on a chain of edges from a seed.              *)
DepthWitnessed ==
    \A u \in Url :
        depth[u] > 0 => \E v \in Url : <<v, u>> \in edges /\ depth[v] = depth[u] - 1

(* The links of a committed page are recorded, or about to be; they get    *)
(* lost only with a task that ended between its commit and its add().      *)
LinksKept ==
    \A u \in Url :
        doc[u] # None /\ depth[u] < MaxDepth /\ u \notin cut =>
            \A v \in LinksOf[u][doc[u]] :
                \/ <<u, v>> \in edges
                \/ \E w \in Worker : At(w, u, "links") /\ v \in LinksOf[u][task[w][u].ver]
=============================================================================
