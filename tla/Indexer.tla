------------------------------- MODULE Indexer -------------------------------
(***************************************************************************)
(* The indexer processes: Indexer.run() drains the documents rows whose    *)
(* index_state is 'pending' into the search index, while crawl workers go  *)
(* on writing text blobs and committing new versions of the same rows.     *)
(* Rows are fetched under FOR UPDATE SKIP LOCKED outside a transaction, so *)
(* a row is locked for the one statement only, and every later UPDATE      *)
(* names the row by its id, whatever happened to it since.                 *)
(* Content is a version number, a new one for every body that is fetched   *)
(* of a page; 0 stands for none.  Of the crawl side the model has what the *)
(* indexers see, the text blob and complete(), of any number of tasks at   *)
(* once: two that a reaped lease has put on one row write and commit in    *)
(* any order (CrawlPipeline has the queue behind them).                    *)
(* Left out: ORDER BY updated_at (a batch is any of the pending rows), the *)
(* 500 candidates of find_near_duplicate and its bucket by the top byte of *)
(* the simhash, which Near abstracts, and Meilisearch's own task queue: an *)
(* answered add_documents() counts as applied.                             *)
(***************************************************************************)
EXTENDS Integers, FiniteSets

CONSTANTS Doc, Indexer,
          Crawl,       \* crawl tasks
          Batch,       \* BATCH
          MaxVersion,  \* the bound on the versions of any page,
          LastVersion, \* and how many of them are fetched of each
          Simhash,     \* simhash values
          SimhashOf,   \* the simhash of each version of each page
          Near         \* the pairs within DUPLICATE_DISTANCE

Version == 1..MaxVersion
None == 0

ASSUME IndexerAssumption ==
    /\ IsFiniteSet(Doc)
    /\ Batch \in Nat \ {0}
    /\ MaxVersion \in Nat \ {0}
    /\ LastVersion \in [Doc -> Version]
    /\ SimhashOf \in [Doc -> [Version -> Simhash]]
    /\ Near \subseteq Simhash \X Simhash
    /\ \A p, q \in Simhash : <<p, q>> \in Near => <<q, p>> \in Near
    /\ None \notin Doc

VARIABLES page,       \* the version that was last fetched of each page
          crawl,      \* the row and the version that each crawl task has
          text,       \* the blob under the row's text_key
          doc,        \* the version that documents and urls.simhash describe
          state,      \* index_state
          dupOf,      \* duplicate_of
          search,     \* the entry of a row in the search index
          pc,         \* where each indexer is in run()
          task,       \* the rows of its batch, as fetched and as looked at
          overtaken,  \* history: rows last committed with a batch open on them
          met,        \* history: pairs that were looked at around one time
          torn        \* history: rows whose blob was older than they were,
                      \* at their last commit or since

crawlVars == <<page, crawl, text, doc>>
historyVars == <<overtaken, met, torn>>
vars == <<crawlVars, state, dupOf, search, pc, task, historyVars>>

Out == [at |-> "out", row |-> None, text |-> None, near |-> None]
NoBatch == [d \in Doc |-> Out]
At(i, d, stage) == task[i][d].at = stage
InBatch(d) == \E i \in Indexer : ~At(i, d, "out")
Unsettled(d) == state[d] = "pending" \/ InBatch(d)
SuppressedFor(d, e) == state[d] = "suppressed" /\ dupOf[d] = e

NoCrawl == [at |-> "none", doc |-> None, ver |-> None]

Init ==
    /\ page = [d \in Doc |-> None]
    /\ crawl = [c \in Crawl |-> NoCrawl]
    /\ text = [d \in Doc |-> None]
    /\ doc = [d \in Doc |-> None]
    /\ state = [d \in Doc |-> "none"]
    /\ dupOf = [d \in Doc |-> None]
    /\ search = [d \in Doc |-> [row |-> None, text |-> None]]
    /\ pc = [i \in Indexer |-> "down"]
    /\ task = [i \in Indexer |-> NoBatch]
    /\ overtaken = {}
    /\ met = {}
    /\ torn = {}

-----------------------------------------------------------------------------
(* The crawl worker: a task comes with the body it has fetched, overwrites *)
(* the text blob with its text, and then commits the row, as pending       *)
(* again.                                                                  *)
FetchPage(c, d) ==
    /\ crawl[c] = NoCrawl
    /\ page[d] < LastVersion[d]
    /\ page' = [page EXCEPT ![d] = @ + 1]
    /\ crawl' = [crawl EXCEPT ![c] = [at |-> "fetched", doc |-> d, ver |-> page[d] + 1]]
    /\ UNCHANGED <<text, doc, state, dupOf, search, pc, task, historyVars>>

PutText(c) ==
    LET d == crawl[c].doc
        ver == crawl[c].ver
    IN  /\ crawl[c].at = "fetched"
        /\ text' = [text EXCEPT ![d] = ver]
        /\ crawl' = [crawl EXCEPT ![c].at = "stored"]
        /\ torn' = IF ver < doc[d] THEN torn \cup {d} ELSE torn
        /\ UNCHANGED <<page, doc, state, dupOf, search, pc, task, overtaken, met>>

Meets(d) == {{d, e} : e \in {x \in Doc \ {d} : Unsettled(x) \/ SuppressedFor(x, d)}}

Commits(c) ==
    LET d == crawl[c].doc
        ver == crawl[c].ver
    IN  /\ crawl[c].at = "stored"
        /\ doc' = [doc EXCEPT ![d] = ver]
        /\ crawl' = [crawl EXCEPT ![c] = NoCrawl]
        /\ overtaken' = IF InBatch(d) THEN overtaken \cup {d} ELSE overtaken \ {d}
        /\ met' = met \cup Meets(d)
        /\ torn' = IF text[d] < ver THEN torn \cup {d} ELSE torn \ {d}
        /\ UNCHANGED <<page, text, dupOf, search, pc, task>>

\* Mutant: ON CONFLICT DO UPDATE without index_state.
CompleteKeepsState(c) ==
    /\ Commits(c)
    /\ state' = [state EXCEPT ![crawl[c].doc] = IF @ = "none" THEN "pending" ELSE @]

Complete(c) ==
    /\ Commits(c)
    /\ state' = [state EXCEPT ![crawl[c].doc] = "pending"]

(* A task ends where it stands: a failed put, a crash, a cancellation.     *)
Abandon(c) ==
    /\ crawl[c] # NoCrawl
    /\ crawl' = [crawl EXCEPT ![c] = NoCrawl]
    /\ UNCHANGED <<page, text, doc, state, dupOf, search, pc, task, historyVars>>

-----------------------------------------------------------------------------
(* cmd_index: run() begins once Meilisearch has answered; until then the   *)
(* process is as good as down.                                             *)
Start(i) ==
    /\ pc[i] = "down"
    /\ pc' = [pc EXCEPT ![i] = "idle"]
    /\ UNCHANGED <<crawlVars, state, dupOf, search, task, historyVars>>

(* fetch_pending_documents: up to Batch pending rows, but none that the    *)
(* same statement of another indexer has locked at this moment.            *)
AnyRows == {d \in Doc : doc[d] # None}  \* mutant: no WHERE index_state = 'pending'
PendingRows == {d \in Doc : state[d] = "pending"}
LockedRows(i) ==
    {d \in Doc : \E j \in Indexer \ {i} :
                    At(j, d, "todo") /\ \A e \in Doc : task[j][e].at \in {"out", "todo"}}

Fetch(i, S) ==
    /\ pc[i] = "idle"
    /\ S # {}
    /\ S \subseteq PendingRows
    /\ Cardinality(S) <= Batch
    /\ Cardinality(S) = Batch \/ PendingRows \ S \subseteq LockedRows(i)
    /\ pc' = [pc EXCEPT ![i] = "work"]
    /\ task' = [task EXCEPT ![i] =
                   [d \in Doc |-> IF d \in S THEN [Out EXCEPT !.at = "todo", !.row = doc[d]]
                                             ELSE Out]]
    /\ UNCHANGED <<crawlVars, state, dupOf, search, historyVars>>

(* _process, one row after the other.  The simhash is the one fetched with *)
(* the row, the others are those of all urls now, in whatever state; which *)
(* of several near ones comes first is up to the database.                 *)
NearDocs(d, row) ==
    {e \in Doc \ {d} : doc[e] # None /\ <<SimhashOf[d][row], SimhashOf[e][doc[e]]>> \in Near}

FindNear(i, d) ==
    /\ pc[i] = "work"
    /\ At(i, d, "todo")
    /\ \A e \in Doc : ~At(i, e, "clear")
    /\ LET near == NearDocs(d, task[i][d].row)
       IN  \/ /\ near = {}
              /\ task' = [task EXCEPT ![i][d].at = "clear"]
           \/ \E e \in near :
                 task' = [task EXCEPT ![i][d].at = "dup", ![i][d].near = e]
    /\ UNCHANGED <<crawlVars, state, dupOf, search, pc, historyVars>>

ReadText(i, d) ==
    /\ pc[i] = "work"
    /\ At(i, d, "clear")
    /\ task' = [task EXCEPT ![i][d].at = "payload", ![i][d].text = text[d]]
    /\ UNCHANGED <<crawlVars, state, dupOf, search, pc, historyVars>>

Processed(i) == \A d \in Doc : task[i][d].at \in {"out", "payload", "dup"}
Added(i) ==
    [d \in Doc |-> IF At(i, d, "payload") THEN [row |-> task[i][d].row, text |-> task[i][d].text]
                                          ELSE search[d]]

\* Mutant: _process returns early when there is nothing to add.
AddDocumentsOrReturn(i) ==
    /\ pc[i] = "work"
    /\ Processed(i)
    /\ search' = Added(i)
    /\ IF \E d \in Doc : At(i, d, "payload")
          THEN pc' = [pc EXCEPT ![i] = "added"] /\ UNCHANGED task
          ELSE pc' = [pc EXCEPT ![i] = "idle"] /\ task' = [task EXCEPT ![i] = NoBatch]
    /\ UNCHANGED <<crawlVars, state, dupOf, historyVars>>

AddDocuments(i) ==
    /\ pc[i] = "work"
    /\ Processed(i)
    /\ search' = Added(i)
    /\ pc' = [pc EXCEPT ![i] = "added"]
    /\ UNCHANGED <<crawlVars, state, dupOf, task, historyVars>>

MarkDuplicates(i) ==
    /\ pc[i] = "added"
    /\ state' = [d \in Doc |-> IF At(i, d, "dup") THEN "suppressed" ELSE state[d]]
    /\ dupOf' = [d \in Doc |-> IF At(i, d, "dup") THEN task[i][d].near ELSE dupOf[d]]
    /\ pc' = [pc EXCEPT ![i] = "dupped"]
    /\ UNCHANGED <<crawlVars, search, task, historyVars>>

Indexed(i) == [d \in Doc |-> IF At(i, d, "payload") THEN "indexed" ELSE state[d]]

\* Mutant: the lists of a batch are not its own and stay behind.
MarkIndexedKeepsBatch(i) ==
    /\ pc[i] = "dupped"
    /\ state' = Indexed(i)
    /\ pc' = [pc EXCEPT ![i] = "idle"]
    /\ UNCHANGED <<crawlVars, dupOf, search, task, historyVars>>

MarkIndexed(i) ==
    /\ pc[i] = "dupped"
    /\ state' = Indexed(i)
    /\ pc' = [pc EXCEPT ![i] = "idle"]
    /\ task' = [task EXCEPT ![i] = NoBatch]
    /\ UNCHANGED <<crawlVars, dupOf, search, historyVars>>

(* A blob that cannot be read, or a call or statement that fails after the *)
(* ones before it were applied, or was applied itself: every row of the    *)
(* batch is marked failed, the indexed, suppressed and newly committed     *)
(* ones included.                                                          *)
BatchFails(i) ==
    /\ pc[i] \in {"work", "added", "dupped"}
    /\ \/ UNCHANGED state
       \/ pc[i] = "dupped" /\ state' = Indexed(i)
    /\ pc' = [pc EXCEPT ![i] = "failing"]
    /\ UNCHANGED <<crawlVars, dupOf, search, task, historyVars>>

MarkFailed(i) ==
    /\ pc[i] = "failing"
    /\ state' = [d \in Doc |-> IF At(i, d, "out") THEN state[d] ELSE "failed"]
    /\ pc' = [pc EXCEPT ![i] = "idle"]
    /\ task' = [task EXCEPT ![i] = NoBatch]
    /\ UNCHANGED <<crawlVars, dupOf, search, historyVars>>

(* The process is killed or told to stop, or a query outside the try of    *)
(* run() raises: then the task has ended and its process waits on for the  *)
(* stop signal.  An operator starts it again, or not.                      *)
Stop(i) ==
    /\ pc[i] # "down"
    /\ pc' = [pc EXCEPT ![i] = "down"]
    /\ task' = [task EXCEPT ![i] = NoBatch]
    /\ UNCHANGED <<crawlVars, state, dupOf, search, historyVars>>

Progress(i) ==
    \/ \E S \in SUBSET Doc : Fetch(i, S)
    \/ \E d \in Doc : FindNear(i, d) \/ ReadText(i, d)
    \/ AddDocuments(i) \/ MarkDuplicates(i) \/ MarkIndexed(i) \/ MarkFailed(i)

Next ==
    \/ \E c \in Crawl : \/ \E d \in Doc : FetchPage(c, d)
                       \/ PutText(c) \/ Complete(c) \/ Abandon(c)
    \/ \E i \in Indexer : Start(i) \/ Progress(i) \/ BatchFails(i) \/ Stop(i)

(* A running indexer goes on: its loop sleeps between polls and never      *)
(* waits for anyone.  Nothing makes a batch succeed, an indexer start, or  *)
(* a page be crawled.                                                      *)
Spec == Init /\ [][Next]_vars
FairSpec == Spec /\ \A i \in Indexer : WF_vars(Progress(i))

-----------------------------------------------------------------------------
(* The variables have their types; a batch is open between fetch and mark. *)
States == {"none", "pending", "indexed", "failed", "suppressed"}
Stages == {"out", "todo", "clear", "payload", "dup"}
Entry == [row : Version \cup {None}, text : Version \cup {None}]
CrawlTask == [at : {"fetched", "stored"}, doc : Doc, ver : Version] \cup {NoCrawl}
Row == [at : Stages, row : Version \cup {None}, text : Version \cup {None},
        near : Doc \cup {None}]

TypeOK ==
    /\ page \in [Doc -> Version \cup {None}]
    /\ crawl \in [Crawl -> CrawlTask]
    /\ text \in [Doc -> Version \cup {None}]
    /\ doc \in [Doc -> Version \cup {None}]
    /\ state \in [Doc -> States]
    /\ dupOf \in [Doc -> Doc \cup {None}]
    /\ search \in [Doc -> Entry]
    /\ pc \in [Indexer -> {"down", "idle", "work", "added", "dupped", "failing"}]
    /\ task \in [Indexer -> [Doc -> Row]]
    /\ overtaken \in SUBSET Doc
    /\ met \in SUBSET SUBSET Doc
    /\ torn \in SUBSET Doc
    /\ \A i \in Indexer, d \in Doc :
          /\ ~At(i, d, "out") => pc[i] \in {"work", "added", "dupped", "failing"}
                                 /\ task[i][d].row # None
          /\ pc[i] \in {"added", "dupped"} => task[i][d].at \in {"out", "payload", "dup"}

(* A row marked indexed is found under what the row says: its last commit  *)
(* is in the search index, with that version's text or a later one's.      *)
(* However many indexers and crawl tasks work on one row, only a commit    *)
(* that came while a batch was open on the row can be marked indexed and   *)
(* not be; and the text is an older one only if the row's blob was, which  *)
(* takes two crawl tasks (TornOnlyWhenShared of CrawlPipeline).            *)
IndexedNotBehind ==
    \A d \in Doc \ overtaken :
        state[d] = "indexed" =>
            /\ search[d].row = doc[d]
            /\ d \notin torn => search[d].text >= doc[d]

(* Of two pages suppressed as duplicates of each other, neither gets its   *)
(* content into the search index.  That takes a commit of one of them      *)
(* while the other was waiting for an indexer or being processed, or was   *)
(* already suppressed for it.                                              *)
MutualOnlyWhenMet ==
    \A a, b \in Doc : a # b /\ SuppressedFor(a, b) /\ SuppressedFor(b, a) => {a, b} \in met

(* From some time on at least one indexer is up, none comes or goes, and   *)
(* no batch fails any more.                                                *)
Up == {i \in Indexer : pc[i] # "down"}
Failing == \E i \in Indexer : pc[i] = "failing"
Steady == (\E S \in (SUBSET Indexer) \ {{}} : <>[](Up = S)) /\ <>[]~Failing

(* index.py, "drains documents where index_state='pending'": then pending  *)
(* rows are indexed or suppressed, and none waits for ever, whatever state *)
(* crashes and failed batches left behind and however often pages are      *)
(* crawled again.                                                          *)
PendingDrains ==
    Steady => \A d \in Doc :
        []<>(state[d] = "pending") => []<>(state[d] \in {"indexed", "suppressed"})

(* index.py, "index batch failed; will retry": the rows of a batch that    *)
(* failed are in a batch again in the end.                                 *)
WillRetry == Steady => \A d \in Doc : state[d] = "failed" ~> InBatch(d)
=============================================================================
