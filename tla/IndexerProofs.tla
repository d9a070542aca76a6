--------------------------- MODULE IndexerProofs ---------------------------
(***************************************************************************)
(* The safety properties of Indexer, for every set of pages and indexers,  *)
(* every batch size and every relation of nearness.  Typed is the          *)
(* invariant under all of them; Fresh says what a row's entries in batches *)
(* and in the search index have in common with it, and Apart how two pages *)
(* that have not met keep out of each other's way.                         *)
(***************************************************************************)
EXTENDS Indexer, TLAPS

(* A row that has a state or is in a batch exists, and unless it is torn   *)
(* its text was stored before it was committed.                            *)
RowsExist ==
    \A d \in Doc :
        /\ d \notin torn => doc[d] <= text[d]
        /\ state[d] # "none" \/ InBatch(d) => doc[d] # None

Typed == TypeOK /\ RowsExist

(* As long as no commit has overtaken the batches that are open on a row,  *)
(* they carry what it says.                                                *)
Found(d) ==
    /\ search[d].row = doc[d]
    /\ d \notin torn => search[d].text >= doc[d]

Fresh ==
    \A d \in Doc \ overtaken :
        /\ state[d] = "indexed" => Found(d)
        /\ \A i \in Indexer :
              /\ ~At(i, d, "out") => task[i][d].row = doc[d]
              /\ At(i, d, "payload") /\ d \notin torn => task[i][d].text >= doc[d]
              /\ At(i, d, "payload") /\ pc[i] \in {"added", "dupped"} => Found(d)

(* Of two pages that have not met, one is settled, and the other was not   *)
(* suppressed for it before.                                               *)
Met(a, b) == {a, b} \in met
Apart ==
    \A a, b \in Doc : a # b /\ ~Met(a, b) =>
        /\ ~(Unsettled(a) /\ Unsettled(b))
        /\ ~(Unsettled(a) /\ SuppressedFor(b, a))
        /\ ~(SuppressedFor(a, b) /\ SuppressedFor(b, a))

-----------------------------------------------------------------------------
(* What the steps of an indexer do to its batch.                           *)
(* A fetch puts pending rows into an empty batch, as the table has them.   *)
BatchBegins(i, S) ==
    /\ task' \in [Indexer -> [Doc -> Row]]
    /\ \A j \in Indexer, d \in Doc : j # i => task'[j][d] = task[j][d]
    /\ \A d \in Doc : task[i][d].at = "out"
    /\ \A d \in Doc \ S : task'[i][d].at = "out"
    /\ \A d \in S : /\ task'[i][d].at = "todo"
                    /\ task'[i][d].row = doc[d]
                    /\ state[d] = "pending"
                    /\ doc[d] # None
    /\ pc' = [pc EXCEPT ![i] = "work"]
    /\ UNCHANGED <<crawlVars, state, dupOf, search, historyVars>>

LEMMA FetchDoes ==
    ASSUME Typed, NEW i \in Indexer, NEW S \in SUBSET Doc, Fetch(i, S)
    PROVE  BatchBegins(i, S)
<1> USE DEF Typed, TypeOK, Fetch, At
<1>1. \A d \in Doc : task[i][d].at = "out"
    OBVIOUS
<1>2. \A d \in S : d \in Doc /\ state[d] = "pending" /\ doc[d] # None /\ doc[d] \in Version \cup {None}
    BY DEF PendingRows, RowsExist
<1>3. \A d \in S : [Out EXCEPT !.at = "todo", !.row = doc[d]] \in Row
    BY <1>2 DEF Out, Row, Stages
<1>4. Out \in Row
    BY DEF Out, Row, Stages, None
<1>5. task' \in [Indexer -> [Doc -> Row]]
    BY <1>3, <1>4
<1>6. \A d \in S : task'[i][d].at = "todo" /\ task'[i][d].row = doc[d]
    BY <1>2 DEF Out
<1>7. \A j \in Indexer, d \in Doc : j # i => task'[j][d] = task[j][d]
    OBVIOUS
<1>8. \A d \in Doc \ S : task'[i][d].at = "out"
    BY DEF Out
<1>9. pc' = [pc EXCEPT ![i] = "work"] /\ UNCHANGED <<crawlVars, state, dupOf, search, historyVars>>
    OBVIOUS
<1> HIDE DEF Typed, TypeOK, Fetch
<1> QED
    BY <1>1, <1>2, <1>5, <1>6, <1>7, <1>8, <1>9 DEF BatchBegins

(* Looking for near-duplicates and reading the text move one row of it on, *)
(* and keep the version it was fetched with.                               *)
OneMoves(i, d) ==
    /\ pc[i] = "work"
    /\ task' \in [Indexer -> [Doc -> Row]]
    /\ \A j \in Indexer, e \in Doc : j # i \/ e # d => task'[j][e] = task[j][e]
    /\ ~At(i, d, "out") /\ task'[i][d].at # "out"
    /\ task'[i][d].row = task[i][d].row
    /\ UNCHANGED <<crawlVars, state, dupOf, search, pc, historyVars>>

Puts(i, d, r) == task' = [task EXCEPT ![i][d] = r]
LEMMA OneMovesTask ==
    ASSUME Typed, NEW i \in Indexer, NEW d \in Doc, NEW r \in Row, Puts(i, d, r)
    PROVE  /\ task' \in [Indexer -> [Doc -> Row]]
           /\ \A j \in Indexer, e \in Doc : j # i \/ e # d => task'[j][e] = task[j][e]
           /\ task'[i][d] = r
BY DEF Typed, TypeOK, Puts

LEMMA FindNearDoes ==
    ASSUME Typed, NEW i \in Indexer, NEW d \in Doc, FindNear(i, d)
    PROVE  OneMoves(i, d) /\ task'[i][d].at # "payload"
<1>1. task[i][d] \in Row /\ task[i] \in [Doc -> Row] /\ task \in [Indexer -> [Doc -> Row]]
    BY DEF Typed, TypeOK
<1>4. /\ pc[i] = "work" /\ task[i][d].at = "todo"
      /\ UNCHANGED <<crawlVars, state, dupOf, search, pc, historyVars>>
    BY DEF FindNear, At
<1>2. CASE task' = [task EXCEPT ![i][d].at = "clear"]
  <2> DEFINE r == [task[i][d] EXCEPT !.at = "clear"]
  <2>1. r \in Row /\ r.at = "clear" /\ r.row = task[i][d].row
    BY <1>1 DEF Row, Stages
  <2>2. Puts(i, d, r)
    BY <1>2 DEF Puts
  <2> HIDE DEF r
  <2>3. /\ task' \in [Indexer -> [Doc -> Row]]
        /\ \A j \in Indexer, g \in Doc : j # i \/ g # d => task'[j][g] = task[j][g]
        /\ task'[i][d] = r
    BY <2>1, <2>2, OneMovesTask
  <2> QED
    BY <1>4, <2>1, <2>3 DEF OneMoves, At
<1>3. ASSUME NEW e \in Doc, task' = [task EXCEPT ![i][d].at = "dup", ![i][d].near = e]
      PROVE  OneMoves(i, d) /\ task'[i][d].at # "payload"
  <2> DEFINE r == [task[i][d] EXCEPT !.at = "dup", !.near = e]
  <2>1. r \in Row /\ r.at = "dup" /\ r.row = task[i][d].row
    BY <1>1 DEF Row, Stages
  <2>2. Puts(i, d, r)
    BY <1>1, <1>3 DEF Puts
  <2> HIDE DEF r
  <2>3. /\ task' \in [Indexer -> [Doc -> Row]]
        /\ \A j \in Indexer, g \in Doc : j # i \/ g # d => task'[j][g] = task[j][g]
        /\ task'[i][d] = r
    BY <2>1, <2>2, OneMovesTask
  <2> QED
    BY <1>4, <2>1, <2>3 DEF OneMoves, At
<1> QED
    BY <1>2, <1>3 DEF FindNear, NearDocs

LEMMA ReadTextDoes ==
    ASSUME Typed, NEW i \in Indexer, NEW d \in Doc, ReadText(i, d)
    PROVE  OneMoves(i, d) /\ task'[i][d].text = text[d]
<1> DEFINE r == [task[i][d] EXCEPT !.at = "payload", !.text = text[d]]
<1>1. task[i][d] \in Row /\ text[d] \in Version \cup {None}
    BY DEF Typed, TypeOK
<1>3. r \in Row /\ r.at = "payload" /\ r.row = task[i][d].row /\ r.text = text[d]
    BY <1>1 DEF Row, Stages
<1>2. Puts(i, d, r)
    BY DEF ReadText, Typed, TypeOK, Puts
<1> HIDE DEF r
<1>4. /\ task' \in [Indexer -> [Doc -> Row]]
      /\ \A j \in Indexer, e \in Doc : j # i \/ e # d => task'[j][e] = task[j][e]
      /\ task'[i][d] = r
    BY <1>2, <1>3, OneMovesTask
<1>5. /\ pc[i] = "work" /\ task[i][d].at = "clear"
      /\ UNCHANGED <<crawlVars, state, dupOf, search, pc, historyVars>>
    BY DEF ReadText, At
<1> QED
    BY <1>3, <1>4, <1>5 DEF OneMoves, At

(* The end of a batch empties it.                                          *)
BatchEnds(i) ==
    /\ pc[i] # "down"
    /\ \E p \in {"idle", "down"} : pc' = [pc EXCEPT ![i] = p]
    /\ task' \in [Indexer -> [Doc -> Row]]
    /\ \A j \in Indexer, d \in Doc : j # i => task'[j][d] = task[j][d]
    /\ \A d \in Doc : task'[i][d].at = "out"
    /\ UNCHANGED <<crawlVars, dupOf, search, historyVars>>

LEMMA EndDoes ==
    ASSUME Typed, NEW i \in Indexer, MarkIndexed(i) \/ MarkFailed(i) \/ Stop(i)
    PROVE  BatchEnds(i)
<1>1. Out \in Row
    BY DEF Out, Row, Stages, None
<1>2. NoBatch \in [Doc -> Row] /\ \A d \in Doc : NoBatch[d].at = "out"
    BY <1>1 DEF NoBatch, Out
<1>3. task' = [task EXCEPT ![i] = NoBatch]
    BY DEF MarkIndexed, MarkFailed, Stop
<1> QED
    BY <1>2, <1>3 DEF Typed, TypeOK, MarkIndexed, MarkFailed, Stop, BatchEnds

-----------------------------------------------------------------------------
(* Types, and rows that exist.                                             *)
LEMMA InitTyped == Init => Typed
<1> SUFFICES ASSUME Init PROVE Typed
    OBVIOUS
<1>1. Out \in Row
    BY DEF Out, Row, Stages, None
<1> QED
    BY <1>1, IndexerAssumption
    DEF Init, Typed, TypeOK, RowsExist, CrawlTask, InBatch, At, NoBatch, Out, Entry, States, Version, None

(* A step of the crawl side, with a task c or without one (FetchPage has   *)
(* its row as a parameter).                                                *)
Crawls(c) == \/ \E d \in Doc : FetchPage(c, d)
             \/ PutText(c) \/ Complete(c) \/ Abandon(c)

(* A task under way has a row and a version in its hands.                  *)
LEMMA UnderWay ==
    ASSUME Typed, NEW c \in Crawl, crawl[c].at \in {"fetched", "stored"}
    PROVE  crawl[c].doc \in Doc /\ crawl[c].ver \in Version
BY DEF Typed, TypeOK, CrawlTask, NoCrawl

(* A put overwrites one blob, and tears the row if that is newer.          *)
LEMMA PutTextDoes ==
    ASSUME Typed, NEW c \in Crawl, PutText(c)
    PROVE  \E d \in Doc, ver \in Version :
             /\ text' = [text EXCEPT ![d] = ver]
             /\ torn' = IF ver < doc[d] THEN torn \cup {d} ELSE torn
             /\ crawl' \in [Crawl -> CrawlTask]
             /\ UNCHANGED <<page, doc, state, dupOf, search, pc, task, overtaken, met>>
<1>1. crawl[c].at = "fetched"
    BY DEF PutText
<1>2. crawl[c].doc \in Doc /\ crawl[c].ver \in Version
    BY <1>1, UnderWay
<1>3. crawl' \in [Crawl -> CrawlTask]
  <2>1. crawl[c] \in [at : {"fetched", "stored"}, doc : Doc, ver : Version]
    BY <1>1 DEF Typed, TypeOK, CrawlTask, NoCrawl
  <2>2. [crawl[c] EXCEPT !.at = "stored"] \in CrawlTask
    BY <2>1 DEF CrawlTask
  <2>3. crawl' = [crawl EXCEPT ![c] = [crawl[c] EXCEPT !.at = "stored"]]
    BY DEF PutText, Typed, TypeOK
  <2> QED
    BY <2>2, <2>3 DEF Typed, TypeOK
<1> QED
    BY <1>2, <1>3 DEF PutText

(* A commit makes one row pending and describes with it the version in the *)
(* task's hands; the row is torn or not as its blob is now.                *)
Commit(d, ver) ==
    /\ doc' = [doc EXCEPT ![d] = ver]
    /\ state' = [state EXCEPT ![d] = "pending"]
    /\ overtaken' = IF InBatch(d) THEN overtaken \cup {d} ELSE overtaken \ {d}
    /\ met' = met \cup Meets(d)
    /\ torn' = IF text[d] < ver THEN torn \cup {d} ELSE torn \ {d}
    /\ crawl' \in [Crawl -> CrawlTask]
    /\ UNCHANGED <<page, text, dupOf, search, pc, task>>

LEMMA CompleteDoes ==
    ASSUME Typed, NEW c \in Crawl, Complete(c)
    PROVE  \E d \in Doc, ver \in Version : Commit(d, ver)
<1>1. crawl[c].at = "stored"
    BY DEF Complete, Commits
<1>2. crawl[c].doc \in Doc /\ crawl[c].ver \in Version
    BY <1>1, UnderWay
<1>3. crawl' \in [Crawl -> CrawlTask]
    BY DEF Complete, Commits, CrawlTask, Typed, TypeOK
<1>4. Commit(crawl[c].doc, crawl[c].ver)
    BY <1>3 DEF Complete, Commits, Commit
<1> QED
    BY <1>2, <1>4

(* Fetching a page and abandoning a task change nothing that indexers see. *)
LEMMA UnseenDoes ==
    ASSUME Typed, NEW c \in Crawl, Abandon(c) \/ \E d \in Doc : FetchPage(c, d)
    PROVE  /\ page' \in [Doc -> Version \cup {None}]
           /\ crawl' \in [Crawl -> CrawlTask]
           /\ UNCHANGED <<text, doc, state, dupOf, search, pc, task, overtaken, met, torn>>
<1>1. CASE Abandon(c)
    BY <1>1 DEF Abandon, CrawlTask, Typed, TypeOK, historyVars
<1>2. ASSUME NEW d \in Doc, FetchPage(c, d)
      PROVE  /\ page' \in [Doc -> Version \cup {None}]
             /\ crawl' \in [Crawl -> CrawlTask]
             /\ UNCHANGED <<text, doc, state, dupOf, search, pc, task, overtaken, met, torn>>
  <2>4. page[d] \in Version \cup {None} /\ LastVersion[d] \in Version
    BY IndexerAssumption DEF Typed, TypeOK
  <2>1. page[d] \in Nat /\ page[d] < LastVersion[d] /\ LastVersion[d] \in 1..MaxVersion
    BY <1>2, <2>4 DEF FetchPage, Version, None
  <2>2. page[d] + 1 \in Version
    BY <2>1, IndexerAssumption DEF Version
  <2>3. [at |-> "fetched", doc |-> d, ver |-> page[d] + 1] \in CrawlTask
    BY <2>2 DEF CrawlTask
  <2> QED
    BY <1>2, <2>2, <2>3 DEF FetchPage, Typed, TypeOK, historyVars
<1> QED
    BY <1>1, <1>2

(* The steps of the crawl side.                                            *)
LEMMA CrawlTyped ==
    ASSUME Typed, NEW c \in Crawl, Crawls(c)
    PROVE  Typed'
<1> USE DEF Typed
<1>1. CASE PutText(c)
  <2>1. PICK d \in Doc, ver \in Version :
             /\ text' = [text EXCEPT ![d] = ver]
             /\ torn' = IF ver < doc[d] THEN torn \cup {d} ELSE torn
             /\ crawl' \in [Crawl -> CrawlTask]
             /\ UNCHANGED <<page, doc, state, dupOf, search, pc, task, overtaken, met>>
    BY <1>1, PutTextDoes
  <2>2. TypeOK'
    BY <2>1 DEF TypeOK, At
  <2>3. RowsExist'
    BY <2>1 DEF TypeOK, RowsExist, InBatch, At, Version, None
  <2> QED
    BY <2>2, <2>3
<1>2. CASE Complete(c)
  <2>1. PICK d \in Doc, ver \in Version : Commit(d, ver)
    BY <1>2, CompleteDoes
  <2>2. Meets(d) \in SUBSET SUBSET Doc
    BY DEF Meets
  <2>3. TypeOK'
    BY <2>1, <2>2 DEF TypeOK, Commit, At, States
  <2>4. RowsExist'
    BY <2>1 DEF TypeOK, Commit, RowsExist, InBatch, At, Version, None
  <2> QED
    BY <2>3, <2>4
<1>3. CASE Abandon(c) \/ \E d \in Doc : FetchPage(c, d)
    BY <1>3, UnseenDoes DEF TypeOK, RowsExist, InBatch, At
<1> QED
    BY <1>1, <1>2, <1>3 DEF Crawls

(* The steps of an indexer.                                                *)
LEMMA IndexerTyped ==
    ASSUME Typed, NEW i \in Indexer, Start(i) \/ Progress(i) \/ BatchFails(i) \/ Stop(i)
    PROVE  Typed'
<1> USE DEF Typed
<1>1. ASSUME NEW S \in SUBSET Doc, Fetch(i, S) PROVE Typed'
  <2>6. BatchBegins(i, S)
    BY <1>1, FetchDoes
  <2>3. \A j \in Indexer, d \in Doc : task'[j][d].at # "out" =>
            /\ pc'[j] \in {"work", "added", "dupped", "failing"}
            /\ task'[j][d].row # None
    BY <2>6 DEF BatchBegins, TypeOK, At
  <2>4. \A j \in Indexer, d \in Doc :
            pc'[j] \in {"added", "dupped"} => task'[j][d].at \in {"out", "payload", "dup"}
    BY <2>6 DEF BatchBegins, TypeOK
  <2>5. pc' \in [Indexer -> {"down", "idle", "work", "added", "dupped", "failing"}]
    BY <2>6 DEF BatchBegins, TypeOK
  <2>1. TypeOK'
    BY <2>3, <2>4, <2>5, <2>6 DEF BatchBegins, TypeOK, At, crawlVars, historyVars
  <2>2. RowsExist'
    BY <2>6 DEF BatchBegins, RowsExist, InBatch, At, crawlVars, historyVars
  <2> QED
    BY <2>1, <2>2
<1>2. ASSUME NEW d \in Doc, FindNear(i, d) \/ ReadText(i, d) PROVE Typed'
  <2>1. OneMoves(i, d)
    BY <1>2, FindNearDoes, ReadTextDoes
  <2>2. TypeOK'
    BY <2>1 DEF OneMoves, TypeOK, At, crawlVars, historyVars
  <2>3. RowsExist'
    BY <2>1 DEF OneMoves, RowsExist, InBatch, At, crawlVars, historyVars
  <2> QED
    BY <2>2, <2>3
<1>3. CASE AddDocuments(i)
  <2>1. \A d \in Doc : Added(i)[d] \in Entry
    BY DEF TypeOK, Added, Entry, Row
  <2>2. Added(i) \in [Doc -> Entry]
    BY <2>1 DEF Added
  <2>3. TypeOK'
    BY <1>3, <2>2 DEF TypeOK, AddDocuments, Processed, crawlVars, historyVars, At
  <2>4. RowsExist'
    BY <1>3 DEF RowsExist, AddDocuments, InBatch, At, crawlVars, historyVars
  <2> QED
    BY <2>3, <2>4
<1>4. CASE MarkDuplicates(i)
  <2>1. TypeOK'
    BY <1>4 DEF TypeOK, MarkDuplicates, crawlVars, historyVars, At, Row, States
  <2>2. RowsExist'
    BY <1>4 DEF RowsExist, MarkDuplicates, InBatch, At, crawlVars, historyVars
  <2> QED
    BY <2>1, <2>2
<1>5. CASE MarkIndexed(i) \/ MarkFailed(i) \/ Stop(i)
  <2>1. BatchEnds(i)
    BY <1>5, EndDoes
  <2>2. state' \in [Doc -> States]
    BY <1>5 DEF MarkIndexed, Indexed, MarkFailed, Stop, TypeOK, States
  <2>3. \A d \in Doc : state'[d] # "none" => state[d] # "none" \/ InBatch(d)
    BY <1>5 DEF MarkIndexed, Indexed, MarkFailed, Stop, InBatch, At, TypeOK
  <2>6. pc' \in [Indexer -> {"down", "idle", "work", "added", "dupped", "failing"}]
    BY <2>1 DEF BatchEnds, TypeOK
  <2>7. \A j \in Indexer : j # i => pc'[j] = pc[j]
    BY <2>1 DEF BatchEnds, TypeOK
  <2>4. TypeOK'
    BY <2>1, <2>2, <2>6, <2>7 DEF BatchEnds, TypeOK, At, crawlVars, historyVars
  <2>5. RowsExist'
    BY <2>1, <2>3 DEF BatchEnds, RowsExist, InBatch, At, crawlVars, historyVars
  <2> QED
    BY <2>4, <2>5
<1>6. CASE Start(i) \/ BatchFails(i)
  <2>0. /\ state' \in [Doc -> States]
        /\ \A d \in Doc : state'[d] # "none" => state[d] # "none" \/ InBatch(d)
    BY <1>6 DEF Start, BatchFails, Indexed, TypeOK, States, InBatch, At
  <2>3. /\ pc' \in [Indexer -> {"down", "idle", "work", "added", "dupped", "failing"}]
        /\ \A j \in Indexer : \/ pc'[j] = pc[j]
                              \/ pc[j] = "down" /\ pc'[j] = "idle"
                              \/ pc'[j] = "failing"
    BY <1>6 DEF Start, BatchFails, TypeOK
  <2>4. UNCHANGED <<page, crawl, text, doc, dupOf, search, task, overtaken, met, torn>>
    BY <1>6 DEF Start, BatchFails, crawlVars, historyVars
  <2>1. TypeOK'
    BY <2>0, <2>3, <2>4 DEF TypeOK, At
  <2>2. RowsExist'
    BY <1>6, <2>0 DEF Start, BatchFails, RowsExist, InBatch, At, crawlVars, historyVars
  <2> QED
    BY <2>1, <2>2
<1> QED
    BY <1>1, <1>2, <1>3, <1>4, <1>5, <1>6 DEF Progress

(* Every reachable state is typed, and works on rows that exist.           *)
LEMMA TypedAlways == Spec => []Typed
<1>1. Typed /\ [Next]_vars => Typed'
  <2> SUFFICES ASSUME Typed, [Next]_vars PROVE Typed'
    OBVIOUS
  <2>1. CASE UNCHANGED vars
    BY <2>1 DEF vars, crawlVars, historyVars, Typed, TypeOK, RowsExist, InBatch, At
  <2> QED
    BY <2>1, CrawlTyped, IndexerTyped DEF Next, Crawls
<1> QED
    BY InitTyped, <1>1, PTL DEF Spec

(* Each variable keeps its type: in particular a batch is open only        *)
(* between its fetch and its mark, on rows that were once committed.       *)
THEOREM IndexerTypes == Spec => []TypeOK
BY TypedAlways, PTL DEF Typed

-----------------------------------------------------------------------------
(* The steps of the crawl side keep what is fresh fresh: a commit either   *)
(* overtakes the batches on its row, or meets none and makes it pending.   *)
LEMMA CrawlFresh ==
    ASSUME Typed, Fresh, NEW c \in Crawl, Crawls(c)
    PROVE  Fresh'
<1>1. CASE PutText(c)
  <2>1. torn \subseteq torn' /\ UNCHANGED <<doc, state, search, pc, task, overtaken>>
    BY <1>1, PutTextDoes
  <2> QED
    BY <2>1 DEF Fresh, Found, At
<1>2. CASE Complete(c)
  <2>0. PICK d \in Doc, ver \in Version : Commit(d, ver)
    BY <1>2, CompleteDoes
  <2>1. \A e \in Doc : e # d => /\ doc'[e] = doc[e] /\ state'[e] = state[e]
                                /\ e \in overtaken' <=> e \in overtaken
                                /\ e \in torn' <=> e \in torn
    BY <2>0 DEF Commit, Typed, TypeOK
  <2>2. d \notin overtaken' => ~InBatch(d) /\ state'[d] = "pending"
    BY <2>0 DEF Commit, Typed, TypeOK
  <2>3. UNCHANGED <<search, pc, task>>
    BY <2>0 DEF Commit
  <2> QED
    BY <2>1, <2>2, <2>3 DEF Fresh, Found, At, InBatch
<1>3. CASE Abandon(c) \/ \E d \in Doc : FetchPage(c, d)
    BY <1>3, UnseenDoes DEF Fresh, Found, At
<1> QED
    BY <1>1, <1>2, <1>3 DEF Crawls

(* So do the steps of an indexer, with what it puts into the index.        *)
LEMMA IndexerFresh ==
    ASSUME Typed, Fresh, NEW i \in Indexer, Start(i) \/ Progress(i) \/ BatchFails(i) \/ Stop(i)
    PROVE  Fresh'
<1>1. ASSUME NEW S \in SUBSET Doc, Fetch(i, S) PROVE Fresh'
  <2>1. BatchBegins(i, S)
    BY <1>1, FetchDoes
  <2>2. \A d \in Doc : task'[i][d].at \in {"out", "todo"}
    BY <2>1 DEF BatchBegins
  <2> QED
    BY <2>1, <2>2 DEF BatchBegins, Fresh, Found, At, crawlVars, historyVars, Typed, TypeOK
<1>2. ASSUME NEW d \in Doc, FindNear(i, d) \/ ReadText(i, d) PROVE Fresh'
  <2>1. OneMoves(i, d) /\ (task'[i][d].at = "payload" => task'[i][d].text = text[d])
    BY <1>2, FindNearDoes, ReadTextDoes
  <2>2. d \notin torn => text[d] >= doc[d]
    BY DEF Typed, TypeOK, RowsExist, Version, None
  <2> QED
    BY <2>1, <2>2 DEF OneMoves, Fresh, Found, At, crawlVars, historyVars
<1>3. CASE AddDocuments(i)
  <2>1. \A d \in Doc : search'[d] =
            IF task[i][d].at = "payload" THEN [row |-> task[i][d].row, text |-> task[i][d].text]
                                         ELSE search[d]
    BY <1>3 DEF AddDocuments, Added, At
  <2>2. \A j \in Indexer : j # i => pc'[j] = pc[j]
    BY <1>3 DEF AddDocuments, Typed, TypeOK
  <2>3. UNCHANGED <<doc, state, task, overtaken, torn>>
    BY <1>3 DEF AddDocuments, crawlVars, historyVars
  <2>4. \A d \in Doc \ overtaken :
            Found(d) \/ task[i][d].at = "payload" =>
                /\ search'[d].row = doc[d]
                /\ d \notin torn => search'[d].text >= doc[d]
    <3> SUFFICES ASSUME NEW d \in Doc \ overtaken, Found(d) \/ task[i][d].at = "payload"
                 PROVE  /\ search'[d].row = doc[d]
                        /\ d \notin torn => search'[d].text >= doc[d]
        OBVIOUS
    <3>1. CASE task[i][d].at = "payload"
      <4>1. task[i][d].row = doc[d] /\ (d \notin torn => task[i][d].text >= doc[d])
        BY <3>1 DEF Fresh, At
      <4>2. search'[d] = [row |-> task[i][d].row, text |-> task[i][d].text]
        BY <2>1, <3>1
      <4> QED
        BY <4>1, <4>2
    <3>2. CASE task[i][d].at # "payload"
      <4>1. search'[d] = search[d]
        BY <2>1, <3>2
      <4> QED
        BY <3>2, <4>1 DEF Found
    <3> QED
        BY <3>1, <3>2
  <2> QED
    BY <2>2, <2>3, <2>4 DEF Fresh, Found, At
<1>4. CASE MarkDuplicates(i)
  <2>1. \A d \in Doc : state'[d] = "indexed" => state[d] = "indexed"
    BY <1>4 DEF MarkDuplicates
  <2>2. \A j \in Indexer : pc'[j] = pc[j] \/ pc[j] = "added"
    BY <1>4 DEF MarkDuplicates, Typed, TypeOK
  <2>3. UNCHANGED <<doc, search, task, overtaken, torn>>
    BY <1>4 DEF MarkDuplicates, crawlVars, historyVars
  <2> QED
    BY <2>1, <2>2, <2>3 DEF Fresh, Found, At
<1>5. CASE MarkIndexed(i) \/ MarkFailed(i) \/ Stop(i)
  <2>1. BatchEnds(i)
    BY <1>5, EndDoes
  <2>2. \A d \in Doc : state'[d] = "indexed" =>
            state[d] = "indexed" \/ (At(i, d, "payload") /\ pc[i] = "dupped")
    BY <1>5 DEF MarkIndexed, Indexed, MarkFailed, Stop
  <2>3. \A j \in Indexer : j # i => pc'[j] = pc[j]
    BY <2>1 DEF BatchEnds, Typed, TypeOK
  <2> QED
    BY <2>1, <2>2, <2>3 DEF BatchEnds, Fresh, Found, At, crawlVars, historyVars
<1>6. CASE Start(i) \/ BatchFails(i)
  <2>1. \A j \in Indexer : pc'[j] \in {"added", "dupped"} => pc'[j] = pc[j]
    BY <1>6 DEF Start, BatchFails, Typed, TypeOK
  <2>2. \A d \in Doc : state'[d] = "indexed" =>
            state[d] = "indexed" \/ (At(i, d, "payload") /\ pc[i] = "dupped")
    BY <1>6 DEF Start, BatchFails, Indexed
  <2>3. UNCHANGED <<doc, search, task, overtaken, torn>>
    BY <1>6 DEF Start, BatchFails, crawlVars, historyVars
  <2> QED
    BY <2>1, <2>2, <2>3 DEF Fresh, Found, At
<1> QED
    BY <1>1, <1>2, <1>3, <1>4, <1>5, <1>6 DEF Progress

(* A row marked indexed is found under what the row says, unless a commit  *)
(* came while a batch was open on it, and with no older text, unless the   *)
(* row's own blob was older: whatever tasks and indexers share the row.    *)
THEOREM IndexedIsFound == Spec => []IndexedNotBehind
<1>1. Init => Fresh
    BY DEF Init, Fresh, At, NoBatch, Out
<1>2. Typed /\ Fresh /\ [Next]_vars => Fresh'
  <2> SUFFICES ASSUME Typed, Fresh, [Next]_vars PROVE Fresh'
    OBVIOUS
  <2>1. CASE UNCHANGED vars
    BY <2>1 DEF vars, crawlVars, historyVars, Fresh, Found, At
  <2> QED
    BY <2>1, CrawlFresh, IndexerFresh DEF Next, Crawls
<1>3. Fresh => IndexedNotBehind
    BY DEF Fresh, Found, IndexedNotBehind
<1> QED
    BY <1>1, <1>2, <1>3, TypedAlways, PTL DEF Spec

-----------------------------------------------------------------------------
(* Nothing but a commit unsettles a row, and nothing but the mark of its   *)
(* batch suppresses it.                                                    *)
LEMMA IndexerSettles ==
    ASSUME Typed, NEW i \in Indexer, Start(i) \/ Progress(i) \/ BatchFails(i) \/ Stop(i)
    PROVE  /\ met' = met
           /\ \A d \in Doc : Unsettled(d)' => Unsettled(d)
           /\ \A d, e \in Doc : SuppressedFor(d, e)' => SuppressedFor(d, e) \/ InBatch(d)
<1> USE DEF Unsettled, SuppressedFor, InBatch, At
<1>1. ASSUME NEW S \in SUBSET Doc, Fetch(i, S)
      PROVE  /\ met' = met /\ UNCHANGED <<state, dupOf>>
             /\ \A d \in Doc : Unsettled(d)' => Unsettled(d)
  <2>1. BatchBegins(i, S)
    BY <1>1, FetchDoes
  <2> QED
    BY <2>1 DEF BatchBegins, historyVars
<1>2. ASSUME NEW d \in Doc, FindNear(i, d) \/ ReadText(i, d)
      PROVE  /\ met' = met /\ UNCHANGED <<state, dupOf>>
             /\ \A e \in Doc : Unsettled(e)' => Unsettled(e)
  <2>1. OneMoves(i, d)
    BY <1>2, FindNearDoes, ReadTextDoes
  <2> QED
    BY <2>1 DEF OneMoves, historyVars
<1>3. CASE AddDocuments(i) \/ Start(i) \/ BatchFails(i)
  <2>1. \A d \in Doc : state'[d] \in {"pending", "suppressed"} => state'[d] = state[d]
    BY <1>3 DEF AddDocuments, Start, BatchFails, Indexed
  <2> QED
    BY <1>3, <2>1 DEF AddDocuments, Start, BatchFails, historyVars
<1>4. CASE MarkDuplicates(i)
    BY <1>4 DEF MarkDuplicates, historyVars
<1>5. CASE MarkIndexed(i) \/ MarkFailed(i) \/ Stop(i)
  <2>1. BatchEnds(i)
    BY <1>5, EndDoes
  <2>2. \A d \in Doc : state'[d] \in {"pending", "suppressed"} => state'[d] = state[d]
    BY <1>5 DEF MarkIndexed, Indexed, MarkFailed, Stop
  <2> QED
    BY <2>1, <2>2 DEF BatchEnds, historyVars
<1> HIDE DEF Unsettled, SuppressedFor
<1>6. ASSUME UNCHANGED <<state, dupOf>>
      PROVE  \A d, e \in Doc : SuppressedFor(d, e)' => SuppressedFor(d, e)
    BY <1>6 DEF SuppressedFor
<1> QED
    BY <1>1, <1>2, <1>3, <1>4, <1>5, <1>6 DEF Progress

(* Two pages that have not met stay apart.                                 *)
LEMMA CrawlApart ==
    ASSUME Typed, Apart, NEW c \in Crawl, Crawls(c)
    PROVE  Apart'
<1>1. CASE ~Complete(c)
  <2>1. UNCHANGED <<state, dupOf, task, met>>
    BY <1>1, PutTextDoes, UnseenDoes DEF Crawls
  <2> QED
    BY <2>1 DEF Apart, Met, Unsettled, SuppressedFor, InBatch, At
<1>2. CASE Complete(c)
  <2>0. PICK d \in Doc, ver \in Version : Commit(d, ver)
    BY <1>2, CompleteDoes
  <2>1. \A e \in Doc : e # d /\ (Unsettled(e) \/ SuppressedFor(e, d)) => Met(d, e)'
    BY <2>0 DEF Commit, Meets, Met
  <2>2. \A a, b \in Doc : Met(a, b) => Met(a, b)'
    BY <2>0 DEF Commit, Met
  <2>3. \A e \in Doc : Met(d, e)' = Met(e, d)'
    BY DEF Met
  <2>4. \A e \in Doc : e # d => (Unsettled(e)' <=> Unsettled(e))
    BY <2>0 DEF Commit, Unsettled, InBatch, At
  <2>5. \A e, g \in Doc : e # d => (SuppressedFor(e, g)' <=> SuppressedFor(e, g))
    BY <2>0 DEF Commit, SuppressedFor
  <2>6. \A e \in Doc : ~SuppressedFor(d, e)'
    BY <2>0 DEF Commit, SuppressedFor, Typed, TypeOK
  <2> SUFFICES ASSUME NEW a \in Doc, NEW b \in Doc, a # b, ~Met(a, b)'
               PROVE  /\ ~(Unsettled(a) /\ Unsettled(b))'
                      /\ ~(Unsettled(a) /\ SuppressedFor(b, a))'
                      /\ ~(SuppressedFor(a, b) /\ SuppressedFor(b, a))'
    BY DEF Apart
  <2>7. ~Met(a, b)
    BY <2>2
  <2> QED
    BY <2>1, <2>3, <2>4, <2>5, <2>6, <2>7 DEF Apart
<1> QED
    BY <1>1, <1>2

LEMMA IndexerApart ==
    ASSUME Typed, Apart, NEW i \in Indexer, Start(i) \/ Progress(i) \/ BatchFails(i) \/ Stop(i)
    PROVE  Apart'
<1> SUFFICES ASSUME NEW a \in Doc, NEW b \in Doc, a # b, ~Met(a, b)'
             PROVE  /\ ~(Unsettled(a) /\ Unsettled(b))'
                    /\ ~(Unsettled(a) /\ SuppressedFor(b, a))'
                    /\ ~(SuppressedFor(a, b) /\ SuppressedFor(b, a))'
    BY DEF Apart
<1>1. ~Met(a, b) /\ ~Met(b, a)
    BY IndexerSettles DEF Met
<1>2. /\ Unsettled(a)' => Unsettled(a)
      /\ Unsettled(b)' => Unsettled(b)
      /\ SuppressedFor(a, b)' => SuppressedFor(a, b) \/ Unsettled(a)
      /\ SuppressedFor(b, a)' => SuppressedFor(b, a) \/ Unsettled(b)
    BY IndexerSettles DEF Unsettled
<1> QED
    BY <1>1, <1>2 DEF Apart

(* Two pages that are suppressed as duplicates of each other have met: one *)
(* was committed while the other was unsettled, or suppressed for it.      *)
THEOREM MutualHaveMet == Spec => []MutualOnlyWhenMet
<1>1. Init => Apart
    BY DEF Init, Apart, Unsettled, SuppressedFor, InBatch, At, NoBatch, Out
<1>2. Typed /\ Apart /\ [Next]_vars => Apart'
  <2> SUFFICES ASSUME Typed, Apart, [Next]_vars PROVE Apart'
    OBVIOUS
  <2>1. CASE UNCHANGED vars
    BY <2>1 DEF vars, historyVars, Apart, Met, Unsettled, SuppressedFor, InBatch, At
  <2> QED
    BY <2>1, CrawlApart, IndexerApart DEF Next, Crawls
<1>3. Apart => MutualOnlyWhenMet
    BY DEF Apart, Met, MutualOnlyWhenMet
<1> QED
    BY <1>1, <1>2, <1>3, TypedAlways, PTL DEF Spec
=============================================================================
