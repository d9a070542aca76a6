--------------------------- MODULE ScrapePipeline ---------------------------
(***************************************************************************)
(* The scraper: a second work queue, of the targets of scrape specs, and   *)
(* ScrapeWorker._handle over it, step by step: the spec read again, the    *)
(* fetch, the raw blob, the commit of complete_scrape(), the links fed to  *)
(* the crawl frontier.  It meets an operator who deactivates specs while   *)
(* their targets are in flight, a crawler that enrols the pages it has     *)
(* done, and the crawler's blobs, whose keys are made of the host and a    *)
(* row id too, from another sequence.                                      *)
(* The queue is TaskQueue: its rows are claimed, settled and reaped by the *)
(* twins of the crawl queue's statements.  Content is a version number of  *)
(* the target's page; 0 stands for nothing stored.                         *)
(* Left out: register_spec() on a spec that has targets, and the answer of *)
(* policy_for(), which _handle never looks at.                             *)
(***************************************************************************)
EXTENDS Integers, FiniteSets

CONSTANTS Target, Worker, DomainOf, BatchSize, MaxFailures,
          ScrapeSpec, SpecOf,  \* scrape_specs, and the spec of a target
          Page, PageOf,  \* normalized urls, and the one of a target
          Always,        \* specs with render_mode = 'always'
          Renderer,      \* workers of a process started without --no-render
          FeedTo,        \* specs with feed_to_crawler
          FeedFrom,      \* specs with feed_from_crawler
          Clash,         \* targets with the id of a crawl row on their host
          LinksOf,       \* the values of link_field in each version
          MaxVersion,    \* the versions of any page,
          LastVersion    \* and how many of them each target's goes through

Version == 1..MaxVersion
None == 0
Foreign == MaxVersion + 1  \* the content of another page

ASSUME ScrapeAssumption ==
    /\ IsFiniteSet(Target)
    /\ IsFiniteSet(Worker)
    /\ DomainOf \in [Target -> Nat]
    /\ BatchSize \in Nat \ {0}
    /\ MaxFailures \in Nat \ {0}
    /\ SpecOf \in [Target -> ScrapeSpec]
    /\ PageOf \in [Target -> Page]
    /\ Always \subseteq ScrapeSpec
    /\ FeedTo \subseteq ScrapeSpec
    /\ FeedFrom \subseteq ScrapeSpec
    /\ Renderer \subseteq Worker
    /\ Clash \subseteq Target
    /\ MaxVersion \in Nat \ {0}
    /\ LastVersion \in [Target -> Version]
    /\ LinksOf \in [Target -> [Version -> SUBSET Page]]

VARIABLES status, failures, held,  \* of TaskQueue
          active,   \* is_active of the specs
          page,     \* the version that the site serves
          task,     \* where each worker is with its task on a target, and the
                    \* version it holds: of the ETag first, then of the fetch
          raw,      \* the blob under the target's raw key
          record,   \* the version that the scraped_records row was taken from
          urls,     \* the pages that have a row in the crawl frontier
          edges,    \* the links table
          caught,   \* history: targets in flight when their spec was deactivated
          lost,     \* history: targets skipped as spec_inactive
          shared,   \* history: targets claimed while a task was open on them
          clashed,  \* history: targets whose blob the crawler wrote last
          cut       \* history: targets with a task that ended before its feed

queueVars == <<status, failures, held>>
storeVars == <<raw, record, clashed>>
feedVars == <<urls, edges, cut>>
pauseVars == <<active, caught>>
vars == <<queueVars, storeVars, feedVars, pauseVars, page, task, lost, shared>>

Queue == INSTANCE TaskQueue WITH Item <- Target

NoTask == [at |-> "none", ver |-> None]
At(w, t, stage) == task[w][t].at = stage
Moves(w, t, stage, ver) ==
    task' = [task EXCEPT ![w][t] = [at |-> stage, ver |-> ver]]
Ends(w, t) == task' = [task EXCEPT ![w][t] = NoTask]
InFlight(t) == \E w \in Worker : t \in held[w]

Init ==
    /\ Queue!Init
    /\ active = [s \in ScrapeSpec |-> TRUE]
    /\ page = [t \in Target |-> 1]
    /\ task = [w \in Worker |-> [t \in Target |-> NoTask]]
    /\ raw = [t \in Target |-> None]
    /\ record = [t \in Target |-> None]
    /\ urls = {}
    /\ edges = {}
    /\ caught = {}
    /\ lost = {}
    /\ shared = {}
    /\ clashed = {}
    /\ cut = {}

-----------------------------------------------------------------------------
(* Around the workers: the site, the operator's commands, the crawler, and *)
(* the reaper.  submit_scrape_targets() does not ask whether the spec is   *)
(* active; enroll_scrape_targets() takes the active ones that are fed.     *)
Publish(t) ==
    /\ page[t] < LastVersion[t]
    /\ page' = [page EXCEPT ![t] = @ + 1]
    /\ UNCHANGED <<queueVars, storeVars, feedVars, pauseVars, task, lost, shared>>

SetActive(s, yes) ==
    /\ active[s] # yes
    /\ active' = [active EXCEPT ![s] = yes]
    /\ caught' = IF yes THEN caught
                 ELSE caught \cup {t \in Target : SpecOf[t] = s /\ InFlight(t)}
    /\ UNCHANGED <<queueVars, storeVars, feedVars, page, task, lost, shared>>

Submit(s, S) ==
    /\ \A t \in S : SpecOf[t] = s
    /\ Queue!Enqueue(S)
    /\ UNCHANGED <<storeVars, feedVars, pauseVars, page, task, lost, shared>>

Seed(p) ==
    /\ p \notin urls
    /\ urls' = urls \cup {p}
    /\ UNCHANGED <<queueVars, storeVars, edges, cut, pauseVars, page, task, lost, shared>>

Fed(p) ==
    {t \in Target : /\ PageOf[t] = p
                    /\ SpecOf[t] \in FeedFrom
                    /\ active[SpecOf[t]]
                    /\ Queue!Fresh(t)}
Enroll(p) ==
    /\ p \in urls
    /\ Queue!Enqueue(Fed(p))
    /\ UNCHANGED <<storeVars, feedVars, pauseVars, page, task, lost, shared>>

CrawlerPutRaw(t) ==
    /\ t \in Clash
    /\ raw' = [raw EXCEPT ![t] = Foreign]
    /\ clashed' = clashed \cup {t}
    /\ UNCHANGED <<queueVars, record, feedVars, pauseVars, page, task, lost, shared>>

Reap(S) ==
    /\ Queue!Reap(S)
    /\ UNCHANGED <<storeVars, feedVars, pauseVars, page, task, lost, shared>>

-----------------------------------------------------------------------------
(* claim_scrape_targets: is_active of the specs gates it, in the one       *)
(* statement, and nothing else of the domain does.                         *)
Anything(S) == TRUE  \* mutant: no AND s.is_active
Claimable(S) == \A t \in S : active[SpecOf[t]]

Claim(w, S) ==
    /\ \A t \in Target : At(w, t, "none")
    /\ Claimable(S)
    /\ Queue!Claim(w, S)
    /\ task' = [task EXCEPT ![w] =
                   [t \in Target |-> IF t \in S THEN [at |-> "spec", ver |-> record[t]]
                                                ELSE @[t]]]
    /\ shared' = shared \cup {t \in S : InFlight(t)}
    /\ UNCHANGED <<storeVars, feedVars, pauseVars, page, lost>>

(* get_scrape_spec(): is_active is read again, and a spec that asks for a  *)
(* renderer is not fetched without one.                                    *)
ReadSpec(w, t) ==
    /\ At(w, t, "spec")
    /\ Moves(w, t, IF ~active[SpecOf[t]] THEN "inactive"
                   ELSE IF SpecOf[t] \in Always /\ w \notin Renderer THEN "skip"
                   ELSE "fetch", task[w][t].ver)
    /\ UNCHANGED <<queueVars, storeVars, feedVars, pauseVars, page, lost, shared>>

(* _fetch and the extraction: the page's current version, or no content,   *)
(* or a failure; a 304 answers the conditional request of a static fetch.  *)
Fetch(w, t) ==
    /\ At(w, t, "fetch")
    /\ \/ Moves(w, t, "store", page[t])
       \/ /\ task[w][t].ver = page[t]
          /\ SpecOf[t] \notin Always
          /\ Moves(w, t, "unchanged", None)
       \/ Moves(w, t, "skip", None)
       \/ Moves(w, t, "failed", None)
    /\ UNCHANGED <<queueVars, storeVars, feedVars, pauseVars, page, lost, shared>>

(* The outcomes without a record.                                          *)
Settle(w, t) ==
    /\ \/ At(w, t, "unchanged") /\ Queue!Finish(w, t) /\ UNCHANGED lost
       \/ At(w, t, "skip") /\ Queue!Skip(w, t) /\ UNCHANGED lost
       \/ At(w, t, "inactive") /\ Queue!Skip(w, t) /\ lost' = lost \cup {t}
       \/ At(w, t, "failed") /\ Queue!Fail(w, t) /\ UNCHANGED lost
    /\ Ends(w, t)
    /\ UNCHANGED <<storeVars, feedVars, pauseVars, page, shared>>

\* Mutant: the blob is kept if there is one.
PutRawOnce(w, t) ==
    /\ At(w, t, "store")
    /\ raw' = [raw EXCEPT ![t] = IF @ = None THEN task[w][t].ver ELSE @]
    /\ clashed' = clashed \ {t}
    /\ Moves(w, t, "commit", task[w][t].ver)
    /\ UNCHANGED <<queueVars, record, feedVars, pauseVars, page, lost, shared>>

PutRaw(w, t) ==
    /\ At(w, t, "store")
    /\ raw' = [raw EXCEPT ![t] = task[w][t].ver]
    /\ clashed' = clashed \ {t}
    /\ Moves(w, t, "commit", task[w][t].ver)
    /\ UNCHANGED <<queueVars, record, feedVars, pauseVars, page, lost, shared>>

(* The put raises before the object is stored, or after: STORAGE_ERROR.    *)
PutFails(w, t) ==
    /\ At(w, t, "store")
    /\ \/ UNCHANGED <<raw, clashed>>
       \/ /\ raw' = [raw EXCEPT ![t] = task[w][t].ver]
          /\ clashed' = clashed \ {t}
    /\ Moves(w, t, "failed", None)
    /\ UNCHANGED <<queueVars, record, feedVars, pauseVars, page, lost, shared>>

(* complete_scrape(): the target and its record in one transaction.        *)
Links(w, t) == LinksOf[t][task[w][t].ver]
Feeds(w, t) == SpecOf[t] \in FeedTo /\ Links(w, t) # {}

Complete(w, t) ==
    /\ At(w, t, "commit")
    /\ Queue!Finish(w, t)
    /\ record' = [record EXCEPT ![t] = task[w][t].ver]
    /\ IF Feeds(w, t) THEN Moves(w, t, "origin", task[w][t].ver) ELSE Ends(w, t)
    /\ UNCHANGED <<raw, clashed, feedVars, pauseVars, page, lost, shared>>

(* feed_links_to_crawler(): a row for the target's own page, and then, in  *)
(* a second transaction, add() with depth 0.                               *)
\* Mutant: the origin is taken to have a row, as a crawled page has.
NoOriginRow(w, t) ==
    /\ At(w, t, "origin")
    /\ Moves(w, t, "links", task[w][t].ver)
    /\ UNCHANGED <<queueVars, storeVars, feedVars, pauseVars, page, lost, shared>>

FeedOrigin(w, t) ==
    /\ At(w, t, "origin")
    /\ urls' = urls \cup {PageOf[t]}
    /\ Moves(w, t, "links", task[w][t].ver)
    /\ UNCHANGED <<queueVars, storeVars, edges, cut, pauseVars, page, lost, shared>>

\* Mutant: edges to the rows that add() inserted only.
NewEdges(p, links) == {p} \X (links \ urls)
AllEdges(p, links) == {p} \X links
FeedLinks(w, t) ==
    /\ At(w, t, "links")
    /\ urls' = urls \cup Links(w, t)
    /\ edges' = edges \cup AllEdges(PageOf[t], Links(w, t))
    /\ Ends(w, t)
    /\ UNCHANGED <<queueVars, storeVars, cut, pauseVars, page, lost, shared>>

(* A task ends where it stands: a query that raises, an extractor that     *)
(* does (a bad selector, a document lxml refuses), a cancellation, a crash.*)
(* The second statement of claim_scrape() failing is all tasks ending.     *)
Drop(w, t) ==
    /\ ~At(w, t, "none")
    /\ IF t \in held[w] THEN Queue!Drop(w, {t}) ELSE UNCHANGED queueVars
    /\ cut' = IF task[w][t].at \in {"origin", "links"} THEN cut \cup {t} ELSE cut
    /\ Ends(w, t)
    /\ UNCHANGED <<storeVars, urls, edges, pauseVars, page, lost, shared>>

Handle(w, t) ==
    \/ ReadSpec(w, t) \/ Fetch(w, t)    \/ Settle(w, t)     \/ PutRaw(w, t)
    \/ PutFails(w, t) \/ Complete(w, t) \/ FeedOrigin(w, t) \/ FeedLinks(w, t)
    \/ Drop(w, t)

Next ==
    \/ \E t \in Target : Publish(t) \/ CrawlerPutRaw(t)
    \/ \E s \in ScrapeSpec, yes \in BOOLEAN : SetActive(s, yes)
    \/ \E s \in ScrapeSpec, S \in SUBSET Target : Submit(s, S)
    \/ \E p \in Page : Seed(p) \/ Enroll(p)
    \/ \E S \in SUBSET Target : Reap(S)
    \/ \E w \in Worker : \E S \in SUBSET Target : Claim(w, S)
    \/ \E w \in Worker, t \in Target : Handle(w, t)

Spec == Init /\ [][Next]_vars
-----------------------------------------------------------------------------
(* The variables have their types, and the queue counts a task as open     *)
(* until complete_scrape() has committed.                                  *)
OpenStages == {"spec", "inactive", "skip", "fetch", "unchanged", "failed", "store", "commit"}
Stages == OpenStages \cup {"none", "origin", "links"}
Status == {"absent", "pending", "leased", "done", "failed", "skipped"}
TypeOK ==
    /\ status \in [Target -> Status]
    /\ failures \in [Target -> Nat]
    /\ held \in [Worker -> SUBSET Target]
    /\ active \in [ScrapeSpec -> BOOLEAN]
    /\ page \in [Target -> Version]
    /\ task \in [Worker -> [Target -> [at : Stages, ver : Version \cup {None}]]]
    /\ raw \in [Target -> Version \cup {None, Foreign}]
    /\ record \in [Target -> Version \cup {None}]
    /\ urls \in SUBSET Page
    /\ edges \in SUBSET (urls \X urls)
    /\ caught \in SUBSET Target
    /\ lost \in SUBSET Target
    /\ shared \in SUBSET Target
    /\ clashed \in SUBSET Clash
    /\ cut \in SUBSET Target
    /\ \A w \in Worker, t \in Target : task[w][t].at \in OpenStages <=> t \in held[w]
    /\ \A w \in Worker, t \in Target :
          task[w][t].at \in {"store", "commit", "origin", "links"} => task[w][t].ver # None

(* Deactivating a spec loses no target but those that were in a worker's   *)
(* hands at that moment: whatever is submitted, enrolled, reaped or        *)
(* activated again meanwhile, no other target is ever skipped for it.      *)
LostOnlyInFlight == lost \subseteq caught

(* The raw blob of a record is the page the record was extracted from,     *)
(* unless the target was once in the hands of two workers, or the crawler  *)
(* stored a page of its own under the same key since.                      *)
BlobMatches ==
    \A t \in Target \ (shared \cup clashed) : record[t] # None => raw[t] = record[t]

(* The links of a record that its spec feeds to the crawler are in the     *)
(* graph or about to be; they get lost only with a task that ended between *)
(* its commit and the end of its feed.                                     *)
FeedKept ==
    \A t \in Target \ cut :
        record[t] # None /\ SpecOf[t] \in FeedTo =>
            \A p \in LinksOf[t][record[t]] :
                \/ <<PageOf[t], p>> \in edges
                \/ \E w \in Worker : task[w][t].at \in {"origin", "links"} /\ p \in Links(w, t)
=============================================================================
