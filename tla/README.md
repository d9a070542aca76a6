# TLA+ models of the crawler

This directory specifies the concurrent core of the crawler and scraper: the
leases of the work queue in Postgres, the table with its clock, the pipelines that
crawl and scrape workers take each page through, the indexers behind them, the row
locks that their transactions share, and the render slots that every process
shares. TLC checks each module on a small instance; TLAPS proves the safety
properties for every value of the constants.

Run in this directory: `tlc -config LeaseQueue.cfg MCLeaseQueue.tla` (and
so on, see "Runs") and `tlapm LeaseQueueProofs.tla`.

## Inventory of the system

| Component | State | Operations | Interacts with |
|---|---|---|---|
| **Work queue** `db/schema.sql` `crawler/frontier.py` | `urls`: status, lease_owner, lease_expires_at, next_crawl_at, attempt_count, consecutive_failures | `claim_urls`, `complete`, `reschedule`, `skip`, `fail`, `reap_expired_leases`, `add`/`seed` | all workers of all crawl processes, the reaper loop of each process and cron |
| **Crawl worker** `crawler/worker.py` | its current batch | claim a batch, `_handle` every task concurrently, wait for the slowest, repeat | queue, policy, fetcher, render pool, object store, discovery, scrape queue |
| **Discovery** `frontier.add`, `seed` | `domains`, `urls`, `links` | upsert domain, insert url, insert edge, count; retry on deadlock | queue; domain row locks shared with `complete` |
| **Domain policy** `crawler/policy.py`, `frontier.policy_for` | `domains.robots_*`, a Redis copy nobody reads | resolve, cache for a day, interpret statuses, clamp the delay | worker (which drops the answer) |
| **Render pool** `crawler/render.py` | one advisory lock per slot in Postgres, a connection pool per process | acquire a slot, render, release; shutdown | every crawl and scrape process |
| **Object store** `crawler/store.py` | blobs under `prefix/shard/host/id` | put, get | workers write, indexer reads |
| **Indexer** `crawler/index.py` `crawler/db.py` | `documents.index_state`, the search index | fetch pending, suppress near-duplicates, index, mark | `complete` sets rows back to pending |
| **Scrape queue and worker** `crawler/scrape_worker.py` | `scrape_specs`, `scrape_targets`, `scraped_records` | the queue's operations gated on an active spec | feeds to and from the crawl queue |
| **Fetch, challenge, extraction, normalization** | none | pure or I/O | worker |
| **CLI** `crawler/cli.py` | process lifecycle | start, stop signal, cancel tasks, close pools, reaper loop | all of the above |

What makes each correct, and what is hard about it:

* *Queue*: a row is with one worker at a time; nothing is stranded when a worker
  dies; retries end; one host gets one request at a time. Hard: outcome
  statements look at nothing but the row id, so a worker that lost its lease
  still writes; the reaper races slow workers.
* *Worker*: a committed row points at stored content; edges of a finished page
  are recorded. Hard: several stores written in steps with crashes between.
* *Discovery*: exact dedup; no deadlock. Hard: lock order between transactions.
* *Policy*: no fetch without an allow; stale answers expire. Hard: the answer is
  computed and not used.
* *Render pool*: the cap holds over processes and no slot is lost. Hard: lost
  sessions, cancellation between acquiring a connection and taking its lock.
* *Indexer*: every document ends up indexed or suppressed in favour of one that
  is. Hard: two indexers, and `complete` between its fetch and its mark.
* *Scrape side*: a deactivated spec stops and loses no target by it; a record and
  its blob agree; fed links arrive. Hard: specs change under tasks in flight, and
  crawler and scraper write the same blob keys and feed each other.

## Modules

| Module | Models | Built on |
|---|---|---|
| `TaskQueue` | what the queue promises its workers, with no clock and no lease columns | — |
| `LeaseQueue` | the lease discipline with abstract time | implements `TaskQueue` |
| `UrlTable` | the same statements with clock values | refines `LeaseQueue` |
| `CrawlPipeline` | `_handle` step by step: fetch, blobs, commit, links | composed with an instance of `TaskQueue` |
| `ScrapePipeline` | the scrape queue's specs and `ScrapeWorker._handle` step by step, both feeds | composed with an instance of `TaskQueue` |
| `Indexer` | indexer processes over `documents`, and the search index | — |
| `DomainLocks` | row locks of `domains`, deadlocks, the retry of `add()` | — |
| `RenderSlots` | advisory-lock slots, lock pools, processes | — |
| `MC*` | the instances for TLC | the module after `MC` |
| `*Proofs` | theorems and proofs | the module before `Proofs` |

The queue stands in three layers: `UrlTable` implements `LeaseQueue`, which
implements `TaskQueue`, and the two pipelines run over `TaskQueue`. So whatever the
clocks of the table do is a behaviour of the queue that the pipelines were checked on.
The same holds of theorems: the proofs of `UrlTable` and of both pipelines end in
the refinement, and take what is proved of the queue below them over by an
`INSTANCE` of its proof module.

### TaskQueue

`status`, `failures` and `held[w]`, the tasks a worker has open. `Reap` takes back any
leased rows and `Claim` any pending rows of different domains: when a lease ends
and when a backoff is over is left to the modules below. The outcome actions
ask for nothing but an open task, as the SQL does. Its properties (`OnePerDomain`,
`RetryBudget`, `RetryOverrun`, `SettledUntilOutcome`) are those of `LeaseQueue` that do
not speak of leases; they hold whichever leases run out and whenever.

### LeaseQueue

A row has the status, owner and retry counter of its columns; its
`lease_expires_at` is only `"null"`, `"running"` or `"expired"`, and `due` is the set
of rows with `next_crawl_at <= now()`. Two variables belong to the workers:
`held[w]`, the tasks of the batch a worker has not settled yet, and `within[w]`,
the leases a worker was granted that its own clock would still count as running.
They differ from the row on purpose: nothing tells a worker that it was reaped.

* `Claim` is `claim_urls` called by `run()` when the last batch is done: the
  lowest `BatchSize` domains with claimable rows, one row of each. `SKIP LOCKED`
  makes which row of a domain (or none) a free choice.
* `Finish`, `Skip` and `Fail` are the outcome statements, with exactly the guard
  the SQL has: the row's id. `Outcome` is a task ending in one of them.
* `Drop` is every way for a task to end without one: an exception that
  `gather(return_exceptions=True)` swallows, a cancellation, a dead process.
* `Elapse` is time passing over some deadlines; `Reap` is `reap_expired_leases`.
* `Enqueue` is the insert of `add` and `seed`, `ON CONFLICT DO NOTHING`.

Each SQL statement is one action: a statement is atomic on the rows it locks, and
outcome statements touch one row of `urls`. `complete` writes three tables in
one transaction; only the `urls` row is in this module.

### UrlTable

The same actions with `now`, deadlines, `next_crawl_at`, backoff
(`2^min(failures, 6)` minutes, with the count before the failure) and
`attempt_count`. `grant[w][u]` is what a worker was told; `claimedAt` is history.
`ImplementsQueue` says that under the mapping `LeaseState`, `DueRows`,
`GrantsWithin` every step is a step of `LeaseQueue` or a stutter, so the theorems
of `LeaseQueue` hold of the table. `claimedAt + LeaseTime < now` is the strict
comparison of the reaper, so a lease still runs at its deadline.

### CrawlPipeline

Every operation on the queue is an action of `Queue`, the instance of `TaskQueue`,
in one step with what the pipeline does in the same statement or transaction.
`task[w][u]` is where a worker is with a row and the version of the page it has
in its hands: first the ETag's, then the fetched body's.

* `Claim` is `run()`: a new batch only when every task of the last one has ended.
* `Fetch` has four outcomes: a body, a 304, a body without content, a failure.
  A 304 is possible only if the ETag's version is still the page's (`Unmodified`).
* `Settle` is `reschedule`, `skip` or `fail`.
* `PutRaw`, `PutText` overwrite the row's two blobs; `PutFails` is a put that raises,
  whether or not the object was stored, and leads to `fail`.
* `ScraperPutRaw` is `ScrapeWorker` storing a record's raw content. Its key is
  `raw/<shard>/<host>/<id>` too, with the id of a scrape target: a row in `Clash` has
  the id of a target on its host, and the blob under its key becomes `Foreign`
  whenever the scraper likes, with no task of the crawler involved.
* `Complete` is the transaction of `complete()`: urls row and documents row.
* `AddLinks` is the transaction of `add()`: rows for unknown links, edges for all. Its
  deadlock retry repeats a transaction that was rolled back, so it is one step;
  a third deadlock is `Drop`.
* `Drop` ends a task anywhere: swallowed exception, cancellation, dead process.

`shared` and `cut` are history: rows claimed while another task was open on them,
and rows with a task that ended between its commit and its `add()`. They name
two circumstances in which the code gives no guarantee, and `Clash` the third, for raw
blobs only; the properties say that there are no others.

### ScrapePipeline

The scraper's queue is a second instance of `TaskQueue`: `claim_scrape_targets`,
`reap_expired_scrape_leases` and the four outcome statements are the twins of the
crawl queue's. On top of it `Claimable` is the `is_active` of the claim, and `ReadSpec`
the second look at the spec, which sends a target of a deactivated spec to
`skip_scrape`. `SetActive`, `Submit`, `Seed` are the operator's commands, `Enroll` is the
crawler's feed, `CrawlerPutRaw` the crawler writing the raw blob of the row that has
the same id on the same host (`Clash`). `Complete` commits target and record;
`FeedOrigin` and `FeedLinks` are the two transactions of
`feed_links_to_crawler()`, the second one `add()` with depth 0.

`caught`, `lost`, `shared`, `clashed` and `cut` are history: targets in flight when their
spec was switched off, targets skipped for that, targets with two tasks at once,
with the crawler's blob under their key, with a task that ended before its feed.

### Indexer

`text[d]` is the blob, `doc[d]` what the row and `urls.simhash` describe, `search[d]` what the
search index has. `FetchPage`, `PutText` and `Complete` are the steps of a crawl task and
`Abandon` its end between them; several tasks may be on one row (a reaped lease makes
two), and each fetch of a page is a version of its own, so their blobs and commits
come in any order, an older one over a newer one included. An indexer
goes `Fetch`, then row by row `FindNear` and `ReadText`, then `AddDocuments`,
`MarkDuplicates`, `MarkIndexed`; `BatchFails` may come anywhere in between, with the call
that raised applied or not, and leads to `MarkFailed`. As in the code, the row lock of the fetch lasts for its statement
only (`LockedRows` are those of a batch on which nothing was done yet), and the
three marks name rows by id, whatever their state is by then. `Stop` is a
process that is killed, told to stop, or whose task died of a query outside its
`try`; `Start` is an operator's `index` command whose Meilisearch has answered.

`overtaken`, `met` and `torn` are history: rows whose last commit came while a batch was
open on them, pairs of pages one of which was committed while the other was
unsettled or already suppressed for it, and rows whose text blob was older than the
row at its last commit or was overwritten by an older one since. `IndexedNotBehind`
promises the row's version for every row not in `overtaken`, and the text of that
version or a later one if the row is not in `torn` either. A row gets into `torn` by two
tasks only, which is `TornOnlyWhenShared` of `CrawlPipeline`.

Simplified: a batch is any of the pending rows, not the longest waiting;
`find_near_duplicate` sees every row, where the code looks at 500 with the same top
byte, so a near-duplicate that the code misses is one more row it indexes; an
answered `add_documents()` counts as applied, though Meilisearch only queues it.

### DomainLocks

A transaction asks for its hosts one by one (`Lock`), gets each when nobody ahead
of it has it or waits for it (`Granted`), and gives all up at its end. `IsNext` is the
difference that matters: `add()` takes its hosts in sorted order, the operator's
commands in any, everything else has one. `Abort` is the deadlock detector's
choice of a victim, any transaction on a cycle of waits (`OnCycle`: it waits for
another that waits for it, where `WaitsFor` goes through any number of lines),
including one that is only in line; `Retried` is the `range(3)` of `add()`. `Descends`
is a transaction that waits for a host below one it has locked.

Hosts outside `Known` have no row at first. Whoever gets such a host has inserted its
row without committing it, and the others that want it wait for the end of that
transaction, not in line for a row; `exists` grows by `Commit` only. If the inserter
commits, those that waited get the row one after the other, if not, one of them
inserts it: which of them is first is open either way (`Granted` puts the rest behind
it). `Races` are two or more transactions that are to insert one new host, and
`AbortRace` is the case that the comment in `add()` has its retry for: the database may
abort one of them. Why and when it does is Postgres' business, so the model lets
it happen in every race, and in none (no fairness). `complete()` touches a host
that has a row.

Every lock counts as exclusive: the key-share lock that a scrape target's foreign
key takes on its domain, and the non-key update of `complete()`, would in fact let
each other by.

### RenderSlots

`lock` is Postgres' view of the advisory locks, `free` the pools of the processes,
`conn[t]` and `pc[t]` where a task is in `render()`. A task goes
`acquire -> try -> render -> unlock`; a refused lock gives the connection back and
tries the next key. `Lose` ends a session that is in use: Postgres frees its
locks, asyncpg returns the place to the pool, and the task goes on unaware, with
`conn[t] = NoSession`. `TryError` and `CancelTrying` leave `_acquire_slot` between
`acquire()` and the answer, where nothing gives the connection back. `Stop`,
`Close` and `Crash` are the lifecycle of `cli.py`; `Close` waits for the whole pool
as `Pool.close()` does. Connections that are idle in a pool may be lost too; the
pool replaces them on the next `acquire()` and no state of the model changes.

asyncpg, Postgres and the clock are outside this repository and modelled by how
the code uses them; the map marks them external.

## Runs

| Run | Shows |
|---|---|
| `lease_queue` | the safety properties of the queue, that it implements `TaskQueue`, and that every lease ends with fair time and reaper only: two rows of one domain, three workers, batches of two, two failures |
| `lease_exclusive` (violation) | two workers can work on a row with both leases running: a late `fail()` of a reaped worker frees the row of its new owner, and a third claim takes it |
| `lease_revisit` (violation) | a crawled row is never visited again |
| `url_table` | the clocked table implements the queue; attempts, leases, spacing; two rows of two domains and room for one in a batch |
| `url_table_crawl_delay` (violation) | two workers claim two pages of a host at one instant |
| `crawl_pipeline` | committed rows have their blobs, and the right ones unless two tasks had the row, or the scraper wrote to its raw key; done rows have documents; depths and edges agree; edges get lost only with a task that ended after its commit |
| `scrape_pipeline` | a spec switched off loses only the targets in flight; records match their blobs unless two tasks or the crawler shared the key; fed links get lost only with a task that ended after its commit |
| `indexer` | a row marked indexed is in the index with its last commit, unless that commit overtook a batch, and with text no older, unless an older task's blob replaced it; pages suppress each other only if one was committed under the other's feet; pending rows end up indexed or suppressed once batches stop failing |
| `indexer_retry` (violation) | the rows of a failed batch are not in any batch again, with an indexer up and nothing failing any more |
| `domain_locks` | every deadlock has an operator's command on its way down in it; every abort is one of those or comes of a race to insert a new host; every transaction ends |
| `render_slots` | safety and liveness of the slots, two tasks in a process with two slots and one in a process with one |
| `render_hard_cap` (violation) | a lost session lets more pages render than there are slots |

The violations are disagreements between the code and what its comments or
README say; `PROJECT.json` quotes the lines under "findings".

### Bounds

* `lease_queue`: two rows of one domain compete for its place in a batch; two workers
  are enough for an expired lease to be taken over and the late outcome to arrive,
  a third for one more claim under it, the case that `RetryOverrun` counts.
  `MaxFailures = 2` reaches both verdicts and the overrun. No symmetry, as the run
  has a liveness property. That rows of several domains are claimed in the order of
  the domain ids is in the runs of `url_table`, and all safety properties are
  theorems for any number of rows and domains. `lease_exclusive` and `lease_revisit`
  have two workers; their counterexamples need no more.
* `url_table`: `MaxTime = 6` bounds the clock (guard of `Tick`, the only bound in
  a guard); with a lease of 2, a minute of 1 and a week of 3, a row can be
  claimed, reaped, claimed again, fail late and come back after its backoff.
  The rows have a domain each and a batch has room for one, so the order of the
  domains decides; workers are symmetric. `url_table_crawl_delay` has both rows in
  one domain, as two claims on one host take.
* `crawl_pipeline`: two pages of one host that link to each other (the second version
  of a page also to itself), so a link is discovered from both sides and a row
  is found as well as inserted; a worker claims one row at a time, so two workers
  are two tasks, enough for two on one row. One page changes once: two
  contents tell an old blob from a new one. One of the pages has its raw key in
  common with a scrape target, the other has not. `MaxDepth = 1` has rows above and at
  the limit; `MaxFailures = 2` lets a failed task come back. Workers are symmetric.
* `scrape_pipeline`: one target feeds both ways and clashes with a crawl row, the
  other's spec asks for a renderer that its workers lack; one domain, so a
  worker's batch is one target and two workers are two tasks. The first target's
  page changes once and only its first version has a link, so a record with a
  link is replaced by one without. Workers are symmetric.
* `indexer`: two pages that are near-duplicates in every version, one of them
  fetched twice; two crawl tasks, so that both fetches can be under way on the row
  at once and write and commit in any order; two indexers and batches of up to two,
  so batches overlap in one row or both, and a commit can come at every point of
  either. `LastVersion` is the bound, a guard of `FetchPage`.
* `domain_locks`: two `add()`s of the same three hosts, a `seed` and a `submit` of two hosts
  each that overlap in one, a `complete` in the middle. The third host has no row yet
  and three of the transactions want it, so an inserter can fail with two waiting.
  Deadlocks of two and of three transactions occur, over rows and over the
  insert, and a `complete` as their victim. `MaxAttempts` is three as in the code.
* `render_slots`: unequal `--render-pages` make one process try keys the other has
  no use for; three tasks over two slots always leave one waiting.
* `CHECK_DEADLOCK FALSE` in the queue's and pipelines' runs: a frontier where every
  row is settled really stops, and so do pages that no longer change and
  transactions that have ended. `render_slots` checks deadlock.

### Fairness

* `ReaperFairness`: time passes, and `reap_expired_leases` runs every minute, from
  cron or from the loop of any crawl process, whatever the workers do. Weak
  fairness is enough: an expired lease stays expired until somebody acts on it.
* `WorkerFairness` (only for `lease_revisit`, where the more is assumed the more the
  violation says): a worker with nothing open claims, and tasks report.
* `Indexer.FairSpec`: an indexer that is up takes its next step, be it the mark
  of a failed batch; its loop only sleeps. No fairness makes a batch succeed, an
  indexer start or a page be crawled; `PendingDrains` and `WillRetry` are stated for
  behaviours in which some indexers stay up and batches stop failing (`Steady`).
* `DomainLocks.FairSpec`: a transaction that has begun goes on, as its client waits
  for nothing but the database, which hands out free rows and breaks cycles. That
  a race ends in an abort is not assumed.
* `RenderSlots.FairSpec`: the event loop runs tasks that can run, a page ends (`goto`
  has a timeout). No fairness for who wins a lock or gets a connection, for
  processes that stop, or against faults; `SomebodyRenders` is stated for
  behaviours in which faults stop.

## Proofs

All proofs are for arbitrary finite sets of rows, workers, tasks and processes and
arbitrary limits, under the named assumptions of the modules
(`QueueAssumption`, `TableAssumption`, `PipelineAssumption`, `ScrapeAssumption`,
`IndexerAssumption`, `LocksAssumption`, `SlotsAssumption`): finite sets, limits of
at least one, ids that are numbers. `TaskAssumption` of `TaskQueue` is a hypothesis
of its theorems, proved wherever they are used (`AssumptionHolds`).

* `TaskQueueProofs`: `Budget`, all of its invariants together, is inductive. `Quiet`
  names what enqueueing, reaping and dropping have in common: no failure is
  counted, no task opened, no row settled. A claim opens tasks on rows below
  `MaxFailures` only; an outcome counts a failure and closes a task, so the sum of
  both that `RetryOverrun` bounds does not grow.

* `LeaseQueueProofs`: `TypeOK`, then `LeaseCoherent`, `RetryBudget` and `OnePerDomain`,
  each inductive together with the types. `RetryOverrun` counts: each late
  failure closes a task of one worker, and the number of workers that have a task
  open on a row only grows by a claim, which needs a pending row, whose counter is
  below the limit by `RetryBudget`; the counting lemmas `HoldersCount`,
  `HoldersShrink` and `HolderLeaves` carry the arithmetic. The two action
  properties follow step by step from the invariants.
* `UrlTableProofs`: `LeaseIsOwners` is inductive with the types. `SpacedClaims`
  needs the strengthening `Spacing`: a row that can be claimed again has a
  retry time a minute past its last claim, or that claim's lease is over.
  `Implements` maps every action to the action of the same name, `Tick` to
  an `Elapse` of the deadlines it passes or to a stutter. `TableKeepsPromises`,
  `TableLeaseStands` and `TableSettledStays` are the theorems of `LeaseQueueProofs`
  read through that mapping: before its deadline has passed on the clock, a lease
  ends by an outcome only. `RowsComeBack` bounds what SQL computes from `now()`: no
  pending row waits longer than 64 minutes, no lease runs longer than `LeaseTime`.
* `LeaseQueueProofs!Implements` maps each action of the queue to the one of
  `TaskQueue`; `BatchIsSmall` counts the domains of a batch.
* `CrawlPipelineProofs`: the invariant `Typed` adds to the types what a task carries
  at each stage and that work is only done on rows that exist. One lemma per
  action (`...Does`) says what it changes; the other invariants rest on these:
  `Stored` follows the blobs through the stages, `Tagged` follows the ETag from
  `complete()` to the claim that reads it, and `Sole` says what a row's blobs are
  at each stage of the only task that has it, the scraper's under the raw key of a
  row in `Clash` allowed for (`RawFrom`). Two facts that no run checks come out of
  `Sole`: a documents row is rewritten (`DocumentsStand`), and a 304 answered
  (`RescheduledWhenShared`), only after two tasks had the row. `ImplementsQueue` shows
  each action to be one of `Queue` or to leave it alone; `KeepsPromises` and
  `SettledStays` then are `TaskQueueProofs`' theorems.
* `RenderSlotsProofs`: `TypeOK /\ PoolCoherent` is the inductive invariant: a
  connection is in one place, and no connection in a pool or with a trying task
  has a lock. `SlotHeld` follows; then `OverCapOnlyByLoss`, because tasks that still
  have their session map injectively to keys; then `SlotsLostInShutdownOnly` and
  `LeaksWhileTryingOnly`. `EverySlotAccounted`: a slot is free, with the one task that
  renders or unlocks under its key, or left locked by a process that shuts down.
  `NobodyIsStuck` is the state part of `SlotReturns` and `SomebodyRenders`: in a process
  that has a connection left, a task that waits never waits for one that cannot go on.
* `ScrapePipelineProofs`: `Typed` adds to the types what a task carries at each stage and
  that the origins of edges have rows (`Rooted`); again one `...Does` lemma per action.
  `Warned`: a task that has read its spec as inactive, or will, is on a target in
  `caught`; this is why the one statement of the claim matters. `Single`: a target not in
  `shared` has one task at most. `Backed`: what its blob is at each stage of it. `RecordsStand`, `ImplementsQueue`,
  `KeepsPromises` and `SettledStays` are as in the crawler; that the operator switches
  specs on and off is nothing to the queue.
* `IndexerProofs`: `Typed` adds that rows in a batch exist. For a row not in `overtaken`,
  `Fresh` says that every batch open on it carries the committed version, so whichever
  of several indexers marks it last is right. Its text rests on what `torn` excludes:
  outside of it, the blob is never older than the row, whoever wrote it, so a batch
  that reads it after the fetch has that version or a later one. `Apart`: of two
  pages that have not met, one is settled and not suppressed for the other while
  that one is unsettled; a verdict of an indexer concerns an unsettled row, so it
  cannot make the suppression mutual.
* `DomainLocksProofs`: the invariant says what a line is: everybody ahead of a
  transaction has its host or waits for it with a shorter line, whoever has the host is
  ahead, and those that race for a new host need not be in any order. And a sorted
  transaction waits for a host above all it has. In a set where each waits for another, take the
  highest host that one of them waits for: whoever has it waits for a host that is not
  higher, so it descends. One that is only in line leads to a shorter line on the same
  host. So the set has a command on its way down (`CyclesNeedUnsorted`). Those
  that a transaction on a cycle waits for and is waited for by are such a set, which
  gives `AbortsNeedRaceOrDescent`. `NobodyIsStuck` is the state part of `AllEnd`: if no open
  transaction had a statement to send, a row to get or a commit ahead of it, all of
  them would wait for each other and the detector would find a victim.

Model-checked only: all liveness (`LeaseEnds`, `PendingDrains`, `AllEnd`, `SlotReturns`,
`SomebodyRenders`), as fairness and `ENABLED` are out of the prover's reach; `NobodyIsStuck`
of `DomainLocks` and of `RenderSlots` write the guards out instead. And the violations,
which are single behaviours. Every invariant and every action property of a passing
run is a theorem.

## What the models say about the code

Beyond the findings in `PROJECT.json`:

* Two indexers over one row do no harm to each other. A `complete()` that comes between
  an indexer's fetch and its mark does: the row ends up indexed with the older
  title and text, or suppressed for an older simhash, until it is crawled again.
* `find_near_duplicate` compares with every page that was ever crawled, while
  `schema.sql:153` says "simhash matches an already-indexed doc". So two pages
  that were pending together, or a page crawled again next to its own suppressed
  duplicate, can both end outside of the index.
* A failed batch is logged as "will retry", and the README has Meilisearch's outage
  produce "a growing queue". Its rows are marked failed and nothing drains failed
  rows (the finding of `indexer_retry`): the outage takes what it met out of the index
  until the pages are crawled again, which `lease_revisit` says they are not. What
  does hold is `PendingDrains`: a row that is still pending when batches stop failing
  is indexed or suppressed.
* Two tasks on one row can leave it indexed with a text that is older than its
  documents row with no indexer at fault: the later body is stored, the earlier one
  over it, then the later one's row is committed.
* The scraper and the crawler make raw keys of host and row id, each with ids of its
  own sequence. So a crawl row that only one task ever had can end with the raw
  content of a scrape target, and the other way round; text keys are the crawler's
  alone.
* The order of hosts in `add()` is "consistent across every concurrent transaction, which
  removes that cycle" (`frontier.py:276-279`) among `add()`s. `seed` and
  `submit_scrape_targets` take theirs in the order of the command line. So `add()` needs
  its retries for two things: the race to insert a new host, which its comment names
  and sorting cannot prevent, and the operator's commands, which it does not. One `seed` of two hosts in falling order is
  enough: with several `add()`s in line behind each other, one of them can be aborted
  three times and lose its links (TLC finds it with four `add()`s). A `complete()` can
  be the victim of a deadlock it only stands in line behind, and is not retried: the
  page is fetched again after its lease.
* `is_active` is read twice, and both readings are needed for what the comment in
  `_handle` says; the price is that a target in flight when the spec is switched off
  is skipped for good, also when the spec is activated again ("resume its queue").
* `claim_scrape_targets` reads neither `next_available_at` nor `is_crawlable`, though
  `schema.sql:386-388` says so: the divergence of `url_table_crawl_delay` again.
* With done rows never claimed again (`lease_revisit`), a conditional request and
  `reschedule()` are reached only by the second of two tasks on a row: a late `fail()`
  has put a completed row back. The same goes for any second commit of a page, and of a
  record: they are signs of two workers on a row, not of a revisit.

## Not modelled

`PROJECT.json` lists every component. Left out of `CrawlPipeline`: `record_attempt` and the
counters of `domains`, which nothing reads back; a put still in flight when its
process dies, which could reach the store after the next task's. Left out of
`ScrapePipeline`: `register_spec()` on a spec that has targets, which changes what later
extractions find and nothing else, and `spec_missing`, as no statement deletes a spec;
the leases of the scrape queue by the clock, as its statements are those of `UrlTable`
with other names.

The domain policy is left out but for its row lock: both workers call
`policy_for()` and neither looks at the answer (`check_allowed()` has no caller, the claims
read neither `is_crawlable` nor `crawl_delay_ms`), so no behaviour of the system depends on
what it caches, for how long, or for which origin. A call that raises ends the
task, which is `Drop`. A module for it would specify code whose result is
thrown away.

Left out for good: HTTP, HTML parsing, string normalization, compression, metrics,
monthly partitions: I/O or pure functions whose outcome the models take as a
free choice. `renew()` has no caller. The worker names of two processes coincide
(`w0`, `w1`, ...); no statement that runs compares them, so the models name the
workers themselves.

## Plan

Open, in this order:

1. A `DomainPolicy` module once a caller of `check_allowed()` exists: status
   interpretation, the delay clamp, the day-long cache, one answer per host for
   several origins.
2. The two pipelines composed over one `urls` table, to follow depths through both
   feeds (the scraper's links start at depth 0 again).
3. Proofs: for `Indexer`, that an indexer which is up always has a step and that a
   row it fetched leaves the pending state with its batch, the state parts of
   `PendingDrains`; for `UrlTable`, that a leased row past its deadline stays free for
   the reaper, the state part of `LeaseEnds`.
