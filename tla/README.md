# ProofRail evidence API: TLA+ models

ProofRail screens subjects against sanctions lists, stores every result as a
content-addressed evidence pack, keeps a case per screening and announces what
happens through webhooks. An API process (FastAPI, one thread per request in
flight) and a worker process share a database (SQLite, or Postgres through the
same interface) and an evidence store. Every method of `db.py` is a transaction of
its own and no handler joins two of them, so the interesting behaviour is what
happens *between* the transactions of one handler. The connections of `db_pg.py`
commit every statement by itself (`db_pg.py:203`); most of its methods are one
statement, and those that are not are named under "Not modelled" below.

## The system: parts, state, operations, interactions

| Part | Code | State | Operations | What makes it correct |
|---|---|---|---|---|
| Webhook delivery | `app.py` 77-141, `worker.py`, `webhooks.py`, `db.py` 552-991 | tables `webhook_subscriptions`, `webhook_deliveries`, `jobs`; locals of `process_once` | emit, administrator run, claim, POST, mark, release of leases, retention | no delivery forgotten, none delivered without an answer, one worker per leased job, backoff and attempt limit, every delivery handled |
| Ingest cache | `cache.py` | entries with a TTL, keys being refreshed, one mutex | `get`, `put`, `get_or_refresh` | one refresh per key, callers never go back in time, every call returns |
| Case workflow | `app.py` 151-209, 795-1017, 1144-1210, 1346-1426; `db.py` 342-548, 935-1030 | tables `screenings`, `cases`, `case_events`, `screening_review_decisions`, `idempotency_keys` | screen, decide, comment, assign, status update, bundle | a retried call takes effect once, row and timeline agree, the timeline only grows |
| Evidence store and retention | `storage.py`, `store_s3.py`, `app.py` 211-300, `worker.py` 49-128 | pack and blob files | put, get, delete by age, delete unreferenced | a pack and the blobs it names outlive every reader entitled to them |
| Ingest jobs and schedule | `app.py` 491-543, `worker.py` 154-213 | `jobs` of type `ingest_refresh` | refresh, schedule, stop, run | a schedule lives until somebody ends it, a stop stops it, jobs do not pile up, a refresh that was asked for is run |
| Usage metering | `state.py` 136-216, `middleware.py` 224-244 | bounded queue, batch, counters, table `usage_events` | put, flush, stop | a request is billed at most once, and is accounted for |
| Rate limiting | `ratelimit.py`, `middleware.py` 134-220 | token buckets per key, limiters per customer | allow | no key gets more than its plan's allowance |
| Source replies and decision | `ingestion.py`, `screening.py`, `sanctions_determinism.py` | none | pure functions | a pack's key determines its result; every allow and block has its reason in the artifact |
| Screen and name-set caches | `state.py` 27-48, `screening.py` 23-43 | LRU maps | get, set | stale content never outlives what it refers to (part of the evidence store) |
| API keys, plans, scopes | `auth.py`, `app.py` 303-490, `db.py` 294-340 | tables | create, revoke, rotate | a revoked key opens no new call; the plan read is the one charged |
| List endpoints | `app.py` 1100-1342, `db.py`, `db_pg.py` | none | filters, cursors, limits | no row skipped or repeated, both databases answer alike |
| Everything else | PDF export, console, CORS, schemas, URL validation, source sessions | none or files | pure or I/O | not a matter of states |

How they interact: a screening reads the ingest cache (which may fetch and parse
the lists), decides, writes a pack, writes the screening, the case row and a case
event, then enqueues one delivery and one job per subscription, and last records
the idempotency key. The worker claims jobs under a lease and POSTs deliveries or
refreshes the ingest; once a minute it runs retention. An administrator may
re-enqueue due deliveries, refresh, schedule or stop the ingest and run retention in
the API process at the same time as the worker. Around every handler the middleware
charges rate limits on the event loop and puts one usage event into a queue, which a
thread of the process writes to the database in batches.

What is hard: every step above can interleave with every other one, a process can
die between two of them, leases expire while a slow batch runs (100 jobs, 30 s),
answers of receivers get lost, timestamps have seconds and are sampled before
they are stored, pages are read while rows move, a full queue drops events. `PROJECT.json` lists the hazards with their lines.

## Modules

| Module | Models | Notes |
|---|---|---|
| `DeliveryPipeline` | the delivery pipeline, action by transaction | proofs in `DeliveryPipelineProofs` |
| `DeliveryContract` | what a delivery promises, with no jobs, leases or workers | `DeliveryPipeline!Contract` is the refinement mapping; proofs in `DeliveryContractProofs` |
| `IngestionCache` | `cache.py` | proofs in `IngestionCacheProofs` |
| `CaseWorkflow` | idempotency, screening, decision, case events, timeline | proofs in `CaseWorkflowProofs` |
| `EvidenceStore` | blob and pack files, screenings and retention runs | proofs in `EvidenceStoreProofs` |
| `IngestSchedule` | the ingest jobs of one cache key: admin calls, workers, the job rows | proofs in `IngestScheduleProofs` |
| `RateLimits` | the token buckets and the LRU of `ratelimit.py`, as operators | used by `RequestGate` |
| `RequestGate` | the middleware before the handler: three limiters, key and plan lookups | composes `RateLimits` with the tables of keys and plans; proofs in `RequestGateProofs` |
| `UsageMetering` | the usage queue, the flusher thread, its shutdown | proofs in `ServedRequestsProofs` |
| `Listing` | list endpoints and their queries in both databases, as operators | no state; proofs in `ServedRequestsProofs` |
| `ScreeningDecision` | from the replies of the sources to the decision, as operators | no state; proofs in `ServedRequestsProofs` |
| `MCServedRequests` | `UsageMetering` with the two modules of operators | one run for what a served request leaves |
| `MC*` | values and symmetries for TLC | |

Definitions whose comment calls them a mutant of another are not part of the
model: each is the mistake that one property is there to catch.

### DeliveryPipeline

Variables are the three tables (`subs`, `dlv`, `job`), the locals of each API
thread (`t*`) and the locals of each worker (`w*`). `wnow`, `wlease`, `wsnap` and
`tnow` are the point: the code samples them once and uses them many transactions
later, so the model keeps them apart from the tables. One action is one
transaction or one HTTP request: `EmitStart`, `EmitInsert`, `EmitDedupe` and
`Enqueue` are `_emit_webhooks`; `AdminStart`, `AdminDedupe` and `Enqueue` the
administrator's run; `Tick`, `Claim`, `Fetch`, `Lookup`, `Post`, `MarkDelivered`,
`MarkRetry`, `MarkFailed`, `AckJob`, `RequeueJob` are `process_once`, every exit of it
with its own bookkeeping. `WorkerCrash` and `ApiCrash` stop either between any two.
A receiver may answer 2xx, refuse, stay silent, or answer 2xx and have the
answer lost. Only the order inside a claimed batch is freer than in the code.

Abstractions: payloads, secrets, event filters and URLs are left out; jobs the
application never writes (other types, unreadable payloads) do not occur; the
age of a finished job is not tracked, so `PurgeJobs` may remove any of them; row
ids are pairs. `posts` counts calls of `deliver_once`, including those in which
validation refuses the URL.

### IngestionCache

`lock` names the thread that blocks while holding the mutex; a critical section in
which nobody can block is a single action. Artifacts are numbered by the start of
their fetch, which is what "older" means in `MonotonicServing`. `Wake` is the step
after which `self.get()` takes the mutex a second time.

### CaseWorkflow

One case and the calls that concern it. A call runs through the statements of its
handler: `Begin` (the lookup of the idempotency record), `ChoosePack`,
`InsertScreening`, `ReadRow`, `RecordDecision`, `UpsertCase`, `InsertEvent`,
`EmitWebhooks`, `Store`; the operation decides which of them and in which order
(an event handler inserts its event before it updates the row, the two others
after). `ts`, `pack` and `snap` are the locals that may be stale. `Flagged` says
whether screening the subject yields review or block, which a screening key
determines. `Timeline` is what `list_case_events` returns and `UpTo(e)` what the
hash of `e` in a bundle covers.

Abstractions: request bodies are the operation, responses are not kept (a replay
is an outcome), the assignee is left out, audit rows are left out, the emission
of webhooks is one step that may raise (`DeliveryPipeline` has its inside).

### EvidenceStore

Blob and pack files are `none`, `torn` or `whole`: `write_bytes` opens (and
truncates) the file under its final name in one step and completes it in another,
and the test for its existence is a third. A call is `Begin` (the ingest cache or a
fetch), `CheckBlob`, `OpenBlob`, `WriteBlob` (`put_blob`), `Put`, `Sets`
(`NameSetCache.get`), `Choose`, `OpenPack`, `WritePack` (`has_pack`, `put_pack`),
`Remember`, `Insert`. A retention run is `StartGc`, `DeletePacks`, `Scan`, `Sweep`; it
belongs to the worker or to an administrator, and each loop over the files is one
step. The worker's run takes `evidence_retention_days` of the configuration
(`Retention`), the administrator's that of the query or of the customer's plan
(`Overrides`, `app.py:241-247`), so `StartGc` picks one of all these; and it picks
whether the run is over the packs followed here or for another customer, whose run
deletes none of them but sweeps the blobs of all with its own cutoff. `shortest`
remembers the shortest retention a run over these packs was given, which is what
`IssuedPackKept` holds the store to. When a blob or pack is unlinked under a writer, the writer goes on and its bytes
are lost. The three in-process caches (`artifact`, `decoded`, `screened`) are what
makes stale knowledge possible; they die with the process.

A fetch may carry a `retrieval_ts` of the request, any second up to the present.

Abstractions: a retention below zero, which the code does not refuse in a query, a
`retrieval_ts` in the future and dry runs are left out; of the blobs of an artifact only the name sets are followed; all calls
screen one subject for one customer; the second scan that
`delete_unreferenced_blobs` makes when the first found nothing is the same scan
made later; caches are large enough not to evict (eviction is another miss).
`WriteFails` may make one write raise. The store on S3 writes whole objects and has no
`delete_packs_before` nor `delete_unreferenced_blobs`: a retention run there does
nothing (the worker) or fails (the administrator's), so nothing of this can happen to it.

### IngestSchedule

`jobs` holds for each id of a pool its status, the interval of its payload and the ticks
left until `run_at` and `locked_until`; a done row that nobody holds is dropped, so an
id can be used again. `RefreshIngest`, `ScheduleRefresh` and `StopSchedule` begin with
`delete_pending_jobs`; the first two enqueue in a second transaction
(`AdminEnqueue`). A worker claims a batch (`ClaimDueJobs`), runs one job of it after the
other (`BeginFetch`), and if the job repeats deletes the pending jobs of the key and
enqueues the next one (`DeleteBeforeNext`, `EnqueueNext`) before it marks its own
(`EndJob`). `RefreshRaises` is the `except` branch around all of it, `DeleteRaises` the
inner one that swallows, `Crash` a dead worker whose leases have to run out.
`mark_job_success` and `mark_job_retry` are updates by id, so they do nothing to a
deleted row and revive a done one.

Abstractions: what is fetched (`IngestionCache`, `EvidenceStore`), audit rows, other
cache keys (jobs of different keys never meet); a scheduler that is not enabled (the two
schedule calls are then refused) and intervals of zero or less, which the code takes and
whose next run is due at once. `release_expired_job_leases` changes
nothing a claim looks at. `Init` is an empty table or one with a schedule in place, as a
`ScheduleRefresh` leaves it.

### RateLimits and RequestGate

A limiter is a sequence of buckets, least recently used first, as the `OrderedDict` of
`ratelimit.py`. Tokens are counted in units of 1/`Minute`, so that the refill of a tick is
a whole number. The middleware has no `await` before the handler, so one request at
a time is between its lookups (`loop`), while the database may change under it:
`ResolveKey` charges the limiter of the host and looks the key up, `ReadPlan` reads the
plan, `Admit` charges the key in the limiter of that plan, replacing one of another
capacity. `AnonymousRequest`, `RevokeApiKey`, `UpsertPlan`, `ClockTick` and
`ClockStepsBack` are the surroundings. `upsert_plan` is a method of `db.py` only, and no
endpoint calls it; in Postgres `UpsertPlan` is a statement by hand. Only the rate of a plan and the revocation of
a key are followed; scopes are checked in the handlers.

### UsageMetering

`UsagePut` is the end of the middleware; `GetEvent`, `GetNothing` and `EndLoop` are the loop
of `usage_flusher_loop`, `InsertEvents`, `Flushed` and `FlushFails` its `flush`. The
database the service was started with is chosen in `Init`. SQLite commits a batch as a
whole (`executemany`, `db.py:1070-1089`), Postgres event by event (`db_pg.py:297-309`), and
`inserted` is how many of the batch are committed. `FlushFails` may come before, between
and after these commits (the answer to the last may be missing), and the process may end
there, so a flush that fails leaves any prefix of its batch as rows; the batch is given up
either way (`AfterFlush`), and `Unwritten` is what is lost of it. At the end of the lifespan (`Stop`) the
flusher writes its batch but not the queue, and `Exit` takes the rest along. Events
are numbered in the order in which their requests were answered.

### Listing and ScreeningDecision

Both have no state, and their properties are formulas over all bounded inputs; a
configuration names them as `Init => ...`, so that TLC evaluates them once, in the
initial state, instead of in every state. `Listing!Traverse` follows the cursors of an
endpoint through a history of tables, one table per page, which is every way in
which writers can interleave with a traversal: a recursive function whose n-th value is
what the client has (`seen`, `cursor`, `done`) after n pages. `Sorted` places a row by the
number of rows that are newer than it, which needs no order of evaluation. `ListCases` and `ListCasesPg` are the four
hand-written queries of SQLite and the one built up for Postgres.

In `ScreeningDecision` a name is words and a spelling: `normalise_name` forgets the
spelling and, when it is in another script, the name. A body is what it lists and whether it
parses. How alike two names are is a parameter (any of four values around the
threshold) because trigrams only have to give 100 to equal names. Hashes are the
values they are hashes of. Reason codes and wording are left out.

## Runs

| Run | Expect | Instance and bounds | What it shows |
|---|---|---|---|
| `pipeline_two_workers` | pass | 1 subscription, 1 emission, 1 administrator's run, 2 workers, lease 1, clock to 3, API threads may die | type invariant, lease exclusion, justified verdicts, no forgotten delivery, why two POSTs may overlap |
| `pipeline_one_worker` | pass | the same with 1 worker that may crash once, no API crash | refinement of `DeliveryContract`, backoff, the attempt limit, every queued delivery is handled |
| `pipeline_retry` | violation | 1 worker, no crash | a failed delivery is not attempted again by itself |
| `cache_threads` | pass | 3 threads, 1 key, 4 calls | single flight, no abandoned refresh, monotonic serving, calls return unless one had to wait |
| `cache_waiter` | violation | 2 threads, 2 calls | a waiter blocks forever |
| `case_race` | pass | 3 calls, 1 key, screen, decide, close, assign, clock to 1, 1 failure, list limit 2 | safe retries, row and timeline agree without races, settled prefixes are stable |
| `case_once` | violation | 2 screenings, 1 key | an idempotency key does not prevent a second effect |
| `case_append` | violation | 3 calls, screen and comment, clock to 1 | the timeline shown may change in its middle |
| `store_gc` | pass | 3 calls, 1 retention run at a time, 1 content of the lists, retention 2, override 1, runs for this and for another customer, clock to 1, 1 crash or failed write | an issued pack stays readable through its retention, a pack keeps its blobs; the exceptions the code leaves are spelled out in the properties |
| `ingest_schedule` | pass | 2 workers, 1 administrator, 6 job ids, interval 2, retry delay 1, lease 1, 3 admin calls and faults together | a schedule lives on, a quiet call decides, jobs do not pile up, refreshes run and recur |
| `request_gate` | pass | 2 keys, 2 hosts, 2 buckets, minute of 2 ticks, rates 1, 2, 3, 3 requests with and 1 without a key, clock to 2, 2 changes | what a key can spend under one plan |
| `served_requests` | pass | both databases, queue 2, batch 2, 5 events; 3 rows, 2 timestamps, pages of at most 2, limits 0, 1, 5, 3 pages; 1 first and 1 last name, 3 spellings, threshold 90 | metering accounts for every event and settles; paging, the two databases, keys of packs, reasons of decisions |

Why these bounds are enough: two workers are the least that can contend for a
lease, and one delivery with two jobs (one per API thread) the least that can be
POSTed twice; a lease of 1 and a clock to 3 let a lease expire, be released and be
taken again while its old holder still works, and let a retry fall due. Two
attempts separate the first, the retried and the exhausted case. Three cache
threads give a refresher, a waiter and a late caller; four calls let one of them
come back after an expiry. Three calls on a case give two that race and one that
observes or retries; two timestamps and two listed events are enough for ties, for
disorder and for the limit to cut. Three calls at the store give one that stored
the blob and a pack in the past, and two that meet in one file while the retention run
deletes; a clock to 1 with an override of 1 makes everything of the first second old for
some runs and, with a retention of 2, nothing for others.
Two workers and one administrator are the least that can delete each other's ingest
jobs; an interval longer than the lease and the retry delay lets a schedule be due while
an older run still goes on, and three events give a call, a fault and a second call or
fault. Six ids are never used up: whoever is to enqueue always finds a free one (five
would not be enough). Two buckets for two keys and two hosts make eviction happen, three rates make a
limiter be replaced and come back, and a bucket of at most three tokens can be
spent. A queue and a batch of two fill up, a batch of two can be cut between its rows, five events overflow both and leave
one. Three rows of two timestamps have a tie that a page of one or two cuts; three
pages end a traversal of three rows in pages of two and let a row move twice.
Two sources at a time suffice for a hash or a status of one to stand for
another's; a source that does not answer is the third. The administrator's runs, the calls, the workers
and the threads are interchangeable, hence the symmetry sets; no liveness property
is checked under symmetry. The view of `pipeline_two_workers` leaves out `posts`,
a counter no action reads and no property of that run states anything of.

Bounds are constants with `Max` in their name (`MaxTime`, `MaxCrashes`, `MaxCalls`,
`MaxErrors`, `MaxEvents`, `MaxRequests`, `MaxAnonymous`, `MaxClock`, `MaxChanges`,
`MaxMetered`, `MaxStamp`) or say `BOUND` beside their declaration (`Fetches`); the set sizes are the other ones. In
`IngestSchedule` a tick is some 30 s, and one that passes while a worker is at work counts as
a fault. `CHECK_DEADLOCK FALSE` stands in the
configurations of `IngestionCache`, where the calls are used up (and where threads do
block), of `CaseWorkflow`, whose calls all end, of `IngestSchedule`, where nothing
happens once a table without jobs meets administrators who have made their calls,
of `RequestGate`, whose requests end, and of `UsageMetering`, whose process ends. The pipeline and the store
are checked for deadlock: a worker always ticks, a retention run can always start.

Fairness: `DeliveryPipeline!FairSpec` lets time pass, keeps a started request and a
worker running and restarts a dead worker (`run()` is an endless loop; the
deployment restarts it, and the runbook asks the operator to). Nothing makes a
client call, a subscription change or an administrator intervene.
`IngestionCache!FairSpec` schedules each thread whose step is possible; a fetch
ends because its HTTP requests have timeouts. `IngestSchedule!FairSpec` keeps
workers, started admin calls and time going; `UsageMetering!FairSpec` the flusher (its
`q.get` has a timeout), the interval and the end of a stopped process.

### What the violation runs say

* `RetryIsHandled` (`worker.py:280`): after a failed attempt the delivery becomes
  `retry` with a due time and its job becomes `done`. No other job is enqueued, so
  the promise of `RUNBOOK_WEBHOOKS.md:6` depends on somebody calling
  `POST /v1/admin/webhooks/deliveries/run`.
* `WaiterProceeds` (`cache.py:62`): the waiter calls `get()` with the non-reentrant
  lock held. Every later screening of that process blocks, too.
* `AtMostOnce` (`app.py:174`): the idempotency record is looked up before and
  stored after the effects, so overlapping calls and retries of interrupted ones
  repeat them (`DEPLOYMENT.md:92`). What does hold is `SafeRetry`: a retry of an
  *answered* call writes nothing.
* `AppendOnlyTimeline` (`app.py:1369`): timestamps are sampled before the insert and
  sorted on (`README.md:96`). What does hold is `SettledTimeline`: once no call with
  an older timestamp is under way, the chain up to an event is final.

## Proofs

TLAPS proves these for every value of the constants, from the assumptions named
beside the constants and nothing else; where a theorem has a hypothesis of its own, the
table names it.

| Theorem | Argument |
|---|---|
| **`DeliveryPipeline`** | in `DeliveryPipelineProofs` |
| `TypeCorrect` | `TypeOK` is not inductive: that `wjob` is a job where it is dereferenced needs the shape of the control points (`WorkerShape`: a busy worker's job is one of its batch, an idle one has no batch, and its `now` is not in the future). `TypeInv` adds it. |
| `LeaseExclusionHolds` | `LeaseInv`: a job held under a live lease carries exactly that lease in its row, or its row is gone. A gone row cannot return, since a job id is used once: `ApiInv` says that whatever an API thread has still to insert or to enqueue is in no table and no batch. A claim takes only rows whose lock is over by its `now`, which is never later than the clock; a release clears only such locks. |
| `DeliveredWasAckedHolds` | `AckInv`: a worker about to write "delivered" has seen a 2xx answer for its current job; the set of answers only grows. |
| `NoForgottenDeliveryHolds` | `HandledInv`: when a worker acknowledges a job its delivery is not "queued" any more, and no step returns a delivery there. With `ApiInv`, deleting pending jobs happens only in the hands of a thread. |
| `ConcurrentPostExplainedHolds` | `OwnJobs`: the jobs of a delivery come from the emission that created it or from an administrator's run. So two different jobs of one delivery include one of an administrator, and for two workers at the same job there is `LeaseExclusion`. |
| **`DeliveryContract`** | in `DeliveryContractProofs`, all under `OneWorker`: one worker, as the repository deploys it |
| `AttemptsBoundedHolds`, `BackoffRespectedHolds` | `BooksInv`. What the worker has read of a row is stale in one way only: the row went with its subscription, for good (`Fresh`, which needs the foreign key, `RowsLive`). So every POST is of a row that was due and had attempts left, and is counted in the row or still to be marked, unless a crash came between (`Books`). |
| `ContractImplemented` | step by step under the mapping `Contract`: a POST is the contract's attempt, `MarkDelivered` and `MarkFailed` its verdicts, an insert or the deletion of a subscription its other steps; every other action leaves the mapped state as it is. `AckInv` gives the guard of a verdict of delivery, `BooksInv` those of the rest. |
| **`IngestionCache`** | in `IngestionCacheProofs` |
| `SingleFlightHolds`, `RefreshOwnedHolds` | `FlightInv`: the keys in `refreshing` and the threads between `fetch` and `finally` are in one-to-one correspondence. |
| `MonotonicServingHolds` | what a refresher holds and what the entry holds are at least what any finished call returned, because fetches of one key do not overlap. |
| `TypeCorrect` | `CountInv`: the fetches made and the calls that may still make one are together no more than the calls, which bounds the numbers of the artifacts. |
| **`CaseWorkflow`** | in `CaseWorkflowProofs` |
| `SafeRetryHolds` | `RetryInv`: an answered keyed call has left a record in its scope, records are never removed, and a call that finds one ends in its first step. |
| `TypeCorrect` | `TypeInv` (the locals a control point dereferences are set there; sampled times are past) gives the types; that event ids are the numbers up to their count is `EventInv`: a call inserts one event, so there are never more events than calls. |
| `SettledTimelineHolds` | an insert adds one event, with the timestamp its caller sampled and the largest id. If no call that awaits its insert is older than an event, the new one sorts behind it and neither enters what `list_case_events` returns before it nor pushes it out of the limit. |
| `QuietCaseAgreesHolds` | `QuietInv`: unless calls have raced, at most one call that writes the case row is under way (`OneWriter`); what each of its stages has already written is said stage by stage (`Stages`), and when nobody is, row and last event agree (`AtRest`). Timestamps of calls that do not overlap are in the order of their inserts. |
| **`EvidenceStore`** | in `EvidenceStoreProofs` |
| `TypeCorrect` | `TypeInv` adds `Shape`: a call under way has an artifact, and from the choice of a pack on a pack of it. |
| `IssuedPackKeptHolds` | `KeptInv`: a pack file is torn only while somebody writes it or after a write was cut short (`TornExplained`); the cutoff of a run over these packs is never later than the clock minus the shortest retention given so far (`CutoffPast`; a later, shorter one only makes fewer packs young), so a pack that was answered, or is about to be, keeps its file in some form while it is young (`WrittenKept`); and a file in some form that nobody writes and no cut write explains is whole. |
| `ReferencesKeptHolds` | `RefInv`: the blob of a pack that is whole and not `late` is there in some form (`BlobThere`), and every run between its scan and its sweep has found it (`ReferenceFound`), so the sweep spares it; `TornExplained` says again when such a file is not whole. |
| **`IngestSchedule`** | in `IngestScheduleProofs` |
| `TypeCorrect`, `NoPileUpHolds` | both inductive as they stand, together: a step clears the pending jobs, or moves a thread out of the window between a delete and its enqueue for the one job it adds, or counts an excess. |
| `QuietCallDecidesHolds` | `BookInv`: the interval in a worker's batch is that of its row while there is one, because an id is not used again while a batch holds it. So a step after a quiet call brings in no interval that was not there already. |
| `ScheduleAliveHolds` | `AliveInv`: unless a fault has cost it, a schedule lives in a thread about to enqueue something that repeats, or in a pending job that repeats and that no worker is about to mark as done. A freshly enqueued job has an id that no worker holds, so nobody is about to mark it. |
| **`RequestGate`** | in `RequestGateProofs` |
| `TypeCorrect` | `TypeInv`, from lemmas on the operators of `RateLimits`: `AfterAllow` keeps a limiter a limiter (`OthersKept`: buckets of different keys, and room for one more). |
| `RateBoundHolds` | `AllowanceKept`: what a key has spent and what its bucket still holds, refilled up to now, is within its allowance; a bucket that is not there counts as full, and that it went was counted as an eviction. While a request still carries the rate of an earlier plan, nothing has been spent under the present one (`StaleUnspent`), so the one call it makes is covered by the burst. `SpentRequested` counts admitted calls as requests, for the types. |
| **`UsageMetering`** | in `ServedRequestsProofs` |
| `TypeCorrect`, `UsageAccountedHolds` | `BillInv` splits the order of `rows \o Unwritten \o queue` into that of each sequence and that between any two (the batch as a whole is before the queue, only its unwritten rest is after the rows); what is lost is apart from all three, so that giving a batch or the queue up adds as many to `lost` as it takes from them. The rows of a batch under way are not in the statistics yet, so the bound on these needs `flushed + inserted <= Len(rows)`. How a batch falls into what is written and what is not is `SortedPart` and `SortedCut`. |
| **`ScreeningDecision`** | in `ServedRequestsProofs` |
| `VersionDetermines`, `PackReusableHolds` | the list version hashes the status and the content of every reply, and the name sets are a function of these: `VersionDetermines` says so for any replies at any times. `PackReusableHolds` counts keys and results, so it needs that the replies of the run are finitely many. |
| `EveryDecisionExplained`, `DecisionsExplainedHolds` | what a list version's name sets hold is what the bodies list, as far as the parsers read it (`ReadIsListed`, `ListedIsRead`); then the cases of `Match` and of `Disambiguate`, in which a block stays a block only without a penalty and nothing becomes an allow. The first is for any replies of the three sources and any likeness of names; the second restricts it to the inputs that the run enumerates. |
| **`Listing`** | in `ServedRequestsProofs` |
| `EveryListAlike`, `DatabasesAgreeHolds` | without empty strings the truth of a filter or a cursor (SQLite) and its presence (Postgres) are the same, so both select the same rows. The first is for any table, the second for the tables of two rows that the run enumerates. |
| `PagesCompleteHolds` | there is one row of every rank below the number of rows (`RanksTaken`), so `Sorted` lists a table in order, and a page is in order, newer than what it leaves out, and leaves something out only when full (`FetchedPage`); each of the four endpoints serves such a page of the rows after the cursor (`Served`). `WalkInv`, kept by every page (`VisitKeeps`): what has been seen is in order, none of it is after the cursor, and a row that stays as it is has been seen or is after the cursor. At rest, a sequence in order that has every newer row is where the sorted table begins (`BeginsSorted`). |
| `TraversalEnds` | every page with a cursor has listed a new row, and at rest no row twice: one page more than there are rows is enough. The number of pages, `Fetches`, is any, so the hypothesis `Fetches > Cardinality(RowIds)` is met by instances; with as many pages as rows the statement is false. |

The traversal needs an induction over its pages. `Induction` states one for a *set* of
numbers and not for an operator; it follows from `LeastNumber`, that a set of naturals has a
least element, and this from the library's theorem that strict inclusion orders finite
sets well, applied to the intervals `1 .. n`. The recursive function of `Traverse` is a
`CHOOSE`; that there is one to choose is the same induction (`Walked`).

The assumptions: `ScheduleAssumption` asks for finite sets of threads and jobs, at
least one worker, and a least job id, that of the job every table here starts with;
`IngestionAssumption` and `CaseAssumption` for finitely many threads and calls;
`RequestAssumption` for keys, hosts and "no request" to be told apart, and for rates that are
not zero; `ListingAssumption` for finitely many rows, and `ScreeningAssumption` for finitely
many names (a table and a list are finite, and only then can be counted). `OneWorker` is a hypothesis of the three theorems that name it and not an
assumption: with two workers a delivery may be POSTed by both after a lease ran out, its
attempts counted once, and `pipeline_two_workers` explores exactly that.

Only model-checked is liveness (`QueuedIsHandled`, `RefreshRuns`, `ScheduleRecurs`,
`UsageSettles`, `ReturnsUnlessWaiting`), which is out of TLAPS's reach. Every other property
of a passing run is proved; the properties of the violation runs are false.

What the two properties of `EvidenceStore` concede, because the code does it: a pack
completed between a retention run's scan and its sweep may lose its blob
(`storage.py:161`); so may one written from name sets that are still decoded in memory
(`screening.py:32`); a write that is cut short leaves a file that nothing repairs
(`storage.py:47`, `storage.py:75`), and it may hit a file that was whole, since a second
call that has just found it absent truncates it again.

What the properties of the later modules concede, again because the code does it:

* `QuietCallDecides` says nothing when a refresh of a schedule is running: it
  re-enqueues its interval after a stop was answered (`app.py:542`, `worker.py:188`).
* `RefreshRuns` promises a fetch, not that of the job the administrator enqueued: a
  worker's delete may take that job away and put its own in its place.
* `ScheduleAlive` excuses a fault between a delete and its enqueue (`lost`), two
  transactions both in the worker and in the API.
* `RateBound` grants the burst once more for each eviction of the key's bucket, which
  hosts without a key can cause in the default limiter (`ratelimit.py:42`).
* `DatabasesAgree` leaves out empty strings, which are no filter in SQLite and a
  filter that nothing passes in Postgres (`db.py:420`).
* `DecisionsExplained` lets pass whom the artifact shows a failed or empty source for,
  a name in another script, and a name of the UN list of which only `FIRST_NAME`
  was read (`sanctions_determinism.py:177`).
* `UsageAccounted` counts what a failed flush or the exit loses; the code's own statistics
  do not, nor do they count the rows that a failed flush did commit.
* `DeliveredWasAcked` is about the verdict of delivery alone: with two workers a verdict of
  failure may overwrite it, and only under one worker does the contract exclude that.
* `QuietCaseAgrees` excuses every case in which two updates overlapped or one died.

## Plan

Done: `DeliveryPipeline` with `DeliveryContract`, `IngestionCache`, `CaseWorkflow`,
`EvidenceStore`, `IngestSchedule`, `RequestGate` over `RateLimits`, `UsageMetering`,
`Listing`, `ScreeningDecision`, with the runs and theorems above; every safety property of a
passing run has its theorem. Left: the ingest caches of two processes over `IngestSchedule`,
that is, how old an artifact the API serves after a refresh in the worker.

## Not modelled, and why

The console is a pure client; the HTTP sessions of the sources, XML parsing and the
command-line pipeline are I/O; URL validation, PDF rendering, HMAC and CORS keep no
state. Configuration appears as constants. The order of eviction of the in-process
caches changes only when a miss happens, and every model lets a miss happen at any
time. `db_pg.py` implements the interface of `db.py`, except for `upsert_plan`, which it
lacks, and with its transactions, except where a method runs several statements, each of
which commits alone. Two of these matter: `insert_usage_events`, which `UsageMetering` models,
and `delete_webhook_subscription` (`db_pg.py:617-627`), which deletes the deliveries
and then the subscription. `DeliveryPipeline!Unsubscribe` is the one transaction of
`db.py:643-654`; in Postgres an emission in between may insert a delivery, whereupon the
second DELETE fails on the foreign key and the subscription stays, without its earlier
deliveries. That is not modelled. The
claims of Postgres use `FOR UPDATE SKIP LOCKED`, which the single actions `Claim` and
`ClaimDueJobs` cover, its list queries are `Listing`'s `...Pg` operators, and its
`list_case_events` orders events of one second freely, which `CaseWorkflow` does not
model. The limits of 200 subscriptions per emission and 500 events per bundle are
out of reach of small instances.
