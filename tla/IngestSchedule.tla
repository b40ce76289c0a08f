---------------------------- MODULE IngestSchedule ----------------------------
(***************************************************************************)
(* The ingest jobs of one cache key: the admin calls that enqueue, schedule *)
(* and stop a refresh (app.py) and the worker branch that runs a refresh    *)
(* and, if it has an interval, enqueues the next one (worker.py), over the  *)
(* jobs table (db_pg.py).                                                   *)
(*                                                                          *)
(* One statement is one transaction and one action.  run_at and             *)
(* locked_until are kept as the ticks left until they are reached, so the   *)
(* model needs no clock; release_expired_job_leases clears leases that      *)
(* claim_due_jobs already ignores, and needs no action.  Ids are a pool:    *)
(* one is free when it has no row and no worker holds it.                   *)
(***************************************************************************)
EXTENDS Naturals, FiniteSets

CONSTANTS
    Workers,     \* worker processes
    Admins,      \* request threads that serve an admin call
    JobIds,      \* pool of job ids, numbers
    NoJob,
    Intervals,   \* interval_s, in ticks
    RetryDelay,  \* ticks of the 60 s after which a failed refresh runs again
    Lease,       \* ticks of the 30 s lease
    MaxEvents    \* BOUND: admin calls, crashes, exceptions and overruns together

ASSUME ScheduleAssumption ==
    /\ IsFiniteSet(Workers) /\ IsFiniteSet(Admins)
    /\ Workers # {} /\ Workers \cap Admins = {}
    /\ JobIds \subseteq Nat /\ IsFiniteSet(JobIds) /\ NoJob \notin JobIds
    /\ \E j \in JobIds : \A k \in JobIds : j <= k   \* there is a job id
    /\ Intervals \subseteq Nat \ {0}
    /\ {RetryDelay, Lease, MaxEvents} \subseteq Nat

VARIABLES
    jobs,     \* the row of each id: status, interval_s of the payload (0: once),
              \* ticks until run_at, ticks until locked_until
    pc,       \* thread: control point
    batch,    \* worker: claimed jobs it has not finished with, id to interval_s
    cur,      \* worker: the job it runs
    asked,    \* admin: interval_s of the job it is about to enqueue
    events,   \* admin calls begun and faults so far
    wanted,   \* history: interval the last admin call asked for, 0 for none
    clean,    \* history: the last admin call met nobody at work on a schedule
    lost,     \* history: since that call, someone deleted and did not enqueue
    owed,     \* history: an admin enqueued a job and no fetch has begun since
    excess    \* history: done jobs that became pending again, and failed deletes

historyVars == <<wanted, clean, lost, owed, excess>>
vars == <<jobs, pc, batch, cur, asked, events, historyVars>>

Threads == Workers \union Admins
Row(status, every, due, lock) ==
    [status |-> status, every |-> every, due |-> due, lock |-> lock]
NoRow == Row("none", 0, 0, 0)
Pending == {j \in JobIds : jobs[j].status \in {"queued", "retry"}}
Held == UNION {DOMAIN batch[w] : w \in Workers}
Interval(w) == batch[w][cur[w]]
Window == {t \in Threads : pc[t] = "enqueue"}   \* between delete and enqueue

TypeOK ==
    /\ jobs \in [JobIds -> [status : {"none", "queued", "retry", "done"},
                            every : Intervals \union {0}, due : Nat, lock : 0 .. Lease]]
    /\ pc \in [Threads -> {"idle", "batch", "fetching", "enqueue", "mark"}]
    /\ batch \in [Workers -> UNION {[S -> Intervals \union {0}] : S \in SUBSET JobIds}]
    /\ cur \in [Workers -> JobIds \union {NoJob}]
    /\ \A w \in Workers :
        pc[w] \in {"fetching", "enqueue", "mark"} => cur[w] \in DOMAIN batch[w]
    /\ asked \in [Admins -> Intervals \union {0}]
    /\ events \in 0 .. MaxEvents /\ excess \in 0 .. events
    /\ wanted \in Intervals \union {0}
    /\ {clean, lost, owed} \subseteq BOOLEAN

\* The table is empty, or a schedule is in place with its next run due.
Init ==
    /\ wanted \in Intervals \union {0}
    /\ jobs = [j \in JobIds |-> IF wanted # 0 /\ \A k \in JobIds : j <= k
                               THEN Row("queued", wanted, 0, 0) ELSE NoRow]
    /\ pc = [t \in Threads |-> "idle"]
    /\ batch = [w \in Workers |-> <<>>] /\ cur = [w \in Workers |-> NoJob]
    /\ asked = [a \in Admins |-> 0]
    /\ events = 0 /\ excess = 0
    /\ clean = TRUE /\ lost = FALSE /\ owed = FALSE

-----------------------------------------------------------------------------
\* Mutant of DeletePendingJobs: a job waiting for its retry is left.
DeleteQueuedJobs ==
    jobs' = [j \in JobIds |-> IF jobs[j].status = "queued" THEN NoRow ELSE jobs[j]]

\* delete_pending_jobs: every pending job of the key, whoever runs it.
DeletePendingJobs == jobs' = [j \in JobIds |-> IF j \in Pending THEN NoRow ELSE jobs[j]]

Free(j) == jobs[j] = NoRow /\ j \notin Held

\* Mutant of EnqueueJob: the new row is under lease until its run_at.
EnqueueLeased(every, due) ==
    \E j \in JobIds :
        /\ Free(j) /\ \A k \in JobIds : Free(k) => j <= k
        /\ jobs' = [jobs EXCEPT ![j] = Row("queued", every, due, due)]

\* enqueue_job: a new row; the lowest free id of the pool stands for it.
EnqueueJob(every, due) ==
    \E j \in JobIds :
        /\ Free(j) /\ \A k \in JobIds : Free(k) => j <= k
        /\ jobs' = [jobs EXCEPT ![j] = Row("queued", every, due, 0)]

Goto(t, label) == pc' = [pc EXCEPT ![t] = label]

\* The deletion an admin call begins with, and what it asks for.
Replace(a, interval) ==
    /\ pc[a] = "idle" /\ events < MaxEvents
    /\ events' = events + 1
    /\ DeletePendingJobs
    /\ wanted' = interval
    /\ clean' = /\ Window = {}
                /\ \A w \in Workers : \A j \in DOMAIN batch[w] : batch[w][j] = 0
    /\ lost' = FALSE
    /\ owed' = FALSE
    /\ UNCHANGED <<batch, cur, excess>>

RefreshIngest(a) ==
    /\ Replace(a, 0) /\ Goto(a, "enqueue") /\ asked' = [asked EXCEPT ![a] = 0]

\* With the scheduler enabled; without it the call is refused.
ScheduleRefresh(a, interval) ==
    /\ Replace(a, interval) /\ Goto(a, "enqueue")
    /\ asked' = [asked EXCEPT ![a] = interval]

StopSchedule(a) == Replace(a, 0) /\ UNCHANGED <<pc, asked>>

AdminEnqueue(a) ==
    /\ pc[a] = "enqueue"
    /\ EnqueueJob(asked[a], 0)
    /\ Goto(a, "idle")
    /\ asked' = [asked EXCEPT ![a] = 0]
    /\ owed' = TRUE
    /\ UNCHANGED <<batch, cur, events, wanted, clean, lost, excess>>

\* The enqueue raises, or the API process dies before it.
AdminFails(a) ==
    /\ pc[a] = "enqueue" /\ events < MaxEvents
    /\ events' = events + 1
    /\ Goto(a, "idle")
    /\ asked' = [asked EXCEPT ![a] = 0]
    /\ lost' = TRUE
    /\ UNCHANGED <<jobs, batch, cur, wanted, clean, owed, excess>>

-----------------------------------------------------------------------------
Claimable(j) == j \in Pending /\ jobs[j].due = 0 /\ jobs[j].lock = 0

\* claim_due_jobs: a batch takes every due job that nobody holds a lease on.
ClaimDueJobs(w) ==
    LET claimed == {j \in JobIds : Claimable(j)} IN
    /\ pc[w] = "idle" /\ claimed # {}
    /\ batch' = [batch EXCEPT ![w] = [j \in claimed |-> jobs[j].every]]
    /\ jobs' = [j \in JobIds |->
                  IF j \in claimed THEN [jobs[j] EXCEPT !.lock = Lease] ELSE jobs[j]]
    /\ Goto(w, "batch")
    /\ UNCHANGED <<cur, asked, events, historyVars>>

\* The next job of the batch: the row may have been deleted since the claim.
BeginFetch(w) ==
    /\ pc[w] = "batch"
    /\ \E j \in DOMAIN batch[w] : cur' = [cur EXCEPT ![w] = j]
    /\ Goto(w, "fetching")
    /\ owed' = FALSE
    /\ UNCHANGED <<jobs, batch, asked, events, wanted, clean, lost, excess>>

\* Mutant of DeleteBeforeNext: the worker deletes nothing but its own job.
DeleteOwnJob(w) ==
    /\ pc[w] = "fetching" /\ Interval(w) # 0
    /\ jobs' = [jobs EXCEPT ![cur[w]] = NoRow]
    /\ Goto(w, "enqueue")
    /\ UNCHANGED <<batch, cur, asked, events, historyVars>>

\* The fetch, the put and the audit event are done, and the job repeats: its own
\* row is among those the worker deletes.
DeleteBeforeNext(w) ==
    /\ pc[w] = "fetching" /\ Interval(w) # 0
    /\ DeletePendingJobs
    /\ Goto(w, "enqueue")
    /\ UNCHANGED <<batch, cur, asked, events, historyVars>>

\* The deletion raises: the exception is swallowed and the worker goes on.
DeleteRaises(w) ==
    /\ pc[w] = "fetching" /\ Interval(w) # 0 /\ events < MaxEvents
    /\ events' = events + 1 /\ excess' = excess + 1
    /\ Goto(w, "enqueue")
    /\ UNCHANGED <<jobs, batch, cur, asked, wanted, clean, lost, owed>>

\* Mutant of EnqueueNext: the payload of the next job has no interval.
EnqueueOnce(w) ==
    /\ pc[w] = "enqueue"
    /\ EnqueueJob(0, Interval(w))
    /\ Goto(w, "mark")
    /\ UNCHANGED <<batch, cur, asked, events, historyVars>>

EnqueueNext(w) ==
    /\ pc[w] = "enqueue"
    /\ EnqueueJob(Interval(w), Interval(w))
    /\ Goto(w, "mark")
    /\ UNCHANGED <<batch, cur, asked, events, historyVars>>

\* The worker is left with these jobs; a done row that no worker holds will not
\* be touched again, and the model drops it.
Continue(w, rest, rows) ==
    /\ batch' = [batch EXCEPT ![w] = [j \in rest |-> @[j]]]
    /\ cur' = [cur EXCEPT ![w] = NoJob]
    /\ Goto(w, IF rest = {} THEN "idle" ELSE "batch")
    /\ jobs' = [j \in JobIds |->
                  IF rows[j].status = "done" /\ j \notin Held' THEN NoRow ELSE rows[j]]

Rest(w) == DOMAIN batch[w] \ {cur[w]}

\* mark_job_success, an UPDATE by id: a deleted row stays deleted.
MarkJobSuccess(rows, j) ==
    IF rows[j].status = "none" THEN rows ELSE [rows EXCEPT ![j].status = "done"]

\* Mutant of MarkJobRetry: the failed job is over.
MarkJobFailed(rows, j) ==
    IF rows[j].status = "none" THEN rows ELSE [rows EXCEPT ![j].status = "done"]

\* mark_job_retry, an UPDATE by id too: it revives a job another worker has
\* marked done, does nothing to a deleted one, and knows no limit of attempts.
MarkJobRetry(rows, j) ==
    IF rows[j].status = "none"
    THEN rows
    ELSE [rows EXCEPT ![j].status = "retry", ![j].due = RetryDelay]

EndJob(w) ==
    /\ \/ pc[w] = "fetching" /\ Interval(w) = 0
       \/ pc[w] = "mark"
    /\ Continue(w, Rest(w), MarkJobSuccess(jobs, cur[w]))
    /\ UNCHANGED <<asked, events, historyVars>>

\* Something in the try block raises: the fetch, the enqueue or the last update.
RefreshRaises(w) ==
    /\ pc[w] \in {"fetching", "enqueue", "mark"} /\ events < MaxEvents
    /\ events' = events + 1
    /\ lost' = (lost \/ pc[w] = "enqueue")
    /\ excess' = excess + (IF jobs[cur[w]].status = "done" THEN 1 ELSE 0)
    /\ Continue(w, Rest(w), MarkJobRetry(jobs, cur[w]))
    /\ UNCHANGED <<asked, wanted, clean, owed>>

\* The worker process dies and is restarted, its jobs still under lease.
Crash(w) ==
    /\ pc[w] # "idle" /\ events < MaxEvents
    /\ events' = events + 1
    /\ lost' = (lost \/ pc[w] = "enqueue")
    /\ Continue(w, {}, jobs)
    /\ UNCHANGED <<asked, wanted, clean, owed, excess>>

\* Mutant of Elapse: a lease never runs out.
ElapseDueOnly(row) == [row EXCEPT !.due = IF @ > 0 THEN @ - 1 ELSE 0]

\* A tick passes.  One that passes while a worker is at work, a run longer than
\* the 30 s lease, counts as a fault.
Elapse(row) == [row EXCEPT !.due = IF @ > 0 THEN @ - 1 ELSE 0,
                           !.lock = IF @ > 0 THEN @ - 1 ELSE 0]

Overrun == \E w \in Workers : pc[w] # "idle"

Tick ==
    /\ events' = events + (IF Overrun THEN 1 ELSE 0) /\ events' <= MaxEvents
    /\ jobs' = [j \in JobIds |-> Elapse(jobs[j])]
    /\ jobs' # jobs
    /\ UNCHANGED <<pc, batch, cur, asked, historyVars>>

AdminStep(a) ==
    \/ RefreshIngest(a)
    \/ \E i \in Intervals : ScheduleRefresh(a, i)
    \/ StopSchedule(a)
    \/ AdminEnqueue(a)
    \/ AdminFails(a)

WorkerRuns(w) ==
    \/ ClaimDueJobs(w) \/ BeginFetch(w)
    \/ DeleteBeforeNext(w) \/ EnqueueNext(w) \/ EndJob(w)

WorkerFails(w) == DeleteRaises(w) \/ RefreshRaises(w) \/ Crash(w)

Next ==
    \/ \E a \in Admins : AdminStep(a)
    \/ \E w \in Workers : WorkerRuns(w) \/ WorkerFails(w)
    \/ Tick

Spec == Init /\ [][Next]_vars

\* The worker loop never ends, a fetch has timeouts, a request thread finishes
\* its call, and time passes.
FairSpec ==
    /\ Spec
    /\ \A w \in Workers : WF_vars(WorkerRuns(w))
    /\ \A a \in Admins : WF_vars(AdminEnqueue(a))
    /\ WF_vars(Tick)

-----------------------------------------------------------------------------
\* What the jobs, the batches and the calls under way will repeat.
Live ==
    {jobs[j].every : j \in Pending} \union {asked[a] : a \in Admins}
        \union UNION {{batch[w][j] : j \in DOMAIN batch[w]} : w \in Workers}

\* A schedule the last admin call asked for lives on: some job of it is
\* pending, or someone is about to enqueue one, through every refresh, retry,
\* lost lease and race, unless a fault fell between a delete and its enqueue.
ScheduleAlive ==
    wanted # 0 =>
        \/ lost
        \/ Window # {}
        \/ \E j \in Pending : jobs[j].every # 0

\* An admin call that meets nobody at work on a schedule decides: from then on
\* nothing repeats but what it asked for, and after a stop nothing at all.
QuietCallDecides == clean => Live \subseteq {0, wanted}

\* The delete before each enqueue keeps the table from filling up: there is
\* never more than one pending job per thread, but for the deletes that failed
\* and for done jobs that a late failure made pending again.
NoPileUp ==
    Cardinality(Pending) + Cardinality(Window)
        <= Cardinality(Workers) + Cardinality(Admins) + excess

\* A refresh an admin enqueued is followed by a fetch, or by another admin
\* call: a worker that deletes its job leaves one of its own in its place.
RefreshRuns == owed ~> (~owed \/ lost)

\* A schedule keeps fetching until somebody ends it.
ScheduleRecurs ==
    wanted # 0 ~> \/ wanted = 0 \/ lost
                  \/ \E w \in Workers : pc[w] = "fetching" /\ Interval(w) # 0
=============================================================================
