--------------------------- MODULE DeliveryPipeline ---------------------------
(***************************************************************************)
(* The webhook delivery pipeline of ProofRail: the tables webhook_deliveries *)
(* and jobs, the API threads that insert into them (app.py), and the worker  *)
(* processes that claim jobs and POST deliveries (worker.py).               *)
(*                                                                          *)
(* Every database method of db.py runs in a transaction of its own, so one  *)
(* action here is one such transaction, or one HTTP request.  Everything a  *)
(* handler or the worker keeps in local variables between two transactions  *)
(* is kept in the t* and w* variables below and may be stale when used.     *)
(*                                                                          *)
(* Row ids: an emission inserts at most one delivery per subscription, so   *)
(* the autoincrement delivery_id is written <<emission, subscription>>, and *)
(* a job_id <<API thread, delivery>>.  A row whose status is "none" is not  *)
(* in the table.                                                            *)
(***************************************************************************)
EXTENDS Naturals, FiniteSets

CONSTANTS
    Subs,         \* ids of webhook subscriptions of one customer
    Emitters,     \* API calls that emit an event (_emit_webhooks)
    Admins,       \* calls of POST /v1/admin/webhooks/deliveries/run
    Workers,      \* worker processes
    NoJob,        \* "no current job" of a worker, or "no delivery" of a thread
    MaxAttempts,  \* cfg.webhook_max_attempts
    RetryBase,    \* cfg.webhook_retry_base_s
    LeaseTime,    \* lease of a claimed job (30 s in worker.py)
    ClaimLimit,   \* jobs per claim (100 in worker.py)
    AdminLimit,   \* deliveries per admin run (query parameter limit)
    MaxTime,      \* BOUND: the clock stops here
    MaxCrashes,   \* BOUND: worker crashes
    ApiMayCrash   \* may an API thread die between two of its transactions?

Threads == Emitters \union Admins
Deliveries == Emitters \X Subs
Jobs == Threads \X Deliveries

ASSUME ConstantsAssumption ==
    /\ Emitters \intersect Admins = {}
    /\ MaxAttempts \in Nat \ {0}
    /\ RetryBase \in Nat
    /\ LeaseTime \in Nat \ {0}
    /\ ClaimLimit \in Nat \ {0}
    /\ AdminLimit \in Nat \ {0}
    /\ MaxTime \in Nat \ {0}
    /\ MaxCrashes \in Nat
    /\ ApiMayCrash \in BOOLEAN
    /\ NoJob \notin Jobs
    /\ NoJob \notin Deliveries

VARIABLES
    clock,    \* wall clock in seconds, from 1: time 0 stands for SQL NULL
    subs,     \* subscription -> "unborn", "live" or "gone"
    dlv,      \* rows of webhook_deliveries
    job,      \* rows of jobs whose job_type is webhook_delivery
    tpc,      \* API thread: control point
    ttodo,    \* API thread: deliveries of its for-loop still to be handled
    tcur,     \* API thread: delivery of the current iteration
    tnow,     \* API thread: its local `now`
    wpc,      \* worker: control point inside process_once
    wnow,     \* worker: `now`, sampled once at the start of process_once
    wlease,   \* worker: `lease_until`
    wbatch,   \* worker: claimed jobs it has not finished
    wjob,     \* worker: the job `j` of the current iteration
    wsnap,    \* worker: the row `d` as get_webhook_delivery returned it
    posts,    \* history: POSTs tried for each delivery (calls of deliver_once)
    acked,    \* history: deliveries whose receiver answered 2xx
    crashes   \* worker crashes so far

dbVars == <<subs, dlv, job>>
apiVars == <<tpc, ttodo, tcur, tnow>>
workerVars == <<wpc, wnow, wlease, wbatch, wjob, wsnap>>
historyVars == <<posts, acked>>
vars == <<clock, dbVars, apiVars, workerVars, historyVars, crashes>>

-----------------------------------------------------------------------------
Time == 0 .. MaxTime
DeliveryRow ==
    [status : {"none", "queued", "retry", "delivered", "failed"},
     attempts : Nat, nextAt : Nat]
JobRow ==
    [status : {"none", "queued", "retry", "done"}, runAt : Nat, lockedUntil : Nat]

NoDelivery == [status |-> "none", attempts |-> 0, nextAt |-> 0]
NoRow == [status |-> "none", runAt |-> 0, lockedUntil |-> 0]

Pending(row) == row.status \in {"queued", "retry"}

TypeOK ==
    /\ clock \in Time
    /\ subs \in [Subs -> {"unborn", "live", "gone"}]
    /\ dlv \in [Deliveries -> DeliveryRow]
    /\ job \in [Jobs -> JobRow]
    /\ tpc \in [Threads -> {"ready", "next", "dedupe", "enqueue", "done", "crashed"}]
    /\ ttodo \in [Threads -> SUBSET Deliveries]
    /\ tcur \in [Threads -> Deliveries \union {NoJob}]
    /\ tnow \in [Threads -> Time]
    /\ wpc \in [Workers -> {"idle", "claim", "work", "lookup", "post",
                            "markDelivered", "markRetry", "markFailed",
                            "ackJob", "requeueJob", "down"}]
    /\ wnow \in [Workers -> Time]
    /\ wlease \in [Workers -> Nat]
    /\ wbatch \in [Workers -> SUBSET Jobs]
    /\ wjob \in [Workers -> Jobs \union {NoJob}]
    /\ wsnap \in [Workers -> DeliveryRow]
    /\ posts \in [Deliveries -> Nat]
    /\ acked \in SUBSET Deliveries
    /\ crashes \in 0 .. MaxCrashes

Init ==
    /\ clock = 1
    /\ subs = [s \in Subs |-> "unborn"]
    /\ dlv = [d \in Deliveries |-> NoDelivery]
    /\ job = [j \in Jobs |-> NoRow]
    /\ tpc = [t \in Threads |-> "ready"]
    /\ ttodo = [t \in Threads |-> {}]
    /\ tcur = [t \in Threads |-> NoJob]
    /\ tnow = [t \in Threads |-> 0]
    /\ wpc = [w \in Workers |-> "idle"]
    /\ wnow = [w \in Workers |-> 0]
    /\ wlease = [w \in Workers |-> 0]
    /\ wbatch = [w \in Workers |-> {}]
    /\ wjob = [w \in Workers |-> NoJob]
    /\ wsnap = [w \in Workers |-> NoDelivery]
    /\ posts = [d \in Deliveries |-> 0]
    /\ acked = {}
    /\ crashes = 0

\* SELECT ... ORDER BY key LIMIT n over the rows S: a set of n of them (or all)
\* such that no row left out sorts strictly before one taken.
Earliest(S, key, n) ==
    {T \in SUBSET S :
        /\ Cardinality(T) <= n
        /\ T # S => Cardinality(T) = n
        /\ \A x \in T, y \in S \ T : key[x] <= key[y]}

\* next_attempt_ts: exponential backoff, the exponent capped at 16.
Backoff(attempts) == RetryBase * 2 ^ (IF attempts < 16 THEN attempts ELSE 16)

-----------------------------------------------------------------------------
(* Subscriptions: create and delete, each one transaction.                  *)

Subscribe(s) ==
    /\ subs[s] = "unborn"
    /\ subs' = [subs EXCEPT ![s] = "live"]
    /\ UNCHANGED <<clock, dlv, job, apiVars, workerVars, historyVars, crashes>>

\* The deliveries of the subscription go with it, in one transaction of SQLite; their
\* jobs stay.
Unsubscribe(s) ==
    /\ subs[s] = "live"
    /\ subs' = [subs EXCEPT ![s] = "gone"]
    /\ dlv' = [d \in Deliveries |-> IF d[2] = s THEN NoDelivery ELSE dlv[d]]
    /\ UNCHANGED <<clock, job, apiVars, workerVars, historyVars, crashes>>

-----------------------------------------------------------------------------
(* API threads.  A thread runs one call: "ready", then for each delivery of *)
(* its loop "next" (-> "dedupe") -> "enqueue", and at last "done".          *)

ApiUnchanged == UNCHANGED <<clock, subs, workerVars, historyVars, crashes>>

\* _emit_webhooks reads the active subscriptions once, before the loop.
EmitStart(e) ==
    /\ tpc[e] = "ready"
    /\ ttodo' = [ttodo EXCEPT ![e] = {<<e, s>> : s \in {x \in Subs : subs[x] = "live"}}]
    /\ tpc' = [tpc EXCEPT ![e] = "next"]
    /\ ApiUnchanged /\ UNCHANGED <<dlv, job, tcur, tnow>>

EmitInsert(e) ==
    /\ tpc[e] = "next"
    /\ \E d \in ttodo[e] :
        /\ subs[d[2]] = "live"
        /\ dlv' = [dlv EXCEPT ![d] = [status |-> "queued", attempts |-> 0, nextAt |-> clock]]
        /\ tcur' = [tcur EXCEPT ![e] = d]
        /\ ttodo' = [ttodo EXCEPT ![e] = @ \ {d}]
    /\ tpc' = [tpc EXCEPT ![e] = "dedupe"]
    /\ ApiUnchanged /\ UNCHANGED <<job, tnow>>

\* The subscription was deleted since EmitStart: the foreign key refuses the
\* insert, the exception ends the call and the rest of the loop is lost.
EmitRefused(e) ==
    /\ tpc[e] = "next"
    /\ \E d \in ttodo[e] : subs[d[2]] # "live"
    /\ ttodo' = [ttodo EXCEPT ![e] = {}]
    /\ tpc' = [tpc EXCEPT ![e] = "done"]
    /\ ApiUnchanged /\ UNCHANGED <<dlv, job, tcur, tnow>>

\* admin_run_webhook_deliveries: the due deliveries are read once.
AdminStart(a) ==
    /\ tpc[a] = "ready"
    /\ LET due == {d \in Deliveries : Pending(dlv[d]) /\ dlv[d].nextAt <= clock}
           nextAt == [d \in Deliveries |-> dlv[d].nextAt]
       IN \E list \in Earliest(due, nextAt, AdminLimit) : ttodo' = [ttodo EXCEPT ![a] = list]
    /\ tnow' = [tnow EXCEPT ![a] = clock]
    /\ tpc' = [tpc EXCEPT ![a] = "next"]
    /\ ApiUnchanged /\ UNCHANGED <<dlv, job, tcur>>

\* delete_pending_jobs: by key and status only, so leased rows go too.
DeletePendingJobs(d) ==
    job' = [j \in Jobs |-> IF j[2] = d /\ Pending(job[j]) THEN NoRow ELSE job[j]]

EmitDedupe(e) ==
    /\ tpc[e] = "dedupe"
    /\ DeletePendingJobs(tcur[e])
    /\ tpc' = [tpc EXCEPT ![e] = "enqueue"]
    /\ ApiUnchanged /\ UNCHANGED <<dlv, ttodo, tcur, tnow>>

AdminDedupe(a) ==
    /\ tpc[a] = "next"
    /\ \E d \in ttodo[a] :
        /\ DeletePendingJobs(d)
        /\ tcur' = [tcur EXCEPT ![a] = d]
        /\ ttodo' = [ttodo EXCEPT ![a] = @ \ {d}]
    /\ tpc' = [tpc EXCEPT ![a] = "enqueue"]
    /\ ApiUnchanged /\ UNCHANGED <<dlv, tnow>>

\* An emission stamps run_at afresh, an admin run uses its stale `now`.
Enqueue(t) ==
    /\ tpc[t] = "enqueue"
    /\ job' = [job EXCEPT ![<<t, tcur[t]>>] =
                 [status |-> "queued", lockedUntil |-> 0,
                  runAt |-> IF t \in Emitters THEN clock ELSE tnow[t]]]
    /\ tpc' = [tpc EXCEPT ![t] = "next"]
    /\ tcur' = [tcur EXCEPT ![t] = NoJob]
    /\ ApiUnchanged /\ UNCHANGED <<dlv, ttodo, tnow>>

ApiFinish(t) ==
    /\ tpc[t] = "next" /\ ttodo[t] = {}
    /\ tpc' = [tpc EXCEPT ![t] = "done"]
    /\ ApiUnchanged /\ UNCHANGED <<dlv, job, ttodo, tcur, tnow>>

\* The API process dies, or a database call raises, between two transactions.  A
\* thread with nothing left to do is as good as done.
ApiCrash(t) ==
    /\ ApiMayCrash
    /\ tpc[t] \in {"next", "dedupe", "enqueue"}
    /\ tpc[t] = "next" => ttodo[t] # {}
    /\ tpc' = [tpc EXCEPT ![t] = "crashed"]
    /\ ttodo' = [ttodo EXCEPT ![t] = {}]
    /\ ApiUnchanged /\ UNCHANGED <<dlv, job, tcur, tnow>>

-----------------------------------------------------------------------------
(* Workers.  One tick of process_once: "idle" -> "claim" -> "work", then  *)
(* one pass per claimed job:                                                *)
(*   "work" -> "lookup" -> "post" -> "mark..." -> "ackJob" -> "work"        *)
(* with the early exits of the code, and back to "idle" after the last job. *)

WorkerUnchanged == UNCHANGED <<clock, subs, apiVars>>

\* Mutant of Tick: `now` and `lease_until` swapped.
TickSwapped(w) ==
    /\ wpc[w] = "idle"
    /\ wnow' = [wnow EXCEPT ![w] = clock + LeaseTime]
    /\ wlease' = [wlease EXCEPT ![w] = clock]
    /\ wpc' = [wpc EXCEPT ![w] = "claim"]
    /\ WorkerUnchanged
    /\ UNCHANGED <<dlv, job, wbatch, wjob, wsnap, historyVars, crashes>>

\* The start of process_once: `now`, sampled once and used until the end of the
\* tick; release_expired_job_leases, whose exceptions are swallowed; `lease_until`.
Tick(w) ==
    /\ wpc[w] = "idle"
    /\ wnow' = [wnow EXCEPT ![w] = clock]
    /\ \/ job' = [j \in Jobs |-> IF Pending(job[j]) /\ job[j].lockedUntil < clock
                                 THEN [job[j] EXCEPT !.lockedUntil = 0] ELSE job[j]]
       \/ UNCHANGED job
    /\ wlease' = [wlease EXCEPT ![w] = clock + LeaseTime]
    /\ wpc' = [wpc EXCEPT ![w] = "claim"]
    /\ WorkerUnchanged
    /\ UNCHANGED <<dlv, wbatch, wjob, wsnap, historyVars, crashes>>

\* Mutants of Claimable: the lease is not looked at; only released leases count.
ClaimableLeased(j, now) == Pending(job[j]) /\ job[j].runAt <= now
ClaimableReleased(j, now) == ClaimableLeased(j, now) /\ job[j].lockedUntil = 0

\* A due job that nobody has leased, or whose lease is over.
Claimable(j, now) ==
    /\ Pending(job[j])
    /\ job[j].runAt <= now
    /\ job[j].lockedUntil <= now

\* The locals of process_once after its last job: the tick is over.
EndTick(w) ==
    /\ wpc' = [wpc EXCEPT ![w] = "idle"]
    /\ wnow' = [wnow EXCEPT ![w] = 0]
    /\ wlease' = [wlease EXCEPT ![w] = 0]

\* Mutants of Claim: the claimed jobs leave the queue at once (a destructive
\* read); the lease is forgotten.
ClaimWriting(w, row(_)) ==
    /\ wpc[w] = "claim"
    /\ LET claimed == {j \in Jobs : Claimable(j, wnow[w])} IN
        /\ job' = [j \in Jobs |-> IF j \in claimed THEN row(job[j]) ELSE job[j]]
        /\ wbatch' = [wbatch EXCEPT ![w] = claimed]
        /\ IF claimed = {} THEN EndTick(w)
           ELSE wpc' = [wpc EXCEPT ![w] = "work"] /\ UNCHANGED <<wnow, wlease>>
    /\ WorkerUnchanged
    /\ UNCHANGED <<dlv, wjob, wsnap, historyVars, crashes>>
ClaimDestructive(w) == ClaimWriting(w, LAMBDA r : [r EXCEPT !.status = "done"])
ClaimUnlocked(w) == ClaimWriting(w, LAMBDA r : r)

\* claim_due_jobs, one BEGIN IMMEDIATE transaction.  The status stays pending.
Claim(w) ==
    /\ wpc[w] = "claim"
    /\ LET due == {j \in Jobs : Claimable(j, wnow[w])}
           runAt == [j \in Jobs |-> job[j].runAt]
       IN \E claimed \in Earliest(due, runAt, ClaimLimit) :
            /\ job' = [j \in Jobs |-> IF j \in claimed
                                      THEN [job[j] EXCEPT !.lockedUntil = wlease[w]]
                                      ELSE job[j]]
            /\ wbatch' = [wbatch EXCEPT ![w] = claimed]
            /\ \/ /\ claimed = {} /\ EndTick(w)
               \/ /\ claimed # {}
                  /\ wpc' = [wpc EXCEPT ![w] = "work"]
                  /\ UNCHANGED <<wnow, wlease>>
    /\ WorkerUnchanged
    /\ UNCHANGED <<dlv, wjob, wsnap, historyVars, crashes>>

\* Mutants of Fetch: every claimed job is posted; a retry is posted early.
FetchIf(w, go(_)) ==
    /\ wpc[w] = "work"
    /\ \E j \in wbatch[w] :
        /\ wjob' = [wjob EXCEPT ![w] = j]
        /\ wsnap' = [wsnap EXCEPT ![w] = dlv[j[2]]]
        /\ wpc' = [wpc EXCEPT ![w] = IF go(dlv[j[2]]) THEN "lookup" ELSE "ackJob"]
    /\ WorkerUnchanged
    /\ UNCHANGED <<dlv, job, wnow, wlease, wbatch, historyVars, crashes>>
FetchAnyStatus(w) == FetchIf(w, LAMBDA r : r.status # "none")
FetchEarly(w) == FetchIf(w, LAMBDA r : Pending(r))

\* get_webhook_delivery for the next job, and the two early exits that look at
\* the row alone: not pending any more, or not due yet.  The code takes the batch in
\* run_at order; the model takes it in any order.
Fetch(w) ==
    /\ wpc[w] = "work"
    /\ \E j \in wbatch[w] :
        LET d == dlv[j[2]] IN
        /\ wjob' = [wjob EXCEPT ![w] = j]
        /\ wsnap' = [wsnap EXCEPT ![w] = d]
        /\ \/ /\ ~Pending(d)
              /\ wpc' = [wpc EXCEPT ![w] = "ackJob"]
           \/ /\ Pending(d) /\ d.nextAt > wnow[w]
              /\ wpc' = [wpc EXCEPT ![w] = "requeueJob"]
           \/ /\ Pending(d) /\ d.nextAt <= wnow[w]
              /\ wpc' = [wpc EXCEPT ![w] = "lookup"]
    /\ WorkerUnchanged
    /\ UNCHANGED <<dlv, job, wnow, wlease, wbatch, historyVars, crashes>>

\* get_webhook_subscription.
Lookup(w) ==
    /\ wpc[w] = "lookup"
    /\ \/ /\ subs[wjob[w][2][2]] = "live"
          /\ wpc' = [wpc EXCEPT ![w] = "post"]
       \/ /\ subs[wjob[w][2][2]] # "live"
          /\ wpc' = [wpc EXCEPT ![w] = "markFailed"]
    /\ WorkerUnchanged
    /\ UNCHANGED <<dlv, job, wnow, wlease, wbatch, wjob, wsnap, historyVars, crashes>>

\* Mutant of Post: any answer counts as success.
PostAnyAnswer(w) ==
    /\ wpc[w] = "post"
    /\ posts' = [posts EXCEPT ![wjob[w][2]] = @ + 1]
    /\ acked' \in {acked, acked \union {wjob[w][2]}}
    /\ wpc' = [wpc EXCEPT ![w] = "markDelivered"]
    /\ WorkerUnchanged
    /\ UNCHANGED <<dlv, job, wnow, wlease, wbatch, wjob, wsnap, crashes>>

\* deliver_once.  The request is in flight while wpc is "post".  The worker
\* sees ok only for a 2xx answer; after a timeout or a lost answer it sees an
\* error although the receiver may have answered 2xx.  A URL that validation now
\* refuses is an error as well, and counts as an attempt.
Post(w) ==
    /\ wpc[w] = "post"
    /\ LET d == wjob[w][2] IN
        /\ posts' = [posts EXCEPT ![d] = @ + 1]
        /\ \/ /\ acked' = acked \union {d}
              /\ wpc' = [wpc EXCEPT ![w] = "markDelivered"]
           \/ /\ acked' \in {acked, acked \union {d}}
              /\ wpc' = [wpc EXCEPT ![w] = IF wsnap[w].attempts + 1 >= MaxAttempts
                                           THEN "markFailed" ELSE "markRetry"]
    /\ WorkerUnchanged
    /\ UNCHANGED <<dlv, job, wnow, wlease, wbatch, wjob, wsnap, crashes>>

\* The three UPDATEs of a delivery are by id: they look at no status, and do
\* nothing when the row is gone.
MarkDelivery(w, row(_)) ==
    LET d == wjob[w][2] IN
    /\ dlv' = [dlv EXCEPT ![d] = IF @.status = "none" THEN @ ELSE row(@)]
    /\ wpc' = [wpc EXCEPT ![w] = "ackJob"]
    /\ WorkerUnchanged
    /\ UNCHANGED <<job, wnow, wlease, wbatch, wjob, wsnap, historyVars, crashes>>

MarkDelivered(w) ==
    /\ wpc[w] = "markDelivered"
    /\ MarkDelivery(w, LAMBDA r : [r EXCEPT !.status = "delivered"])

MarkFailed(w) ==
    /\ wpc[w] = "markFailed"
    /\ MarkDelivery(w, LAMBDA r : [r EXCEPT !.status = "failed"])

\* Mutant of MarkRetry: attempt_count stays.
MarkRetryUncounted(w) ==
    /\ wpc[w] = "markRetry"
    /\ MarkDelivery(w, LAMBDA r : [r EXCEPT !.status = "retry",
                                   !.nextAt = wnow[w] + Backoff(wsnap[w].attempts)])

\* attempt_count is incremented in the row, the backoff uses the snapshot.
MarkRetry(w) ==
    /\ wpc[w] = "markRetry"
    /\ MarkDelivery(w, LAMBDA r : [status |-> "retry", attempts |-> r.attempts + 1,
                                   nextAt |-> wnow[w] + Backoff(wsnap[w].attempts)])

\* The current job is finished: on to the next of the batch or end of tick.
FinishJob(w) ==
    /\ wbatch' = [wbatch EXCEPT ![w] = @ \ {wjob[w]}]
    /\ wjob' = [wjob EXCEPT ![w] = NoJob]
    /\ wsnap' = [wsnap EXCEPT ![w] = NoDelivery]
    /\ \/ /\ wbatch[w] = {wjob[w]} /\ EndTick(w)
       \/ /\ wbatch[w] # {wjob[w]}
          /\ wpc' = [wpc EXCEPT ![w] = "work"]
          /\ UNCHANGED <<wnow, wlease>>
    /\ WorkerUnchanged
    /\ UNCHANGED <<dlv, historyVars, crashes>>

\* mark_job_success: every path but "not due yet" ends here, the one that has
\* just marked the delivery for retry included.
AckJob(w) ==
    /\ wpc[w] = "ackJob"
    /\ job' = [job EXCEPT ![wjob[w]] = IF @.status = "none" THEN @
                                       ELSE [@ EXCEPT !.status = "done"]]
    /\ FinishJob(w)

\* mark_job_retry: the lease is not cleared.
RequeueJob(w) ==
    /\ wpc[w] = "requeueJob"
    /\ job' = [job EXCEPT ![wjob[w]] =
                 IF @.status = "none" THEN @
                 ELSE [status |-> "retry", runAt |-> wsnap[w].nextAt,
                       lockedUntil |-> @.lockedUntil]]
    /\ FinishJob(w)

\* A signal, a power loss or an uncaught exception of a database call ends the
\* process; what it had claimed stays leased.  A crash whose lease would expire
\* only beyond MaxTime is not considered: nobody could see it expire.
WorkerCrash(w) ==
    /\ crashes < MaxCrashes
    /\ wpc[w] \notin {"idle", "down"}
    /\ wlease[w] <= MaxTime
    /\ crashes' = crashes + 1
    /\ wpc' = [wpc EXCEPT ![w] = "down"]
    /\ wnow' = [wnow EXCEPT ![w] = 0]
    /\ wlease' = [wlease EXCEPT ![w] = 0]
    /\ wbatch' = [wbatch EXCEPT ![w] = {}]
    /\ wjob' = [wjob EXCEPT ![w] = NoJob]
    /\ wsnap' = [wsnap EXCEPT ![w] = NoDelivery]
    /\ WorkerUnchanged /\ UNCHANGED <<dlv, job, historyVars>>

\* The operator or the platform starts the worker again (RUNBOOK_WEBHOOKS.md:20).
WorkerRestart(w) ==
    /\ wpc[w] = "down"
    /\ wpc' = [wpc EXCEPT ![w] = "idle"]
    /\ WorkerUnchanged
    /\ UNCHANGED <<dlv, job, wnow, wlease, wbatch, wjob, wsnap, historyVars, crashes>>

\* delete_jobs_before, from the worker's or the administrator's retention run:
\* finished jobs past their retention.  Their age is abstracted.
PurgeJobs ==
    /\ \E old \in SUBSET {j \in Jobs : job[j].status = "done"} :
        /\ old # {}
        /\ job' = [j \in Jobs |-> IF j \in old THEN NoRow ELSE job[j]]
    /\ UNCHANGED <<clock, subs, dlv, apiVars, workerVars, historyVars, crashes>>

ClockTick ==
    /\ clock < MaxTime
    /\ clock' = clock + 1
    /\ UNCHANGED <<dbVars, apiVars, workerVars, historyVars, crashes>>

-----------------------------------------------------------------------------
EmitStep(e) == EmitInsert(e) \/ EmitRefused(e) \/ EmitDedupe(e)
ApiStep(t) ==
    \/ t \in Emitters /\ EmitStep(t)
    \/ t \in Admins /\ AdminDedupe(t)
    \/ Enqueue(t)
    \/ ApiFinish(t)
ApiStart(t) ==
    \/ t \in Emitters /\ EmitStart(t)
    \/ t \in Admins /\ AdminStart(t)

WorkerStep(w) ==
    \/ Tick(w) \/ Claim(w) \/ Fetch(w) \/ Lookup(w) \/ Post(w)
    \/ MarkDelivered(w) \/ MarkRetry(w) \/ MarkFailed(w) \/ AckJob(w) \/ RequeueJob(w)
    \/ WorkerRestart(w)

Next ==
    \/ \E s \in Subs : Subscribe(s) \/ Unsubscribe(s)
    \/ \E t \in Threads : ApiStart(t) \/ ApiStep(t) \/ ApiCrash(t)
    \/ \E w \in Workers : WorkerStep(w) \/ WorkerCrash(w)
    \/ PurgeJobs
    \/ ClockTick

Spec == Init /\ [][Next]_vars

\* A request that has started runs on, a worker keeps ticking and is restarted
\* after a crash, time passes.  Nothing makes a client call the API.
FairSpec ==
    /\ Spec
    /\ WF_vars(ClockTick)
    /\ \A t \in Threads : WF_vars(ApiStep(t))
    /\ \A w \in Workers : WF_vars(WorkerStep(w))

-----------------------------------------------------------------------------
(* Safety.                                                                  *)

HoldsLease(w, j) == j \in wbatch[w] /\ clock < wlease[w]

\* A job is in the hands of at most one worker whose lease has not expired,
\* however the claims, the releases (with their stale `now`), the deletions of
\* pending jobs and the crashes interleave.
LeaseExclusion ==
    \A w1, w2 \in Workers, j \in Jobs :
        HoldsLease(w1, j) /\ HoldsLease(w2, j) => w1 = w2

\* A delivery is "delivered" only if its receiver answered 2xx to some POST,
\* whichever worker marked it and however stale that worker's snapshot was.
DeliveredWasAcked ==
    \A d \in Deliveries : dlv[d].status = "delivered" => d \in acked

\* A delivery nobody has attempted yet is never forgotten: some pending job
\* names it or an API thread is about to enqueue one.  Only an API thread that
\* died in that window leaves one behind.
InHands(d) == \E t \in Threads : tcur[t] = d
HasJob(d) == \E t \in Threads : Pending(job[<<t, d>>])
NoForgottenDelivery ==
    \A d \in Deliveries : dlv[d].status = "queued" => HasJob(d) \/ InHands(d)

\* Two workers POST one delivery at a time only if one of them has outlived its
\* lease or an admin run has deleted the leased job and enqueued another.
Posting(w, d) == wpc[w] = "post" /\ wjob[w][2] = d /\ clock < wlease[w]
ConcurrentPostExplained ==
    \A w1, w2 \in Workers, d \in Deliveries :
        /\ Posting(w1, d) /\ Posting(w2, d) /\ w1 # w2
        => \E a \in Admins : wjob[w1][1] = a \/ wjob[w2][1] = a

-----------------------------------------------------------------------------
(* With one worker, as the repository deploys it.                           *)

\* The pipeline implements DeliveryContract: retries are invisible, verdicts are
\* final and justified, a closed delivery is never POSTed again.
ContractState ==
    [d \in Deliveries |->
        IF Pending(dlv[d]) THEN "open"
        ELSE IF dlv[d].status # "none" THEN dlv[d].status
        ELSE IF subs[d[2]] = "gone" THEN "dropped" ELSE "absent"]
Contract == INSTANCE DeliveryContract
            WITH state <- ContractState, sent <- posts, answered <- acked
ContractSpec == Contract!Spec

\* No POST of a delivery before its next_attempt_at.
BackoffRespected ==
    [][\A d \in Deliveries :
          posts'[d] # posts[d] => dlv[d].nextAt <= clock]_vars

\* One worker keeps the books of a delivery: while its row is there, at most one
\* POST, and one for each crash that hit between a POST and its bookkeeping, is
\* not in attempt_count, so that the attempts configured are never exceeded by
\* more than the crashes.
AttemptsBounded ==
    \A d \in Deliveries :
        /\ posts[d] <= MaxAttempts + crashes
        /\ dlv[d].status # "none" => posts[d] <= dlv[d].attempts + 1 + crashes

-----------------------------------------------------------------------------
(* Liveness.                                                                *)

\* While API threads do not crash, a queued delivery is attempted or dropped.
QueuedIsHandled ==
    \A d \in Deliveries : dlv[d].status = "queued" ~> dlv[d].status # "queued"

\* A delivery that failed an attempt is attempted again once its backoff is
\* over (RUNBOOK_WEBHOOKS.md:6).
RetryDue(d) == dlv[d].status = "retry" /\ dlv[d].nextAt <= clock
RetryIsHandled == \A d \in Deliveries : RetryDue(d) ~> ~RetryDue(d)

=============================================================================
