------------------------ MODULE DeliveryPipelineProofs ------------------------
(***************************************************************************)
(* Theorems about DeliveryPipeline, for every set of subscriptions, API     *)
(* calls and workers and for every value of the bounds.                     *)
(***************************************************************************)
EXTENDS DeliveryPipeline, FiniteSetTheorems, TLAPS

(***************************************************************************)
(* Lemmas on the operators of the model.                                    *)
(***************************************************************************)

\* A power of two is a natural number: it counts the subsets of 1..n.
LEMMA PowerOfTwoType ==
    ASSUME NEW n \in Nat
    PROVE  2 ^ n \in Nat
<1>1. IsFiniteSet(1 .. n) /\ Cardinality(1 .. n) = n
  BY FS_Interval
<1>2. Cardinality(SUBSET (1 .. n)) = 2 ^ n /\ Cardinality(SUBSET (1 .. n)) \in Nat
  BY <1>1, FS_SUBSET, FS_CardinalityType
<1>. QED  BY <1>2

\* The backoff of next_attempt_ts is a number of seconds.
LEMMA BackoffType ==
    ASSUME NEW n \in Nat
    PROVE  Backoff(n) \in Nat
<1>. DEFINE k == IF n < 16 THEN n ELSE 16
<1>1. k \in Nat
  OBVIOUS
<1>2. 2 ^ k \in Nat
  BY <1>1, PowerOfTwoType
<1>3. RetryBase \in Nat
  BY ConstantsAssumption
<1>4. \A p \in Nat : RetryBase * p \in Nat
  BY <1>3
<1>. QED  BY <1>2, <1>4 DEF Backoff

\* A claim or an admin run takes rows of the table it selects from.
LEMMA EarliestSubset ==
    ASSUME NEW S, NEW key, NEW n, NEW T \in Earliest(S, key, n)
    PROVE  T \subseteq S
BY DEF Earliest

LEMMA NoRowsType == NoDelivery \in DeliveryRow /\ NoRow \in JobRow
BY DEF NoDelivery, NoRow, DeliveryRow, JobRow

\* The updates of db.py map rows to rows.
LEMMA RowUpdates ==
    /\ \A r \in DeliveryRow : /\ [r EXCEPT !.status = "delivered"] \in DeliveryRow
                             /\ [r EXCEPT !.status = "failed"] \in DeliveryRow
                             /\ r.attempts \in Nat /\ r.nextAt \in Nat
    /\ \A k, n \in Nat : [status |-> "retry", attempts |-> k + 1, nextAt |-> n] \in DeliveryRow
    /\ \A r \in JobRow, n \in Nat :
          /\ [r EXCEPT !.lockedUntil = n] \in JobRow
          /\ [r EXCEPT !.status = "done"] \in JobRow
          /\ [status |-> "retry", runAt |-> n, lockedUntil |-> r.lockedUntil] \in JobRow
          /\ [status |-> "queued", lockedUntil |-> 0, runAt |-> n] \in JobRow
<1>1. \A r \in DeliveryRow : /\ [r EXCEPT !.status = "delivered"] \in DeliveryRow
                             /\ [r EXCEPT !.status = "failed"] \in DeliveryRow
                             /\ r.attempts \in Nat /\ r.nextAt \in Nat
  BY DEF DeliveryRow
<1>2. \A k, n \in Nat : [status |-> "retry", attempts |-> k + 1, nextAt |-> n] \in DeliveryRow
  BY DEF DeliveryRow
<1>3. \A r \in JobRow, n \in Nat :
          /\ [r EXCEPT !.lockedUntil = n] \in JobRow
          /\ [r EXCEPT !.status = "done"] \in JobRow
  BY DEF JobRow
<1>4. \A r \in JobRow, n \in Nat :
          [status |-> "retry", runAt |-> n, lockedUntil |-> r.lockedUntil] \in JobRow
  BY DEF JobRow
<1>5. \A n \in Nat : [status |-> "queued", lockedUntil |-> 0, runAt |-> n] \in JobRow
  BY DEF JobRow
<1>. QED  BY <1>1, <1>2, <1>3, <1>4, <1>5

LEMMA TimeType == Time \subseteq Nat /\ 0 \in Time /\ LeaseTime \in Nat
BY ConstantsAssumption DEF Time

\* A job id is a thread and a delivery, a delivery id an emission and a subscription.
LEMMA IdTypes ==
    /\ \A j \in Jobs : j[1] \in Threads /\ j[2] \in Deliveries /\ j = <<j[1], j[2]>>
    /\ \A d \in Deliveries : d[1] \in Emitters /\ d[2] \in Subs /\ d = <<d[1], d[2]>>
    /\ \A t \in Threads, d \in Deliveries : <<t, d>> \in Jobs
    /\ \A e \in Emitters, s \in Subs : <<e, s>> \in Deliveries
    /\ Emitters \subseteq Threads /\ Admins \subseteq Threads
    /\ \A t \in Emitters : t \notin Admins
    /\ NoJob \notin Jobs /\ NoJob \notin Deliveries
BY ConstantsAssumption DEF Jobs, Deliveries, Threads

-----------------------------------------------------------------------------
(***************************************************************************)
(* Type correctness, with what the control points say about the locals.     *)
(***************************************************************************)

Busy == {"lookup", "post", "markDelivered", "markRetry", "markFailed",
         "ackJob", "requeueJob"}

\* A busy worker works on a job of its batch; between ticks there is no batch;
\* a worker's `now` is never ahead of the clock.
WorkerShape ==
    \A w \in Workers :
        /\ wpc[w] \in Busy => wjob[w] \in wbatch[w]
        /\ wpc[w] \in {"idle", "claim", "down"} => wbatch[w] = {}
        /\ wnow[w] <= clock

TypeInv == TypeOK /\ WorkerShape

LEMMA TypeInit == Init => TypeInv
BY NoRowsType, ConstantsAssumption DEF Init, TypeInv, TypeOK, Time, WorkerShape, Busy

\* Every step is one of the actions, or changes nothing.
LEMMA StepCases ==
    ASSUME [Next]_vars
    PROVE  \/ \E s \in Subs : Subscribe(s) \/ Unsubscribe(s)
           \/ \E e \in Emitters : EmitStart(e) \/ EmitInsert(e) \/ EmitRefused(e) \/ EmitDedupe(e)
           \/ \E a \in Admins : AdminStart(a) \/ AdminDedupe(a)
           \/ \E t \in Threads : Enqueue(t) \/ ApiFinish(t) \/ ApiCrash(t)
           \/ \E w \in Workers :
                \/ Tick(w) \/ Claim(w) \/ Fetch(w) \/ Lookup(w) \/ Post(w)
                \/ MarkDelivered(w) \/ MarkRetry(w) \/ MarkFailed(w)
                \/ AckJob(w) \/ RequeueJob(w) \/ WorkerCrash(w) \/ WorkerRestart(w)
           \/ PurgeJobs
           \/ ClockTick
           \/ UNCHANGED vars
BY Zenon DEF Next, ApiStart, ApiStep, EmitStep, WorkerStep

LEMMA TypeSubscriptions ==
    ASSUME TypeInv, NEW s \in Subs, Subscribe(s) \/ Unsubscribe(s)
    PROVE  TypeInv'
<1>. USE NoRowsType DEF TypeInv, TypeOK, WorkerShape, apiVars, workerVars, historyVars
<1>1. CASE Subscribe(s)
  BY <1>1 DEF Subscribe
<1>2. CASE Unsubscribe(s)
  BY <1>2 DEF Unsubscribe
<1>. QED  BY <1>1, <1>2

LEMMA TypeEmit ==
    ASSUME TypeInv, NEW e \in Emitters,
           EmitStart(e) \/ EmitInsert(e) \/ EmitRefused(e) \/ EmitDedupe(e)
    PROVE  TypeInv'
<1>. USE NoRowsType, IdTypes
     DEF TypeInv, TypeOK, WorkerShape, ApiUnchanged, workerVars, historyVars
<1>1. CASE EmitStart(e)
  BY <1>1 DEF EmitStart
<1>2. CASE EmitInsert(e)
  BY <1>2 DEF EmitInsert, DeliveryRow, Time
<1>3. CASE EmitRefused(e)
  BY <1>3 DEF EmitRefused
<1>4. CASE EmitDedupe(e)
  BY <1>4 DEF EmitDedupe, DeletePendingJobs
<1>. QED  BY <1>1, <1>2, <1>3, <1>4

LEMMA TypeAdmin ==
    ASSUME TypeInv, NEW a \in Admins, AdminStart(a) \/ AdminDedupe(a)
    PROVE  TypeInv'
<1>. USE NoRowsType, IdTypes
     DEF TypeInv, TypeOK, WorkerShape, ApiUnchanged, workerVars, historyVars
<1>1. CASE AdminStart(a)
  <2>1. PICK list \in SUBSET Deliveries : ttodo' = [ttodo EXCEPT ![a] = list]
    BY <1>1, EarliestSubset DEF AdminStart
  <2>2. ttodo' \in [Threads -> SUBSET Deliveries] /\ tnow' \in [Threads -> Time]
    BY <1>1, <2>1 DEF AdminStart
  <2>. QED  BY <1>1, <2>2 DEF AdminStart
<1>2. CASE AdminDedupe(a)
  BY <1>2 DEF AdminDedupe, DeletePendingJobs
<1>. QED  BY <1>1, <1>2

LEMMA TypeThread ==
    ASSUME TypeInv, NEW t \in Threads, Enqueue(t) \/ ApiFinish(t) \/ ApiCrash(t)
    PROVE  TypeInv'
<1>. USE DEF TypeInv, TypeOK, WorkerShape, ApiUnchanged, workerVars, historyVars
<1>1. CASE Enqueue(t)
  <2>1. PICK n \in Nat : job' = [job EXCEPT ![<<t, tcur[t]>>] =
                                   [status |-> "queued", lockedUntil |-> 0, runAt |-> n]]
    BY <1>1, TimeType DEF Enqueue
  <2>2. job' \in [Jobs -> JobRow]
    BY <2>1, RowUpdates
  <2>. QED  BY <1>1, <2>2 DEF Enqueue
<1>2. CASE ApiFinish(t)
  BY <1>2 DEF ApiFinish
<1>3. CASE ApiCrash(t)
  BY <1>3 DEF ApiCrash
<1>. QED  BY <1>1, <1>2, <1>3
\* The shape of a delivery row survives each of the three marks.
LEMMA TypeMark ==
    ASSUME TypeInv, NEW w \in Workers, MarkDelivered(w) \/ MarkFailed(w) \/ MarkRetry(w)
    PROVE  TypeInv'
<1>. DEFINE d == wjob[w][2]
<1>1. dlv' \in [Deliveries -> DeliveryRow]
  <2>1. CASE MarkDelivered(w)
    BY <2>1, RowUpdates DEF MarkDelivered, MarkDelivery, TypeInv, TypeOK
  <2>2. CASE MarkFailed(w)
    BY <2>2, RowUpdates DEF MarkFailed, MarkDelivery, TypeInv, TypeOK
  <2>3. CASE MarkRetry(w)
    <3>1. wnow[w] + Backoff(wsnap[w].attempts) \in Nat
      <4>1. wnow[w] \in Nat /\ wsnap[w] \in DeliveryRow
        BY TimeType DEF TypeInv, TypeOK
      <4>2. Backoff(wsnap[w].attempts) \in Nat
        BY <4>1, BackoffType, RowUpdates
      <4>. QED  BY <4>1, <4>2
    <3>. QED  BY <2>3, <3>1, RowUpdates DEF MarkRetry, MarkDelivery, TypeInv, TypeOK
  <2>. QED  BY <2>1, <2>2, <2>3
<1>2. /\ wpc[w] \in Busy
      /\ wpc' = [wpc EXCEPT ![w] = "ackJob"]
      /\ WorkerUnchanged
      /\ UNCHANGED <<job, wnow, wlease, wbatch, wjob, wsnap, historyVars, crashes>>
  BY Zenon DEF MarkDelivered, MarkFailed, MarkRetry, MarkDelivery, Busy
<1>. QED
  BY <1>1, <1>2 DEF TypeInv, TypeOK, WorkerShape, Busy, WorkerUnchanged, apiVars, historyVars

LEMMA TypeTick ==
    ASSUME TypeInv, NEW w \in Workers, Tick(w) \/ Claim(w)
    PROVE  TypeInv'
<1>. USE ConstantsAssumption
     DEF TypeInv, TypeOK, WorkerShape, Busy, WorkerUnchanged, EndTick, apiVars, historyVars
<1>1. CASE Tick(w)
  <2>1. job' \in [Jobs -> JobRow]
    <3>1. \A r \in JobRow : [r EXCEPT !.lockedUntil = 0] \in JobRow
      BY RowUpdates
    <3>. QED  BY <1>1, <3>1 DEF Tick
  <2>2. clock + LeaseTime \in Nat
    BY DEF Time
  <2>. QED  BY <1>1, <2>1, <2>2 DEF Tick, Time
<1>2. CASE Claim(w)
  <2>1. PICK claimed \in SUBSET Jobs :
            /\ job' = [j \in Jobs |-> IF j \in claimed
                                      THEN [job[j] EXCEPT !.lockedUntil = wlease[w]]
                                      ELSE job[j]]
            /\ wbatch' = [wbatch EXCEPT ![w] = claimed]
            /\ \/ claimed = {} /\ EndTick(w)
               \/ /\ claimed # {}
                  /\ wpc' = [wpc EXCEPT ![w] = "work"]
                  /\ UNCHANGED <<wnow, wlease>>
    BY <1>2, EarliestSubset DEF Claim
  <2>2. job' \in [Jobs -> JobRow]
    BY <2>1, RowUpdates
  <2>. QED  BY <1>2, <2>1, <2>2 DEF Claim, Time
<1>. QED  BY <1>1, <1>2

LEMMA TypeAttempt ==
    ASSUME TypeInv, NEW w \in Workers, Fetch(w) \/ Lookup(w) \/ Post(w)
    PROVE  TypeInv'
<1>. USE IdTypes DEF TypeInv, TypeOK, WorkerShape, Busy, WorkerUnchanged, apiVars, historyVars
<1>1. CASE Fetch(w)
  BY <1>1 DEF Fetch
<1>2. CASE Lookup(w)
  BY <1>2 DEF Lookup
<1>3. CASE Post(w)
  <2>1. wjob[w][2] \in Deliveries
    BY <1>3 DEF Post
  <2>2. acked' \in SUBSET Deliveries /\ posts' \in [Deliveries -> Nat]
    BY <1>3, <2>1 DEF Post
  <2>3. \E pc \in {"markDelivered", "markFailed", "markRetry"} : wpc' = [wpc EXCEPT ![w] = pc]
    BY <1>3 DEF Post
  <2>. QED  BY <1>3, <2>2, <2>3 DEF Post
<1>. QED  BY <1>1, <1>2, <1>3

LEMMA TypeFinish ==
    ASSUME TypeInv, NEW w \in Workers,
           AckJob(w) \/ RequeueJob(w) \/ WorkerCrash(w) \/ WorkerRestart(w)
    PROVE  TypeInv'
<1>. USE NoRowsType
     DEF TypeInv, TypeOK, WorkerShape, Busy, WorkerUnchanged, FinishJob, EndTick, apiVars, historyVars
<1>1. CASE AckJob(w)
  <2>1. job' \in [Jobs -> JobRow]
    BY <1>1, RowUpdates DEF AckJob
  <2>. QED  BY <1>1, <2>1, TimeType DEF AckJob
<1>2. CASE RequeueJob(w)
  <2>1. job' \in [Jobs -> JobRow]
    BY <1>2, RowUpdates DEF RequeueJob
  <2>. QED  BY <1>2, <2>1, TimeType DEF RequeueJob
<1>3. CASE WorkerCrash(w)
  BY <1>3, ConstantsAssumption DEF WorkerCrash, Time
<1>4. CASE WorkerRestart(w)
  BY <1>4 DEF WorkerRestart
<1>. QED  BY <1>1, <1>2, <1>3, <1>4

LEMMA TypeStep == TypeInv /\ [Next]_vars => TypeInv'
<1>. SUFFICES ASSUME TypeInv, [Next]_vars PROVE TypeInv'
  OBVIOUS
<1>1. CASE PurgeJobs
  BY <1>1, NoRowsType
  DEF PurgeJobs, TypeInv, TypeOK, WorkerShape, apiVars, workerVars, historyVars
<1>2. CASE ClockTick
  BY <1>2, ConstantsAssumption
  DEF ClockTick, TypeInv, TypeOK, WorkerShape, Time, dbVars, apiVars, workerVars, historyVars
<1>3. CASE UNCHANGED vars
  BY <1>3
  DEF vars, TypeInv, TypeOK, WorkerShape, dbVars, apiVars, workerVars, historyVars
<1>. QED
  BY <1>1, <1>2, <1>3, StepCases, TypeSubscriptions, TypeEmit, TypeAdmin, TypeThread,
     TypeMark, TypeTick, TypeAttempt, TypeFinish, Zenon

THEOREM TypeInvariant == Spec => []TypeInv
BY TypeInit, TypeStep, PTL DEF Spec

\* Every variable keeps its type: no row, local or counter leaves its domain.
THEOREM TypeCorrect == Spec => []TypeOK
<1>1. TypeInv => TypeOK
  BY DEF TypeInv
<1>. QED  BY <1>1, TypeInvariant, PTL

-----------------------------------------------------------------------------
(***************************************************************************)
(* What the control points of the API threads say.                          *)
(***************************************************************************)

\* The loop variables: the current delivery has left the list still to do, and
\* an emission lists deliveries of its own event only.
ApiShape ==
    \A t \in Threads :
        /\ tpc[t] = "ready" => ttodo[t] = {}
        /\ tpc[t] \in {"ready", "next"} => tcur[t] = NoJob
        /\ tpc[t] \in {"dedupe", "enqueue"} => tcur[t] \in Deliveries
        /\ tcur[t] \notin ttodo[t]
        /\ t \in Emitters => \A d \in ttodo[t] : d[1] = t

\* A job that its thread has not enqueued yet is in no table and no batch.
Unborn(t, d) == job[<<t, d>>].status = "none" /\ \A w \in Workers : <<t, d>> \notin wbatch[w]
ToEnqueue(t, d) == tpc[t] = "ready" \/ d \in ttodo[t] \/ tcur[t] = d
JobsUnborn ==
    \A t \in Threads, d \in Deliveries : ToEnqueue(t, d) => Unborn(t, d)

\* Nor does anybody know a delivery that its emission has not inserted yet.
ToInsert(d) == tpc[d[1]] = "ready" \/ d \in ttodo[d[1]]
DeliveriesUnborn ==
    \A d \in Deliveries : ToInsert(d) =>
        /\ dlv[d].status = "none"
        /\ \A t \in Threads : Unborn(t, d) /\ tcur[t] # d /\ (t # d[1] => d \notin ttodo[t])

ApiInv == ApiShape /\ JobsUnborn /\ DeliveriesUnborn

\* A row leased to a worker in time carries that worker's lease.
LeaseInv ==
    \A w \in Workers, j \in Jobs :
        HoldsLease(w, j) => job[j].status = "none" \/ job[j].lockedUntil = wlease[w]

\* Who is about to write "delivered" has seen a 2xx answer.
AckInv == \A w \in Workers : wpc[w] = "markDelivered" => wjob[w][2] \in acked

\* Who is about to acknowledge a job has dealt with its delivery.
HandledInv ==
    \A w \in Workers : wpc[w] = "ackJob" => dlv[wjob[w][2]].status # "queued"

LEMMA ApiInit == Init => ApiInv
BY IdTypes DEF Init, ApiInv, ApiShape, JobsUnborn, DeliveriesUnborn, ToEnqueue, ToInsert,
               Unborn, NoDelivery, NoRow

\* Steps that leave the API threads alone, create no row, and let a worker claim
\* existing rows only.
LEMMA ApiFrame ==
    ASSUME TypeInv, ApiInv, UNCHANGED <<tpc, ttodo, tcur>>,
           \A j \in Jobs : job[j].status = "none" => job'[j].status = "none",
           \A w \in Workers : \A j \in wbatch'[w] : j \in wbatch[w] \/ job[j].status # "none",
           \A d \in Deliveries : dlv[d].status = "none" => dlv'[d].status = "none"
    PROVE  ApiInv'
<1>1. ApiShape'
  BY DEF ApiInv, ApiShape
<1>2. \A t \in Threads, d \in Deliveries : Unborn(t, d) => Unborn(t, d)'
  BY IdTypes DEF Unborn
<1>3. JobsUnborn'
  BY <1>2 DEF ApiInv, JobsUnborn, ToEnqueue
<1>4. DeliveriesUnborn'
  BY <1>2 DEF ApiInv, DeliveriesUnborn, ToInsert
<1>. QED  BY <1>1, <1>3, <1>4 DEF ApiInv

\* The worker's steps and the steps of nobody in particular are of that kind.
LEMMA ApiSubscriptions ==
    ASSUME TypeInv, ApiInv, NEW s \in Subs, Subscribe(s) \/ Unsubscribe(s)
    PROVE  ApiInv'
<1>. UNCHANGED <<tpc, ttodo, tcur, job, wbatch>>
  BY DEF Subscribe, Unsubscribe, apiVars, workerVars
<1>1. \A d \in Deliveries : dlv[d].status = "none" => dlv'[d].status = "none"
  BY DEF Subscribe, Unsubscribe, NoDelivery
<1>. QED  BY <1>1, ApiFrame

LEMMA ApiMark ==
    ASSUME TypeInv, ApiInv, NEW w \in Workers, MarkDelivered(w) \/ MarkFailed(w) \/ MarkRetry(w)
    PROVE  ApiInv'
<1>1. UNCHANGED <<tpc, ttodo, tcur, job, wbatch>>
  BY DEF MarkDelivered, MarkFailed, MarkRetry, MarkDelivery, WorkerUnchanged, apiVars
<1>2. \A d \in Deliveries : dlv[d].status = "none" => dlv'[d].status = "none"
  BY DEF MarkDelivered, MarkFailed, MarkRetry, MarkDelivery, TypeInv, TypeOK
<1>. QED  BY <1>1, <1>2, ApiFrame

\* A worker creates no row of jobs, and claims existing rows only.
LEMMA WorkerRows ==
    ASSUME TypeInv, NEW w \in Workers,
           \/ Tick(w) \/ Claim(w) \/ Fetch(w) \/ Lookup(w) \/ Post(w)
           \/ AckJob(w) \/ RequeueJob(w) \/ WorkerCrash(w) \/ WorkerRestart(w)
    PROVE  /\ \A j \in Jobs : job[j].status = "none" => job'[j].status = "none"
           /\ \A v \in Workers : \A j \in wbatch'[v] : j \in wbatch[v] \/ job[j].status # "none"
<1>1. \A j \in Jobs : job[j].status = "none" => job'[j].status = "none"
  <2>1. CASE Tick(w)
    BY <2>1 DEF Tick, Pending
  <2>2. CASE Claim(w)
    <3>1. PICK claimed \in SUBSET Jobs :
              /\ \A j \in claimed : Pending(job[j])
              /\ job' = [j \in Jobs |-> IF j \in claimed
                                        THEN [job[j] EXCEPT !.lockedUntil = wlease[w]]
                                        ELSE job[j]]
      BY <2>2, EarliestSubset DEF Claim, Claimable
    <3>. QED  BY <3>1 DEF Pending
  <2>3. CASE AckJob(w) \/ RequeueJob(w)
    BY <2>3 DEF AckJob, RequeueJob, TypeInv, TypeOK
  <2>4. CASE Fetch(w) \/ Lookup(w) \/ Post(w) \/ WorkerCrash(w) \/ WorkerRestart(w)
    BY <2>4 DEF Fetch, Lookup, Post, WorkerCrash, WorkerRestart
  <2>. QED  BY <2>1, <2>2, <2>3, <2>4
<1>2. ASSUME NEW v \in Workers, NEW j \in wbatch'[v]
      PROVE  j \in wbatch[v] \/ job[j].status # "none"
  <2>1. CASE Claim(w)
    <3>1. PICK claimed \in SUBSET Jobs :
              /\ \A k \in claimed : Pending(job[k])
              /\ wbatch' = [wbatch EXCEPT ![w] = claimed]
      BY <2>1, EarliestSubset DEF Claim, Claimable
    <3>. QED  BY <3>1, <1>2 DEF Pending, TypeInv, TypeOK
  <2>2. CASE AckJob(w) \/ RequeueJob(w) \/ WorkerCrash(w)
    BY <2>2, <1>2 DEF AckJob, RequeueJob, FinishJob, WorkerCrash, TypeInv, TypeOK
  <2>3. CASE Tick(w) \/ Fetch(w) \/ Lookup(w) \/ Post(w) \/ WorkerRestart(w)
    BY <2>3, <1>2 DEF Tick, Fetch, Lookup, Post, WorkerRestart
  <2>. QED  BY <2>1, <2>2, <2>3
<1>. QED  BY <1>1, <1>2

LEMMA ApiWorker ==
    ASSUME TypeInv, ApiInv, NEW w \in Workers,
           \/ Tick(w) \/ Claim(w) \/ Fetch(w) \/ Lookup(w) \/ Post(w)
           \/ AckJob(w) \/ RequeueJob(w) \/ WorkerCrash(w) \/ WorkerRestart(w)
    PROVE  ApiInv'
<1>. USE DEF WorkerUnchanged, apiVars
<1>1. UNCHANGED <<tpc, ttodo, tcur, dlv>>
  BY DEF Tick, Claim, Fetch, Lookup, Post, AckJob, RequeueJob, FinishJob, WorkerCrash, WorkerRestart
<1>. QED  BY <1>1, WorkerRows, ApiFrame

\* The steps of the API threads themselves.
LEMMA ApiEmit ==
    ASSUME TypeInv, ApiInv, NEW e \in Emitters,
           EmitStart(e) \/ EmitInsert(e) \/ EmitRefused(e) \/ EmitDedupe(e)
    PROVE  ApiInv'
<1>. USE IdTypes DEF TypeInv, TypeOK, ApiInv, ApiUnchanged, workerVars
<1>1. CASE EmitStart(e)
  <2>. DEFINE list == {<<e, s>> : s \in {x \in Subs : subs[x] = "live"}}
  <2>0. list \subseteq Deliveries /\ \A d \in list : d[1] = e
    OBVIOUS
  <2>1. /\ ttodo' = [ttodo EXCEPT ![e] = list]
        /\ tpc' = [tpc EXCEPT ![e] = "next"] /\ tpc[e] = "ready"
        /\ UNCHANGED <<dlv, job, tcur, wbatch>>
    BY <1>1 DEF EmitStart
  <2>. HIDE DEF list
  <2>2. ApiShape'
    BY <2>0, <2>1 DEF ApiShape
  <2>3. JobsUnborn'
    BY <2>0, <2>1 DEF JobsUnborn, ToEnqueue, Unborn
  <2>4. DeliveriesUnborn'
    BY <2>0, <2>1 DEF DeliveriesUnborn, ToInsert, Unborn
  <2>. QED  BY <2>2, <2>3, <2>4
<1>2. CASE EmitInsert(e)
  <2>1. PICK d \in ttodo[e] :
            /\ dlv' = [dlv EXCEPT ![d] = [status |-> "queued", attempts |-> 0, nextAt |-> clock]]
            /\ tcur' = [tcur EXCEPT ![e] = d]
            /\ ttodo' = [ttodo EXCEPT ![e] = @ \ {d}]
            /\ tpc' = [tpc EXCEPT ![e] = "dedupe"] /\ tpc[e] = "next"
            /\ UNCHANGED <<job, wbatch>>
    BY <1>2 DEF EmitInsert
  <2>2. ApiShape'
    BY <2>1 DEF ApiShape
  <2>3. JobsUnborn'
    <3>. SUFFICES ASSUME NEW u \in Threads, NEW c \in Deliveries, ToEnqueue(u, c)'
                  PROVE  Unborn(u, c)'
      BY DEF JobsUnborn
    <3>1. ToEnqueue(u, c)
      BY <2>1 DEF ToEnqueue
    <3>2. Unborn(u, c)
      BY <3>1 DEF JobsUnborn
    <3>. QED  BY <2>1, <3>1, <3>2 DEF Unborn
  <2>4. DeliveriesUnborn'
    BY <2>1 DEF DeliveriesUnborn, ToInsert, Unborn, ApiShape
  <2>. QED  BY <2>2, <2>3, <2>4
<1>3. CASE EmitRefused(e)
  <2>1. /\ ttodo' = [ttodo EXCEPT ![e] = {}]
        /\ tpc' = [tpc EXCEPT ![e] = "done"]
        /\ UNCHANGED <<dlv, job, tcur, wbatch>>
    BY <1>3 DEF EmitRefused
  <2>2. ApiShape'
    BY <2>1 DEF ApiShape
  <2>3. JobsUnborn'
    BY <2>1 DEF JobsUnborn, ToEnqueue, Unborn
  <2>4. DeliveriesUnborn'
    BY <2>1 DEF DeliveriesUnborn, ToInsert, Unborn
  <2>. QED  BY <2>2, <2>3, <2>4
<1>4. CASE EmitDedupe(e)
  <2>1. /\ \A j \in Jobs : job[j].status = "none" => job'[j].status = "none"
        /\ tpc' = [tpc EXCEPT ![e] = "enqueue"] /\ tpc[e] = "dedupe"
        /\ UNCHANGED <<dlv, ttodo, tcur, wbatch>>
    BY <1>4 DEF EmitDedupe, DeletePendingJobs, NoRow
  <2>2. ApiShape'
    BY <2>1 DEF ApiShape
  <2>3. JobsUnborn'
    BY <2>1 DEF JobsUnborn, ToEnqueue, Unborn
  <2>4. DeliveriesUnborn'
    BY <2>1 DEF DeliveriesUnborn, ToInsert, Unborn
  <2>. QED  BY <2>2, <2>3, <2>4
<1>. QED  BY <1>1, <1>2, <1>3, <1>4

LEMMA ApiAdmin ==
    ASSUME TypeInv, ApiInv, NEW a \in Admins, AdminStart(a) \/ AdminDedupe(a)
    PROVE  ApiInv'
<1>. USE IdTypes DEF TypeInv, TypeOK, ApiInv, ApiUnchanged, workerVars
<1>1. CASE AdminStart(a)
  <2>1. PICK list \in SUBSET Deliveries :
            /\ \A d \in list : Pending(dlv[d])
            /\ ttodo' = [ttodo EXCEPT ![a] = list]
    BY <1>1, EarliestSubset DEF AdminStart
  <2>2. /\ tpc' = [tpc EXCEPT ![a] = "next"] /\ tpc[a] = "ready"
        /\ UNCHANGED <<dlv, job, tcur, wbatch>>
    BY <1>1 DEF AdminStart
  <2>3. ApiShape'
    BY <2>1, <2>2 DEF ApiShape
  <2>4. JobsUnborn'
    BY <2>1, <2>2 DEF JobsUnborn, ToEnqueue, Unborn
  <2>5. DeliveriesUnborn'
    BY <2>1, <2>2 DEF DeliveriesUnborn, ToInsert, Unborn, Pending
  <2>. QED  BY <2>3, <2>4, <2>5
<1>2. CASE AdminDedupe(a)
  <2>1. PICK d \in ttodo[a] :
            /\ DeletePendingJobs(d)
            /\ tcur' = [tcur EXCEPT ![a] = d]
            /\ ttodo' = [ttodo EXCEPT ![a] = @ \ {d}]
            /\ tpc' = [tpc EXCEPT ![a] = "enqueue"] /\ tpc[a] = "next"
            /\ UNCHANGED <<dlv, wbatch>>
    BY <1>2 DEF AdminDedupe
  <2>2. \A j \in Jobs : job[j].status = "none" => job'[j].status = "none"
    BY <2>1 DEF DeletePendingJobs, NoRow
  <2>3. ApiShape'
    BY <2>1 DEF ApiShape
  <2>4. JobsUnborn'
    <3>. SUFFICES ASSUME NEW u \in Threads, NEW c \in Deliveries, ToEnqueue(u, c)'
                  PROVE  Unborn(u, c)'
      BY DEF JobsUnborn
    <3>1. ToEnqueue(u, c)
      BY <2>1, <2>2 DEF ToEnqueue
    <3>2. Unborn(u, c)
      BY <3>1 DEF JobsUnborn
    <3>. QED  BY <2>1, <2>2, <3>1, <3>2 DEF Unborn
  <2>5. DeliveriesUnborn'
    BY <2>1, <2>2 DEF DeliveriesUnborn, ToInsert, Unborn
  <2>. QED  BY <2>3, <2>4, <2>5
<1>. QED  BY <1>1, <1>2

LEMMA ApiThread ==
    ASSUME TypeInv, ApiInv, NEW t \in Threads, Enqueue(t) \/ ApiFinish(t) \/ ApiCrash(t)
    PROVE  ApiInv'
<1>. USE IdTypes DEF TypeInv, TypeOK, ApiInv, ApiUnchanged, workerVars
<1>1. CASE Enqueue(t)
  <2>1. /\ tcur[t] \in Deliveries /\ tcur[t] \notin ttodo[t]
        /\ \A j \in Jobs : j # <<t, tcur[t]>> => job'[j] = job[j]
        /\ tpc' = [tpc EXCEPT ![t] = "next"] /\ tpc[t] = "enqueue"
        /\ tcur' = [tcur EXCEPT ![t] = NoJob]
        /\ UNCHANGED <<dlv, ttodo, wbatch>>
    BY <1>1 DEF Enqueue, ApiShape
  <2>2. ApiShape'
    BY <2>1 DEF ApiShape
  <2>3. JobsUnborn'
    <3>. SUFFICES ASSUME NEW u \in Threads, NEW c \in Deliveries, ToEnqueue(u, c)'
                  PROVE  Unborn(u, c)'
      BY DEF JobsUnborn
    <3>1. ToEnqueue(u, c) /\ (u = t => c # tcur[t])
      BY <2>1 DEF ToEnqueue
    <3>2. Unborn(u, c)
      BY <3>1 DEF JobsUnborn
    <3>. QED  BY <2>1, <3>1, <3>2 DEF Unborn
  <2>4. DeliveriesUnborn'
    BY <2>1 DEF DeliveriesUnborn, ToInsert, Unborn
  <2>. QED  BY <2>2, <2>3, <2>4
<1>2. CASE ApiFinish(t) \/ ApiCrash(t)
  <2>1. PICK pc \in {"done", "crashed"} :
            /\ tpc' = [tpc EXCEPT ![t] = pc] /\ tpc[t] # "ready"
            /\ ttodo' = [ttodo EXCEPT ![t] = {}]
            /\ UNCHANGED <<dlv, job, tcur, wbatch>>
    BY <1>2 DEF ApiFinish, ApiCrash
  <2>2. ApiShape'
    BY <2>1 DEF ApiShape
  <2>3. JobsUnborn'
    BY <2>1 DEF JobsUnborn, ToEnqueue, Unborn
  <2>4. DeliveriesUnborn'
    BY <2>1 DEF DeliveriesUnborn, ToInsert, Unborn
  <2>. QED  BY <2>2, <2>3, <2>4
<1>. QED  BY <1>1, <1>2

LEMMA ApiStepPreserves == TypeInv /\ ApiInv /\ [Next]_vars => ApiInv'
<1>. SUFFICES ASSUME TypeInv, ApiInv, [Next]_vars PROVE ApiInv'
  OBVIOUS
<1>1. CASE PurgeJobs \/ ClockTick \/ UNCHANGED vars
  <2>1. UNCHANGED <<tpc, ttodo, tcur, wbatch, dlv>>
    BY <1>1 DEF PurgeJobs, ClockTick, vars, dbVars, apiVars, workerVars
  <2>2. \A j \in Jobs : job[j].status = "none" => job'[j].status = "none"
    BY <1>1 DEF PurgeJobs, ClockTick, vars, dbVars, NoRow
  <2>. QED  BY <2>1, <2>2, ApiFrame
<1>. QED
  BY <1>1, StepCases, ApiSubscriptions, ApiEmit, ApiAdmin, ApiThread, ApiMark, ApiWorker, Zenon

THEOREM ApiInvariant == Spec => []ApiInv
BY TypeInvariant, ApiInit, ApiStepPreserves, PTL DEF Spec

-----------------------------------------------------------------------------
(***************************************************************************)
(* Lease exclusion.  LeaseExclusion is not inductive: that a claim takes no *)
(* job of a worker still in time follows from LeaseInv, the lease in that   *)
(* worker's local variable being the one in the row; and LeaseInv survives  *)
(* Enqueue because nobody holds a job before it is enqueued (JobsUnborn).   *)
(***************************************************************************)

LeaseSafe == LeaseInv /\ LeaseExclusion

\* Steps that give no job to a worker and leave the rows in hand alone.
LEMMA LeaseFrame ==
    ASSUME TypeInv, TypeInv', LeaseSafe, clock <= clock',
           \A w \in Workers : \A j \in wbatch'[w] : j \in wbatch[w] /\ wlease'[w] = wlease[w],
           \A w \in Workers, j \in Jobs : HoldsLease(w, j) =>
              \/ job'[j].status = "none"
              \/ job[j].status # "none" /\ job'[j].lockedUntil = job[j].lockedUntil
    PROVE  LeaseSafe'
<1>1. \A w \in Workers, j \in Jobs : HoldsLease(w, j)' => HoldsLease(w, j)
  BY TimeType DEF HoldsLease, TypeInv, TypeOK
<1>2. LeaseInv'
  <2>. SUFFICES ASSUME NEW w \in Workers, NEW j \in Jobs, HoldsLease(w, j)'
                PROVE  job'[j].status = "none" \/ job'[j].lockedUntil = wlease'[w]
    BY DEF LeaseInv
  <2>1. j \in wbatch[w] /\ wlease'[w] = wlease[w]
    BY DEF HoldsLease
  <2>2. job[j].status = "none" \/ job[j].lockedUntil = wlease[w]
    BY <1>1 DEF LeaseSafe, LeaseInv
  <2>. QED  BY <1>1, <2>1, <2>2
<1>3. LeaseExclusion'
  BY <1>1 DEF LeaseSafe, LeaseExclusion
<1>. QED  BY <1>2, <1>3 DEF LeaseSafe

LEMMA LeaseApi ==
    ASSUME TypeInv, TypeInv', ApiInv, LeaseSafe,
           \/ \E s \in Subs : Subscribe(s) \/ Unsubscribe(s)
           \/ \E e \in Emitters : EmitStart(e) \/ EmitInsert(e) \/ EmitRefused(e) \/ EmitDedupe(e)
           \/ \E a \in Admins : AdminStart(a) \/ AdminDedupe(a)
           \/ \E t \in Threads : Enqueue(t) \/ ApiFinish(t) \/ ApiCrash(t)
           \/ PurgeJobs
           \/ ClockTick
           \/ UNCHANGED vars
    PROVE  LeaseSafe'
<1>1. UNCHANGED <<wbatch, wlease>> /\ clock <= clock'
  <2>1. UNCHANGED <<wbatch, wlease>> /\ (clock' = clock \/ clock' = clock + 1)
    BY DEF Subscribe, Unsubscribe, EmitStart, EmitInsert, EmitRefused, EmitDedupe, AdminStart,
       AdminDedupe, Enqueue, ApiFinish, ApiCrash, PurgeJobs, ClockTick, ApiUnchanged,
       workerVars, vars
  <2>2. clock \in Nat
    BY TimeType DEF TypeInv, TypeOK
  <2>. QED  BY <2>1, <2>2
<1>2. ASSUME NEW w \in Workers, NEW j \in wbatch[w]
      PROVE  \/ job'[j].status = "none"
             \/ job[j].status # "none" /\ job'[j].lockedUntil = job[j].lockedUntil
  <2>. USE DEF TypeInv, TypeOK
  <2>1. CASE PurgeJobs
    BY <2>1, <1>2 DEF PurgeJobs, NoRow
  <2>2. CASE \E e \in Emitters : EmitDedupe(e)
    BY <2>2, <1>2 DEF EmitDedupe, DeletePendingJobs, NoRow
  <2>3. CASE \E a \in Admins : AdminDedupe(a)
    BY <2>3, <1>2 DEF AdminDedupe, DeletePendingJobs, NoRow
  <2>4. ASSUME NEW t \in Threads, Enqueue(t)
        PROVE  job'[j] = job[j]
    <3>1. tcur[t] \in Deliveries
      BY <2>4 DEF ApiInv, ApiShape, Enqueue
    <3>2. j # <<t, tcur[t]>>
      BY <3>1, <1>2 DEF ApiInv, JobsUnborn, ToEnqueue, Unborn
    <3>. QED  BY <2>4, <3>2, <1>2 DEF Enqueue
  <2>5. CASE UNCHANGED job
    BY <2>5
  <2>6. PurgeJobs \/ (\E e \in Emitters : EmitDedupe(e)) \/ (\E a \in Admins : AdminDedupe(a))
        \/ (\E t \in Threads : Enqueue(t)) \/ UNCHANGED job
    BY DEF Subscribe, Unsubscribe, EmitStart, EmitInsert, EmitRefused, AdminStart,
       ApiFinish, ApiCrash, ClockTick, ApiUnchanged, dbVars, vars
  <2>. QED  BY <2>1, <2>2, <2>3, <2>4, <2>5, <2>6
<1>. QED  BY <1>1, <1>2, LeaseFrame DEF HoldsLease

\* A claim takes only rows whose lease is over by the worker's `now`, which is
\* not ahead of the clock: none of them is in the hands of a worker in time.
LEMMA LeaseClaim ==
    ASSUME TypeInv, TypeInv', LeaseSafe, NEW w \in Workers, Claim(w)
    PROVE  LeaseSafe'
<1>1. PICK claimed \in SUBSET Jobs :
          /\ \A j \in claimed : Claimable(j, wnow[w])
          /\ job' = [j \in Jobs |-> IF j \in claimed
                                    THEN [job[j] EXCEPT !.lockedUntil = wlease[w]]
                                    ELSE job[j]]
          /\ wbatch' = [wbatch EXCEPT ![w] = claimed]
          /\ claimed # {} => UNCHANGED wlease
          /\ claimed = {} => EndTick(w)
  BY EarliestSubset DEF Claim
<1>2. UNCHANGED clock /\ clock \in Nat /\ wnow[w] \in Nat /\ wnow[w] <= clock
  BY TimeType DEF Claim, WorkerUnchanged, TypeInv, TypeOK, WorkerShape
<1>3. ASSUME NEW v \in Workers, NEW j \in claimed
      PROVE  ~ HoldsLease(v, j)
  <2>1. job[j].lockedUntil \in Nat /\ wlease[v] \in Nat
    BY DEF TypeInv, TypeOK, JobRow
  <2>2. job[j].status # "none" /\ job[j].lockedUntil <= clock
    BY <1>1, <1>2, <2>1 DEF Claimable, Pending
  <2>. QED  BY <1>2, <2>1, <2>2 DEF LeaseSafe, LeaseInv, HoldsLease
<1>4. \A v \in Workers, j \in Jobs : v # w => (HoldsLease(v, j)' <=> HoldsLease(v, j))
  <2>1. \A v \in Workers : v # w => wbatch'[v] = wbatch[v] /\ wlease'[v] = wlease[v]
    BY <1>1 DEF EndTick, TypeInv, TypeOK
  <2>. QED  BY <1>2, <2>1 DEF HoldsLease
<1>5. \A j \in Jobs : HoldsLease(w, j)' => j \in claimed
  BY <1>1 DEF HoldsLease, TypeInv, TypeOK
<1>6. LeaseInv'
  <2>. SUFFICES ASSUME NEW v \in Workers, NEW j \in Jobs, HoldsLease(v, j)'
                PROVE  job'[j].status = "none" \/ job'[j].lockedUntil = wlease'[v]
    BY DEF LeaseInv
  <2>1. CASE v = w
    <3>1. j \in claimed /\ wlease' = wlease
      BY <1>1, <1>5, <2>1
    <3>2. job'[j].lockedUntil = wlease[w]
      BY <1>1, <3>1 DEF TypeInv, TypeOK, JobRow
    <3>. QED  BY <2>1, <3>1, <3>2
  <2>2. CASE v # w
    <3>1. HoldsLease(v, j) /\ j \notin claimed
      BY <1>3, <1>4, <2>2
    <3>2. job'[j] = job[j] /\ wlease'[v] = wlease[v]
      BY <1>1, <2>2, <3>1 DEF EndTick, TypeInv, TypeOK
    <3>. QED  BY <3>1, <3>2 DEF LeaseSafe, LeaseInv
  <2>. QED  BY <2>1, <2>2
<1>7. LeaseExclusion'
  <2>. SUFFICES ASSUME NEW v1 \in Workers, NEW v2 \in Workers, NEW j \in Jobs,
                       HoldsLease(v1, j)', HoldsLease(v2, j)', v1 # v2
                PROVE  FALSE
    BY DEF LeaseExclusion
  <2>1. CASE v1 # w /\ v2 # w
    BY <1>4, <2>1 DEF LeaseSafe, LeaseExclusion
  <2>2. CASE v1 = w
    BY <1>3, <1>4, <1>5, <2>2
  <2>3. CASE v2 = w
    BY <1>3, <1>4, <1>5, <2>3
  <2>. QED  BY <2>1, <2>2, <2>3
<1>. QED  BY <1>6, <1>7 DEF LeaseSafe

\* The other steps of a worker: it keeps its batch and lease, shrinks its batch,
\* or starts a tick with an empty batch; its row updates keep locked_until.
LEMMA LeaseWorker ==
    ASSUME TypeInv, TypeInv', LeaseSafe, NEW w \in Workers,
           \/ Tick(w) \/ Fetch(w) \/ Lookup(w) \/ Post(w)
           \/ MarkDelivered(w) \/ MarkRetry(w) \/ MarkFailed(w)
           \/ AckJob(w) \/ RequeueJob(w) \/ WorkerCrash(w) \/ WorkerRestart(w)
    PROVE  LeaseSafe'
<1>1. UNCHANGED clock /\ clock \in Nat
  BY TimeType DEF Tick, Fetch, Lookup, Post, MarkDelivered, MarkRetry, MarkFailed, MarkDelivery,
     AckJob, RequeueJob, FinishJob, WorkerCrash, WorkerRestart, WorkerUnchanged, TypeInv, TypeOK
<1>2. ASSUME NEW v \in Workers, NEW j \in wbatch'[v]
      PROVE  j \in wbatch[v] /\ wlease'[v] = wlease[v]
  <2>. USE DEF TypeInv, TypeOK
  <2>1. CASE Tick(w)
    BY <1>2, <2>1 DEF Tick, WorkerShape
  <2>2. CASE AckJob(w) \/ RequeueJob(w)
    <3>1. /\ wbatch' = [wbatch EXCEPT ![w] = @ \ {wjob[w]}]
          /\ \/ wbatch[w] = {wjob[w]} /\ wlease' = [wlease EXCEPT ![w] = 0]
             \/ wlease' = wlease
      BY <2>2 DEF AckJob, RequeueJob, FinishJob, EndTick
    <3>2. CASE v = w
      <4>1. j \in wbatch[w] /\ j # wjob[w]
        BY <3>1, <3>2, <1>2
      <4>. QED  BY <3>1, <3>2, <4>1
    <3>3. CASE v # w
      BY <3>1, <3>3, <1>2
    <3>. QED  BY <3>2, <3>3
  <2>3. CASE WorkerCrash(w)
    BY <1>2, <2>3 DEF WorkerCrash
  <2>4. CASE UNCHANGED <<wbatch, wlease>>
    BY <1>2, <2>4
  <2>5. Tick(w) \/ AckJob(w) \/ RequeueJob(w) \/ WorkerCrash(w) \/ UNCHANGED <<wbatch, wlease>>
    BY DEF Fetch, Lookup, Post, MarkDelivered, MarkRetry, MarkFailed, MarkDelivery, WorkerRestart
  <2>. QED  BY <2>1, <2>2, <2>3, <2>4, <2>5
<1>3. ASSUME NEW v \in Workers, NEW j \in Jobs, HoldsLease(v, j)
      PROVE  \/ job'[j].status = "none"
             \/ job[j].status # "none" /\ job'[j].lockedUntil = job[j].lockedUntil
  <2>1. job[j].status = "none" \/ (job[j].lockedUntil = wlease[v] /\ clock < wlease[v])
    BY <1>3 DEF LeaseSafe, LeaseInv, HoldsLease
  <2>2. job[j].lockedUntil \in Nat /\ wlease[v] \in Nat /\ job \in [Jobs -> JobRow]
    BY DEF TypeInv, TypeOK, JobRow
  <2>3. CASE Tick(w)
    <3>1. CASE UNCHANGED job
      BY <2>1, <3>1
    <3>2. CASE job' = [i \in Jobs |-> IF Pending(job[i]) /\ job[i].lockedUntil < clock
                                     THEN [job[i] EXCEPT !.lockedUntil = 0] ELSE job[i]]
      <4>1. Pending(job[j]) => ~ (job[j].lockedUntil < clock)
        BY <2>1, <2>2, <1>1 DEF Pending
      <4>. QED  BY <2>1, <3>2, <4>1
    <3>. QED  BY <2>3, <3>1, <3>2 DEF Tick
  <2>4. CASE AckJob(w)
    <3>1. wjob[w] \in Jobs => job'[j] = job[j] \/ (/\ job[j].status # "none"
                                                 /\ job'[j] = [job[j] EXCEPT !.status = "done"])
      BY <2>2, <2>4 DEF AckJob
    <3>2. wjob[w] \in Jobs
      BY <2>4 DEF AckJob, TypeInv, TypeOK, WorkerShape, Busy
    <3>. QED  BY <2>1, <2>2, <3>1, <3>2 DEF JobRow
  <2>5. CASE RequeueJob(w)
    BY <2>1, <2>2, <2>5 DEF RequeueJob
  <2>6. CASE UNCHANGED job
    BY <2>1, <2>6
  <2>7. Tick(w) \/ AckJob(w) \/ RequeueJob(w) \/ UNCHANGED job
    BY DEF Fetch, Lookup, Post, MarkDelivered, MarkRetry, MarkFailed, MarkDelivery, WorkerCrash,
       WorkerRestart
  <2>. QED  BY <2>3, <2>4, <2>5, <2>6, <2>7
<1>. QED  BY <1>1, <1>2, <1>3, LeaseFrame

LEMMA LeaseInit == Init => LeaseSafe
BY DEF Init, LeaseSafe, LeaseInv, LeaseExclusion, HoldsLease

LEMMA LeaseStep == TypeInv /\ TypeInv' /\ ApiInv /\ LeaseSafe /\ [Next]_vars => LeaseSafe'
<1>. SUFFICES ASSUME TypeInv, TypeInv', ApiInv, LeaseSafe, [Next]_vars PROVE LeaseSafe'
  OBVIOUS
<1>. QED  BY StepCases, LeaseApi, LeaseClaim, LeaseWorker

\* At any time at most one worker whose lease has not run out holds a job, for any
\* number of workers, API calls and administrators: the claim of db.py:806-835
\* and the release of db.py:885-892 exclude each other as the lease promises.
THEOREM LeaseExclusionHolds == Spec => []LeaseExclusion
<1>1. Spec => []LeaseSafe
  BY TypeInvariant, ApiInvariant, LeaseInit, LeaseStep, PTL DEF Spec
<1>2. LeaseSafe => LeaseExclusion
  BY DEF LeaseSafe
<1>. QED  BY <1>1, <1>2, PTL

-----------------------------------------------------------------------------
(***************************************************************************)
(* Delivered means acknowledged.  AckInv carries the 2xx answer over the    *)
(* gap between the POST and the UPDATE that records it.                     *)
(***************************************************************************)

AckSafe == AckInv /\ DeliveredWasAcked

\* Steps after which nothing is more "delivered" than before.
LEMMA AckFrame ==
    ASSUME AckSafe, acked \subseteq acked',
           \A d \in Deliveries : dlv'[d].status = "delivered" => dlv[d].status = "delivered",
           \A w \in Workers : wpc'[w] = "markDelivered" =>
              wjob'[w][2] \in acked' \/ (wpc[w] = "markDelivered" /\ wjob'[w] = wjob[w])
    PROVE  AckSafe'
<1>1. AckInv'
  BY DEF AckSafe, AckInv
<1>2. DeliveredWasAcked'
  BY DEF AckSafe, DeliveredWasAcked
<1>. QED  BY <1>1, <1>2 DEF AckSafe

LEMMA AckApi ==
    ASSUME TypeInv, ApiInv, AckSafe,
           \/ \E s \in Subs : Subscribe(s) \/ Unsubscribe(s)
           \/ \E e \in Emitters : EmitStart(e) \/ EmitInsert(e) \/ EmitRefused(e) \/ EmitDedupe(e)
           \/ \E a \in Admins : AdminStart(a) \/ AdminDedupe(a)
           \/ \E t \in Threads : Enqueue(t) \/ ApiFinish(t) \/ ApiCrash(t)
           \/ PurgeJobs
           \/ ClockTick
           \/ UNCHANGED vars
    PROVE  AckSafe'
<1>1. UNCHANGED <<wpc, wjob, acked>>
  BY DEF Subscribe, Unsubscribe, EmitStart, EmitInsert, EmitRefused, EmitDedupe, AdminStart,
     AdminDedupe, Enqueue, ApiFinish, ApiCrash, PurgeJobs, ClockTick, ApiUnchanged,
     workerVars, historyVars, vars
<1>2. ASSUME NEW d \in Deliveries, dlv'[d].status = "delivered"
      PROVE  dlv[d].status = "delivered"
  <2>. USE DEF TypeInv, TypeOK
  <2>1. CASE \E s \in Subs : Unsubscribe(s)
    BY <1>2, <2>1 DEF Unsubscribe, NoDelivery
  <2>2. CASE \E e \in Emitters : EmitInsert(e)
    <3>1. PICK c \in Deliveries :
              dlv' = [dlv EXCEPT ![c] = [status |-> "queued", attempts |-> 0, nextAt |-> clock]]
      BY <2>2, IdTypes DEF EmitInsert
    <3>. QED  BY <1>2, <3>1
  <2>3. CASE UNCHANGED dlv
    BY <1>2, <2>3
  <2>4. (\E s \in Subs : Unsubscribe(s)) \/ (\E e \in Emitters : EmitInsert(e)) \/ UNCHANGED dlv
    BY DEF Subscribe, EmitStart, EmitRefused, EmitDedupe, AdminStart, AdminDedupe, Enqueue,
       ApiFinish, ApiCrash, PurgeJobs, ClockTick, ApiUnchanged, dbVars, vars
  <2>. QED  BY <2>1, <2>2, <2>3, <2>4
<1>. QED  BY <1>1, <1>2, AckFrame

LEMMA AckWorker ==
    ASSUME TypeInv, AckSafe, NEW w \in Workers,
           \/ Tick(w) \/ Claim(w) \/ Fetch(w) \/ Lookup(w) \/ Post(w)
           \/ MarkDelivered(w) \/ MarkRetry(w) \/ MarkFailed(w)
           \/ AckJob(w) \/ RequeueJob(w) \/ WorkerCrash(w) \/ WorkerRestart(w)
    PROVE  AckSafe'
<1>. USE DEF TypeInv, TypeOK
<1>1. CASE Post(w)
  <2>1. /\ UNCHANGED <<dlv, wjob>>
        /\ acked \subseteq acked'
        /\ \E pc \in {"markDelivered", "markFailed", "markRetry"} :
              /\ wpc' = [wpc EXCEPT ![w] = pc]
              /\ pc = "markDelivered" => wjob[w][2] \in acked'
    BY <1>1 DEF Post
  <2>. QED  BY <2>1, AckFrame
<1>2. CASE MarkDelivered(w)
  <2>1. /\ UNCHANGED <<acked, wjob>>
        /\ wjob[w][2] \in acked
        /\ \A d \in Deliveries : d # wjob[w][2] => dlv'[d] = dlv[d]
        /\ wpc' = [wpc EXCEPT ![w] = "ackJob"]
    BY <1>2 DEF MarkDelivered, MarkDelivery, historyVars, AckSafe, AckInv
  <2>2. AckInv'
    BY <2>1 DEF AckSafe, AckInv
  <2>3. DeliveredWasAcked'
    BY <2>1 DEF AckSafe, DeliveredWasAcked
  <2>. QED  BY <2>2, <2>3 DEF AckSafe
<1>3. CASE MarkRetry(w) \/ MarkFailed(w)
  <2>1. /\ UNCHANGED <<acked, wjob>>
        /\ wpc' = [wpc EXCEPT ![w] = "ackJob"]
    BY <1>3 DEF MarkRetry, MarkFailed, MarkDelivery, historyVars
  <2>2. ASSUME NEW d \in Deliveries, dlv'[d].status = "delivered"
        PROVE  dlv[d].status = "delivered"
    <3>1. CASE MarkRetry(w)
      BY <2>2, <3>1 DEF MarkRetry, MarkDelivery
    <3>2. CASE MarkFailed(w)
      BY <2>2, <3>2 DEF MarkFailed, MarkDelivery
    <3>. QED  BY <1>3, <3>1, <3>2
  <2>. QED  BY <2>1, <2>2, AckFrame
<1>4. CASE AckJob(w) \/ RequeueJob(w)
  <2>1. UNCHANGED <<dlv, acked>>
    BY <1>4 DEF AckJob, RequeueJob, FinishJob, historyVars
  <2>2. /\ wjob' = [wjob EXCEPT ![w] = NoJob]
        /\ \E pc \in {"idle", "work"} : wpc' = [wpc EXCEPT ![w] = pc]
    BY <1>4 DEF AckJob, RequeueJob, FinishJob, EndTick
  <2>. QED  BY <2>1, <2>2, AckFrame
<1>5. CASE Tick(w) \/ Claim(w) \/ Fetch(w) \/ Lookup(w) \/ WorkerCrash(w) \/ WorkerRestart(w)
  <2>1. UNCHANGED <<dlv, acked>>
    BY <1>5 DEF Tick, Claim, Fetch, Lookup, WorkerCrash, WorkerRestart, historyVars
  <2>2. /\ \A v \in Workers : v # w => wjob'[v] = wjob[v]
        /\ \E pc \in {"claim", "work", "idle", "ackJob", "requeueJob", "lookup", "post",
                      "markFailed", "down"} : wpc' = [wpc EXCEPT ![w] = pc]
    <3>1. CASE Claim(w)
      BY <3>1, EarliestSubset DEF Claim, EndTick
    <3>2. CASE Fetch(w)
      BY <3>2 DEF Fetch
    <3>3. CASE Tick(w) \/ Lookup(w) \/ WorkerCrash(w) \/ WorkerRestart(w)
      BY <3>3 DEF Tick, Lookup, WorkerCrash, WorkerRestart
    <3>. QED  BY <1>5, <3>1, <3>2, <3>3
  <2>. QED  BY <2>1, <2>2, AckFrame
<1>. QED  BY <1>1, <1>2, <1>3, <1>4, <1>5

LEMMA AckStep == TypeInv /\ ApiInv /\ AckSafe /\ [Next]_vars => AckSafe'
<1>. SUFFICES ASSUME TypeInv, ApiInv, AckSafe, [Next]_vars PROVE AckSafe'
  OBVIOUS
<1>. QED  BY StepCases, AckApi, AckWorker

LEMMA AckInvariant == Spec => []AckSafe
<1>1. Init => AckSafe
  BY DEF Init, AckSafe, AckInv, DeliveredWasAcked, NoDelivery
<1>. QED  BY TypeInvariant, ApiInvariant, <1>1, AckStep, PTL DEF Spec

\* A delivery is recorded as delivered only if its receiver answered 2xx to some
\* POST of it, whatever the number of workers and however stale the snapshot of
\* the one that recorded it (worker.py:225-268, db.py:718-725).
THEOREM DeliveredWasAckedHolds == Spec => []DeliveredWasAcked
<1>1. AckSafe => DeliveredWasAcked
  BY DEF AckSafe
<1>. QED  BY <1>1, AckInvariant, PTL

-----------------------------------------------------------------------------
(***************************************************************************)
(* No delivery is forgotten before its first attempt.  The job of a queued  *)
(* delivery is acknowledged only after the delivery left that state         *)
(* (HandledInv); the thread that deletes it holds the delivery in tcur.     *)
(***************************************************************************)

KeptSafe == HandledInv /\ NoForgottenDelivery

\* Steps that queue no delivery, end no job and drop no thread's delivery.
LEMMA KeptFrame ==
    ASSUME KeptSafe,
           \A d \in Deliveries : dlv'[d].status = "queued" => dlv[d].status = "queued",
           \A j \in Jobs : Pending(job[j]) => Pending(job'[j]),
           \A d \in Deliveries : InHands(d) => InHands(d)',
           \A w \in Workers : wpc'[w] = "ackJob" =>
              \/ dlv'[wjob'[w][2]].status # "queued"
              \/ wpc[w] = "ackJob" /\ wjob'[w] = wjob[w] /\ wjob[w][2] \in Deliveries
    PROVE  KeptSafe'
<1>1. HandledInv'
  BY DEF KeptSafe, HandledInv
<1>2. \A d \in Deliveries : HasJob(d) => HasJob(d)'
  BY IdTypes DEF HasJob, Pending
<1>3. NoForgottenDelivery'
  BY <1>2 DEF KeptSafe, NoForgottenDelivery
<1>. QED  BY <1>1, <1>3 DEF KeptSafe

\* The job a worker acknowledges names a delivery.
LEMMA AckedJobType ==
    ASSUME TypeInv, NEW w \in Workers, wpc[w] \in Busy
    PROVE  wjob[w] \in Jobs /\ wjob[w] \in wbatch[w] /\ wjob[w][2] \in Deliveries
BY IdTypes DEF TypeInv, TypeOK, WorkerShape

LEMMA KeptSubscriptions ==
    ASSUME TypeInv, KeptSafe, NEW s \in Subs, Subscribe(s) \/ Unsubscribe(s)
    PROVE  KeptSafe'
<1>1. UNCHANGED <<job, tcur, wpc, wjob>>
  BY DEF Subscribe, Unsubscribe, apiVars, workerVars
<1>2. \A d \in Deliveries : dlv'[d].status = "queued" => dlv[d].status = "queued"
  BY DEF Subscribe, Unsubscribe, NoDelivery
<1>3. \A w \in Workers : wpc[w] = "ackJob" => wjob[w][2] \in Deliveries
  BY AckedJobType DEF Busy
<1>. QED  BY <1>1, <1>2, <1>3, KeptFrame DEF InHands

LEMMA KeptEmit ==
    ASSUME TypeInv, ApiInv, KeptSafe, NEW e \in Emitters,
           EmitStart(e) \/ EmitInsert(e) \/ EmitRefused(e) \/ EmitDedupe(e)
    PROVE  KeptSafe'
<1>. USE DEF ApiUnchanged, workerVars
<1>1. UNCHANGED <<wpc, wjob>> /\ e \in Threads
  BY IdTypes DEF EmitStart, EmitInsert, EmitRefused, EmitDedupe
<1>2. \A w \in Workers : wpc[w] = "ackJob" => wjob[w][2] \in Deliveries
  BY AckedJobType DEF Busy
<1>3. CASE EmitStart(e) \/ EmitRefused(e)
  <2>1. UNCHANGED <<dlv, job, tcur>>
    BY <1>3 DEF EmitStart, EmitRefused
  <2>. QED  BY <1>1, <1>2, <2>1, KeptFrame DEF InHands
<1>4. CASE EmitInsert(e)
  <2>1. PICK d \in ttodo[e] :
            /\ dlv' = [dlv EXCEPT ![d] = [status |-> "queued", attempts |-> 0, nextAt |-> clock]]
            /\ tcur' = [tcur EXCEPT ![e] = d]
    BY <1>4 DEF EmitInsert
  <2>2. /\ UNCHANGED job /\ tcur[e] = NoJob
        /\ d \in Deliveries /\ ToInsert(d)
    <3>1. UNCHANGED job /\ tcur[e] = NoJob /\ d \in Deliveries /\ d[1] = e
      BY <1>1, <1>4, <2>1, IdTypes DEF EmitInsert, ApiInv, ApiShape, TypeInv, TypeOK
    <3>. QED  BY <2>1, <3>1 DEF ToInsert
  <2>3. \A w \in Workers : wpc[w] = "ackJob" => wjob[w][2] # d
    <3>. SUFFICES ASSUME NEW w \in Workers, wpc[w] = "ackJob", wjob[w][2] = d PROVE FALSE
      OBVIOUS
    <3>1. wjob[w] \in Jobs /\ wjob[w] \in wbatch[w]
      BY AckedJobType DEF Busy
    <3>2. wjob[w][1] \in Threads /\ wjob[w] = <<wjob[w][1], d>>
      BY <3>1, IdTypes
    <3>3. Unborn(wjob[w][1], d)
      BY <2>2, <3>2 DEF ApiInv, DeliveriesUnborn
    <3>. QED  BY <3>1, <3>2, <3>3 DEF Unborn
  <2>4. HandledInv'
    BY <1>1, <1>2, <2>1, <2>3 DEF KeptSafe, HandledInv, TypeInv, TypeOK
  <2>5. ASSUME NEW c \in Deliveries, dlv'[c].status = "queued"
        PROVE  HasJob(c)' \/ InHands(c)'
    <3>. USE DEF TypeInv, TypeOK
    <3>1. CASE c = d
      BY <1>1, <2>1, <3>1 DEF InHands
    <3>2. CASE c # d
      <4>1. HasJob(c) \/ InHands(c)
        BY <2>1, <2>5, <3>2 DEF KeptSafe, NoForgottenDelivery
      <4>2. InHands(c) => InHands(c)'
        BY <2>1, <2>2, IdTypes DEF InHands
      <4>. QED  BY <2>2, <4>1, <4>2 DEF HasJob
    <3>. QED  BY <3>1, <3>2
  <2>. QED  BY <2>4, <2>5 DEF KeptSafe, NoForgottenDelivery
<1>5. CASE EmitDedupe(e)
  <2>1. DeletePendingJobs(tcur[e]) /\ UNCHANGED <<dlv, tcur>>
    BY <1>5 DEF EmitDedupe
  <2>2. HandledInv'
    BY <1>1, <2>1 DEF KeptSafe, HandledInv
  <2>3. ASSUME NEW c \in Deliveries, dlv'[c].status = "queued"
        PROVE  HasJob(c)' \/ InHands(c)'
    <3>1. HasJob(c) \/ InHands(c)
      BY <2>1, <2>3 DEF KeptSafe, NoForgottenDelivery
    <3>2. HasJob(c) => HasJob(c)' \/ c = tcur[e]
      BY <2>1, IdTypes DEF HasJob, DeletePendingJobs
    <3>. QED  BY <1>1, <2>1, <3>1, <3>2 DEF InHands
  <2>. QED  BY <2>2, <2>3 DEF KeptSafe, NoForgottenDelivery
<1>. QED  BY <1>3, <1>4, <1>5

LEMMA KeptAdmin ==
    ASSUME TypeInv, ApiInv, KeptSafe, NEW a \in Admins, AdminStart(a) \/ AdminDedupe(a)
    PROVE  KeptSafe'
<1>. USE DEF ApiUnchanged, workerVars
<1>1. UNCHANGED <<wpc, wjob, dlv>> /\ a \in Threads
  BY IdTypes DEF AdminStart, AdminDedupe
<1>2. HandledInv'
  BY <1>1 DEF KeptSafe, HandledInv
<1>3. CASE AdminStart(a)
  <2>1. UNCHANGED <<job, tcur>>
    BY <1>3 DEF AdminStart
  <2>. QED  BY <1>1, <1>2, <2>1 DEF KeptSafe, NoForgottenDelivery, HasJob, InHands
<1>4. CASE AdminDedupe(a)
  <2>1. PICK d \in ttodo[a] : DeletePendingJobs(d) /\ tcur' = [tcur EXCEPT ![a] = d]
    BY <1>4 DEF AdminDedupe
  <2>2. tcur[a] = NoJob
    BY <1>1, <1>4 DEF AdminDedupe, ApiInv, ApiShape
  <2>3. ASSUME NEW c \in Deliveries, dlv'[c].status = "queued"
        PROVE  HasJob(c)' \/ InHands(c)'
    <3>. USE DEF TypeInv, TypeOK
    <3>1. HasJob(c) \/ InHands(c)
      BY <1>1, <2>3 DEF KeptSafe, NoForgottenDelivery
    <3>2. HasJob(c) => HasJob(c)' \/ c = d
      BY <2>1, IdTypes DEF HasJob, DeletePendingJobs
    <3>3. InHands(c) \/ c = d => InHands(c)'
      BY <1>1, <2>1, <2>2, IdTypes DEF InHands
    <3>. QED  BY <3>1, <3>2, <3>3
  <2>. QED  BY <1>2, <2>3 DEF KeptSafe, NoForgottenDelivery
<1>. QED  BY <1>3, <1>4

LEMMA KeptThread ==
    ASSUME TypeInv, ApiInv, KeptSafe, NEW t \in Threads, Enqueue(t) \/ ApiFinish(t) \/ ApiCrash(t)
    PROVE  KeptSafe'
<1>. USE DEF ApiUnchanged, workerVars
<1>1. UNCHANGED <<wpc, wjob, dlv>>
  BY DEF Enqueue, ApiFinish, ApiCrash
<1>2. HandledInv'
  BY <1>1 DEF KeptSafe, HandledInv
<1>3. CASE ApiFinish(t) \/ ApiCrash(t)
  <2>1. UNCHANGED <<job, tcur>>
    BY <1>3 DEF ApiFinish, ApiCrash
  <2>. QED  BY <1>1, <1>2, <2>1 DEF KeptSafe, NoForgottenDelivery, HasJob, InHands
<1>4. CASE Enqueue(t)
  <2>1. /\ tcur[t] \in Deliveries
        /\ tcur' = [tcur EXCEPT ![t] = NoJob]
        /\ \A j \in Jobs : j # <<t, tcur[t]>> => job'[j] = job[j]
    BY <1>4 DEF Enqueue, ApiInv, ApiShape, TypeInv, TypeOK
  <2>2. Pending(job'[<<t, tcur[t]>>])
    BY <1>4, <2>1, IdTypes DEF Enqueue, Pending, TypeInv, TypeOK
  <2>3. ASSUME NEW c \in Deliveries, dlv'[c].status = "queued"
        PROVE  HasJob(c)' \/ InHands(c)'
    <3>. USE DEF TypeInv, TypeOK
    <3>1. HasJob(c) \/ InHands(c)
      BY <1>1, <2>3 DEF KeptSafe, NoForgottenDelivery
    <3>2. CASE c = tcur[t]
      BY <2>2, <3>2 DEF HasJob, Pending
    <3>3. CASE c # tcur[t]
      <4>1. \A u \in Threads : job'[<<u, c>>] = job[<<u, c>>]
        BY <2>1, <3>3, IdTypes
      <4>2. HasJob(c) => HasJob(c)'
        BY <4>1 DEF HasJob, Pending
      <4>3. InHands(c) => InHands(c)'
        BY <2>1, <3>3 DEF InHands
      <4>. QED  BY <3>1, <4>2, <4>3
    <3>. QED  BY <3>2, <3>3
  <2>. QED  BY <1>2, <2>3 DEF KeptSafe, NoForgottenDelivery
<1>. QED  BY <1>3, <1>4

LEMMA KeptWorker ==
    ASSUME TypeInv, KeptSafe, NEW w \in Workers,
           \/ Tick(w) \/ Claim(w) \/ Fetch(w) \/ Lookup(w) \/ Post(w)
           \/ RequeueJob(w) \/ WorkerCrash(w) \/ WorkerRestart(w)
    PROVE  KeptSafe'
<1>. USE DEF TypeInv, TypeOK
<1>1. UNCHANGED <<dlv, tcur>>
  BY DEF Tick, Claim, Fetch, Lookup, Post, RequeueJob, FinishJob, WorkerCrash, WorkerRestart,
     WorkerUnchanged, apiVars
<1>2. \A v \in Workers : wpc[v] = "ackJob" => wjob[v][2] \in Deliveries
  BY AckedJobType DEF Busy
<1>3. \A j \in Jobs : Pending(job[j]) => Pending(job'[j])
  <2>1. CASE Tick(w)
    <3>1. \A j \in Jobs : job'[j] = job[j] \/ job'[j] = [job[j] EXCEPT !.lockedUntil = 0]
      BY <2>1, Zenon DEF Tick
    <3>. QED  BY <3>1 DEF Pending, JobRow
  <2>2. CASE Claim(w)
    <3>1. PICK claimed \in SUBSET Jobs :
              job' = [j \in Jobs |-> IF j \in claimed
                                     THEN [job[j] EXCEPT !.lockedUntil = wlease[w]]
                                     ELSE job[j]]
      BY <2>2, EarliestSubset DEF Claim
    <3>. QED  BY <3>1 DEF Pending, JobRow
  <2>3. CASE RequeueJob(w)
    BY <2>3 DEF RequeueJob, Pending
  <2>4. CASE Fetch(w) \/ Lookup(w) \/ Post(w) \/ WorkerCrash(w) \/ WorkerRestart(w)
    BY <2>4 DEF Fetch, Lookup, Post, WorkerCrash, WorkerRestart
  <2>. QED  BY <2>1, <2>2, <2>3, <2>4
<1>4. ASSUME NEW v \in Workers, wpc'[v] = "ackJob"
      PROVE  \/ dlv'[wjob'[v][2]].status # "queued"
             \/ wpc[v] = "ackJob" /\ wjob'[v] = wjob[v] /\ wjob[v][2] \in Deliveries
  <2>1. CASE Fetch(w) /\ v = w
    <3>1. PICK j \in wbatch[w] :
              /\ wjob' = [wjob EXCEPT ![w] = j]
              /\ Pending(dlv[j[2]]) => wpc' # [wpc EXCEPT ![w] = "ackJob"]
      BY <1>4, <2>1 DEF Fetch
    <3>. QED  BY <1>1, <1>4, <2>1, <3>1 DEF Fetch, Pending
  <2>2. CASE v # w
    <3>1. wpc'[v] = wpc[v] /\ wjob'[v] = wjob[v]
      <4>1. CASE Claim(w)
        BY <2>2, <4>1, EarliestSubset DEF Claim, EndTick
      <4>2. CASE Fetch(w)
        BY <2>2, <4>2 DEF Fetch
      <4>3. CASE RequeueJob(w)
        BY <2>2, <4>3 DEF RequeueJob, FinishJob, EndTick
      <4>4. CASE Tick(w) \/ Lookup(w) \/ Post(w) \/ WorkerCrash(w) \/ WorkerRestart(w)
        BY <2>2, <4>4 DEF Tick, Lookup, Post, WorkerCrash, WorkerRestart
      <4>. QED  BY <4>1, <4>2, <4>3, <4>4
    <3>. QED  BY <1>2, <1>4, <3>1
  <2>3. CASE v = w /\ ~ Fetch(w)
    <3>1. wpc'[w] # "ackJob"
      <4>1. CASE Claim(w)
        BY <4>1, EarliestSubset DEF Claim, EndTick
      <4>2. CASE RequeueJob(w)
        BY <4>2 DEF RequeueJob, FinishJob, EndTick
      <4>3. CASE Tick(w) \/ Lookup(w) \/ Post(w) \/ WorkerCrash(w) \/ WorkerRestart(w)
        BY <4>3 DEF Tick, Lookup, Post, WorkerCrash, WorkerRestart
      <4>. QED  BY <2>3, <4>1, <4>2, <4>3
    <3>. QED  BY <1>4, <2>3, <3>1
  <2>. QED  BY <2>1, <2>2, <2>3
<1>. QED  BY <1>1, <1>3, <1>4, KeptFrame DEF InHands

LEMMA KeptMark ==
    ASSUME TypeInv, KeptSafe, NEW w \in Workers,
           MarkDelivered(w) \/ MarkRetry(w) \/ MarkFailed(w)
    PROVE  KeptSafe'
<1>. USE DEF TypeInv, TypeOK
<1>1. /\ UNCHANGED <<job, tcur, wjob>>
      /\ wpc' = [wpc EXCEPT ![w] = "ackJob"]
      /\ wjob[w][2] \in Deliveries
  BY AckedJobType DEF MarkDelivered, MarkRetry, MarkFailed, MarkDelivery, WorkerUnchanged, apiVars,
     Busy
<1>2. /\ dlv'[wjob[w][2]].status # "queued"
      /\ \A d \in Deliveries : d # wjob[w][2] => dlv'[d] = dlv[d]
  <2>1. CASE MarkDelivered(w)
    BY <1>1, <2>1 DEF MarkDelivered, MarkDelivery, DeliveryRow
  <2>2. CASE MarkRetry(w)
    BY <1>1, <2>2 DEF MarkRetry, MarkDelivery
  <2>3. CASE MarkFailed(w)
    BY <1>1, <2>3 DEF MarkFailed, MarkDelivery, DeliveryRow
  <2>. QED  BY <2>1, <2>2, <2>3
<1>3. \A d \in Deliveries : dlv'[d].status = "queued" => dlv[d].status = "queued"
  BY <1>2
<1>4. \A v \in Workers : wpc[v] = "ackJob" => wjob[v][2] \in Deliveries
  BY AckedJobType DEF Busy
<1>. QED  BY <1>1, <1>2, <1>3, <1>4, KeptFrame DEF InHands

LEMMA KeptAck ==
    ASSUME TypeInv, KeptSafe, NEW w \in Workers, AckJob(w)
    PROVE  KeptSafe'
<1>. USE DEF TypeInv, TypeOK
<1>1. /\ UNCHANGED <<dlv, tcur>>
      /\ \A j \in Jobs : j # wjob[w] => job'[j] = job[j]
      /\ wjob' = [wjob EXCEPT ![w] = NoJob]
      /\ \E pc \in {"idle", "work"} : wpc' = [wpc EXCEPT ![w] = pc]
  BY DEF AckJob, FinishJob, EndTick, WorkerUnchanged, apiVars
<1>2. wjob[w] \in Jobs /\ dlv[wjob[w][2]].status # "queued"
  BY AckedJobType DEF AckJob, Busy, KeptSafe, HandledInv
<1>3. HandledInv'
  BY <1>1 DEF KeptSafe, HandledInv
<1>4. ASSUME NEW c \in Deliveries, dlv'[c].status = "queued"
      PROVE  HasJob(c)' \/ InHands(c)'
  <2>1. c # wjob[w][2]
    BY <1>1, <1>2, <1>4
  <2>2. \A t \in Threads : <<t, c>> \in Jobs /\ <<t, c>> # wjob[w]
    BY <2>1, IdTypes
  <2>3. HasJob(c) => HasJob(c)'
    BY <1>1, <2>2 DEF HasJob, Pending
  <2>. QED  BY <1>1, <1>4, <2>3 DEF KeptSafe, NoForgottenDelivery, InHands
<1>. QED  BY <1>3, <1>4 DEF KeptSafe, NoForgottenDelivery

LEMMA KeptStep == TypeInv /\ ApiInv /\ KeptSafe /\ [Next]_vars => KeptSafe'
<1>. SUFFICES ASSUME TypeInv, ApiInv, KeptSafe, [Next]_vars PROVE KeptSafe'
  OBVIOUS
<1>1. CASE PurgeJobs \/ ClockTick \/ UNCHANGED vars
  <2>1. UNCHANGED <<dlv, tcur, wpc, wjob>>
    BY <1>1 DEF PurgeJobs, ClockTick, vars, dbVars, apiVars, workerVars
  <2>2. \A j \in Jobs : Pending(job[j]) => Pending(job'[j])
    BY <1>1 DEF PurgeJobs, ClockTick, vars, dbVars, Pending
  <2>3. \A v \in Workers : wpc[v] = "ackJob" => wjob[v][2] \in Deliveries
    BY AckedJobType DEF Busy
  <2>. QED  BY <2>1, <2>2, <2>3, KeptFrame DEF InHands
<1>. QED
  BY <1>1, StepCases, KeptSubscriptions, KeptEmit, KeptAdmin, KeptThread, KeptWorker, KeptMark,
     KeptAck, Zenon

\* A queued delivery always has a pending job or is in the hands of an API
\* thread: neither the acknowledgement of a job, nor the deletion of pending jobs
\* by a concurrent admin run, nor a worker crash loses its first attempt
\* (app.py:77-129, worker.py:225-268, db.py:795-843).
THEOREM NoForgottenDeliveryHolds == Spec => []NoForgottenDelivery
<1>1. Init => KeptSafe
  BY DEF Init, KeptSafe, HandledInv, NoForgottenDelivery, NoDelivery
<1>2. Spec => []KeptSafe
  BY TypeInvariant, ApiInvariant, <1>1, KeptStep, PTL DEF Spec
<1>3. KeptSafe => NoForgottenDelivery
  BY DEF KeptSafe
<1>. QED  BY <1>2, <1>3, PTL

-----------------------------------------------------------------------------
(***************************************************************************)
(* Concurrent POSTs.  Two workers in time that POST one delivery hold two   *)
(* jobs, by LeaseExclusion; and only its own emission or an admin run ever  *)
(* enqueues a job for a delivery (OwnJobs).                                 *)
(***************************************************************************)

OwnJobs ==
    \A e \in Emitters :
        /\ tcur[e] \in Deliveries => tcur[e][1] = e
        /\ \A d \in Deliveries : d[1] # e => Unborn(e, d)

LEMMA OwnJobsFrame ==
    ASSUME TypeInv, OwnJobs,
           \A e \in Emitters : tcur'[e] \in Deliveries => tcur'[e] = tcur[e] \/ tcur'[e][1] = e,
           \A j \in Jobs : job[j].status = "none" => job'[j].status = "none",
           \A w \in Workers : \A j \in wbatch'[w] : j \in wbatch[w] \/ job[j].status # "none"
    PROVE  OwnJobs'
<1>1. \A e \in Emitters, d \in Deliveries : Unborn(e, d) => Unborn(e, d)'
  BY IdTypes DEF Unborn
<1>2. \A e \in Emitters, d \in Deliveries : d[1] # e => Unborn(e, d)'
  BY <1>1 DEF OwnJobs
<1>3. \A e \in Emitters : tcur'[e] \in Deliveries => tcur'[e][1] = e
  BY DEF OwnJobs
<1>. QED  BY <1>2, <1>3 DEF OwnJobs

LEMMA OwnJobsApi ==
    ASSUME TypeInv, ApiInv, OwnJobs,
           \/ \E s \in Subs : Subscribe(s) \/ Unsubscribe(s)
           \/ \E e \in Emitters : EmitStart(e) \/ EmitInsert(e) \/ EmitRefused(e) \/ EmitDedupe(e)
           \/ \E a \in Admins : AdminStart(a) \/ AdminDedupe(a)
           \/ \E t \in Threads : ApiFinish(t) \/ ApiCrash(t)
           \/ PurgeJobs
           \/ ClockTick
           \/ UNCHANGED vars
    PROVE  OwnJobs'
<1>1. wbatch' = wbatch
  BY DEF Subscribe, Unsubscribe, EmitStart, EmitInsert, EmitRefused, EmitDedupe, AdminStart,
     AdminDedupe, ApiFinish, ApiCrash, PurgeJobs, ClockTick, ApiUnchanged, workerVars, vars
<1>2. \A j \in Jobs : job[j].status = "none" => job'[j].status = "none"
  BY DEF Subscribe, Unsubscribe, EmitStart, EmitInsert, EmitRefused, EmitDedupe, AdminStart,
     AdminDedupe, ApiFinish, ApiCrash, PurgeJobs, ClockTick, dbVars, vars, DeletePendingJobs, NoRow
<1>3. ASSUME NEW e \in Emitters, tcur'[e] \in Deliveries
      PROVE  tcur'[e] = tcur[e] \/ tcur'[e][1] = e
  <2>1. CASE \E x \in Emitters : EmitInsert(x)
    <3>1. PICK x \in Emitters, d \in Deliveries : d \in ttodo[x] /\ tcur' = [tcur EXCEPT ![x] = d]
      BY <2>1, IdTypes DEF EmitInsert, TypeInv, TypeOK
    <3>2. x \in Threads /\ d[1] = x /\ tcur \in [Threads -> Deliveries \union {NoJob}]
      BY <3>1, IdTypes DEF ApiInv, ApiShape, TypeInv, TypeOK
    <3>. QED  BY <3>1, <3>2, IdTypes
  <2>2. CASE \E a \in Admins : AdminDedupe(a)
    BY <2>2, IdTypes DEF AdminDedupe, TypeInv, TypeOK
  <2>3. CASE tcur' = tcur
    BY <2>3
  <2>4. \/ \E x \in Emitters : EmitInsert(x)
        \/ \E a \in Admins : AdminDedupe(a)
        \/ tcur' = tcur
    BY DEF Subscribe, Unsubscribe, EmitStart, EmitRefused, EmitDedupe, AdminStart, ApiFinish,
       ApiCrash, PurgeJobs, ClockTick, apiVars, vars
  <2>. QED  BY <2>1, <2>2, <2>3, <2>4
<1>. QED  BY <1>1, <1>2, <1>3, OwnJobsFrame

LEMMA OwnJobsEnqueue ==
    ASSUME TypeInv, ApiInv, OwnJobs, NEW t \in Threads, Enqueue(t)
    PROVE  OwnJobs'
<1>1. /\ tcur[t] \in Deliveries /\ tcur' = [tcur EXCEPT ![t] = NoJob]
      /\ \A j \in Jobs : j # <<t, tcur[t]>> => job'[j] = job[j]
      /\ wbatch' = wbatch
  BY DEF Enqueue, ApiInv, ApiShape, TypeInv, TypeOK, ApiUnchanged, workerVars
<1>2. ASSUME NEW e \in Emitters, NEW d \in Deliveries, d[1] # e
      PROVE  Unborn(e, d)'
  <2>1. Unborn(e, d) /\ (t = e => tcur[t] # d)
    BY <1>1, <1>2 DEF OwnJobs
  <2>2. <<e, d>> \in Jobs /\ <<e, d>> # <<t, tcur[t]>>
    BY <2>1, IdTypes
  <2>. QED  BY <1>1, <2>1, <2>2 DEF Unborn
<1>3. \A e \in Emitters : tcur'[e] \in Deliveries => tcur'[e][1] = e
  BY <1>1, IdTypes DEF OwnJobs, TypeInv, TypeOK
<1>. QED  BY <1>2, <1>3 DEF OwnJobs

LEMMA OwnJobsStep == TypeInv /\ ApiInv /\ OwnJobs /\ [Next]_vars => OwnJobs'
<1>. SUFFICES ASSUME TypeInv, ApiInv, OwnJobs, [Next]_vars PROVE OwnJobs'
  OBVIOUS
<1>1. CASE \E w \in Workers : MarkDelivered(w) \/ MarkRetry(w) \/ MarkFailed(w)
  <2>1. UNCHANGED <<tcur, job, wbatch>>
    BY <1>1 DEF MarkDelivered, MarkRetry, MarkFailed, MarkDelivery, WorkerUnchanged, apiVars
  <2>. QED  BY <2>1, OwnJobsFrame
<1>2. ASSUME NEW w \in Workers,
             \/ Tick(w) \/ Claim(w) \/ Fetch(w) \/ Lookup(w) \/ Post(w)
             \/ AckJob(w) \/ RequeueJob(w) \/ WorkerCrash(w) \/ WorkerRestart(w)
      PROVE  OwnJobs'
  <2>1. tcur' = tcur
    BY <1>2 DEF Tick, Claim, Fetch, Lookup, Post, AckJob, RequeueJob, FinishJob, WorkerCrash,
       WorkerRestart, WorkerUnchanged, apiVars
  <2>. QED  BY <1>2, <2>1, WorkerRows, OwnJobsFrame
<1>. QED  BY <1>1, <1>2, StepCases, OwnJobsApi, OwnJobsEnqueue, Zenon

\* Two workers whose leases have not run out POST one delivery at the same time only
\* if an admin run has enqueued one of their jobs, for any number of workers and calls
\* (claim_due_jobs and delete_pending_jobs of db.py, app.py:114-129).
THEOREM ConcurrentPostExplainedHolds == Spec => []ConcurrentPostExplained
<1>1. Init => OwnJobs
  BY IdTypes DEF Init, OwnJobs, Unborn, NoRow
<1>2. Spec => [](TypeInv /\ OwnJobs /\ LeaseExclusion)
  BY TypeInvariant, ApiInvariant, LeaseExclusionHolds, <1>1, OwnJobsStep, PTL DEF Spec
<1>3. TypeInv /\ OwnJobs /\ LeaseExclusion => ConcurrentPostExplained
  <2>. SUFFICES ASSUME TypeInv, OwnJobs, LeaseExclusion,
                       NEW w1 \in Workers, NEW w2 \in Workers, NEW d \in Deliveries,
                       Posting(w1, d), Posting(w2, d), w1 # w2,
                       wjob[w1][1] \notin Admins, wjob[w2][1] \notin Admins
                PROVE  FALSE
    BY DEF ConcurrentPostExplained
  <2>1. /\ wjob[w1] \in Jobs /\ HoldsLease(w1, wjob[w1]) /\ wjob[w1][2] = d
        /\ wjob[w2] \in Jobs /\ HoldsLease(w2, wjob[w2]) /\ wjob[w2][2] = d
    BY AckedJobType DEF Posting, HoldsLease, Busy
  <2>2. wjob[w1][1] \in Emitters /\ wjob[w2][1] \in Emitters
    BY <2>1, IdTypes DEF Threads
  <2>3. wjob[w1] = <<wjob[w1][1], d>> /\ wjob[w2] = <<wjob[w2][1], d>>
    BY <2>1, IdTypes
  <2>4. wjob[w1][1] = d[1] /\ wjob[w2][1] = d[1]
    BY <2>1, <2>2, <2>3 DEF OwnJobs, Unborn, HoldsLease
  <2>5. wjob[w1] = wjob[w2]
    BY <2>3, <2>4
  <2>. QED  BY <2>1, <2>5 DEF LeaseExclusion
<1>. QED  BY <1>2, <1>3, PTL
=============================================================================
