------------------------ MODULE DeliveryContractProofs ------------------------
(***************************************************************************)
(* DeliveryPipeline with one worker, as the repository deploys it: its      *)
(* bookkeeping of attempts is right, it respects the backoff, and it         *)
(* implements DeliveryContract.  All three rest on one invariant, BooksInv: *)
(* a single worker's snapshot of a row is never stale in a way that matters. *)
(* The row is still as it was read, or was deleted with its subscription.   *)
(***************************************************************************)
EXTENDS DeliveryPipelineProofs

OneWorker == \A v, w \in Workers : v = w

\* From the moment the row is found due to the moment the attempt is booked.
Marking == {"markDelivered", "markRetry", "markFailed"}
Attempting == {"lookup", "post"} \union Marking
Cur(w) == wjob[w][2]

\* The foreign key: a row has its subscription.
RowsLive == \A d \in Deliveries : dlv[d].status # "none" => subs[d[2]] = "live"

\* What the worker has read of the row is what it says, or the row is gone for good.
AsRead(w) ==
    \/ dlv[Cur(w)] = wsnap[w]
    \/ dlv[Cur(w)] = NoDelivery /\ subs[Cur(w)[2]] = "gone"
Fresh(w) ==
    wpc[w] \in Attempting =>
        /\ Pending(wsnap[w]) /\ wsnap[w].attempts < MaxAttempts /\ wsnap[w].nextAt <= wnow[w]
        /\ AsRead(w)

\* A POST of d has been made and is not in the row yet.
Marked(d) == \E w \in Workers : wpc[w] \in Marking /\ Cur(w) = d

\* The books of a delivery: at most one POST, and one for each crash, is not counted
\* in its row; every attempt counted was made.
BookOf(d) ==
    /\ posts[d] <= MaxAttempts + crashes
    /\ dlv[d].status # "none" => posts[d] <= dlv[d].attempts + 1 + crashes
    /\ Pending(dlv[d]) => /\ dlv[d].attempts < MaxAttempts
                          /\ posts[d] <= dlv[d].attempts + crashes \/ Marked(d)
    /\ dlv[d].attempts <= posts[d]
    /\ ToInsert(d) => posts[d] = 0

\* The books of the delivery a worker is about to POST, or has POSTed.
BeforePost(w) == posts[Cur(w)] <= wsnap[w].attempts + crashes
AfterPost(w) ==
    dlv[Cur(w)].status # "none" =>
        /\ dlv[Cur(w)].attempts + 1 <= posts[Cur(w)]
        /\ wpc[w] = "markFailed" => MaxAttempts <= posts[Cur(w)]
Counts(w) ==
    /\ wpc[w] \in {"lookup", "post"} => BeforePost(w)
    /\ wpc[w] \in Marking => AfterPost(w)
    /\ wpc[w] = "markRetry" => wsnap[w].attempts + 1 < MaxAttempts

Books == \A d \in Deliveries : BookOf(d)
BooksInv == RowsLive /\ (\A w \in Workers : Fresh(w) /\ Counts(w)) /\ Books

LEMMA MaxAttemptsType == MaxAttempts \in Nat /\ 1 <= MaxAttempts
  BY ConstantsAssumption

\* Numbers compared in the books.
LEMMA BookTypes ==
    ASSUME TypeInv
    PROVE  /\ \A d \in Deliveries : dlv[d] \in DeliveryRow /\ dlv[d].attempts \in Nat
                                    /\ dlv[d].nextAt \in Nat /\ posts[d] \in Nat
           /\ \A w \in Workers : wsnap[w] \in DeliveryRow /\ wsnap[w].attempts \in Nat
                                 /\ wsnap[w].nextAt \in Nat /\ wnow[w] \in Nat
           /\ crashes \in Nat /\ clock \in Nat
<1>1. MaxCrashes \in Nat
  BY ConstantsAssumption
<1>2. crashes \in Nat /\ clock \in Nat
  BY <1>1, TimeType DEF TypeInv, TypeOK
<1>3. \A d \in Deliveries : dlv[d] \in DeliveryRow /\ posts[d] \in Nat
  BY DEF TypeInv, TypeOK
<1>4. \A w \in Workers : wsnap[w] \in DeliveryRow /\ wnow[w] \in Nat
  BY TimeType DEF TypeInv, TypeOK
<1>5. \A r \in DeliveryRow : r.attempts \in Nat /\ r.nextAt \in Nat
  BY DEF DeliveryRow
<1>. QED  BY <1>2, <1>3, <1>4, <1>5

LEMMA BooksInit == Init => BooksInv
<1>. SUFFICES ASSUME Init PROVE BooksInv
  OBVIOUS
<1>1. \A d \in Deliveries : dlv[d].status = "none" /\ dlv[d].attempts = 0 /\ posts[d] = 0
  BY DEF Init, NoDelivery
<1>2. crashes = 0 /\ \A w \in Workers : wpc[w] = "idle"
  BY DEF Init
<1>3. RowsLive
  BY <1>1 DEF RowsLive
<1>4. \A w \in Workers : Fresh(w) /\ Counts(w)
  BY <1>2 DEF Fresh, Counts, Attempting, Marking
<1>5. Books
  BY <1>1, <1>2, MaxAttemptsType DEF Books, BookOf, Pending
<1>. QED  BY <1>3, <1>4, <1>5 DEF BooksInv

\* The delivery a worker is busy with has been inserted.
LEMMA CurKnown ==
    ASSUME TypeInv, ApiInv, NEW w \in Workers, wpc[w] \in Busy
    PROVE  Cur(w) \in Deliveries /\ ~ ToInsert(Cur(w))
<1>1. wjob[w] \in Jobs /\ wjob[w] \in wbatch[w] /\ Cur(w) \in Deliveries
  BY AckedJobType DEF Cur
<1>2. wjob[w][1] \in Threads /\ wjob[w] = <<wjob[w][1], Cur(w)>>
  BY <1>1, IdTypes DEF Cur
<1>. QED  BY <1>1, <1>2 DEF ApiInv, DeliveriesUnborn, Unborn

\* A worker that is at no attempt has nothing to say.
LEMMA Idle ==
    ASSUME NEW w \in Workers, wpc'[w] \notin Attempting
    PROVE  Fresh(w)' /\ Counts(w)'
<1>1. wpc'[w] \notin {"lookup", "post"} /\ wpc'[w] \notin Marking /\ wpc'[w] # "markRetry"
  BY DEF Attempting, Marking
<1>. QED  BY <1>1 DEF Fresh, Counts

\* Steps of the others: a row stays, goes with its subscription or is inserted.
RowStays(d) == dlv'[d] = dlv[d] /\ (dlv[d].status # "none" => subs'[d[2]] = "live")
RowDropped(d) == dlv'[d] = NoDelivery /\ subs'[d[2]] = "gone"
RowInserted(d) ==
    /\ ToInsert(d) /\ subs[d[2]] = "live" /\ subs'[d[2]] = "live"
    /\ dlv'[d] = [status |-> "queued", attempts |-> 0, nextAt |-> clock]

LEMMA BooksFrame ==
    ASSUME TypeInv, ApiInv, BooksInv,
           UNCHANGED <<wpc, wjob, wsnap, wnow, posts, crashes>>,
           \A d \in Deliveries : ToInsert(d)' => ToInsert(d),
           \A s \in Subs : subs[s] = "gone" => subs'[s] = "gone",
           \A d \in Deliveries : RowStays(d) \/ RowDropped(d) \/ RowInserted(d)
    PROVE  BooksInv'
<1>1. RowsLive'
  BY DEF RowsLive, RowStays, RowDropped, RowInserted, NoDelivery
<1>2. ASSUME NEW d \in Deliveries PROVE BookOf(d)'
  <2>1. BookOf(d)
    BY DEF BooksInv, Books
  <2>2. Marked(d)' <=> Marked(d)
    BY DEF Marked, Cur
  <2>3. posts[d] \in Nat /\ crashes \in Nat
    BY BookTypes
  <2>4. CASE RowStays(d)
    BY <2>1, <2>2, <2>4 DEF BookOf, RowStays
  <2>5. CASE RowDropped(d)
    BY <2>1, <2>3, <2>5 DEF BookOf, RowDropped, NoDelivery, Pending
  <2>6. CASE RowInserted(d)
    BY <2>1, <2>3, <2>6, MaxAttemptsType DEF BookOf, RowInserted, Pending
  <2>. QED  BY <2>4, <2>5, <2>6
<1>3. ASSUME NEW w \in Workers PROVE Fresh(w)' /\ Counts(w)'
  <2>1. Fresh(w) /\ Counts(w)
    BY DEF BooksInv
  <2>2. CASE wpc[w] \in Attempting
    <3>1. PICK d \in Deliveries : d = Cur(w) /\ ~ ToInsert(d) /\ d[2] \in Subs
      BY <2>2, CurKnown, IdTypes DEF Attempting, Marking, Busy
    <3>2. Cur(w)' = d
      BY <3>1 DEF Cur
    <3>3. RowStays(d) \/ RowDropped(d)
      BY <3>1 DEF RowInserted
    <3>4. AsRead(w)'
      BY <2>1, <2>2, <3>1, <3>2, <3>3 DEF Fresh, AsRead, RowStays, RowDropped
    <3>5. AfterPost(w) => AfterPost(w)'
      BY <3>1, <3>2, <3>3 DEF AfterPost, RowStays, RowDropped, NoDelivery
    <3>6. BeforePost(w) => BeforePost(w)'
      BY <3>1, <3>2 DEF BeforePost
    <3>. QED  BY <2>1, <3>4, <3>5, <3>6 DEF Fresh, Counts
  <2>3. CASE wpc[w] \notin Attempting
    <3>1. wpc'[w] \notin Attempting
      BY <2>3
    <3>. QED  BY <3>1, Idle
  <2>. QED  BY <2>2, <2>3
<1>. QED  BY <1>1, <1>2, <1>3 DEF BooksInv, Books

\* No step makes a delivery wait for its insertion again.
LEMMA InsertionOnce ==
    ASSUME TypeInv,
           \/ \E s \in Subs : Subscribe(s) \/ Unsubscribe(s)
           \/ \E e \in Emitters : EmitStart(e) \/ EmitInsert(e) \/ EmitRefused(e) \/ EmitDedupe(e)
           \/ \E a \in Admins : AdminStart(a) \/ AdminDedupe(a)
           \/ \E t \in Threads : Enqueue(t) \/ ApiFinish(t) \/ ApiCrash(t)
           \/ PurgeJobs
           \/ ClockTick
           \/ UNCHANGED vars,
           NEW d \in Deliveries, ToInsert(d)'
    PROVE  ToInsert(d)
<1>. USE IdTypes DEF TypeInv, TypeOK, ToInsert
<1>1. d[1] \in Emitters /\ d[1] \in Threads
  OBVIOUS
<1>2. CASE \E e \in Emitters : EmitStart(e)
  <2>1. PICK e \in Emitters : EmitStart(e)
    BY <1>2
  <2>2. tpc[e] = "ready" /\ e \in Threads
    BY <2>1 DEF EmitStart
  <2>3. d[1] # e => tpc'[d[1]] = tpc[d[1]] /\ ttodo'[d[1]] = ttodo[d[1]]
    BY <1>1, <2>1, <2>2 DEF EmitStart
  <2>. QED  BY <2>2, <2>3
<1>3. CASE \E a \in Admins : AdminStart(a)
  <2>1. PICK a \in Admins : AdminStart(a)
    BY <1>3
  <2>2. tpc' = [tpc EXCEPT ![a] = "next"] /\ \E list : ttodo' = [ttodo EXCEPT ![a] = list]
    BY <2>1 DEF AdminStart
  <2>. QED  BY <1>1, <2>2
<1>4. ASSUME NEW t \in Threads, NEW l \in {"next", "dedupe", "enqueue", "done", "crashed"},
             NEW todo \in SUBSET ttodo[t],
             tpc' = [tpc EXCEPT ![t] = l], ttodo' = [ttodo EXCEPT ![t] = todo]
      PROVE  ToInsert(d)
  BY <1>1, <1>4
<1>5. CASE \E e \in Emitters : EmitInsert(e)
  BY <1>4, <1>5 DEF EmitInsert
<1>6. CASE \E e \in Emitters : EmitRefused(e) \/ EmitDedupe(e)
  <2>1. PICK e \in Threads : EmitRefused(e) \/ EmitDedupe(e)
    BY <1>6
  <2>2. ttodo' = [ttodo EXCEPT ![e] = {}] \/ ttodo' = [ttodo EXCEPT ![e] = ttodo[e]]
    BY <2>1 DEF EmitRefused, EmitDedupe
  <2>3. \E l \in {"done", "enqueue"} : tpc' = [tpc EXCEPT ![e] = l]
    BY <2>1 DEF EmitRefused, EmitDedupe
  <2>. QED  BY <1>4, <2>2, <2>3
<1>7. CASE \E a \in Admins : AdminDedupe(a)
  BY <1>4, <1>7 DEF AdminDedupe
<1>8. CASE \E t \in Threads : Enqueue(t) \/ ApiFinish(t) \/ ApiCrash(t)
  <2>1. PICK t \in Threads : Enqueue(t) \/ ApiFinish(t) \/ ApiCrash(t)
    BY <1>8
  <2>2. ttodo' = [ttodo EXCEPT ![t] = {}] \/ ttodo' = [ttodo EXCEPT ![t] = ttodo[t]]
    BY <2>1 DEF Enqueue, ApiFinish, ApiCrash
  <2>3. \E l \in {"next", "done", "crashed"} : tpc' = [tpc EXCEPT ![t] = l]
    BY <2>1 DEF Enqueue, ApiFinish, ApiCrash
  <2>. QED  BY <1>4, <2>2, <2>3
<1>9. CASE (\E s \in Subs : Subscribe(s) \/ Unsubscribe(s)) \/ PurgeJobs \/ ClockTick \/ UNCHANGED vars
  BY <1>9 DEF Subscribe, Unsubscribe, PurgeJobs, ClockTick, vars, apiVars
<1>. QED  BY <1>2, <1>3, <1>5, <1>6, <1>7, <1>8, <1>9

LEMMA RowsElsewhere ==
    ASSUME TypeInv, ApiInv, RowsLive,
           \/ \E s \in Subs : Subscribe(s) \/ Unsubscribe(s)
           \/ \E e \in Emitters : EmitStart(e) \/ EmitInsert(e) \/ EmitRefused(e) \/ EmitDedupe(e)
           \/ \E a \in Admins : AdminStart(a) \/ AdminDedupe(a)
           \/ \E t \in Threads : Enqueue(t) \/ ApiFinish(t) \/ ApiCrash(t)
           \/ PurgeJobs
           \/ ClockTick
           \/ UNCHANGED vars
    PROVE  /\ \A s \in Subs : subs[s] = "gone" => subs'[s] = "gone"
           /\ \A d \in Deliveries : RowStays(d) \/ RowDropped(d) \/ RowInserted(d)
<1>. USE IdTypes DEF TypeInv, TypeOK
<1>1. CASE \E s \in Subs : Subscribe(s)
  BY <1>1 DEF Subscribe, RowsLive, RowStays
<1>2. CASE \E s \in Subs : Unsubscribe(s)
  BY <1>2 DEF Unsubscribe, RowsLive, RowStays, RowDropped
<1>3. CASE \E e \in Emitters : EmitInsert(e)
  <2>1. PICK e \in Emitters, c \in Deliveries :
            /\ c \in ttodo[e] /\ subs[c[2]] = "live" /\ subs' = subs
            /\ dlv' = [dlv EXCEPT ![c] = [status |-> "queued", attempts |-> 0, nextAt |-> clock]]
    BY <1>3 DEF EmitInsert, ApiUnchanged
  <2>2. ToInsert(c)
    BY <2>1 DEF ApiInv, ApiShape, ToInsert
  <2>3. RowInserted(c)
    BY <2>1, <2>2 DEF RowInserted
  <2>4. \A d \in Deliveries : d # c => RowStays(d)
    BY <2>1 DEF RowStays, RowsLive
  <2>. QED  BY <2>1, <2>3, <2>4
<1>4. CASE UNCHANGED <<subs, dlv>>
  BY <1>4 DEF RowsLive, RowStays
<1>5. \/ \E s \in Subs : Subscribe(s)
      \/ \E s \in Subs : Unsubscribe(s)
      \/ \E e \in Emitters : EmitInsert(e)
      \/ UNCHANGED <<subs, dlv>>
  BY DEF EmitStart, EmitRefused, EmitDedupe, AdminStart, AdminDedupe, Enqueue, ApiFinish, ApiCrash,
     PurgeJobs, ClockTick, ApiUnchanged, dbVars, vars
<1>. QED  BY <1>1, <1>2, <1>3, <1>4, <1>5

LEMMA BooksApi ==
    ASSUME TypeInv, ApiInv, BooksInv,
           \/ \E s \in Subs : Subscribe(s) \/ Unsubscribe(s)
           \/ \E e \in Emitters : EmitStart(e) \/ EmitInsert(e) \/ EmitRefused(e) \/ EmitDedupe(e)
           \/ \E a \in Admins : AdminStart(a) \/ AdminDedupe(a)
           \/ \E t \in Threads : Enqueue(t) \/ ApiFinish(t) \/ ApiCrash(t)
           \/ PurgeJobs
           \/ ClockTick
           \/ UNCHANGED vars
    PROVE  BooksInv'
<1>1. UNCHANGED <<wpc, wjob, wsnap, wnow, posts, crashes>>
  BY DEF Subscribe, Unsubscribe, EmitStart, EmitInsert, EmitRefused, EmitDedupe, AdminStart,
     AdminDedupe, Enqueue, ApiFinish, ApiCrash, PurgeJobs, ClockTick, ApiUnchanged,
     workerVars, historyVars, vars
<1>2. /\ \A s \in Subs : subs[s] = "gone" => subs'[s] = "gone"
      /\ \A d \in Deliveries : RowStays(d) \/ RowDropped(d) \/ RowInserted(d)
  BY RowsElsewhere DEF BooksInv
<1>3. \A d \in Deliveries : ToInsert(d)' => ToInsert(d)
  BY InsertionOnce
<1>. QED  BY <1>1, <1>2, <1>3, BooksFrame

-----------------------------------------------------------------------------
(* The steps of the one worker.                                             *)

\* A step that leaves the rows and the API threads alone, and ends at no attempt: a
\* POST it leaves unbooked is a crash's.
LEMMA BooksPause ==
    ASSUME TypeInv, BooksInv, OneWorker, NEW w \in Workers,
           UNCHANGED <<dlv, subs, tpc, ttodo, posts>>, wpc'[w] \notin Attempting,
           crashes' = crashes + 1 \/ (crashes' = crashes /\ wpc[w] \notin Marking)
    PROVE  BooksInv'
<1>1. RowsLive'
  BY DEF BooksInv, RowsLive
<1>2. \A v \in Workers : Fresh(v)' /\ Counts(v)'
  BY Idle DEF OneWorker
<1>3. ASSUME NEW d \in Deliveries PROVE BookOf(d)'
  <2>1. BookOf(d) /\ (ToInsert(d)' <=> ToInsert(d))
    BY DEF BooksInv, Books, ToInsert
  <2>2. /\ posts[d] \in Nat /\ crashes \in Nat /\ dlv[d].attempts \in Nat /\ MaxAttempts \in Nat
    BY BookTypes, MaxAttemptsType
  <2>3. CASE crashes' = crashes + 1
    <3>1. posts[d] <= MaxAttempts + crashes'
      BY <2>1, <2>2, <2>3 DEF BookOf
    <3>2. dlv[d].status # "none" => posts[d] <= dlv[d].attempts + 1 + crashes'
      BY <2>1, <2>2, <2>3 DEF BookOf
    <3>3. Pending(dlv[d]) => dlv[d].attempts < MaxAttempts /\ posts[d] <= dlv[d].attempts + crashes'
      BY <2>1, <2>2, <2>3 DEF BookOf, Pending
    <3>. QED  BY <2>1, <3>1, <3>2, <3>3 DEF BookOf
  <2>4. CASE crashes' = crashes /\ wpc[w] \notin Marking
    <3>1. ~ Marked(d)
      BY <2>4 DEF Marked, OneWorker
    <3>. QED  BY <2>1, <2>4, <3>1 DEF BookOf
  <2>. QED  BY <2>3, <2>4
<1>. QED  BY <1>1, <1>2, <1>3 DEF BooksInv, Books

LEMMA BooksIdle ==
    ASSUME TypeInv, BooksInv, OneWorker, NEW w \in Workers,
           \/ Tick(w) \/ Claim(w) \/ AckJob(w) \/ RequeueJob(w) \/ WorkerCrash(w) \/ WorkerRestart(w)
    PROVE  BooksInv'
<1>1. UNCHANGED <<dlv, subs, tpc, ttodo, posts>>
  BY DEF Tick, Claim, AckJob, RequeueJob, FinishJob, WorkerCrash, WorkerRestart, WorkerUnchanged,
     apiVars, historyVars
<1>2. PICK l \in {"claim", "idle", "work", "down"} : wpc' = [wpc EXCEPT ![w] = l]
  BY DEF Tick, Claim, AckJob, RequeueJob, FinishJob, EndTick, WorkerCrash, WorkerRestart
<1>3. wpc'[w] \notin Attempting
  BY <1>2 DEF Attempting, Marking, TypeInv, TypeOK
<1>4. crashes' = crashes + 1 \/ (crashes' = crashes /\ wpc[w] \notin Marking)
  BY DEF Tick, Claim, AckJob, RequeueJob, FinishJob, WorkerCrash, WorkerRestart, Marking
<1>. QED  BY <1>1, <1>3, <1>4, BooksPause

\* A row that is found due is as the books say, and no POST of it is unbooked.
LEMMA BooksFetch ==
    ASSUME TypeInv, BooksInv, OneWorker, NEW w \in Workers, Fetch(w)
    PROVE  BooksInv'
<1>1. UNCHANGED <<dlv, subs, tpc, ttodo, posts, crashes, wnow>> /\ wpc[w] = "work"
  BY DEF Fetch, WorkerUnchanged, apiVars, historyVars
<1>2. PICK j \in Jobs :
          /\ wjob' = [wjob EXCEPT ![w] = j] /\ wsnap' = [wsnap EXCEPT ![w] = dlv[j[2]]]
          /\ \/ \E l \in {"ackJob", "requeueJob"} : wpc' = [wpc EXCEPT ![w] = l]
             \/ /\ wpc' = [wpc EXCEPT ![w] = "lookup"]
                /\ Pending(dlv[j[2]]) /\ dlv[j[2]].nextAt <= wnow[w]
  BY DEF Fetch, TypeInv, TypeOK
<1>3. CASE \E l \in {"ackJob", "requeueJob"} : wpc' = [wpc EXCEPT ![w] = l]
  <2>1. wpc'[w] \notin Attempting /\ wpc[w] \notin Marking
    BY <1>1, <1>3 DEF Attempting, Marking, TypeInv, TypeOK
  <2>. QED  BY <1>1, <2>1, BooksPause
<1>4. CASE wpc' = [wpc EXCEPT ![w] = "lookup"] /\ Pending(dlv[j[2]]) /\ dlv[j[2]].nextAt <= wnow[w]
  <2>1. PICK d \in Deliveries : d = j[2]
    BY IdTypes
  <2>2. wpc'[w] = "lookup" /\ Cur(w)' = d /\ wsnap'[w] = dlv[d] /\ wnow' = wnow
    BY <1>1, <1>2, <1>4, <2>1 DEF TypeInv, TypeOK, Cur
  <2>3. \A c \in Deliveries : ~ Marked(c) /\ BookOf(c)
    BY <1>1 DEF Marked, OneWorker, Marking, BooksInv, Books
  <2>4. Books'
    BY <1>1, <2>3 DEF Books, BookOf, ToInsert
  <2>5. dlv[d].attempts < MaxAttempts /\ posts[d] <= dlv[d].attempts + crashes
    BY <1>4, <2>1, <2>3 DEF BookOf
  <2>6. AsRead(w)' /\ BeforePost(w)'
    BY <1>1, <2>2, <2>5 DEF AsRead, BeforePost
  <2>7. Fresh(w)' /\ Counts(w)'
    BY <1>1, <1>4, <2>1, <2>2, <2>5, <2>6 DEF Fresh, Counts, Marking
  <2>8. RowsLive'
    BY <1>1 DEF BooksInv, RowsLive
  <2>. QED  BY <2>4, <2>7, <2>8 DEF BooksInv, OneWorker
<1>. QED  BY <1>2, <1>3, <1>4

LEMMA BooksLookup ==
    ASSUME TypeInv, BooksInv, OneWorker, NEW w \in Workers, Lookup(w)
    PROVE  BooksInv'
<1>1. /\ UNCHANGED <<dlv, subs, tpc, ttodo, posts, crashes, wnow, wjob, wsnap>>
      /\ wpc[w] = "lookup" /\ wjob[w] \in Jobs /\ Cur(w) \in Deliveries
  BY AckedJobType DEF Lookup, WorkerUnchanged, apiVars, historyVars, Cur, Busy
<1>2. \/ wpc'[w] = "post"
      \/ wpc'[w] = "markFailed" /\ subs[Cur(w)[2]] # "live"
  BY DEF Lookup, Cur, TypeInv, TypeOK
<1>3. Fresh(w) /\ BeforePost(w)
  BY <1>1 DEF BooksInv, Counts
<1>4. AsRead(w)' <=> AsRead(w)
  BY <1>1 DEF AsRead, Cur
<1>5. Fresh(w)'
  BY <1>1, <1>3, <1>4 DEF Fresh, Attempting
<1>6. wpc'[w] = "markFailed" => dlv[Cur(w)].status = "none"
  BY <1>1, <1>2 DEF BooksInv, RowsLive
<1>7. Counts(w)'
  <2>1. CASE wpc'[w] = "post"
    BY <1>1, <1>3, <2>1 DEF Counts, BeforePost, Cur, Marking
  <2>2. CASE wpc'[w] = "markFailed"
    <3>1. AfterPost(w)'
      BY <1>1, <1>6, <2>2 DEF AfterPost, Cur
    <3>. QED  BY <2>2, <3>1 DEF Counts
  <2>. QED  BY <1>2, <2>1, <2>2
<1>8. Books'
  <2>1. \A d \in Deliveries : ~ Marked(d) /\ BookOf(d)
    BY <1>1 DEF Marked, OneWorker, Marking, BooksInv, Books
  <2>. QED  BY <1>1, <2>1 DEF Books, BookOf, ToInsert
<1>9. RowsLive'
  BY <1>1 DEF BooksInv, RowsLive
<1>. QED  BY <1>5, <1>7, <1>8, <1>9 DEF BooksInv, OneWorker

\* The POST itself: one more than the row says, until it is booked.
LEMMA BooksPost ==
    ASSUME TypeInv, ApiInv, BooksInv, OneWorker, NEW w \in Workers, Post(w)
    PROVE  BooksInv'
<1>1. PICK d \in Deliveries : d = Cur(w) /\ ~ ToInsert(d) /\ wpc[w] = "post"
  BY CurKnown DEF Post, Busy
<1>2. /\ UNCHANGED <<dlv, subs, tpc, ttodo, crashes, wnow, wjob, wsnap>>
      /\ posts' = [posts EXCEPT ![d] = @ + 1]
  BY <1>1 DEF Post, WorkerUnchanged, apiVars, Cur
<1>3. \/ wpc'[w] = "markDelivered"
      \/ wpc'[w] = "markFailed" /\ wsnap[w].attempts + 1 >= MaxAttempts
      \/ wpc'[w] = "markRetry" /\ ~ (wsnap[w].attempts + 1 >= MaxAttempts)
  BY DEF Post, TypeInv, TypeOK
<1>4. Cur(w)' = d /\ posts'[d] = posts[d] + 1 /\ \A c \in Deliveries : c # d => posts'[c] = posts[c]
  BY <1>1, <1>2 DEF Cur, TypeInv, TypeOK
<1>5. Fresh(w) /\ BeforePost(w) /\ wpc[w] \in Attempting
  BY <1>1 DEF BooksInv, Counts, Attempting
<1>6. /\ posts[d] \in Nat /\ crashes \in Nat /\ dlv[d].attempts \in Nat /\ wsnap[w].attempts \in Nat
      /\ MaxAttempts \in Nat
  BY BookTypes, MaxAttemptsType
<1>7. wpc'[w] \in Marking /\ wpc'[w] \in Attempting
  BY <1>3 DEF Marking, Attempting
<1>8. AsRead(w)'
  BY <1>1, <1>2, <1>4, <1>5 DEF Fresh, AsRead
<1>9. Fresh(w)'
  BY <1>2, <1>5, <1>8 DEF Fresh
<1>10. BookOf(d) /\ \A c \in Deliveries : BookOf(c)
  BY DEF BooksInv, Books
<1>11. dlv[d].status # "none" => dlv[d].attempts = wsnap[w].attempts /\ dlv[d].attempts <= posts[d]
  BY <1>1, <1>5, <1>10 DEF Fresh, AsRead, NoDelivery, BookOf
<1>12. AfterPost(w)'
  <2>1. dlv[d].status # "none" => dlv[d].attempts + 1 <= posts'[d]
    BY <1>4, <1>6, <1>11
  <2>2. dlv[d].status # "none" /\ wpc'[w] = "markFailed" => MaxAttempts <= posts'[d]
    BY <1>3, <1>4, <1>6, <1>11
  <2>. QED  BY <1>2, <1>4, <2>1, <2>2 DEF AfterPost
<1>13. Counts(w)'
  <2>1. wpc'[w] = "markRetry" => wsnap[w].attempts + 1 < MaxAttempts
    BY <1>3, <1>6
  <2>. QED  BY <1>2, <1>7, <1>12, <2>1 DEF Counts, Marking
<1>14. BookOf(d)'
  <2>1. posts[d] <= wsnap[w].attempts + crashes /\ wsnap[w].attempts < MaxAttempts
    BY <1>1, <1>5 DEF Fresh, BeforePost
  <2>2. posts'[d] <= MaxAttempts + crashes
    BY <1>4, <1>6, <2>1
  <2>3. dlv[d].status # "none" => posts'[d] <= dlv[d].attempts + 1 + crashes
    BY <1>4, <1>6, <1>11, <2>1
  <2>4. Pending(dlv[d]) => dlv[d].attempts < MaxAttempts
    BY <1>10 DEF BookOf
  <2>5. Marked(d)'
    BY <1>4, <1>7 DEF Marked
  <2>6. dlv[d].attempts <= posts'[d]
    BY <1>4, <1>6, <1>10 DEF BookOf
  <2>7. ~ ToInsert(d)'
    BY <1>1, <1>2 DEF ToInsert
  <2>. QED  BY <1>2, <2>2, <2>3, <2>4, <2>5, <2>6, <2>7 DEF BookOf
<1>15. ASSUME NEW c \in Deliveries, c # d PROVE BookOf(c)'
  <2>1. ~ Marked(c)
    BY <1>1 DEF Marked, OneWorker, Marking
  <2>. QED  BY <1>2, <1>4, <1>10, <1>15, <2>1 DEF BookOf, ToInsert
<1>16. RowsLive'
  BY <1>2 DEF BooksInv, RowsLive
<1>. QED  BY <1>9, <1>13, <1>14, <1>15, <1>16 DEF BooksInv, Books, OneWorker

\* What the three UPDATEs do to the row of the delivery they are about.
Booked(w, d) ==
    \/ dlv[d].status = "none" /\ dlv'[d] = dlv[d]
    \/ /\ dlv[d].status # "none"
       /\ \/ dlv'[d].status \in {"delivered", "failed"} /\ dlv'[d].attempts = dlv[d].attempts
          \/ /\ wpc[w] = "markRetry"
             /\ dlv'[d].status = "retry" /\ dlv'[d].attempts = dlv[d].attempts + 1

LEMMA MarkedRow ==
    ASSUME TypeInv, NEW w \in Workers, MarkDelivered(w) \/ MarkRetry(w) \/ MarkFailed(w),
           NEW d \in Deliveries, d = Cur(w)
    PROVE  Booked(w, d)
<1>. USE DEF TypeInv, TypeOK
<1>1. CASE MarkDelivered(w)
  <2>1. dlv'[d] = IF dlv[d].status = "none" THEN dlv[d] ELSE [dlv[d] EXCEPT !.status = "delivered"]
    BY <1>1 DEF MarkDelivered, MarkDelivery, Cur
  <2>. QED  BY <2>1 DEF Booked, DeliveryRow
<1>2. CASE MarkFailed(w)
  <2>1. dlv'[d] = IF dlv[d].status = "none" THEN dlv[d] ELSE [dlv[d] EXCEPT !.status = "failed"]
    BY <1>2 DEF MarkFailed, MarkDelivery, Cur
  <2>. QED  BY <2>1 DEF Booked, DeliveryRow
<1>3. CASE MarkRetry(w)
  <2>1. /\ wpc[w] = "markRetry"
        /\ \E n : dlv'[d] = IF dlv[d].status = "none" THEN dlv[d]
                            ELSE [status |-> "retry", attempts |-> dlv[d].attempts + 1, nextAt |-> n]
    BY <1>3 DEF MarkRetry, MarkDelivery, Cur
  <2>. QED  BY <2>1 DEF Booked
<1>. QED  BY <1>1, <1>2, <1>3

LEMMA BooksMark ==
    ASSUME TypeInv, ApiInv, BooksInv, OneWorker, NEW w \in Workers,
           MarkDelivered(w) \/ MarkRetry(w) \/ MarkFailed(w)
    PROVE  BooksInv'
<1>1. wpc[w] \in Marking /\ wpc[w] \in Busy /\ wpc[w] \in Attempting
  BY DEF MarkDelivered, MarkRetry, MarkFailed, Marking, Busy, Attempting
<1>2. PICK d \in Deliveries : d = Cur(w) /\ ~ ToInsert(d)
  BY <1>1, CurKnown
<1>3. /\ UNCHANGED <<subs, tpc, ttodo, posts, crashes>> /\ wpc' = [wpc EXCEPT ![w] = "ackJob"]
      /\ \A c \in Deliveries : c # d => dlv'[c] = dlv[c]
  BY <1>2 DEF MarkDelivered, MarkRetry, MarkFailed, MarkDelivery, Cur, WorkerUnchanged, apiVars,
     historyVars, TypeInv, TypeOK
<1>4. wpc'[w] \notin Attempting
  BY <1>3 DEF TypeInv, TypeOK, Attempting, Marking
<1>5. \A v \in Workers : Fresh(v)' /\ Counts(v)'
  BY <1>4, Idle DEF OneWorker
<1>6. Booked(w, d)
  BY <1>2, MarkedRow
<1>7. RowsLive'
  BY <1>3, <1>6 DEF BooksInv, RowsLive, Booked
<1>8. \A c \in Deliveries : BookOf(c) /\ (ToInsert(c)' <=> ToInsert(c))
  BY <1>3 DEF BooksInv, Books, ToInsert
<1>9. BookOf(d)'
  <2>1. /\ posts[d] \in Nat /\ crashes \in Nat /\ dlv[d].attempts \in Nat /\ wsnap[w].attempts \in Nat
        /\ MaxAttempts \in Nat
    BY BookTypes, MaxAttemptsType
  <2>2. CASE dlv[d].status = "none" /\ dlv'[d] = dlv[d]
    BY <1>3, <1>8, <2>2 DEF BookOf, Pending
  <2>3. CASE dlv'[d].status \in {"delivered", "failed"} /\ dlv'[d].attempts = dlv[d].attempts
                /\ dlv[d].status # "none"
    BY <1>3, <1>8, <2>3 DEF BookOf, Pending
  <2>4. CASE /\ wpc[w] = "markRetry" /\ dlv[d].status # "none"
             /\ dlv'[d].status = "retry" /\ dlv'[d].attempts = dlv[d].attempts + 1
    <3>1. Fresh(w) /\ wsnap[w].attempts + 1 < MaxAttempts /\ AfterPost(w)
      BY <1>1, <2>4 DEF BooksInv, Counts
    <3>2. dlv[d].attempts = wsnap[w].attempts /\ dlv[d].attempts + 1 <= posts[d]
      BY <1>1, <1>2, <2>4, <3>1 DEF Fresh, AsRead, AfterPost, NoDelivery
    <3>3. posts[d] <= dlv[d].attempts + 1 + crashes /\ posts[d] <= MaxAttempts + crashes
      BY <1>8, <2>4 DEF BookOf
    <3>4. posts[d] <= dlv'[d].attempts + crashes /\ posts[d] <= dlv'[d].attempts + 1 + crashes
      BY <2>1, <2>4, <3>3
    <3>5. dlv'[d].attempts < MaxAttempts /\ dlv'[d].attempts <= posts[d]
      BY <2>1, <2>4, <3>1, <3>2
    <3>. QED  BY <1>2, <1>3, <1>8, <3>3, <3>4, <3>5 DEF BookOf
  <2>. QED  BY <1>6, <2>2, <2>3, <2>4 DEF Booked
<1>10. ASSUME NEW c \in Deliveries, c # d PROVE BookOf(c)'
  <2>1. ~ Marked(c)
    BY <1>2, <1>10 DEF Marked, OneWorker
  <2>. QED  BY <1>3, <1>8, <1>10, <2>1 DEF BookOf
<1>. QED  BY <1>5, <1>7, <1>9, <1>10 DEF BooksInv, Books

LEMMA BooksStep == OneWorker /\ TypeInv /\ ApiInv /\ BooksInv /\ [Next]_vars => BooksInv'
<1>. SUFFICES ASSUME OneWorker, TypeInv, ApiInv, BooksInv, [Next]_vars PROVE BooksInv'
  OBVIOUS
<1>. QED
  BY StepCases, BooksApi, BooksIdle, BooksFetch, BooksLookup, BooksPost, BooksMark, Zenon

THEOREM BooksInvariant == ASSUME OneWorker PROVE Spec => []BooksInv
BY TypeInvariant, ApiInvariant, BooksInit, BooksStep, PTL DEF Spec

\* One worker never exceeds the attempts configured by more than the crashes that hit it
\* between a POST and its bookkeeping, and attempt_count lags by no more than that
\* (worker.py:231-268, db.py:727-770), for every number of deliveries and crashes.
THEOREM AttemptsBoundedHolds == ASSUME OneWorker PROVE Spec => []AttemptsBounded
<1>1. BooksInv => AttemptsBounded
  BY DEF BooksInv, Books, BookOf, AttemptsBounded
<1>. QED  BY <1>1, BooksInvariant, PTL

\* One worker POSTs no delivery before its next_attempt_at, by its own `now`, which is
\* never ahead of the clock (worker.py:231-238).
THEOREM BackoffRespectedHolds == ASSUME OneWorker PROVE Spec => BackoffRespected
<1>. DEFINE A == \A d \in Deliveries : posts'[d] # posts[d] => dlv[d].nextAt <= clock
<1>1. OneWorker /\ TypeInv /\ ApiInv /\ BooksInv /\ [Next]_vars => [A]_vars
  <2>. SUFFICES ASSUME TypeInv, ApiInv, BooksInv, [Next]_vars,
                       NEW d \in Deliveries, posts'[d] # posts[d]
                PROVE  dlv[d].nextAt <= clock
    OBVIOUS
  <2>1. PICK w \in Workers : Post(w)
    BY StepCases DEF Subscribe, Unsubscribe, EmitStart, EmitInsert, EmitRefused, EmitDedupe,
       AdminStart, AdminDedupe, Enqueue, ApiFinish, ApiCrash, ApiUnchanged, Tick, Claim, Fetch,
       Lookup, MarkDelivered, MarkRetry, MarkFailed, MarkDelivery, AckJob, RequeueJob, FinishJob,
       WorkerCrash, WorkerRestart, PurgeJobs, ClockTick, historyVars, vars
  <2>2. d = Cur(w) /\ wpc[w] \in Attempting
    BY <2>1 DEF Post, Cur, Attempting, TypeInv, TypeOK
  <2>3. wsnap[w].nextAt <= wnow[w] /\ AsRead(w)
    BY <2>2 DEF BooksInv, Fresh
  <2>4. wnow[w] <= clock /\ wnow[w] \in Nat /\ clock \in Nat /\ wsnap[w].nextAt \in Nat
    BY BookTypes DEF TypeInv, WorkerShape
  <2>5. CASE dlv[d] = wsnap[w]
    BY <2>3, <2>4, <2>5
  <2>6. CASE dlv[d] = NoDelivery
    BY <2>4, <2>6 DEF NoDelivery
  <2>. QED  BY <2>2, <2>3, <2>5, <2>6 DEF AsRead
<1>2. Spec => [][A]_vars
  BY <1>1, TypeInvariant, ApiInvariant, BooksInvariant, PTL DEF Spec
<1>. QED  BY <1>2 DEF BackoffRespected

-----------------------------------------------------------------------------
(***************************************************************************)
(* The refinement: every step of the pipeline is a step of DeliveryContract *)
(* or changes nothing that the contract speaks of.                          *)
(***************************************************************************)

\* The state of one delivery as the contract sees it.
StateOf(d) ==
    IF Pending(dlv[d]) THEN "open"
    ELSE IF dlv[d].status # "none" THEN dlv[d].status
    ELSE IF subs[d[2]] = "gone" THEN "dropped" ELSE "absent"

LEMMA ContractStateOf ==
    /\ ContractState = [d \in Deliveries |-> StateOf(d)]
    /\ \A d \in Deliveries : ContractState[d] = StateOf(d)
    /\ ContractState' = [d \in Deliveries |-> StateOf(d)']
  BY DEF ContractState, StateOf

LEMMA ContractInit == Init => Contract!Init
<1>. SUFFICES ASSUME Init PROVE Contract!Init
  OBVIOUS
<1>1. \A d \in Deliveries : dlv[d].status = "none" /\ subs[d[2]] = "unborn"
  BY IdTypes DEF Init, NoDelivery
<1>2. \A d \in Deliveries : StateOf(d) = "absent"
  BY <1>1 DEF StateOf, Pending
<1>3. ContractState = [d \in Deliveries |-> "absent"]
  BY <1>2, ContractStateOf
<1>. QED  BY <1>3 DEF Init, Contract!Init

\* Nothing the contract speaks of has changed.
LEMMA ContractStutters ==
    ASSUME \A d \in Deliveries : StateOf(d)' = StateOf(d), UNCHANGED <<posts, acked>>
    PROVE  UNCHANGED Contract!vars
<1>1. ContractState' = ContractState
  BY ContractStateOf
<1>. QED  BY <1>1 DEF Contract!vars

\* One delivery goes from one state to another.
LEMMA ContractBecomes ==
    ASSUME NEW d \in Deliveries, NEW from, NEW to, StateOf(d) = from, StateOf(d)' = to,
           \A c \in Deliveries : c # d => StateOf(c)' = StateOf(c), UNCHANGED <<posts, acked>>
    PROVE  Contract!Become(d, from, to)
<1>1. ContractState' = [ContractState EXCEPT ![d] = to]
  BY ContractStateOf
<1>. QED  BY <1>1, ContractStateOf DEF Contract!Become

\* A delivery keeps its state when its row does and its subscription is not deleted.
LEMMA StateStays ==
    ASSUME NEW d \in Deliveries, dlv'[d] = dlv[d],
           subs'[d[2]] = subs[d[2]] \/ (subs[d[2]] # "gone" /\ subs'[d[2]] # "gone")
    PROVE  StateOf(d)' = StateOf(d)
  BY DEF StateOf, Pending

LEMMA ContractSubscriptions ==
    ASSUME TypeInv, RowsLive, NEW s \in Subs, Subscribe(s) \/ Unsubscribe(s)
    PROVE  Contract!Next \/ UNCHANGED Contract!vars
<1>. USE DEF TypeInv, TypeOK
<1>1. UNCHANGED <<posts, acked>>
  BY DEF Subscribe, Unsubscribe, historyVars
<1>2. CASE Subscribe(s)
  <2>1. \A d \in Deliveries : StateOf(d)' = StateOf(d)
    BY <1>2, IdTypes, StateStays DEF Subscribe
  <2>. QED  BY <1>1, <2>1, ContractStutters
<1>3. CASE Unsubscribe(s)
  <2>. DEFINE S == {d \in Deliveries : d[2] = s}
  <2>1. \A d \in S : StateOf(d)' = "dropped"
    BY <1>3, IdTypes DEF Unsubscribe, StateOf, Pending, NoDelivery
  <2>2. \A d \in Deliveries : d \notin S => StateOf(d)' = StateOf(d)
    BY <1>3, IdTypes, StateStays DEF Unsubscribe
  <2>3. S \subseteq Deliveries
    OBVIOUS
  <2>. HIDE DEF S
  <2>4. ContractState' = [d \in Deliveries |-> IF d \in S THEN "dropped" ELSE ContractState[d]]
    BY <2>1, <2>2, ContractStateOf
  <2>5. Contract!Drop(S)
    BY <1>1, <2>4 DEF Contract!Drop
  <2>. QED  BY <2>3, <2>5 DEF Contract!Next
<1>. QED  BY <1>2, <1>3

LEMMA ContractInsert ==
    ASSUME TypeInv, ApiInv, NEW e \in Emitters, EmitInsert(e)
    PROVE  Contract!Next
<1>. USE DEF TypeInv, TypeOK
<1>1. PICK d \in Deliveries :
          /\ d \in ttodo[e] /\ subs[d[2]] = "live"
          /\ dlv' = [dlv EXCEPT ![d] = [status |-> "queued", attempts |-> 0, nextAt |-> clock]]
  BY IdTypes DEF EmitInsert
<1>2. UNCHANGED <<subs, posts, acked>>
  BY DEF EmitInsert, ApiUnchanged, historyVars
<1>3. ToInsert(d)
  BY <1>1, IdTypes DEF ApiInv, ApiShape, ToInsert
<1>4. StateOf(d) = "absent" /\ StateOf(d)' = "open"
  BY <1>1, <1>3 DEF ApiInv, DeliveriesUnborn, StateOf, Pending
<1>5. \A c \in Deliveries : c # d => StateOf(c)' = StateOf(c)
  BY <1>1, <1>2, StateStays
<1>6. Contract!Become(d, "absent", "open")
  BY <1>2, <1>4, <1>5, ContractBecomes
<1>. QED  BY <1>6 DEF Contract!Accept, Contract!Next

\* A POST is of an open delivery, or of one that was dropped under way.
LEMMA ContractPost ==
    ASSUME TypeInv, BooksInv, NEW w \in Workers, Post(w)
    PROVE  Contract!Next
<1>1. PICK d \in Deliveries : d = Cur(w) /\ wpc[w] \in Attempting
  BY AckedJobType DEF Post, Busy, Cur, Attempting
<1>2. UNCHANGED <<dlv, subs>> /\ posts' = [posts EXCEPT ![d] = @ + 1]
      /\ acked' \in {acked, acked \union {d}}
  BY <1>1 DEF Post, WorkerUnchanged, Cur
<1>3. Pending(wsnap[w]) /\ AsRead(w)
  BY <1>1 DEF BooksInv, Fresh
<1>4. StateOf(d) \in {"open", "dropped"}
  BY <1>1, <1>3 DEF AsRead, StateOf, Pending, NoDelivery
<1>5. ContractState' = ContractState
  BY <1>2, StateStays, ContractStateOf
<1>6. Contract!Send(d)
  BY <1>2, <1>4, <1>5, ContractStateOf DEF Contract!Send
<1>. QED  BY <1>6 DEF Contract!Next

\* A verdict is written over an open row, and for a reason; or the row is gone.
LEMMA ContractMark ==
    ASSUME TypeInv, AckSafe, BooksInv, NEW w \in Workers,
           MarkDelivered(w) \/ MarkRetry(w) \/ MarkFailed(w)
    PROVE  Contract!Next \/ UNCHANGED Contract!vars
<1>. USE DEF TypeInv, TypeOK
<1>1. wpc[w] \in Marking /\ wpc[w] \in Busy /\ wpc[w] \in Attempting
  BY DEF MarkDelivered, MarkRetry, MarkFailed, Marking, Busy, Attempting
<1>2. PICK d \in Deliveries : d = Cur(w)
  BY <1>1, AckedJobType DEF Cur
<1>3. /\ UNCHANGED <<subs, posts, acked>>
      /\ \A c \in Deliveries : c # d => dlv'[c] = dlv[c]
  BY <1>2 DEF MarkDelivered, MarkRetry, MarkFailed, MarkDelivery, Cur, WorkerUnchanged, historyVars
<1>4. \A c \in Deliveries : c # d => StateOf(c)' = StateOf(c)
  BY <1>3, StateStays
<1>5. CASE dlv[d].status = "none"
  <2>1. dlv'[d] = dlv[d]
    BY <1>2, <1>5, MarkedRow DEF Booked
  <2>2. StateOf(d)' = StateOf(d)
    BY <1>3, <2>1, StateStays
  <2>. QED  BY <1>3, <1>4, <2>2, ContractStutters
<1>6. CASE dlv[d].status # "none"
  <2>1. Pending(wsnap[w]) /\ AsRead(w) /\ AfterPost(w)
    BY <1>1 DEF BooksInv, Fresh, Counts
  <2>2. StateOf(d) = "open" /\ Pending(dlv[d])
    BY <1>2, <1>6, <2>1 DEF AsRead, StateOf, Pending, NoDelivery
  <2>3. CASE MarkRetry(w)
    <3>1. dlv'[d].status = "retry"
      BY <1>2, <1>6, <2>3 DEF MarkRetry, MarkDelivery, Cur
    <3>2. StateOf(d)' = StateOf(d)
      BY <2>2, <3>1 DEF StateOf, Pending
    <3>. QED  BY <1>3, <1>4, <3>2, ContractStutters
  <2>4. CASE MarkDelivered(w)
    <3>1. dlv'[d].status = "delivered"
      BY <1>2, <1>6, <2>4 DEF MarkDelivered, MarkDelivery, Cur, DeliveryRow
    <3>2. StateOf(d)' = "delivered"
      BY <3>1 DEF StateOf, Pending
    <3>3. d \in acked
      BY <1>2, <2>4 DEF MarkDelivered, AckSafe, AckInv, Cur
    <3>4. Contract!Become(d, "open", "delivered")
      BY <1>3, <1>4, <2>2, <3>2, ContractBecomes
    <3>. QED  BY <3>3, <3>4 DEF Contract!Deliver, Contract!Next
  <2>5. CASE MarkFailed(w)
    <3>1. dlv'[d].status = "failed"
      BY <1>2, <1>6, <2>5 DEF MarkFailed, MarkDelivery, Cur, DeliveryRow
    <3>2. StateOf(d)' = "failed"
      BY <3>1 DEF StateOf, Pending
    <3>3. posts[d] >= MaxAttempts
      <4>1. MaxAttempts <= posts[d]
        BY <1>2, <1>6, <2>1, <2>5 DEF MarkFailed, AfterPost
      <4>. QED  BY <4>1, BookTypes, MaxAttemptsType
    <3>4. Contract!Become(d, "open", "failed")
      BY <1>3, <1>4, <2>2, <3>2, ContractBecomes
    <3>. QED  BY <3>3, <3>4 DEF Contract!GiveUp, Contract!Next
  <2>. QED  BY <2>3, <2>4, <2>5
<1>. QED  BY <1>5, <1>6

LEMMA ContractStep ==
    ASSUME TypeInv, ApiInv, AckSafe, BooksInv, [Next]_vars
    PROVE  Contract!Next \/ UNCHANGED Contract!vars
<1>1. ASSUME UNCHANGED <<dlv, subs, posts, acked>>
      PROVE  UNCHANGED Contract!vars
  BY <1>1, StateStays, ContractStutters
<1>2. CASE \/ \E e \in Emitters : EmitStart(e) \/ EmitRefused(e) \/ EmitDedupe(e)
           \/ \E a \in Admins : AdminStart(a) \/ AdminDedupe(a)
           \/ \E t \in Threads : Enqueue(t) \/ ApiFinish(t) \/ ApiCrash(t)
           \/ PurgeJobs
           \/ ClockTick
           \/ UNCHANGED vars
  BY <1>1, <1>2 DEF EmitStart, EmitRefused, EmitDedupe, AdminStart, AdminDedupe, Enqueue, ApiFinish,
     ApiCrash, PurgeJobs, ClockTick, ApiUnchanged, dbVars, historyVars, vars
<1>3. CASE \E w \in Workers :
               \/ Tick(w) \/ Claim(w) \/ Fetch(w) \/ Lookup(w)
               \/ AckJob(w) \/ RequeueJob(w) \/ WorkerCrash(w) \/ WorkerRestart(w)
  BY <1>1, <1>3 DEF Tick, Claim, Fetch, Lookup, AckJob, RequeueJob, FinishJob, WorkerCrash,
     WorkerRestart, WorkerUnchanged, historyVars
<1>. QED
  BY <1>2, <1>3, StepCases, ContractSubscriptions, ContractInsert, ContractPost, ContractMark, Zenon
  DEF BooksInv

\* With one worker the pipeline implements the contract: retries, requeues, crashes,
\* lost leases and deleted jobs are invisible to it, a verdict is final and justified,
\* and a closed delivery is never POSTed again (process_once in worker.py).
THEOREM ContractImplemented == ASSUME OneWorker PROVE Spec => ContractSpec
<1>1. TypeInv /\ ApiInv /\ AckSafe /\ BooksInv /\ [Next]_vars => [Contract!Next]_(Contract!vars)
  BY ContractStep
<1>. QED
  BY <1>1, ContractInit, TypeInvariant, ApiInvariant, AckInvariant, BooksInvariant, PTL
  DEF Spec, ContractSpec, Contract!Spec
=============================================================================
