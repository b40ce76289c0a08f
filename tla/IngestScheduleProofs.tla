------------------------- MODULE IngestScheduleProofs -------------------------
(***************************************************************************)
(* Proofs about IngestSchedule: its types, that the jobs of a schedule do    *)
(* not pile up, that a quiet call decides what the schedule is, and that it  *)
(* lives on, for any number of workers, administrators and job ids.          *)
(***************************************************************************)
EXTENDS IngestSchedule, FiniteSetTheorems, TLAPS

Batches == UNION {[S -> Intervals \union {0}] : S \in SUBSET JobIds}

\* The rows a table may hold.
Rows == [status : {"none", "queued", "retry", "done"},
         every : Intervals \union {0}, due : Nat, lock : 0 .. Lease]

\* A batch maps jobs to intervals, and so does what is left of it.
LEMMA BatchRest ==
    ASSUME TypeOK, NEW w \in Workers, NEW S \in SUBSET (DOMAIN batch[w])
    PROVE  [j \in S |-> batch[w][j]] \in Batches
<1>1. PICK D \in SUBSET JobIds : batch[w] \in [D -> Intervals \union {0}]
  BY DEF TypeOK
<1>2. [j \in S |-> batch[w][j]] \in [S -> Intervals \union {0}]
  BY <1>1
<1>. QED  BY <1>1, <1>2 DEF Batches

LEMMA BatchValues ==
    ASSUME TypeOK, NEW w \in Workers, NEW j \in DOMAIN batch[w]
    PROVE  j \in JobIds /\ batch[w][j] \in Intervals \union {0}
  BY DEF TypeOK

LEMMA RowsOfTable == TypeOK => jobs \in [JobIds -> Rows] /\ NoRow \in Rows
  BY ScheduleAssumption DEF TypeOK, Rows, NoRow, Row

LEMMA NewRows ==
    ASSUME NEW every \in Intervals \union {0}, NEW due \in Nat
    PROVE  Row("queued", every, due, 0) \in Rows
  BY ScheduleAssumption DEF Row, Rows

LEMMA IntervalsAreNat == Intervals \union {0} \subseteq Nat
  BY ScheduleAssumption

LEMMA TypeInit == Init => TypeOK
<1>. SUFFICES ASSUME Init PROVE TypeOK
  OBVIOUS
<1>1. jobs \in [JobIds -> Rows]
  BY ScheduleAssumption DEF Init, Rows, NoRow, Row
<1>2. <<>> \in [{} -> Intervals \union {0}]
  OBVIOUS
<1>3. batch \in [Workers -> Batches]
  BY <1>2 DEF Init, Batches
<1>4. cur \in [Workers -> JobIds \union {NoJob}] /\ asked \in [Admins -> Intervals \union {0}]
  BY DEF Init
<1>5. pc \in [Threads -> {"idle", "batch", "fetching", "enqueue", "mark"}]
  BY DEF Init
<1>6. \A w \in Workers : pc[w] = "idle"
  BY DEF Init, Threads
<1>7. events \in 0 .. MaxEvents /\ excess \in 0 .. events
  BY ScheduleAssumption DEF Init
<1>8. wanted \in Intervals \union {0} /\ {clean, lost, owed} \subseteq BOOLEAN
  BY DEF Init
<1>. QED  BY <1>1, <1>3, <1>4, <1>5, <1>6, <1>7, <1>8 DEF TypeOK, Rows, Batches

\* What most of a step's types come from: its rows and its control points.
LEMMA TypeFrame ==
    ASSUME TypeOK, jobs' \in [JobIds -> Rows],
           NEW t \in Threads, NEW l \in {"idle", "batch", "fetching", "enqueue", "mark"},
           pc' = [pc EXCEPT ![t] = l],
           batch' = batch, cur' = cur,
           t \in Workers => (pc[t] \in {"fetching", "enqueue"} \/ l \in {"idle", "batch"}),
           asked' \in [Admins -> Intervals \union {0}],
           events' \in 0 .. MaxEvents, excess' \in 0 .. events',
           wanted' \in Intervals \union {0},
           {clean, lost, owed}' \subseteq BOOLEAN
    PROVE  TypeOK'
<1>1. pc' \in [Threads -> {"idle", "batch", "fetching", "enqueue", "mark"}]
  BY DEF TypeOK
<1>2. \A w \in Workers :
        pc'[w] \in {"fetching", "enqueue", "mark"} => cur[w] \in DOMAIN batch[w]
  BY DEF TypeOK, Threads
<1>. QED  BY <1>1, <1>2 DEF TypeOK, Rows

\* A replacement of the pending jobs.
LEMMA DeleteTypes == TypeOK /\ DeletePendingJobs => jobs' \in [JobIds -> Rows]
  BY RowsOfTable DEF DeletePendingJobs

LEMMA EnqueueTypes ==
    ASSUME TypeOK, NEW every \in Intervals \union {0}, NEW due \in Nat, EnqueueJob(every, due)
    PROVE  jobs' \in [JobIds -> Rows]
  BY RowsOfTable, NewRows DEF EnqueueJob

LEMMA ReplaceTypes ==
    ASSUME TypeOK, NEW a \in Admins, NEW interval \in Intervals \union {0},
           Replace(a, interval)
    PROVE  /\ jobs' \in [JobIds -> Rows]
           /\ events' \in 0 .. MaxEvents /\ excess' \in 0 .. events'
           /\ wanted' \in Intervals \union {0}
           /\ {clean, lost, owed}' \subseteq BOOLEAN
           /\ batch' = batch /\ cur' = cur
<1>1. events' \in 0 .. MaxEvents /\ excess' \in 0 .. events'
  BY ScheduleAssumption DEF TypeOK, Replace
<1>2. clean' \in BOOLEAN /\ lost' \in BOOLEAN /\ owed' \in BOOLEAN
  BY DEF Replace
<1>. QED  BY <1>1, <1>2, DeleteTypes DEF Replace

LEMMA AdminTypes ==
    ASSUME TypeOK, NEW a \in Admins, AdminStep(a)
    PROVE  TypeOK'
<1>. a \in Threads /\ a \notin Workers
  BY ScheduleAssumption DEF Threads
<1>1. CASE RefreshIngest(a)
  BY <1>1, ReplaceTypes, TypeFrame DEF RefreshIngest, Goto, TypeOK
<1>2. ASSUME NEW i \in Intervals, ScheduleRefresh(a, i) PROVE TypeOK'
  BY <1>2, ReplaceTypes, TypeFrame DEF ScheduleRefresh, Goto, TypeOK
<1>3. CASE StopSchedule(a)
  BY <1>3, ReplaceTypes DEF StopSchedule, TypeOK, Rows
<1>4. CASE AdminEnqueue(a)
  <2>1. jobs' \in [JobIds -> Rows]
    BY <1>4, EnqueueTypes DEF AdminEnqueue, TypeOK
  <2>. QED  BY <1>4, <2>1, TypeFrame DEF AdminEnqueue, Goto, TypeOK
<1>5. CASE AdminFails(a)
  <2>1. events' \in 0 .. MaxEvents /\ excess' \in 0 .. events'
    BY <1>5, ScheduleAssumption DEF AdminFails, TypeOK
  <2>. QED  BY <1>5, <2>1, RowsOfTable, TypeFrame DEF AdminFails, Goto, TypeOK
<1>. QED  BY <1>1, <1>2, <1>3, <1>4, <1>5 DEF AdminStep

-----------------------------------------------------------------------------
LEMMA ClaimTypes == ASSUME TypeOK, NEW w \in Workers, ClaimDueJobs(w) PROVE TypeOK'
<1>. DEFINE claimed == {j \in JobIds : Claimable(j)}
            taken == [j \in claimed |-> jobs[j].every]
<1>1. taken \in Batches
  <2>1. taken \in [claimed -> Intervals \union {0}]
    BY RowsOfTable DEF Rows
  <2>. QED  BY <2>1 DEF Batches
<1>2. batch' \in [Workers -> Batches] /\ \A v \in Workers : v # w => batch'[v] = batch[v]
  BY <1>1 DEF ClaimDueJobs, TypeOK, Batches
<1>3. jobs' \in [JobIds -> Rows]
  BY RowsOfTable, ScheduleAssumption DEF ClaimDueJobs, Rows
<1>4. /\ pc' \in [Threads -> {"idle", "batch", "fetching", "enqueue", "mark"}]
      /\ \A v \in Workers : v # w => pc'[v] = pc[v]
      /\ pc'[w] = "batch"
  BY DEF ClaimDueJobs, Goto, TypeOK, Threads
<1>. QED  BY <1>2, <1>3, <1>4 DEF ClaimDueJobs, historyVars, TypeOK, Rows, Batches

LEMMA BeginTypes == ASSUME TypeOK, NEW w \in Workers, BeginFetch(w) PROVE TypeOK'
<1>1. PICK j \in DOMAIN batch[w] : cur' = [cur EXCEPT ![w] = j]
  BY DEF BeginFetch
<1>2. j \in JobIds
  BY BatchValues
<1>3. /\ pc' \in [Threads -> {"idle", "batch", "fetching", "enqueue", "mark"}]
      /\ \A v \in Workers : v # w => pc'[v] = pc[v]
  BY DEF BeginFetch, Goto, TypeOK, Threads
<1>4. /\ cur' \in [Workers -> JobIds \union {NoJob}]
      /\ \A v \in Workers : v # w => cur'[v] = cur[v]
      /\ cur'[w] = j
  BY <1>1, <1>2 DEF TypeOK
<1>5. {clean, lost, owed}' \subseteq BOOLEAN
  BY DEF BeginFetch, TypeOK
<1>. QED  BY <1>3, <1>4, <1>5 DEF BeginFetch, TypeOK

\* The table and the batch a worker ends a job with.
LEMMA ContinueTypes ==
    ASSUME TypeOK, NEW w \in Workers, NEW rest \in SUBSET (DOMAIN batch[w]),
           NEW rows \in [JobIds -> Rows], Continue(w, rest, rows),
           asked' = asked, events' \in 0 .. MaxEvents, excess' \in 0 .. events',
           wanted' = wanted, {clean, lost, owed}' \subseteq BOOLEAN
    PROVE  TypeOK'
<1>1. batch' \in [Workers -> Batches] /\ \A v \in Workers : v # w => batch'[v] = batch[v]
  BY BatchRest DEF Continue, TypeOK, Batches
<1>2. jobs' \in [JobIds -> Rows]
  BY RowsOfTable DEF Continue
<1>3. /\ pc' \in [Threads -> {"idle", "batch", "fetching", "enqueue", "mark"}]
      /\ \A v \in Workers : v # w => pc'[v] = pc[v]
      /\ pc'[w] \in {"idle", "batch"}
  BY DEF Continue, Goto, TypeOK, Threads
<1>4. /\ cur' \in [Workers -> JobIds \union {NoJob}]
      /\ \A v \in Workers : v # w => cur'[v] = cur[v]
  BY DEF Continue, TypeOK
<1>. QED  BY <1>1, <1>2, <1>3, <1>4 DEF TypeOK, Rows, Batches

LEMMA MarkTypes ==
    ASSUME TypeOK, NEW j \in JobIds
    PROVE  MarkJobSuccess(jobs, j) \in [JobIds -> Rows] /\ MarkJobRetry(jobs, j) \in [JobIds -> Rows]
  BY RowsOfTable, ScheduleAssumption DEF MarkJobSuccess, MarkJobRetry, Rows

LEMMA RunTypes == ASSUME TypeOK, NEW w \in Workers, WorkerRuns(w) PROVE TypeOK'
<1>. w \in Threads
  BY DEF Threads
<1>1. CASE ClaimDueJobs(w)
  BY <1>1, ClaimTypes
<1>2. CASE BeginFetch(w)
  BY <1>2, BeginTypes
<1>3. CASE DeleteBeforeNext(w)
  BY <1>3, DeleteTypes, TypeFrame DEF DeleteBeforeNext, Goto, historyVars, TypeOK
<1>4. CASE EnqueueNext(w)
  <2>1. cur[w] \in DOMAIN batch[w]
    BY <1>4 DEF EnqueueNext, TypeOK
  <2>2. Interval(w) \in Intervals \union {0} /\ Interval(w) \in Nat
    BY <2>1, BatchValues, IntervalsAreNat DEF Interval
  <2>3. jobs' \in [JobIds -> Rows]
    BY <1>4, <2>2, EnqueueTypes DEF EnqueueNext
  <2>. QED  BY <1>4, <2>3, TypeFrame DEF EnqueueNext, Goto, historyVars, TypeOK
<1>5. CASE EndJob(w)
  <2>1. cur[w] \in JobIds /\ Rest(w) \in SUBSET (DOMAIN batch[w])
    BY <1>5, BatchValues DEF EndJob, TypeOK, Rest
  <2>2. MarkJobSuccess(jobs, cur[w]) \in [JobIds -> Rows]
    BY <2>1, MarkTypes
  <2>. QED  BY <1>5, <2>1, <2>2, ContinueTypes DEF EndJob, historyVars, TypeOK
<1>. QED  BY <1>1, <1>2, <1>3, <1>4, <1>5 DEF WorkerRuns

LEMMA FaultTypes == ASSUME TypeOK, NEW w \in Workers, WorkerFails(w) PROVE TypeOK'
<1>. w \in Threads
  BY DEF Threads
<1>1. CASE DeleteRaises(w)
  <2>1. events' \in 0 .. MaxEvents /\ excess' \in 0 .. events'
    BY <1>1, ScheduleAssumption DEF DeleteRaises, TypeOK
  <2>. QED  BY <1>1, <2>1, RowsOfTable, TypeFrame DEF DeleteRaises, Goto, TypeOK
<1>2. CASE RefreshRaises(w)
  <2>1. cur[w] \in JobIds /\ Rest(w) \in SUBSET (DOMAIN batch[w])
    BY <1>2, BatchValues DEF RefreshRaises, TypeOK, Rest
  <2>2. MarkJobRetry(jobs, cur[w]) \in [JobIds -> Rows]
    BY <2>1, MarkTypes
  <2>3. events' \in 0 .. MaxEvents /\ excess' \in 0 .. events'
    BY <1>2, ScheduleAssumption DEF RefreshRaises, TypeOK
  <2>4. {clean, lost, owed}' \subseteq BOOLEAN
    BY <1>2 DEF RefreshRaises, TypeOK
  <2>. QED  BY <1>2, <2>1, <2>2, <2>3, <2>4, ContinueTypes DEF RefreshRaises
<1>3. CASE Crash(w)
  <2>1. events' \in 0 .. MaxEvents /\ excess' \in 0 .. events'
    BY <1>3, ScheduleAssumption DEF Crash, TypeOK
  <2>2. {clean, lost, owed}' \subseteq BOOLEAN
    BY <1>3 DEF Crash, TypeOK
  <2>. QED  BY <1>3, <2>1, <2>2, RowsOfTable, ContinueTypes DEF Crash
<1>. QED  BY <1>1, <1>2, <1>3 DEF WorkerFails

LEMMA TickTypes == TypeOK /\ Tick => TypeOK'
<1>. SUFFICES ASSUME TypeOK, Tick PROVE TypeOK'
  OBVIOUS
<1>1. jobs' \in [JobIds -> Rows]
  <2>1. ASSUME NEW row \in Rows PROVE Elapse(row) \in Rows
    <3>1. (IF row.due > 0 THEN row.due - 1 ELSE 0) \in Nat
      BY DEF Rows
    <3>2. (IF row.lock > 0 THEN row.lock - 1 ELSE 0) \in 0 .. Lease
      BY ScheduleAssumption DEF Rows
    <3>. QED  BY <3>1, <3>2 DEF Elapse, Rows
  <2>. QED  BY <2>1, RowsOfTable DEF Tick
<1>2. events' \in 0 .. MaxEvents /\ excess' \in 0 .. events'
  BY ScheduleAssumption DEF Tick, TypeOK, historyVars
<1>. QED  BY <1>1, <1>2 DEF Tick, TypeOK, Rows, historyVars

LEMMA TypeStep == TypeOK /\ [Next]_vars => TypeOK'
<1>. SUFFICES ASSUME TypeOK, [Next]_vars PROVE TypeOK'
  OBVIOUS
<1>1. CASE UNCHANGED vars
  BY <1>1 DEF vars, historyVars, TypeOK
<1>. QED  BY <1>1, AdminTypes, RunTypes, FaultTypes, TickTypes DEF Next

\* Every reachable state is well typed: in particular a worker runs a job of its
\* batch, whatever was deleted or claimed by another meanwhile.
THEOREM TypeCorrect == Spec => []TypeOK
  BY TypeInit, TypeStep, PTL DEF Spec

-----------------------------------------------------------------------------
(***************************************************************************)
(* NoPileUp is inductive with the types.  A step deletes all pending jobs,  *)
(* or takes a thread out of the window for the one job it adds, or counts   *)
(* an excess for what it adds, or adds nothing.                             *)
(***************************************************************************)
IInv == TypeOK /\ NoPileUp

LEMMA CardNat == ASSUME NEW S, IsFiniteSet(S) PROVE Cardinality(S) \in Nat
  BY FS_CardinalityType

LEMMA CardSub ==
    ASSUME NEW S, NEW T, IsFiniteSet(S), T \subseteq S
    PROVE  IsFiniteSet(T) /\ Cardinality(T) <= Cardinality(S)
  BY FS_Subset

LEMMA CardAdd ==
    ASSUME NEW S, NEW T, NEW x, IsFiniteSet(S), T \subseteq S \union {x}
    PROVE  IsFiniteSet(T) /\ Cardinality(T) <= Cardinality(S) + 1
<1>1. IsFiniteSet(S \union {x}) /\ Cardinality(S) \in Nat
  BY FS_AddElement, CardNat
<1>2. Cardinality(S \union {x}) <= Cardinality(S) + 1
  <2>1. Cardinality(S \union {x}) \in {Cardinality(S), Cardinality(S) + 1}
    BY FS_AddElement
  <2>. QED  BY <2>1, <1>1
<1>3. IsFiniteSet(T) /\ Cardinality(T) <= Cardinality(S \union {x})
  BY <1>1, CardSub
<1>4. Cardinality(T) \in Nat /\ Cardinality(S \union {x}) \in Nat
  BY <1>1, <1>3, CardNat
<1>. QED  BY <1>1, <1>2, <1>3, <1>4

LEMMA CardDrop ==
    ASSUME NEW S, NEW T, NEW x \in S, IsFiniteSet(S), T \subseteq S \ {x}
    PROVE  Cardinality(T) <= Cardinality(S) - 1
<1>1. IsFiniteSet(S \ {x}) /\ Cardinality(S \ {x}) = Cardinality(S) - 1
  BY FS_RemoveElement
<1>. QED  BY <1>1, CardSub

Room == Cardinality(Workers) + Cardinality(Admins)

LEMMA ThreadCount == IsFiniteSet(Threads) /\ Room \in Nat /\ Cardinality(Threads) = Room
<1>1. IsFiniteSet(Workers \cap Admins) /\ Cardinality(Workers \cap Admins) = 0
  BY ScheduleAssumption, FS_EmptySet
<1>2. Cardinality(Workers) \in Nat /\ Cardinality(Admins) \in Nat
  BY ScheduleAssumption, CardNat
<1>3. /\ IsFiniteSet(Threads)
      /\ Cardinality(Threads)
         = Cardinality(Workers) + Cardinality(Admins) - Cardinality(Workers \cap Admins)
  BY ScheduleAssumption, FS_Union DEF Threads
<1>. QED  BY <1>1, <1>2, <1>3 DEF Room

LEMMA Counts ==
    /\ IsFiniteSet(Pending) /\ Cardinality(Pending) \in Nat
    /\ IsFiniteSet(Window) /\ Cardinality(Window) \in Nat
<1>1. IsFiniteSet(Pending) /\ IsFiniteSet(Window)
  BY ScheduleAssumption, ThreadCount, CardSub DEF Pending, Window
<1>. QED  BY <1>1, CardNat

LEMMA CountsNext ==
    /\ Cardinality(Pending') \in Nat
    /\ Cardinality(Window') \in Nat /\ Cardinality(Window') <= Room
<1>1. IsFiniteSet(Pending') /\ IsFiniteSet(Window') /\ Cardinality(Window') <= Room
  BY ScheduleAssumption, ThreadCount, CardSub DEF Pending, Window
<1>. QED  BY <1>1, CardNat

\* A step that deletes every pending job.
LEMMA PileCleared == ASSUME TypeOK', Pending' = {} PROVE NoPileUp'
<1>1. Cardinality(Pending') = 0
  BY FS_EmptySet
<1>2. excess' \in Nat
  BY ScheduleAssumption DEF TypeOK
<1>. QED  BY <1>1, <1>2, ThreadCount, CountsNext DEF NoPileUp, Room

\* A step that adds no job and opens no window.
LEMMA PileShrinks ==
    ASSUME IInv, Pending' \subseteq Pending, Window' \subseteq Window, excess' = excess
    PROVE  NoPileUp'
<1>1. Cardinality(Pending') <= Cardinality(Pending) /\ Cardinality(Window') <= Cardinality(Window)
  BY Counts, CardSub
<1>2. excess \in Nat
  BY ScheduleAssumption DEF IInv, TypeOK
<1>. QED  BY <1>1, <1>2, Counts, CountsNext, ThreadCount DEF IInv, NoPileUp, Room

\* A step that adds a job and closes a window.
LEMMA PileMoves ==
    ASSUME IInv, NEW j, NEW t \in Window, Pending' \subseteq Pending \union {j},
           Window' \subseteq Window \ {t}, excess' = excess
    PROVE  NoPileUp'
<1>1. Cardinality(Pending') <= Cardinality(Pending) + 1
  BY Counts, CardAdd
<1>2. Cardinality(Window') <= Cardinality(Window) - 1
  BY Counts, CardDrop
<1>3. excess \in Nat
  BY ScheduleAssumption DEF IInv, TypeOK
<1>. QED  BY <1>1, <1>2, <1>3, Counts, CountsNext, ThreadCount DEF IInv, NoPileUp, Room

\* A fault that adds a job or opens a window, and is counted.
LEMMA PileGrows ==
    ASSUME IInv, NEW x, excess' = excess + 1,
           \/ Pending' \subseteq Pending \union {x} /\ Window' \subseteq Window
           \/ Pending' \subseteq Pending /\ Window' \subseteq Window \union {x}
    PROVE  NoPileUp'
<1>1. Cardinality(Pending') + Cardinality(Window') <= Cardinality(Pending) + Cardinality(Window) + 1
  <2>1. CASE Pending' \subseteq Pending \union {x} /\ Window' \subseteq Window
    <3>1. Cardinality(Pending') <= Cardinality(Pending) + 1
      BY <2>1, Counts, CardAdd
    <3>2. Cardinality(Window') <= Cardinality(Window)
      BY <2>1, Counts, CardSub
    <3>. QED  BY <3>1, <3>2, Counts, CountsNext
  <2>2. CASE Pending' \subseteq Pending /\ Window' \subseteq Window \union {x}
    <3>1. Cardinality(Window') <= Cardinality(Window) + 1
      BY <2>2, Counts, CardAdd
    <3>2. Cardinality(Pending') <= Cardinality(Pending)
      BY <2>2, Counts, CardSub
    <3>. QED  BY <3>1, <3>2, Counts, CountsNext
  <2>. QED  BY <2>1, <2>2
<1>2. excess \in Nat
  BY ScheduleAssumption DEF IInv, TypeOK
<1>. QED  BY <1>1, <1>2, Counts, CountsNext, ThreadCount DEF IInv, NoPileUp, Room

-----------------------------------------------------------------------------
LEMMA PileInit == Init => NoPileUp
<1>. SUFFICES ASSUME Init PROVE NoPileUp
  OBVIOUS
<1>1. Window = {}
  BY DEF Init, Window
<1>2. \A i, j \in Pending : i = j
  <2>1. ASSUME NEW j \in Pending PROVE j \in JobIds /\ \A k \in JobIds : j <= k
    BY DEF Init, Pending, NoRow, Row
  <2>2. ASSUME NEW i \in Pending, NEW j \in Pending PROVE i = j
    <3>1. i \in Nat /\ j \in Nat /\ i <= j /\ j <= i
      BY <2>1, ScheduleAssumption
    <3>. QED  BY <3>1
  <2>. QED  BY <2>2
<1>3. Cardinality(Pending) <= 1
  <2>1. CASE Pending = {}
    BY <2>1, FS_EmptySet
  <2>2. ASSUME NEW i \in Pending PROVE Cardinality(Pending) <= 1
    <3>1. Pending = {i} /\ Cardinality({i}) = 1
      BY <1>2, FS_Singleton
    <3>. QED  BY <3>1
  <2>. QED  BY <2>1, <2>2
<1>4. Cardinality(Threads) # 0
  BY ThreadCount, ScheduleAssumption, FS_EmptySet DEF Threads
<1>5. Cardinality(Window) = 0 /\ excess = 0
  BY <1>1, FS_EmptySet DEF Init
<1>. QED  BY <1>3, <1>4, <1>5, ThreadCount, Counts DEF NoPileUp, Room

LEMMA DeletedAll == DeletePendingJobs => Pending' = {}
  BY DEF DeletePendingJobs, Pending, NoRow, Row

\* The window when a thread goes to another place.
LEMMA WindowMoves ==
    ASSUME TypeOK, NEW t \in Threads, NEW l \in {"idle", "batch", "fetching", "enqueue", "mark"},
           Goto(t, l)
    PROVE  /\ l # "enqueue" => Window' \subseteq Window \ {t}
           /\ Window' \subseteq Window \union {t}
  BY DEF Goto, TypeOK, Window

LEMMA EnqueuedOne ==
    ASSUME NEW every, NEW due, EnqueueJob(every, due)
    PROVE  \E j : Pending' \subseteq Pending \union {j}
<1>1. PICK j \in JobIds : jobs' = [jobs EXCEPT ![j] = Row("queued", every, due, 0)]
  BY DEF EnqueueJob
<1>2. Pending' \subseteq Pending \union {j}
  BY <1>1 DEF Pending
<1>. QED  BY <1>2

LEMMA AdminPile == ASSUME IInv, TypeOK', NEW a \in Admins, AdminStep(a) PROVE NoPileUp'
<1>. a \in Threads
  BY DEF Threads
<1>1. ASSUME NEW i, Replace(a, i) PROVE NoPileUp'
  BY <1>1, DeletedAll, PileCleared DEF Replace
<1>2. CASE AdminEnqueue(a)
  <2>1. a \in Window /\ Window' \subseteq Window \ {a}
    BY <1>2, WindowMoves DEF AdminEnqueue, Window, IInv
  <2>2. \E j : Pending' \subseteq Pending \union {j}
    BY <1>2, EnqueuedOne DEF AdminEnqueue
  <2>. QED  BY <1>2, <2>1, <2>2, PileMoves DEF AdminEnqueue
<1>3. CASE AdminFails(a)
  <2>1. Window' \subseteq Window
    BY <1>3, WindowMoves DEF AdminFails, IInv
  <2>2. Pending' \subseteq Pending
    BY <1>3 DEF AdminFails, Pending
  <2>. QED  BY <1>3, <2>1, <2>2, PileShrinks DEF AdminFails
<1>. QED  BY <1>1, <1>2, <1>3 DEF AdminStep, RefreshIngest, ScheduleRefresh, StopSchedule

\* A worker that is done with a job keeps no row but of the table it was given.
LEMMA ContinuePending ==
    ASSUME TypeOK, NEW w \in Workers, NEW rest, NEW rows, Continue(w, rest, rows)
    PROVE  /\ Pending' \subseteq {j \in JobIds : rows[j].status \in {"queued", "retry"}}
           /\ Window' \subseteq Window
<1>1. Window' \subseteq Window
  BY WindowMoves DEF Continue, Threads
<1>2. Pending' \subseteq {j \in JobIds : rows[j].status \in {"queued", "retry"}}
  BY DEF Continue, Pending, NoRow, Row
<1>. QED  BY <1>1, <1>2

LEMMA RunPile == ASSUME IInv, TypeOK', NEW w \in Workers, WorkerRuns(w) PROVE NoPileUp'
<1>. w \in Threads
  BY DEF Threads
<1>1. CASE ClaimDueJobs(w)
  <2>1. Pending' \subseteq Pending
    BY <1>1 DEF ClaimDueJobs, Pending, IInv, TypeOK
  <2>2. Window' \subseteq Window
    BY <1>1, WindowMoves DEF ClaimDueJobs, IInv
  <2>. QED  BY <1>1, <2>1, <2>2, PileShrinks DEF ClaimDueJobs, historyVars
<1>2. CASE BeginFetch(w)
  <2>1. Pending' \subseteq Pending
    BY <1>2 DEF BeginFetch, Pending
  <2>2. Window' \subseteq Window
    BY <1>2, WindowMoves DEF BeginFetch, IInv
  <2>. QED  BY <1>2, <2>1, <2>2, PileShrinks DEF BeginFetch
<1>3. CASE DeleteBeforeNext(w)
  BY <1>3, DeletedAll, PileCleared DEF DeleteBeforeNext
<1>4. CASE EnqueueNext(w)
  <2>1. w \in Window /\ Window' \subseteq Window \ {w}
    BY <1>4, WindowMoves DEF EnqueueNext, Window, IInv
  <2>2. \E j : Pending' \subseteq Pending \union {j}
    BY <1>4, EnqueuedOne DEF EnqueueNext
  <2>. QED  BY <1>4, <2>1, <2>2, PileMoves DEF EnqueueNext, historyVars
<1>5. CASE EndJob(w)
  <2>1. /\ Pending' \subseteq {j \in JobIds : MarkJobSuccess(jobs, cur[w])[j].status
                                             \in {"queued", "retry"}}
        /\ Window' \subseteq Window
    BY <1>5, ContinuePending DEF EndJob, IInv
  <2>2. Pending' \subseteq Pending
    BY <2>1 DEF MarkJobSuccess, Pending, IInv, TypeOK
  <2>. QED  BY <1>5, <2>1, <2>2, PileShrinks DEF EndJob, historyVars
<1>. QED  BY <1>1, <1>2, <1>3, <1>4, <1>5 DEF WorkerRuns

LEMMA FaultPile == ASSUME IInv, TypeOK', NEW w \in Workers, WorkerFails(w) PROVE NoPileUp'
<1>. w \in Threads
  BY DEF Threads
<1>1. CASE DeleteRaises(w)
  <2>1. Window' \subseteq Window \union {w}
    BY <1>1, WindowMoves DEF DeleteRaises, IInv
  <2>2. Pending' \subseteq Pending
    BY <1>1 DEF DeleteRaises, Pending
  <2>. QED  BY <1>1, <2>1, <2>2, PileGrows DEF DeleteRaises
<1>2. CASE RefreshRaises(w)
  <2>. DEFINE rows == MarkJobRetry(jobs, cur[w])
  <2>1. /\ Pending' \subseteq {j \in JobIds : rows[j].status \in {"queued", "retry"}}
        /\ Window' \subseteq Window
    BY <1>2, ContinuePending DEF RefreshRaises, IInv
  <2>2. cur[w] \in JobIds
    BY <1>2, BatchValues DEF RefreshRaises, IInv, TypeOK
  <2>3. \A j \in JobIds : j # cur[w] => rows[j] = jobs[j]
    BY DEF MarkJobRetry, IInv, TypeOK
  <2>4. CASE jobs[cur[w]].status = "done"
    <3>1. Pending' \subseteq Pending \union {cur[w]}
      BY <2>1, <2>3 DEF Pending
    <3>. QED  BY <1>2, <2>1, <2>4, <3>1, PileGrows DEF RefreshRaises
  <2>5. CASE jobs[cur[w]].status # "done"
    <3>1. cur[w] \in Pending \/ rows = jobs
      BY <2>2, <2>5, RowsOfTable DEF Pending, MarkJobRetry, Rows, IInv
    <3>2. Pending' \subseteq Pending
      BY <2>1, <2>3, <3>1 DEF Pending
    <3>3. excess' = excess
      BY <1>2, <2>5, ScheduleAssumption DEF RefreshRaises, IInv, TypeOK
    <3>. QED  BY <2>1, <3>2, <3>3, PileShrinks
  <2>. QED  BY <2>4, <2>5
<1>3. CASE Crash(w)
  <2>1. Pending' \subseteq Pending /\ Window' \subseteq Window
    BY <1>3, ContinuePending DEF Crash, IInv, Pending
  <2>. QED  BY <1>3, <2>1, PileShrinks DEF Crash
<1>. QED  BY <1>1, <1>2, <1>3 DEF WorkerFails

LEMMA TickPile == IInv /\ Tick => NoPileUp'
<1>. SUFFICES ASSUME IInv, Tick PROVE NoPileUp'
  OBVIOUS
<1>1. Pending' \subseteq Pending
  <2>1. ASSUME NEW row \in Rows PROVE Elapse(row).status = row.status
    BY DEF Elapse, Rows
  <2>2. \A j \in JobIds : jobs'[j].status = jobs[j].status
    BY <2>1, RowsOfTable DEF Tick, IInv
  <2>. QED  BY <2>2 DEF Pending
<1>2. Window' \subseteq Window
  BY DEF Tick, Window
<1>. QED  BY <1>1, <1>2, PileShrinks DEF Tick, historyVars

LEMMA PileStep == IInv /\ [Next]_vars => IInv'
<1>. SUFFICES ASSUME IInv, [Next]_vars PROVE IInv'
  OBVIOUS
<1>1. TypeOK'
  BY TypeStep DEF IInv
<1>2. NoPileUp'
  <2>1. CASE UNCHANGED vars
    BY <2>1 DEF vars, historyVars, IInv, NoPileUp, Pending, Window
  <2>. QED  BY <1>1, <2>1, AdminPile, RunPile, FaultPile, TickPile DEF Next
<1>. QED  BY <1>1, <1>2 DEF IInv

\* The table of jobs does not fill up: the delete before each enqueue keeps it to a
\* pending job per thread, and only counted faults leave more (NoPileUp, about
\* delete_pending_jobs and enqueue_job in worker.py and app.py).
THEOREM NoPileUpHolds == Spec => []NoPileUp
<1>1. Init => IInv
  BY TypeInit, PileInit DEF IInv
<1>2. IInv => NoPileUp
  BY DEF IInv
<1>. QED  BY <1>1, <1>2, PileStep, PTL DEF Spec

-----------------------------------------------------------------------------
(***************************************************************************)
(* What the two properties of schedules need: the interval a worker works   *)
(* with is that of the row, as long as there is one, because an id is not    *)
(* used again while a worker holds it; who is not about to enqueue asks for  *)
(* nothing; and a worker about to enqueue has something that repeats.        *)
(***************************************************************************)
BatchAgrees ==
    \A w \in Workers : \A j \in DOMAIN batch[w] :
        jobs[j].status # "none" => jobs[j].every = batch[w][j]
AskedClean == \A a \in Admins : pc[a] # "enqueue" => asked[a] = 0
EnqueuerRepeats == \A w \in Workers : pc[w] = "enqueue" => Interval(w) # 0
BookInv == TypeOK /\ BatchAgrees /\ AskedClean /\ EnqueuerRepeats

LEMMA BookInit == Init => BookInv
<1>1. Init => BatchAgrees /\ AskedClean /\ EnqueuerRepeats
  BY DEF Init, BatchAgrees, AskedClean, EnqueuerRepeats, Threads
<1>. QED  BY <1>1, TypeInit DEF BookInv

\* A row that a step leaves is the row of the same job.
RowKept(j) ==
    jobs'[j].status # "none" => jobs[j].status # "none" /\ jobs'[j].every = jobs[j].every

LEMMA DeleteKeeps ==
    ASSUME TypeOK, DeletePendingJobs
    PROVE  \A j \in JobIds : RowKept(j)
  BY DEF TypeOK, DeletePendingJobs, RowKept, NoRow, Row

LEMMA MarkKeeps ==
    ASSUME TypeOK, NEW k \in JobIds, NEW j \in JobIds,
           NEW rows \in {MarkJobSuccess(jobs, k), MarkJobRetry(jobs, k), jobs}
    PROVE  /\ rows[j].status # "none" => jobs[j].status # "none"
           /\ rows[j].every = jobs[j].every
           /\ j # k => rows[j] = jobs[j]
  BY DEF TypeOK, MarkJobSuccess, MarkJobRetry

\* What a worker keeps of its batch is unchanged, and so is what the others have.
LEMMA ContinueKeeps ==
    ASSUME TypeOK, NEW w \in Workers, NEW rest \in SUBSET (DOMAIN batch[w]), NEW rows,
           Continue(w, rest, rows)
    PROVE  /\ \A v \in Workers : v # w => batch'[v] = batch[v] /\ cur'[v] = cur[v]
           /\ \A v \in Workers : \A j \in DOMAIN batch'[v] :
                j \in DOMAIN batch[v] /\ batch'[v][j] = batch[v][j]
           /\ \A v \in Threads : v # w => pc'[v] = pc[v]
           /\ pc'[w] \in {"idle", "batch"}
           /\ \A j \in JobIds : jobs'[j] \in {NoRow, rows[j]}
           /\ \A j \in JobIds : rows[j].status # "done" => jobs'[j] = rows[j]
<1>1. batch' = [batch EXCEPT ![w] = [j \in rest |-> batch[w][j]]]
  BY DEF Continue
<1>2. /\ \A v \in Workers : v # w => batch'[v] = batch[v]
      /\ batch'[w] = [j \in rest |-> batch[w][j]]
  BY <1>1 DEF TypeOK
<1>3. \A v \in Workers : \A j \in DOMAIN batch'[v] :
        j \in DOMAIN batch[v] /\ batch'[v][j] = batch[v][j]
  BY <1>2
<1>4. /\ \A v \in Workers : v # w => cur'[v] = cur[v]
      /\ \A v \in Threads : v # w => pc'[v] = pc[v]
      /\ pc'[w] \in {"idle", "batch"}
  BY DEF Continue, Goto, TypeOK, Threads
<1>5. /\ \A j \in JobIds : jobs'[j] \in {NoRow, rows[j]}
      /\ \A j \in JobIds : rows[j].status # "done" => jobs'[j] = rows[j]
  BY DEF Continue
<1>. QED  BY <1>2, <1>3, <1>4, <1>5

\* A step that leaves rows as they were and takes nothing into a batch.
LEMMA AgreesFrame ==
    ASSUME BookInv, \A j \in JobIds : RowKept(j),
           \A v \in Workers : \A j \in DOMAIN batch'[v] :
                j \in DOMAIN batch[v] /\ batch'[v][j] = batch[v][j]
    PROVE  BatchAgrees'
<1>. SUFFICES ASSUME NEW v \in Workers, NEW j \in DOMAIN batch'[v], jobs'[j].status # "none"
              PROVE  jobs'[j].every = batch'[v][j]
  BY DEF BatchAgrees
<1>1. j \in DOMAIN batch[v] /\ batch'[v][j] = batch[v][j]
  OBVIOUS
<1>2. j \in JobIds
  BY <1>1, BatchValues DEF BookInv
<1>. QED  BY <1>1, <1>2 DEF RowKept, BookInv, BatchAgrees

LEMMA AgreesEnqueue ==
    ASSUME BookInv, NEW every, NEW due, EnqueueJob(every, due), batch' = batch
    PROVE  BatchAgrees'
<1>1. PICK k \in JobIds : Free(k) /\ jobs' = [jobs EXCEPT ![k] = Row("queued", every, due, 0)]
  BY DEF EnqueueJob
<1>. SUFFICES ASSUME NEW v \in Workers, NEW j \in DOMAIN batch[v], jobs'[j].status # "none"
              PROVE  jobs'[j].every = batch[v][j]
  BY DEF BatchAgrees
<1>2. j # k /\ j \in JobIds
  BY <1>1, BatchValues DEF Free, Held, BookInv
<1>3. jobs'[j] = jobs[j]
  BY <1>1, <1>2 DEF BookInv, TypeOK
<1>. QED  BY <1>3 DEF BookInv, BatchAgrees

\* The three parts from what a step does to one thread.
LEMMA BookFrame ==
    ASSUME BookInv, TypeOK', BatchAgrees', NEW t \in Threads,
           \A v \in Threads : v # t => pc'[v] = pc[v],
           \A v \in Workers : v # t => cur'[v] = cur[v] /\ batch'[v] = batch[v],
           \A a \in Admins : a # t => asked'[a] = asked[a],
           t \in Admins => (pc'[t] # "enqueue" => asked'[t] = 0),
           t \in Workers => (pc'[t] = "enqueue" => Interval(t)' # 0)
    PROVE  BookInv'
<1>1. AskedClean'
  BY DEF AskedClean, BookInv, Threads
<1>2. EnqueuerRepeats'
  BY DEF EnqueuerRepeats, BookInv, Threads, Interval
<1>. QED  BY <1>1, <1>2 DEF BookInv

-----------------------------------------------------------------------------
LEMMA BookAdmin == ASSUME BookInv, TypeOK', NEW a \in Admins, AdminStep(a) PROVE BookInv'
<1>. a \in Threads /\ a \notin Workers
  BY ScheduleAssumption DEF Threads
<1>1. ASSUME NEW i, Replace(a, i) PROVE BatchAgrees'
  BY <1>1, DeleteKeeps, AgreesFrame DEF Replace, BookInv
<1>2. ASSUME NEW i, Replace(a, i), Goto(a, "enqueue"), asked' = [asked EXCEPT ![a] = i]
      PROVE  BookInv'
  BY <1>2, <1>1, BookFrame DEF Replace, Goto, BookInv, TypeOK
<1>3. CASE StopSchedule(a)
  BY <1>3, <1>1, BookFrame DEF StopSchedule, Replace, BookInv, AskedClean
<1>4. CASE AdminEnqueue(a)
  <2>1. BatchAgrees'
    BY <1>4, AgreesEnqueue DEF AdminEnqueue
  <2>. QED  BY <1>4, <2>1, BookFrame DEF AdminEnqueue, Goto, BookInv, TypeOK
<1>5. CASE AdminFails(a)
  <2>1. BatchAgrees'
    BY <1>5 DEF AdminFails, BookInv, BatchAgrees
  <2>. QED  BY <1>5, <2>1, BookFrame DEF AdminFails, Goto, BookInv, TypeOK
<1>. QED  BY <1>2, <1>3, <1>4, <1>5 DEF AdminStep, RefreshIngest, ScheduleRefresh

LEMMA BookClaim == ASSUME BookInv, TypeOK', NEW w \in Workers, ClaimDueJobs(w) PROVE BookInv'
<1>. w \in Threads /\ w \notin Admins
  BY ScheduleAssumption DEF Threads
<1>. DEFINE claimed == {j \in JobIds : Claimable(j)}
            taken == [j \in claimed |-> jobs[j].every]
<1>1. \A v \in Workers : v # w => batch'[v] = batch[v]
  BY DEF ClaimDueJobs, BookInv, TypeOK
<1>2. batch'[w] = taken
  BY DEF ClaimDueJobs, BookInv, TypeOK
<1>3. \A j \in JobIds : jobs'[j].status = jobs[j].status /\ jobs'[j].every = jobs[j].every
  BY DEF ClaimDueJobs, BookInv, TypeOK
<1>4. BatchAgrees'
  <2>1. ASSUME NEW v \in Workers, v # w, NEW j \in DOMAIN batch'[v], jobs'[j].status # "none"
        PROVE  jobs'[j].every = batch'[v][j]
    BY <1>1, <1>3, <2>1, BatchValues DEF BookInv, BatchAgrees
  <2>2. ASSUME NEW j \in DOMAIN batch'[w] PROVE jobs'[j].every = batch'[w][j]
    BY <1>2, <1>3
  <2>. QED  BY <2>1, <2>2 DEF BatchAgrees
<1>. QED  BY <1>1, <1>4, BookFrame DEF ClaimDueJobs, Goto, BookInv, TypeOK

LEMMA BookContinue ==
    ASSUME BookInv, TypeOK', NEW w \in Workers, NEW rest \in SUBSET (DOMAIN batch[w]),
           NEW k \in JobIds, NEW rows \in {MarkJobSuccess(jobs, k), MarkJobRetry(jobs, k), jobs},
           Continue(w, rest, rows), asked' = asked
    PROVE  BookInv'
<1>. w \in Threads /\ w \notin Admins
  BY ScheduleAssumption DEF Threads
<1>1. ASSUME NEW j \in JobIds PROVE RowKept(j)
  <2>1. rows[j].status # "none" => jobs[j].status # "none"
    BY MarkKeeps DEF BookInv
  <2>2. rows[j].every = jobs[j].every
    BY MarkKeeps DEF BookInv
  <2>3. jobs'[j] = NoRow \/ jobs'[j] = rows[j]
    BY DEF Continue
  <2>4. NoRow.status = "none"
    BY DEF NoRow, Row
  <2>. QED  BY <2>1, <2>2, <2>3, <2>4 DEF RowKept
<1>2. BatchAgrees'
  BY <1>1, ContinueKeeps, AgreesFrame DEF BookInv
<1>. QED  BY <1>2, ContinueKeeps, BookFrame DEF BookInv

LEMMA BookWorker ==
    ASSUME BookInv, TypeOK', NEW w \in Workers, WorkerRuns(w) \/ WorkerFails(w)
    PROVE  BookInv'
<1>. w \in Threads /\ w \notin Admins
  BY ScheduleAssumption DEF Threads
<1>1. CASE BeginFetch(w)
  <2>1. BatchAgrees'
    BY <1>1 DEF BeginFetch, BookInv, BatchAgrees
  <2>2. /\ \A v \in Threads : v # w => pc'[v] = pc[v]
        /\ \A v \in Workers : v # w => cur'[v] = cur[v]
        /\ pc'[w] = "fetching"
    BY <1>1 DEF BeginFetch, Goto, BookInv, TypeOK
  <2>. QED  BY <1>1, <2>1, <2>2, BookFrame DEF BeginFetch
<1>2. CASE DeleteBeforeNext(w)
  <2>1. BatchAgrees'
    BY <1>2, DeleteKeeps, AgreesFrame DEF DeleteBeforeNext, BookInv
  <2>. QED  BY <1>2, <2>1, BookFrame DEF DeleteBeforeNext, Goto, BookInv, TypeOK, Interval
<1>3. CASE DeleteRaises(w)
  <2>1. BatchAgrees'
    BY <1>3 DEF DeleteRaises, BookInv, BatchAgrees
  <2>. QED  BY <1>3, <2>1, BookFrame DEF DeleteRaises, Goto, BookInv, TypeOK, Interval
<1>4. CASE EnqueueNext(w)
  <2>1. BatchAgrees'
    BY <1>4, AgreesEnqueue DEF EnqueueNext
  <2>. QED  BY <1>4, <2>1, BookFrame DEF EnqueueNext, Goto, BookInv, TypeOK
<1>5. CASE EndJob(w) \/ RefreshRaises(w)
  <2>1. cur[w] \in JobIds /\ Rest(w) \in SUBSET (DOMAIN batch[w])
    BY <1>5, BatchValues DEF EndJob, RefreshRaises, BookInv, TypeOK, Rest
  <2>. QED  BY <1>5, <2>1, BookContinue DEF EndJob, RefreshRaises
<1>6. CASE Crash(w)
  <2>1. \E k \in JobIds : TRUE
    BY ScheduleAssumption
  <2>. QED  BY <1>6, <2>1, BookContinue DEF Crash
<1>. QED  BY <1>1, <1>2, <1>3, <1>4, <1>5, <1>6, BookClaim DEF WorkerRuns, WorkerFails

LEMMA TickKeeps ==
    ASSUME TypeOK, Tick
    PROVE  /\ \A j \in JobIds : jobs'[j].status = jobs[j].status /\ jobs'[j].every = jobs[j].every
           /\ UNCHANGED <<pc, batch, cur, asked, wanted, clean, lost, owed, excess>>
<1>1. ASSUME NEW row \in Rows
      PROVE  Elapse(row).status = row.status /\ Elapse(row).every = row.every
  BY DEF Elapse, Rows
<1>. QED  BY <1>1, RowsOfTable DEF Tick, historyVars

LEMMA BookStep == BookInv /\ [Next]_vars => BookInv'
<1>. SUFFICES ASSUME BookInv, [Next]_vars PROVE BookInv'
  OBVIOUS
<1>1. TypeOK'
  BY TypeStep DEF BookInv
<1>2. CASE UNCHANGED vars
  BY <1>1, <1>2 DEF vars, BookInv, BatchAgrees, AskedClean, EnqueuerRepeats, Interval
<1>3. CASE Tick
  <2>1. BatchAgrees'
    BY <1>3, TickKeeps, AgreesFrame DEF BookInv, RowKept
  <2>. QED  BY <1>1, <1>3, <2>1, TickKeeps DEF BookInv, AskedClean, EnqueuerRepeats, Interval
<1>. QED  BY <1>1, <1>2, <1>3, BookAdmin, BookWorker DEF Next

-----------------------------------------------------------------------------
(***************************************************************************)
(* QuietCallDecides: no step brings in an interval that is not alive yet,   *)
(* other than that of an admin call; and a call that met nobody at work has *)
(* deleted what was pending, so that its own is all there is.               *)
(***************************************************************************)
QuietInv == BookInv /\ QuietCallDecides

LEMMA LiveParts ==
    ASSUME NEW S
    PROVE  Live \subseteq S <=>
               /\ \A j \in Pending : jobs[j].every \in S
               /\ \A a \in Admins : asked[a] \in S
               /\ \A w \in Workers : \A j \in DOMAIN batch[w] : batch[w][j] \in S
  BY DEF Live

LEMMA LivePartsNext ==
    ASSUME NEW S
    PROVE  Live' \subseteq S <=>
               /\ \A j \in Pending' : jobs'[j].every \in S
               /\ \A a \in Admins : asked'[a] \in S
               /\ \A w \in Workers : \A j \in DOMAIN batch'[w] : batch'[w][j] \in S
  BY DEF Live

LEMMA LiveGrows ==
    ASSUME \A j \in Pending' : jobs'[j].every \in Live \union {0},
           \A a \in Admins : asked'[a] \in Live \union {0},
           \A w \in Workers : \A j \in DOMAIN batch'[w] : batch'[w][j] \in Live \union {0}
    PROVE  Live' \subseteq Live \union {0}
  BY LivePartsNext

LEMMA QuietFrame ==
    ASSUME QuietInv, wanted' = wanted, clean' = clean, Live' \subseteq Live \union {0}
    PROVE  QuietCallDecides'
  BY DEF QuietInv, QuietCallDecides

LEMMA QuietInit == Init => QuietInv
<1>. SUFFICES ASSUME Init PROVE QuietCallDecides
  BY BookInit DEF QuietInv
<1>1. \A j \in Pending : jobs[j].every \in {0, wanted}
  BY DEF Init, Pending, NoRow, Row
<1>2. \A a \in Admins : asked[a] \in {0, wanted}
  BY DEF Init
<1>3. \A w \in Workers : \A j \in DOMAIN batch[w] : batch[w][j] \in {0, wanted}
  BY DEF Init
<1>. QED  BY <1>1, <1>2, <1>3, LiveParts DEF QuietCallDecides

LEMMA QuietReplace ==
    ASSUME QuietInv, NEW a \in Admins, NEW i, Replace(a, i),
           asked'[a] \in {0, i}, \A b \in Admins : b # a => asked'[b] = asked[b]
    PROVE  QuietCallDecides'
<1>. SUFFICES ASSUME clean' PROVE Live' \subseteq {0, wanted'}
  BY DEF QuietCallDecides
<1>1. \A j \in Pending' : jobs'[j].every \in {0, i}
  BY DeletedAll DEF Replace
<1>2. \A b \in Admins : asked'[b] \in {0, i}
  BY DEF Replace, Window, Threads, QuietInv, BookInv, AskedClean
<1>3. \A w \in Workers : \A j \in DOMAIN batch'[w] : batch'[w][j] \in {0, i}
  BY DEF Replace
<1>. QED  BY <1>1, <1>2, <1>3, LivePartsNext DEF Replace

LEMMA QuietEnqueue ==
    ASSUME QuietInv, NEW every \in Live, NEW due, EnqueueJob(every, due), batch' = batch,
           \A a \in Admins : asked'[a] \in {0, asked[a]}, wanted' = wanted, clean' = clean
    PROVE  QuietCallDecides'
<1>1. PICK k \in JobIds : jobs' = [jobs EXCEPT ![k] = Row("queued", every, due, 0)]
  BY DEF EnqueueJob
<1>2. ASSUME NEW j \in Pending' PROVE jobs'[j].every \in Live
  <2>1. CASE j = k
    BY <1>1, <2>1 DEF Row, QuietInv, BookInv, TypeOK
  <2>2. CASE j # k
    <3>1. j \in Pending /\ jobs'[j] = jobs[j]
      BY <1>1, <2>2 DEF Pending
    <3>. QED  BY <3>1 DEF Live
  <2>. QED  BY <2>1, <2>2
<1>3. \A a \in Admins : asked'[a] \in Live \union {0}
  BY DEF Live
<1>4. \A w \in Workers : \A j \in DOMAIN batch'[w] : batch'[w][j] \in Live
  BY DEF Live
<1>. QED  BY <1>2, <1>3, <1>4, LiveGrows, QuietFrame

\* Who only takes a row's interval into a batch, or loses some, brings in nothing.
LEMMA QuietAdmin == ASSUME QuietInv, NEW a \in Admins, AdminStep(a) PROVE QuietCallDecides'
<1>1. ASSUME NEW i, Replace(a, i), asked' = [asked EXCEPT ![a] = i] PROVE QuietCallDecides'
  BY <1>1, QuietReplace DEF QuietInv, BookInv, TypeOK
<1>2. CASE StopSchedule(a)
  <2>1. asked'[a] = 0
    BY <1>2 DEF StopSchedule, Replace, QuietInv, BookInv, AskedClean
  <2>. QED  BY <1>2, <2>1, QuietReplace DEF StopSchedule
<1>3. CASE AdminEnqueue(a)
  <2>1. asked[a] \in Live
    BY DEF Live
  <2>2. \A b \in Admins : asked'[b] \in {0, asked[b]}
    BY <1>3 DEF AdminEnqueue, QuietInv, BookInv, TypeOK
  <2>. QED  BY <1>3, <2>1, <2>2, QuietEnqueue DEF AdminEnqueue
<1>4. CASE AdminFails(a)
  <2>1. \A b \in Admins : asked'[b] \in {0, asked[b]}
    BY <1>4 DEF AdminFails, QuietInv, BookInv, TypeOK
  <2>2. \A j \in Pending' : jobs'[j].every \in Live
    BY <1>4 DEF AdminFails, Pending, Live
  <2>3. Live' \subseteq Live \union {0}
    <3>1. \A b \in Admins : asked'[b] \in Live \union {0}
      BY <2>1 DEF Live
    <3>2. \A v \in Workers : \A j \in DOMAIN batch'[v] : batch'[v][j] \in Live
      BY <1>4 DEF AdminFails, Live
    <3>. QED  BY <2>2, <3>1, <3>2, LiveGrows
  <2>. QED  BY <1>4, <2>3, QuietFrame DEF AdminFails
<1>. QED  BY <1>1, <1>2, <1>3, <1>4 DEF AdminStep, RefreshIngest, ScheduleRefresh

LEMMA QuietContinue ==
    ASSUME QuietInv, NEW w \in Workers, NEW rest \in SUBSET (DOMAIN batch[w]),
           NEW k \in JobIds, NEW rows \in {MarkJobSuccess(jobs, k), MarkJobRetry(jobs, k), jobs},
           k \in DOMAIN batch[w] \/ rows = jobs,
           Continue(w, rest, rows), asked' = asked, wanted' = wanted, clean' = clean
    PROVE  QuietCallDecides'
<1>1. ASSUME NEW j \in Pending' PROVE jobs'[j].every \in Live
  <2>1. j \in JobIds /\ jobs'[j] = rows[j] /\ rows[j].status \in {"queued", "retry"}
    BY DEF Continue, Pending, NoRow, Row
  <2>2. rows[j].every = jobs[j].every /\ jobs[j].status # "none" /\ (j # k => rows[j] = jobs[j])
    BY <2>1, MarkKeeps DEF QuietInv, BookInv
  <2>3. CASE j # k \/ rows = jobs
    <3>1. j \in Pending
      BY <2>1, <2>2, <2>3 DEF Pending
    <3>. QED  BY <2>1, <2>2, <3>1 DEF Live
  <2>4. CASE j = k /\ k \in DOMAIN batch[w]
    <3>1. jobs[j].every = batch[w][j]
      BY <2>2, <2>4 DEF QuietInv, BookInv, BatchAgrees
    <3>. QED  BY <2>1, <2>2, <2>4, <3>1 DEF Live
  <2>. QED  BY <2>3, <2>4
<1>2. ASSUME NEW v \in Workers, NEW j \in DOMAIN batch'[v] PROVE batch'[v][j] \in Live
  <2>1. j \in DOMAIN batch[v] /\ batch'[v][j] = batch[v][j]
    BY DEF Continue, QuietInv, BookInv, TypeOK
  <2>. QED  BY <2>1 DEF Live
<1>3. Live' \subseteq Live \union {0}
  <2>1. \A a \in Admins : asked'[a] \in Live
    BY DEF Live
  <2>. QED  BY <1>1, <1>2, <2>1, LiveGrows
<1>. QED  BY <1>3, QuietFrame

LEMMA QuietWorker ==
    ASSUME QuietInv, NEW w \in Workers, WorkerRuns(w) \/ WorkerFails(w)
    PROVE  QuietCallDecides'
<1>1. CASE ClaimDueJobs(w)
  <2>. DEFINE claimed == {j \in JobIds : Claimable(j)}
              taken == [j \in claimed |-> jobs[j].every]
  <2>1. batch' = [batch EXCEPT ![w] = taken]
    BY <1>1 DEF ClaimDueJobs
  <2>2. \A j \in claimed : taken[j] \in Live
    BY DEF Claimable, Live
  <2>3. \A v \in Workers : \A j \in DOMAIN batch'[v] : batch'[v][j] \in Live
    BY <2>1, <2>2 DEF Live, QuietInv, BookInv, TypeOK
  <2>4. \A j \in Pending' : jobs'[j].every \in Live
    BY <1>1 DEF ClaimDueJobs, Pending, Live, QuietInv, BookInv, TypeOK
  <2>5. Live' \subseteq Live \union {0}
    <3>1. \A a \in Admins : asked'[a] \in Live
      BY <1>1 DEF ClaimDueJobs, Live
    <3>. QED  BY <2>3, <2>4, <3>1, LiveGrows
  <2>. QED  BY <1>1, <2>5, QuietFrame DEF ClaimDueJobs, historyVars
<1>2. CASE BeginFetch(w) \/ DeleteRaises(w)
  <2>1. Live' = Live
    BY <1>2 DEF BeginFetch, DeleteRaises, Live, Pending
  <2>. QED  BY <1>2, <2>1, QuietFrame DEF BeginFetch, DeleteRaises
<1>3. CASE DeleteBeforeNext(w)
  <2>1. Live' \subseteq Live
    BY <1>3, DeletedAll DEF DeleteBeforeNext, Live
  <2>. QED  BY <1>3, <2>1, QuietFrame DEF DeleteBeforeNext, historyVars
<1>4. CASE EnqueueNext(w)
  <2>1. cur[w] \in DOMAIN batch[w]
    BY <1>4 DEF EnqueueNext, QuietInv, BookInv, TypeOK
  <2>2. Interval(w) \in Live
    BY <2>1 DEF Interval, Live
  <2>. QED  BY <1>4, <2>2, QuietEnqueue DEF EnqueueNext, historyVars
<1>5. CASE EndJob(w) \/ RefreshRaises(w)
  <2>1. /\ cur[w] \in DOMAIN batch[w] /\ cur[w] \in JobIds
        /\ Rest(w) \in SUBSET (DOMAIN batch[w])
    BY <1>5, BatchValues DEF EndJob, RefreshRaises, QuietInv, BookInv, TypeOK, Rest
  <2>. QED  BY <1>5, <2>1, QuietContinue DEF EndJob, RefreshRaises, historyVars
<1>6. CASE Crash(w)
  <2>1. \E k \in JobIds : TRUE
    BY ScheduleAssumption
  <2>. QED  BY <1>6, <2>1, QuietContinue DEF Crash
<1>. QED  BY <1>1, <1>2, <1>3, <1>4, <1>5, <1>6 DEF WorkerRuns, WorkerFails

LEMMA QuietStep == QuietInv /\ [Next]_vars => QuietInv'
<1>. SUFFICES ASSUME QuietInv, [Next]_vars PROVE QuietInv'
  OBVIOUS
<1>1. QuietCallDecides'
  <2>1. CASE UNCHANGED vars
    <3>1. Pending' = Pending
      BY <2>1 DEF vars, Pending
    <3>2. Live' = Live
      BY <2>1, <3>1 DEF vars, Live
    <3>. QED  BY <2>1, <3>2, QuietFrame DEF vars, historyVars
  <2>2. CASE Tick
    <3>1. Pending' = Pending /\ \A j \in Pending : jobs'[j].every = jobs[j].every
      BY <2>2, TickKeeps DEF Pending, QuietInv, BookInv
    <3>2. UNCHANGED <<batch, asked, wanted, clean>>
      BY <2>2, TickKeeps DEF QuietInv, BookInv
    <3>3. Live' \subseteq Live \union {0}
      <4>1. \A j \in Pending' : jobs'[j].every \in Live
        BY <3>1 DEF Live
      <4>2. \A a \in Admins : asked'[a] \in Live
        BY <3>2 DEF Live
      <4>3. \A v \in Workers : \A j \in DOMAIN batch'[v] : batch'[v][j] \in Live
        BY <3>2 DEF Live
      <4>. QED  BY <4>1, <4>2, <4>3, LiveGrows
    <3>. QED  BY <3>2, <3>3, QuietFrame
  <2>. QED  BY <2>1, <2>2, QuietAdmin, QuietWorker DEF Next
<1>2. BookInv'
  BY BookStep DEF QuietInv
<1>. QED  BY <1>1, <1>2 DEF QuietInv

\* After an admin call that met nobody at work on a schedule, only what it asked for
\* repeats, whatever retries, lost leases and crashes follow (QuietCallDecides, about
\* the deletes and enqueues of app.py and worker.py).
THEOREM QuietCallDecidesHolds == Spec => []QuietCallDecides
<1>1. QuietInv => QuietCallDecides
  BY DEF QuietInv
<1>. QED  BY <1>1, QuietInit, QuietStep, PTL DEF Spec

-----------------------------------------------------------------------------
(***************************************************************************)
(* ScheduleAlive: there is a thread about to enqueue something that repeats *)
(* or a pending job that repeats and that no worker is about to mark.  The  *)
(* second part is what makes it inductive: the job a worker has just        *)
(* enqueued has a new id, so it is not the one any worker is to mark.       *)
(***************************************************************************)
ToMark(j) == \E w \in Workers : pc[w] = "mark" /\ cur[w] = j
AliveJob(j) == j \in Pending /\ jobs[j].every # 0 /\ ~ToMark(j)
WorkerEnqueues == \E w \in Workers : pc[w] = "enqueue"
AdminSchedules == \E a \in Admins : pc[a] = "enqueue" /\ asked[a] # 0
Alive == lost \/ WorkerEnqueues \/ AdminSchedules \/ \E j \in JobIds : AliveJob(j)
AliveInv == BookInv /\ (wanted # 0 => Alive)

LEMMA AliveInit == Init => AliveInv
<1>. SUFFICES ASSUME Init, wanted # 0 PROVE Alive
  BY BookInit DEF AliveInv
<1>1. PICK j \in JobIds : \A k \in JobIds : j <= k
  BY ScheduleAssumption
<1>2. jobs[j] = Row("queued", wanted, 0, 0)
  BY <1>1 DEF Init
<1>3. AliveJob(j)
  BY <1>2 DEF Init, AliveJob, Pending, Row, ToMark, Threads
<1>. QED  BY <1>3 DEF Alive

\* A step of thread t, who was not about to enqueue, that leaves every alive job.
LEMMA AliveFrame ==
    ASSUME AliveInv, NEW t \in Threads, pc[t] # "enqueue",
           \A v \in Threads : v # t => pc'[v] = pc[v],
           \A v \in Workers : v # t => cur'[v] = cur[v],
           \A a \in Admins : a # t => asked'[a] = asked[a],
           \A j \in JobIds : AliveJob(j) =>
                /\ jobs'[j].status \in {"queued", "retry"} /\ jobs'[j].every # 0
                /\ t \in Workers => ~(pc'[t] = "mark" /\ cur'[t] = j),
           wanted' = wanted, lost => lost'
    PROVE  wanted' # 0 => Alive'
<1>. SUFFICES ASSUME wanted # 0 PROVE Alive'
  OBVIOUS
<1>1. CASE lost
  BY <1>1 DEF Alive
<1>2. CASE WorkerEnqueues
  <2>1. WorkerEnqueues'
    BY <1>2 DEF WorkerEnqueues, Threads
  <2>. QED  BY <2>1 DEF Alive
<1>3. CASE AdminSchedules
  <2>1. AdminSchedules'
    BY <1>3 DEF AdminSchedules, Threads
  <2>. QED  BY <2>1 DEF Alive
<1>4. ASSUME NEW j \in JobIds, AliveJob(j) PROVE Alive'
  <2>1. ~ToMark(j)'
    BY <1>4 DEF AliveJob, ToMark, Threads
  <2>2. AliveJob(j)'
    BY <1>4, <2>1 DEF AliveJob, Pending
  <2>. QED  BY <2>2 DEF Alive
<1>. QED  BY <1>1, <1>2, <1>3, <1>4 DEF AliveInv, Alive

\* A new job that repeats.
LEMMA AliveEnqueue ==
    ASSUME AliveInv, NEW t \in Threads, NEW every, every # 0, NEW due, EnqueueJob(every, due),
           \A v \in Workers : v # t => pc'[v] = pc[v],
           t \in Workers => cur[t] \in DOMAIN batch[t],
           cur' = cur
    PROVE  Alive'
<1>1. PICK j \in JobIds : Free(j) /\ jobs' = [jobs EXCEPT ![j] = Row("queued", every, due, 0)]
  BY DEF EnqueueJob
<1>2. jobs'[j] = Row("queued", every, due, 0)
  BY <1>1 DEF AliveInv, BookInv, TypeOK
<1>3. ~ToMark(j)'
  <2>1. ASSUME NEW v \in Workers, pc'[v] = "mark" PROVE cur[v] \in DOMAIN batch[v]
    BY <2>1 DEF AliveInv, BookInv, TypeOK
  <2>2. \A v \in Workers : j \notin DOMAIN batch[v]
    BY <1>1 DEF Free, Held
  <2>. QED  BY <2>1, <2>2 DEF ToMark
<1>4. AliveJob(j)'
  BY <1>2, <1>3 DEF AliveJob, Pending, Row
<1>. QED  BY <1>4 DEF Alive

LEMMA AliveAdmin ==
    ASSUME AliveInv, NEW a \in Admins, AdminStep(a)
    PROVE  wanted' # 0 => Alive'
<1>. a \in Threads /\ a \notin Workers
  BY ScheduleAssumption DEF Threads
<1>1. CASE RefreshIngest(a) \/ StopSchedule(a)
  BY <1>1 DEF RefreshIngest, StopSchedule, Replace
<1>2. ASSUME NEW i \in Intervals, ScheduleRefresh(a, i) PROVE Alive'
  <2>1. pc'[a] = "enqueue" /\ asked'[a] = i /\ i # 0
    BY <1>2, ScheduleAssumption DEF ScheduleRefresh, Goto, AliveInv, BookInv, TypeOK
  <2>. QED  BY <2>1 DEF Alive, AdminSchedules
<1>3. CASE AdminEnqueue(a)
  <2>1. CASE asked[a] # 0
    BY <1>3, <2>1, AliveEnqueue DEF AdminEnqueue, Goto, AliveInv, BookInv, TypeOK, Threads
  <2>2. CASE asked[a] = 0
    <3>1. /\ \A v \in Threads : v # a => pc'[v] = pc[v]
          /\ \A b \in Admins : b # a => asked'[b] = asked[b]
      BY <1>3 DEF AdminEnqueue, Goto, AliveInv, BookInv, TypeOK
    <3>2. \A j \in JobIds : j \in Pending => jobs'[j] = jobs[j]
      BY <1>3 DEF AdminEnqueue, EnqueueJob, Free, Pending, NoRow, Row
    <3>. SUFFICES ASSUME wanted # 0 PROVE Alive'
      BY <1>3 DEF AdminEnqueue
    <3>3. CASE lost
      BY <1>3, <3>3 DEF AdminEnqueue, Alive
    <3>4. CASE WorkerEnqueues
      <4>1. WorkerEnqueues'
        BY <3>1, <3>4 DEF WorkerEnqueues, Threads
      <4>. QED  BY <4>1 DEF Alive
    <3>5. CASE AdminSchedules
      <4>1. AdminSchedules'
        BY <2>2, <3>1, <3>5 DEF AdminSchedules, Threads
      <4>. QED  BY <4>1 DEF Alive
    <3>6. ASSUME NEW j \in JobIds, AliveJob(j) PROVE Alive'
      <4>1. AliveJob(j)'
        BY <1>3, <3>1, <3>2, <3>6 DEF AdminEnqueue, AliveJob, Pending, ToMark, Threads
      <4>. QED  BY <4>1 DEF Alive
    <3>. QED  BY <3>3, <3>4, <3>5, <3>6 DEF AliveInv, Alive
  <2>. QED  BY <2>1, <2>2
<1>4. CASE AdminFails(a)
  BY <1>4 DEF AdminFails, Alive
<1>. QED  BY <1>1, <1>2, <1>3, <1>4 DEF AdminStep

\* A worker that ends a job leaves the alive ones: the job it marks is not one of
\* them, and one that it will retry stays pending.
LEMMA AliveContinue ==
    ASSUME AliveInv, NEW w \in Workers, pc[w] # "enqueue",
           NEW rest \in SUBSET (DOMAIN batch[w]),
           NEW k \in JobIds, NEW rows \in {MarkJobSuccess(jobs, k), MarkJobRetry(jobs, k), jobs},
           rows = MarkJobSuccess(jobs, k) => ~AliveJob(k),
           Continue(w, rest, rows), asked' = asked, wanted' = wanted, lost => lost'
    PROVE  wanted' # 0 => Alive'
<1>. w \in Threads /\ w \notin Admins
  BY ScheduleAssumption DEF Threads
<1>1. ASSUME NEW j \in JobIds, AliveJob(j)
      PROVE  jobs'[j].status \in {"queued", "retry"} /\ jobs'[j].every # 0
  <2>1. j # k => rows[j] = jobs[j]
    BY MarkKeeps DEF AliveInv, BookInv
  <2>2. rows[j].every = jobs[j].every
    BY MarkKeeps DEF AliveInv, BookInv
  <2>3. rows[j].status \in {"queued", "retry"}
    <3>1. CASE j # k \/ rows = jobs
      BY <1>1, <2>1, <3>1 DEF AliveJob, Pending
    <3>2. CASE j = k /\ rows = MarkJobRetry(jobs, k)
      BY <1>1, <3>2 DEF AliveJob, Pending, MarkJobRetry, AliveInv, BookInv, TypeOK
    <3>. QED  BY <1>1, <3>1, <3>2
  <2>4. jobs'[j] = rows[j]
    BY <2>3 DEF Continue
  <2>. QED  BY <1>1, <2>2, <2>3, <2>4 DEF AliveJob
<1>2. /\ \A v \in Threads : v # w => pc'[v] = pc[v]
      /\ \A v \in Workers : v # w => cur'[v] = cur[v]
      /\ pc'[w] # "mark"
  BY DEF Continue, Goto, AliveInv, BookInv, TypeOK
<1>. QED  BY <1>1, <1>2, AliveFrame

LEMMA AliveWorker ==
    ASSUME AliveInv, NEW w \in Workers, WorkerRuns(w) \/ WorkerFails(w)
    PROVE  wanted' # 0 => Alive'
<1>. w \in Threads /\ w \notin Admins
  BY ScheduleAssumption DEF Threads
<1>1. CASE ClaimDueJobs(w)
  <2>1. \A j \in JobIds : jobs'[j].status = jobs[j].status /\ jobs'[j].every = jobs[j].every
    BY <1>1 DEF ClaimDueJobs, AliveInv, BookInv, TypeOK
  <2>2. /\ \A v \in Threads : v # w => pc'[v] = pc[v]
        /\ pc'[w] = "batch" /\ pc[w] = "idle"
    BY <1>1 DEF ClaimDueJobs, Goto, AliveInv, BookInv, TypeOK
  <2>. QED  BY <1>1, <2>1, <2>2, AliveFrame DEF ClaimDueJobs, historyVars, AliveJob, Pending
<1>2. CASE BeginFetch(w)
  <2>1. /\ \A v \in Threads : v # w => pc'[v] = pc[v]
        /\ \A v \in Workers : v # w => cur'[v] = cur[v]
        /\ pc'[w] = "fetching" /\ pc[w] = "batch"
    BY <1>2 DEF BeginFetch, Goto, AliveInv, BookInv, TypeOK
  <2>. QED  BY <1>2, <2>1, AliveFrame DEF BeginFetch, AliveJob, Pending
<1>3. CASE DeleteBeforeNext(w) \/ DeleteRaises(w)
  <2>1. pc'[w] = "enqueue"
    BY <1>3 DEF DeleteBeforeNext, DeleteRaises, Goto, AliveInv, BookInv, TypeOK
  <2>. QED  BY <2>1 DEF Alive, WorkerEnqueues
<1>4. CASE EnqueueNext(w)
  <2>1. Interval(w) # 0 /\ cur[w] \in DOMAIN batch[w]
    BY <1>4 DEF EnqueueNext, AliveInv, BookInv, EnqueuerRepeats, TypeOK
  <2>2. \A v \in Workers : v # w => pc'[v] = pc[v]
    BY <1>4 DEF EnqueueNext, Goto, AliveInv, BookInv, TypeOK, Threads
  <2>. QED  BY <1>4, <2>1, <2>2, AliveEnqueue DEF EnqueueNext
<1>5. CASE EndJob(w)
  <2>1. /\ cur[w] \in DOMAIN batch[w] /\ cur[w] \in JobIds
        /\ Rest(w) \in SUBSET (DOMAIN batch[w]) /\ pc[w] # "enqueue"
    BY <1>5, BatchValues DEF EndJob, AliveInv, BookInv, TypeOK, Rest
  <2>2. ~AliveJob(cur[w])
    <3>1. CASE pc[w] = "mark"
      BY <3>1 DEF AliveJob, ToMark
    <3>2. CASE Interval(w) = 0
      BY <2>1, <3>2 DEF AliveJob, Pending, Interval, AliveInv, BookInv, BatchAgrees
    <3>. QED  BY <1>5, <3>1, <3>2 DEF EndJob
  <2>. QED  BY <1>5, <2>1, <2>2, AliveContinue DEF EndJob, historyVars
<1>6. CASE RefreshRaises(w)
  <2>1. CASE pc[w] = "enqueue"
    BY <1>6, <2>1 DEF RefreshRaises, Alive
  <2>2. CASE pc[w] # "enqueue"
    <3>1. /\ cur[w] \in DOMAIN batch[w] /\ cur[w] \in JobIds
          /\ Rest(w) \in SUBSET (DOMAIN batch[w])
      BY <1>6, BatchValues DEF RefreshRaises, AliveInv, BookInv, TypeOK, Rest
    <3>2. MarkJobRetry(jobs, cur[w]) = MarkJobSuccess(jobs, cur[w]) => ~AliveJob(cur[w])
      BY <3>1 DEF MarkJobRetry, MarkJobSuccess, AliveJob, Pending, AliveInv, BookInv, TypeOK
    <3>. QED  BY <1>6, <2>2, <3>1, <3>2, AliveContinue DEF RefreshRaises
  <2>. QED  BY <2>1, <2>2
<1>7. CASE Crash(w)
  <2>1. CASE pc[w] = "enqueue"
    BY <1>7, <2>1 DEF Crash, Alive
  <2>2. CASE pc[w] # "enqueue"
    <3>1. \A j \in JobIds : AliveJob(j) => jobs'[j] = jobs[j]
      BY <1>7 DEF Crash, Continue, AliveJob, Pending
    <3>2. /\ \A v \in Threads : v # w => pc'[v] = pc[v]
          /\ \A v \in Workers : v # w => cur'[v] = cur[v]
          /\ pc'[w] # "mark"
      BY <1>7 DEF Crash, Continue, Goto, AliveInv, BookInv, TypeOK
    <3>. QED  BY <1>7, <2>2, <3>1, <3>2, AliveFrame DEF Crash, AliveJob, Pending
  <2>. QED  BY <2>1, <2>2
<1>. QED  BY <1>1, <1>2, <1>3, <1>4, <1>5, <1>6, <1>7 DEF WorkerRuns, WorkerFails

LEMMA AliveStep == AliveInv /\ [Next]_vars => AliveInv'
<1>. SUFFICES ASSUME AliveInv, [Next]_vars PROVE AliveInv'
  OBVIOUS
<1>1. wanted' # 0 => Alive'
  <2>1. CASE UNCHANGED vars
    BY <2>1 DEF vars, historyVars, AliveInv, Alive, WorkerEnqueues, AdminSchedules,
                AliveJob, ToMark, Pending
  <2>2. CASE Tick
    BY <2>2, TickKeeps DEF AliveInv, BookInv, Alive, WorkerEnqueues, AdminSchedules,
                           AliveJob, ToMark, Pending
  <2>. QED  BY <2>1, <2>2, AliveAdmin, AliveWorker DEF Next
<1>2. BookInv'
  BY BookStep DEF AliveInv
<1>. QED  BY <1>1, <1>2 DEF AliveInv

\* A schedule is not lost but by a fault between a delete and its enqueue: not by
\* races of workers over leases, nor by failed refreshes (ScheduleAlive, about
\* delete_pending_jobs and enqueue_job in worker.py).
THEOREM ScheduleAliveHolds == Spec => []ScheduleAlive
<1>1. AliveInv => ScheduleAlive
  BY DEF AliveInv, Alive, ScheduleAlive, WorkerEnqueues, AdminSchedules, AliveJob, Window,
         Threads, Pending
<1>. QED  BY <1>1, AliveInit, AliveStep, PTL DEF Spec
=============================================================================
