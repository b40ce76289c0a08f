---------------------------- MODULE UsageMetering ----------------------------
(***************************************************************************)
(* Usage metering (state.py, the end of middleware.py): the bounded queue   *)
(* the event loop puts one event per served request into, and the thread    *)
(* that writes the events to the usage_events table in batches.             *)
(*                                                                          *)
(* Events are numbered in the order they are put.  A request that ends in an *)
(* exception other than an HTTPException passes the put by and leaves no    *)
(* trace here; nor does a request that the gate refuses (RequestGate).      *)
(*                                                                          *)
(* A batch is one transaction in SQLite (db.py), but in Postgres (db_pg.py) *)
(* every event is an INSERT of its own that commits by itself, so a flush   *)
(* that fails on the way has written the first events of its batch.         *)
(***************************************************************************)
EXTENDS Naturals, Sequences, FiniteSets, SequencesExt

CONSTANTS
    QueueMax,    \* usage_queue_max
    BatchSize,   \* usage_batch_size
    MaxMetered   \* BOUND: served requests

ASSUME UsageAssumption ==
    /\ QueueMax \in Nat \ {0} /\ BatchSize \in Nat \ {0} /\ MaxMetered \in Nat

VARIABLES
    database,  \* which of the two ProofRailDb the service was started with
    queue,     \* usage_queue
    batch,     \* the flusher's batch
    inserted,  \* how many events of the batch insert_usage_events has committed
    due,       \* has flush_interval_s passed since the last flush?
    flusher,   \* control point of usage_flusher_loop
    stop,      \* usage_stop
    dropped,   \* usage_stats.dropped
    flushed,   \* usage_stats.flushed
    rows,      \* usage_events: the events in the order of their rows
    metered,   \* history: events that were to be put
    lost       \* history: events a failed flush did not write or left at the exit

vars == <<database, queue, batch, inserted, due, flusher, stop, dropped, flushed, rows,
          metered, lost>>

\* The events of the batch that have no row yet.
Unwritten == SubSeq(batch, inserted + 1, Len(batch))

TypeOK ==
    /\ database \in {"sqlite", "postgres"}
    /\ queue \in Seq(1 .. metered) /\ batch \in Seq(1 .. metered)
    /\ rows \in Seq(1 .. metered) /\ inserted \in 0 .. Len(batch)
    /\ Len(queue) <= QueueMax /\ Len(batch) <= BatchSize
    /\ due \in BOOLEAN /\ stop \in BOOLEAN
    /\ flusher \in {"get", "flush", "last flush", "ended"}
    /\ dropped \in Nat /\ flushed \in Nat /\ metered \in 0 .. MaxMetered
    /\ lost \in SUBSET (1 .. metered)

Init ==
    /\ database \in {"sqlite", "postgres"}
    /\ queue = <<>> /\ batch = <<>> /\ inserted = 0 /\ rows = <<>>
    /\ due = FALSE /\ stop = FALSE /\ flusher = "get"
    /\ dropped = 0 /\ flushed = 0 /\ metered = 0 /\ lost = {}

\* Mutant of UsagePut: the queue takes whatever comes.
UsagePutUnbounded ==
    /\ ~stop /\ metered < MaxMetered
    /\ metered' = metered + 1
    /\ queue' = Append(queue, metered')
    /\ UNCHANGED <<database, batch, inserted, due, flusher, stop, dropped,
                   flushed, rows, lost>>

\* put_nowait: the event is queued, or counted as dropped when the queue is full.
UsagePut ==
    /\ ~stop /\ metered < MaxMetered
    /\ metered' = metered + 1
    /\ IF Len(queue) < QueueMax
       THEN queue' = Append(queue, metered') /\ UNCHANGED dropped
       ELSE dropped' = dropped + 1 /\ UNCHANGED queue
    /\ UNCHANGED <<database, batch, inserted, due, flusher, stop,
                   flushed, rows, lost>>

\* Mutant of ToFlush: only a full batch is written.
ToFlushFull(events, late) == Len(events) >= BatchSize

ToFlush(events, late) == Len(events) >= BatchSize \/ (events # <<>> /\ late)

\* One turn of the loop: q.get returns an event or times out, then the batch is
\* looked at.
Turn(events) ==
    /\ flusher = "get" /\ ~stop
    /\ batch' = events
    /\ flusher' = IF ToFlush(events, due) THEN "flush" ELSE "get"
    /\ UNCHANGED <<database, inserted, due, stop, dropped,
                   flushed, rows, metered, lost>>

GetEvent == queue # <<>> /\ Turn(Append(batch, Head(queue))) /\ queue' = Tail(queue)
GetNothing == queue = <<>> /\ Turn(batch) /\ UNCHANGED queue

\* The loop ends: what is in the batch is written, what is in the queue is not.
EndLoop ==
    /\ flusher = "get" /\ stop
    /\ flusher' = IF batch = <<>> THEN "ended" ELSE "last flush"
    /\ UNCHANGED <<database, queue, batch, inserted, due, stop, dropped,
                   flushed, rows, metered, lost>>

\* insert_usage_events: executemany commits the batch as a whole in SQLite, the loop
\* over execute one event after the other in Postgres.
InsertEvents ==
    /\ flusher \in {"flush", "last flush"} /\ inserted < Len(batch)
    /\ inserted' = IF database = "sqlite" THEN Len(batch) ELSE inserted + 1
    /\ rows' = rows \o SubSeq(batch, inserted + 1, inserted')
    /\ UNCHANGED <<database, queue, batch, due, flusher, stop, dropped,
                   flushed, metered, lost>>

\* Mutant of AfterFlush: the batch of a failed flush is kept for the next one.
AfterFlushKept(ok) == IF ok THEN <<>> ELSE batch

AfterFlush(ok) == <<>>

\* The end of flush(): the batch is given up, whether the insert returned or raised.
EndFlush(ok) ==
    /\ flusher \in {"flush", "last flush"}
    /\ batch' = AfterFlush(ok) /\ inserted' = 0 /\ due' = FALSE
    /\ flusher' = IF flusher = "flush" THEN "get" ELSE "ended"
    /\ UNCHANGED <<database, queue, stop, dropped, rows, metered>>

Flushed ==
    /\ inserted = Len(batch) /\ EndFlush(TRUE)
    /\ flushed' = flushed + Len(batch)
    /\ UNCHANGED lost

\* The insert raises: before any commit, between two, or when the last one is in
\* and only its answer is missing.
FlushFails ==
    /\ EndFlush(FALSE)
    /\ lost' = lost \union Range(Unwritten)
    /\ UNCHANGED flushed

FlusherStep == GetEvent \/ GetNothing \/ EndLoop \/ InsertEvents \/ Flushed \/ FlushFails

IntervalPasses ==
    /\ ~due /\ due' = TRUE
    /\ UNCHANGED <<database, queue, batch, inserted, flusher, stop, dropped,
                   flushed, rows, metered, lost>>

\* The end of the lifespan of the application.
Stop ==
    /\ ~stop /\ stop' = TRUE
    /\ UNCHANGED <<database, queue, batch, inserted, due, flusher, dropped,
                   flushed, rows, metered, lost>>

\* The process ends and takes the daemon thread with it.
ProcessEnds ==
    /\ <<queue, batch>> # <<<<>>, <<>>>>
    /\ stop' = TRUE /\ flusher' = "ended"
    /\ queue' = <<>> /\ batch' = <<>> /\ inserted' = 0
    /\ lost' = lost \union Range(queue) \union Range(Unwritten)
    /\ UNCHANGED <<database, due, dropped, flushed, rows, metered>>

\* The lifespan is over: the thread has ended, or two seconds were not enough.
Exit == stop /\ ProcessEnds
Crash == ProcessEnds

Next ==
    \/ UsagePut
    \/ FlusherStep
    \/ IntervalPasses
    \/ Stop \/ Exit \/ Crash

Spec == Init /\ [][Next]_vars

\* The flusher is a thread whose waits have timeouts, time passes, and a process
\* that is stopped ends.
FairSpec == Spec /\ WF_vars(FlusherStep) /\ WF_vars(IntervalPasses) /\ WF_vars(Exit)

-----------------------------------------------------------------------------
\* Every served request is billed at most once and in the order of the answers,
\* and is accounted for: it has a row, or is still on its way to one, or was
\* counted as dropped, or a failed flush or the end of the process got to it before
\* its row was committed.  An event whose row a failing flush did commit is not
\* billed again.  The statistics never report more than there was.
UsageAccounted ==
    LET kept == rows \o Unwritten \o queue IN
    /\ \A i, j \in 1 .. Len(kept) : i < j => kept[i] < kept[j]
    /\ metered = Len(kept) + Cardinality(lost) + dropped
    /\ flushed <= Len(rows)

\* Every event that was queued is written or given up, whatever the traffic.
UsageSettles ==
    \A e \in 1 .. MaxMetered :
        e \in Range(queue \o batch) ~> e \notin Range(queue \o batch)
=============================================================================
