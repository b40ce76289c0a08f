----------------------------- MODULE CaseWorkflow -----------------------------
(***************************************************************************)
(* The case workflow of the v2 API (app.py): creating a screening, recording *)
(* a review decision, and the case events comment, status_update and assign, *)
(* all behind the Idempotency-Key protocol.                                 *)
(*                                                                          *)
(* One case is modelled: all calls screen the same subject under the same   *)
(* list version, so they share one screening_id, which is the case_id.      *)
(* Handlers run concurrently; every database method is a transaction of its *)
(* own, so a handler's steps interleave with those of the others, and what  *)
(* it has read (its snapshot of the case row, its timestamp) may be stale   *)
(* when it writes.                                                          *)
(***************************************************************************)
EXTENDS Naturals, FiniteSets

CONSTANTS
    Calls,      \* HTTP calls of one customer, retries included
    Ops,        \* operations the calls may ask for, see AllOps
    IdemKeys,   \* Idempotency-Key values
    None,       \* no key, no row, no pack
    Flagged,    \* does screening the subject under this list yield review or block?
    ListLimit,  \* limit of list_case_events (500 for a bundle, 200 for a detail)
    MaxTime,    \* BOUND: the clock, in seconds, stops here
    MaxErrors   \* BOUND: Die happens only while fewer calls than this have failed

AllOps == {"screen", "decide", "comment", "close", "reopen", "assign"}

ASSUME CaseAssumption ==
    /\ Ops \subseteq AllOps
    /\ None \notin IdemKeys /\ None \notin Calls
    /\ Flagged \in BOOLEAN
    /\ ListLimit \in Nat \ {0}
    /\ MaxTime \in Nat /\ MaxErrors \in Nat
    /\ IsFiniteSet(Calls)

VARIABLES
    clock,      \* wall clock in seconds
    screening,  \* row of screenings: its evidence pack, or None
    caseRow,    \* row of cases, or None
    decision,   \* row of screening_review_decisions: its evidence pack, or None
    events,     \* rows of case_events
    idem,       \* rows of idempotency_keys: operation recorded per scope and key
    cached,     \* the pack that the in-process ScreenCache holds, or None
    pc,         \* call: control point
    op,         \* call: what it asks for, None before it begins
    idemKey,    \* call: its Idempotency-Key, or None
    ts,         \* call: its local `ts`, `created_at` or `decided_at`
    pack,       \* call: its local evidence_pack_id
    snap,       \* call: status of the case row that an assign has read, or None
    outcome,    \* call: what the client saw, "" while it sees nothing
    wrote,      \* history: calls that have written something
    retryOf,    \* history: calls begun after an equal keyed call was answered 2xx
    raced       \* history: have two writers of the case row ever overlapped, or one died?

tables == <<screening, caseRow, decision, events, idem>>
locals == <<op, idemKey, ts, pack, snap>>
history == <<wrote, retryOf, raced>>
vars == <<clock, tables, cached, pc, locals, outcome, history>>

Packs == Calls \union {None}
Statuses == {"needs_review", "closed"}
CaseRow == [status : Statuses, pack : Packs]

TypeOK ==
    /\ clock \in 0 .. MaxTime
    /\ screening \in Packs
    /\ caseRow \in CaseRow \union {None}
    /\ decision \in Packs
    /\ events \subseteq [id : 1 .. Cardinality(Calls), ts : 0 .. MaxTime, by : Calls]
    /\ \A e, f \in events : e.id = f.id => e = f
    /\ \A r \in idem : r.key \in IdemKeys /\ r.op \in Ops
    /\ cached \in Packs
    /\ pc \in [Calls -> {"ready", "pack", "insert", "read", "decision", "case",
                         "event", "emit", "store", "done"}]
    /\ op \in [Calls -> Ops \union {None}]
    /\ idemKey \in [Calls -> IdemKeys \union {None}]
    /\ ts \in [Calls -> 0 .. MaxTime]
    /\ pack \in [Calls -> Packs]
    /\ snap \in [Calls -> Statuses \union {None}]
    /\ outcome \in [Calls -> {"", "ok", "replayed", "conflict", "missing", "error"}]
    /\ wrote \subseteq Calls /\ retryOf \subseteq Calls /\ raced \in BOOLEAN

Init ==
    /\ clock = 0
    /\ screening = None /\ caseRow = None /\ decision = None
    /\ events = {} /\ idem = {} /\ cached = None
    /\ pc = [c \in Calls |-> "ready"]
    /\ op = [c \in Calls |-> None]
    /\ idemKey = [c \in Calls |-> None]
    /\ ts = [c \in Calls |-> 0]
    /\ pack = [c \in Calls |-> None]
    /\ snap = [c \in Calls |-> None]
    /\ outcome = [c \in Calls |-> ""]
    /\ wrote = {} /\ retryOf = {} /\ raced = FALSE

-----------------------------------------------------------------------------
EventOps == {"comment", "close", "reopen", "assign"}

\* The idempotency scope: one per route; case events share theirs, and differ by
\* body, that is by request_sha256, here by op.
Scope(o) == IF o \in EventOps THEN "events" ELSE o

\* Calls that update the case row from what they know of it, and are under way.
CaseWriters == {"screen", "decide", "close", "reopen", "assign"}
Writing(c) == op[c] \in CaseWriters /\ pc[c] \notin {"ready", "done"}

Goto(c, l) == pc' = [pc EXCEPT ![c] = l]

\* The handler ends with outcome o, and its locals with it.
Answer(c, o) ==
    /\ Goto(c, "done")
    /\ outcome' = [outcome EXCEPT ![c] = o]
    /\ ts' = [ts EXCEPT ![c] = 0]
    /\ pack' = [pack EXCEPT ![c] = None]
    /\ snap' = [snap EXCEPT ![c] = None]

\* A call for operation o with key k (or None) reaches its handler, whose first
\* step is _idempotency_maybe_return: replay, conflict, or go on.  The history
\* variables note a retry and an overlap of two writers of the case row.
Begin(c, o, k) ==
    /\ pc[c] = "ready"
    /\ op' = [op EXCEPT ![c] = o]
    /\ idemKey' = [idemKey EXCEPT ![c] = k]
    /\ retryOf' = IF k # None /\ \E b \in Calls : /\ op[b] = o /\ idemKey[b] = k
                                                  /\ outcome[b] \in {"ok", "replayed"}
                  THEN retryOf \union {c} ELSE retryOf
    /\ LET recorded == {r \in idem : r.scope = Scope(o) /\ r.key = k} IN
        \/ /\ recorded = {}
           /\ Goto(c, IF o = "screen" THEN "pack" ELSE "read")
           /\ raced' = (raced \/ (o \in CaseWriters /\ \E b \in Calls : Writing(b)))
           /\ UNCHANGED <<ts, pack, snap, outcome>>
        \/ /\ \E r \in recorded : Answer(c, IF r.op = o THEN "replayed" ELSE "conflict")
           /\ UNCHANGED raced
    /\ UNCHANGED <<clock, tables, cached, wrote>>

\* v2_create_screening up to the pack: a hit of the ScreenCache is used, a miss (the
\* process is new or the entry was evicted) writes a pack of its own.
ChoosePack(c) ==
    /\ pc[c] = "pack"
    /\ \E p \in ({c, cached} \ {None}) :
        /\ pack' = [pack EXCEPT ![c] = p]
        /\ cached' = p
    /\ Goto(c, "insert")
    /\ UNCHANGED <<clock, tables, op, idemKey, ts, snap, outcome, history>>

\* insert_screening, then created_at is sampled.
InsertScreening(c) ==
    /\ pc[c] = "insert"
    /\ screening' = pack[c]
    /\ ts' = [ts EXCEPT ![c] = clock]
    /\ wrote' = wrote \union {c}
    /\ Goto(c, "case")
    /\ UNCHANGED <<clock, caseRow, decision, events, idem, cached, op, idemKey, pack, snap,
                   outcome, retryOf, raced>>

\* get_screening for a decision, get_case for a case event; then `now` is sampled.
ReadRow(c) ==
    /\ pc[c] = "read"
    /\ LET missing == IF op[c] = "decide" THEN screening = None ELSE caseRow = None IN
        \/ missing /\ Answer(c, "missing")
        \/ /\ ~ missing
           /\ ts' = [ts EXCEPT ![c] = clock]
           /\ snap' = [snap EXCEPT ![c] = IF op[c] = "assign" THEN caseRow.status ELSE None]
           /\ pack' = [pack EXCEPT ![c] = IF op[c] = "decide" THEN screening ELSE caseRow.pack]
           /\ Goto(c, IF op[c] = "decide" THEN "decision" ELSE "event")
           /\ UNCHANGED outcome
    /\ UNCHANGED <<clock, tables, cached, op, idemKey, history>>

\* upsert_screening_review_decision: a second decision replaces the first.
RecordDecision(c) ==
    /\ pc[c] = "decision"
    /\ decision' = pack[c]
    /\ wrote' = wrote \union {c}
    /\ Goto(c, "case")
    /\ UNCHANGED <<clock, screening, caseRow, events, idem, cached, locals, outcome,
                   retryOf, raced>>

\* Mutant of NewStatus: every event reopens the case, an assign too.
NewStatusReopening(c) == IF op[c] \in {"decide", "close"} THEN "closed" ELSE "needs_review"

\* The status a call writes: an assign writes the one it has read.
NewStatus(c) ==
    IF op[c] \in {"decide", "close"} \/ (op[c] = "screen" /\ ~ Flagged) THEN "closed"
    ELSE IF op[c] = "assign" THEN snap[c]
    ELSE "needs_review"

\* Mutant of AfterEvent: a screening updates its case after the event, too.
AfterEventTwice(c) == IF op[c] = "comment" THEN "store" ELSE "case"

\* Where a handler goes after its case event: a screening and a decision emit
\* webhooks, a comment changes no case row.
AfterEvent(c) ==
    IF op[c] \in {"screen", "decide"} THEN "emit"
    ELSE IF op[c] = "comment" THEN "store" ELSE "case"

\* upsert_case, keyed by case_id: status and pack are overwritten.  (Here and in
\* InsertEvent, locals of no further use are forgotten.)
UpsertCase(c) ==
    /\ pc[c] = "case"
    /\ caseRow' = [status |-> NewStatus(c), pack |-> pack[c]]
    /\ pack' = [pack EXCEPT ![c] = None]
    /\ snap' = [snap EXCEPT ![c] = None]
    /\ Goto(c, IF op[c] \in {"screen", "decide"} THEN "event" ELSE "store")
    /\ UNCHANGED <<clock, screening, decision, events, idem, cached, op, idemKey, ts, outcome,
                   history>>

\* insert_case_event: the row id is the next one, ts was sampled earlier.
InsertEvent(c) ==
    /\ pc[c] = "event"
    /\ events' = events \union {[id |-> Cardinality(events) + 1, ts |-> ts[c], by |-> c]}
    /\ ts' = [ts EXCEPT ![c] = 0]
    /\ wrote' = wrote \union {c}
    /\ Goto(c, AfterEvent(c))
    /\ UNCHANGED <<clock, screening, caseRow, decision, idem, cached, op, idemKey, pack, snap,
                   outcome, retryOf, raced>>

\* _emit_webhooks (see DeliveryPipeline): it raises when a subscription it has
\* listed is deleted meanwhile, and the client gets a 500 after all the writes.
EmitWebhooks(c) ==
    /\ pc[c] = "emit"
    /\ \/ Goto(c, "store") /\ UNCHANGED <<ts, pack, snap, outcome>>
       \/ Answer(c, "error")
    /\ UNCHANGED <<clock, tables, cached, op, idemKey, history>>

\* Mutant of Store: recorded under another scope than Check looks it up.
StoreOtherScope(c) ==
    /\ pc[c] = "store"
    /\ idem' = idem \union {[scope |-> "POST", key |-> k, op |-> op[c]] : k \in {idemKey[c]} \ {None}}
    /\ Answer(c, "ok")
    /\ UNCHANGED <<clock, screening, caseRow, decision, events, cached, op, idemKey, history>>

\* _idempotency_store, INSERT OR IGNORE, and the response.  A case event reads its
\* response first (v2_get_case); when that raises, the call ends as in Die.
Store(c) ==
    /\ pc[c] = "store"
    /\ idem' = IF idemKey[c] = None
                  \/ \E r \in idem : r.scope = Scope(op[c]) /\ r.key = idemKey[c]
               THEN idem
               ELSE idem \union {[scope |-> Scope(op[c]), key |-> idemKey[c], op |-> op[c]]}
    /\ Answer(c, "ok")
    /\ UNCHANGED <<clock, screening, caseRow, decision, events, cached, op, idemKey, history>>

\* The process dies, or a database call raises, between two steps of the handler.
Die(c) ==
    /\ pc[c] \notin {"ready", "done"}
    /\ Cardinality({b \in Calls : outcome[b] = "error"}) < MaxErrors
    /\ Answer(c, "error")
    /\ raced' = (raced \/ Writing(c))
    /\ UNCHANGED <<clock, tables, cached, op, idemKey, wrote, retryOf>>

ClockTick ==
    /\ clock < MaxTime
    /\ clock' = clock + 1
    /\ UNCHANGED <<tables, cached, pc, locals, outcome, history>>

CallStep(c) ==
    \/ \E o \in Ops, k \in IdemKeys \union {None} : Begin(c, o, k)
    \/ ChoosePack(c) \/ InsertScreening(c) \/ ReadRow(c)
    \/ RecordDecision(c) \/ UpsertCase(c) \/ InsertEvent(c) \/ EmitWebhooks(c) \/ Store(c)

Next ==
    \/ \E c \in Calls : CallStep(c) \/ Die(c)
    \/ ClockTick

Spec == Init /\ [][Next]_vars

-----------------------------------------------------------------------------
(* The timeline, as list_case_events returns it and as a bundle chains it.  *)

\* Mutant of Before: newest events first.
BeforeNewest(e, f) == e.ts > f.ts \/ (e.ts = f.ts /\ e.id > f.id)

\* ORDER BY ts ASC; the index on (case_id, ts) returns ties in row-id order.
Before(e, f) == e.ts < f.ts \/ (e.ts = f.ts /\ e.id < f.id)

\* The events up to e: its hash in the chain of a bundle depends on these alone.
UpTo(e) == {f \in events : Before(f, e)} \union {e}
Timeline == {e \in events : Cardinality(UpTo(e)) <= ListLimit}

-----------------------------------------------------------------------------
(* Idempotency.                                                             *)

\* A keyed call that begins after an equal one was answered 2xx writes nothing,
\* whatever calls with the same key and another body run meanwhile.
SafeRetry == retryOf \intersect wrote = {}

\* "For safe retries of write requests, send an Idempotency-Key header"
\* (DEPLOYMENT.md:92): equal calls with one key take effect at most once.
AtMostOnce ==
    \A e, f \in events :
        /\ op[e.by] = op[f.by]
        /\ idemKey[e.by] = idemKey[f.by] /\ idemKey[e.by] # None
        => e = f

-----------------------------------------------------------------------------
(* The case row and its timeline.                                           *)

\* As long as no two writers of the case row have overlapped and none has died,
\* the row says what the last event that sets a status says, and names the pack
\* of the screening: only a race or a crash makes the two disagree.
SetsStatus(e) == op[e.by] \in {"screen", "decide", "close", "reopen"}
QuietCaseAgrees ==
    /\ ~ raced
    /\ caseRow # None
    /\ \A c \in Calls : ~ Writing(c)
    => /\ caseRow.pack = screening
       /\ \A e \in events :
            SetsStatus(e) /\ (\A f \in events : SetsStatus(f) => f = e \/ Before(f, e))
            => caseRow.status = NewStatus(e.by)

\* The chain up to an event is final once no call with an older timestamp still
\* has its event to insert: a bundle exported then stays a prefix of every later one.
AwaitsEvent(c) ==
    \/ pc[c] = "event"
    \/ pc[c] \in {"decision", "case"} /\ op[c] \in {"screen", "decide"}
Settled(e) == \A c \in Calls : AwaitsEvent(c) => e.ts <= ts[c]
SettledTimeline ==
    [][\A e \in Timeline : Settled(e) => e \in Timeline' /\ UpTo(e)' = UpTo(e)]_events

\* "Append-only events" (README.md:96): what the timeline shows, it keeps showing at
\* the same place.
AppendOnlyTimeline ==
    [][\A e \in Timeline : e \in Timeline' /\ UpTo(e)' = UpTo(e)]_events

=============================================================================
