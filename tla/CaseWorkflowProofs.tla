-------------------------- MODULE CaseWorkflowProofs --------------------------
(***************************************************************************)
(* Proofs about CaseWorkflow, in four parts:                                *)
(*   - a keyed call that begins after an equal one was answered 2xx writes   *)
(*     nothing (SafeRetry);                                                 *)
(*   - the types, with what the control points say of the locals;           *)
(*   - the events, and the part of the timeline that is final;              *)
(*   - the quiet case: without a race or a crash, row and timeline agree.   *)
(***************************************************************************)
EXTENDS CaseWorkflow, FiniteSetTheorems, TLAPS

\* The types the proof needs.
CallTypes ==
    /\ pc \in [Calls -> {"ready", "pack", "insert", "read", "decision", "case",
                         "event", "emit", "store", "done"}]
    /\ op \in [Calls -> Ops \union {None}]
    /\ idemKey \in [Calls -> IdemKeys \union {None}]
    /\ outcome \in [Calls -> {"", "ok", "replayed", "conflict", "missing", "error"}]
    /\ wrote \subseteq Calls /\ retryOf \subseteq Calls

\* A call that has not begun has left no trace.
ReadyClean ==
    \A c \in Calls : pc[c] = "ready" => outcome[c] = "" /\ c \notin wrote /\ c \notin retryOf

\* An answered keyed call has left a record: its own, or one with the same key that
\* was there first.
Recorded(o, k) == \E r \in idem : r.scope = Scope(o) /\ r.key = k
AnswersRecorded ==
    \A c \in Calls :
        outcome[c] \in {"ok", "replayed"} /\ idemKey[c] # None => Recorded(op[c], idemKey[c])

\* A retry is answered by its first step.
RetriesDone == \A c \in retryOf : pc[c] = "done"

RetryInv == CallTypes /\ ReadyClean /\ AnswersRecorded /\ RetriesDone /\ SafeRetry

LEMMA RetryInit == Init => RetryInv
<1>. SUFFICES ASSUME Init PROVE RetryInv
  OBVIOUS
<1>1. CallTypes
  BY DEF Init, CallTypes
<1>2. ReadyClean /\ AnswersRecorded /\ RetriesDone /\ SafeRetry
  BY DEF Init, ReadyClean, AnswersRecorded, RetriesDone, SafeRetry
<1>. QED  BY <1>1, <1>2 DEF RetryInv

\* A step of call c that changes nothing of the other calls, removes no record and
\* makes c neither a retry that goes on nor answered without a record.
OthersUntouched(c) ==
    \A b \in Calls : b # c =>
        /\ pc'[b] = pc[b] /\ op'[b] = op[b] /\ idemKey'[b] = idemKey[b]
        /\ outcome'[b] = outcome[b]
        /\ (b \in wrote' <=> b \in wrote) /\ (b \in retryOf' <=> b \in retryOf)
SafeStep(c) ==
    /\ pc'[c] # "ready"
    /\ outcome'[c] \in {"ok", "replayed"} /\ idemKey'[c] # None
       => Recorded(op[c], idemKey[c])'
    /\ c \in retryOf' => pc'[c] = "done" /\ c \notin wrote'

LEMMA RetryFrame ==
    ASSUME RetryInv, CallTypes', NEW c \in Calls, idem \subseteq idem', OthersUntouched(c),
           SafeStep(c)
    PROVE  RetryInv'
<1>1. ReadyClean'
  BY DEF RetryInv, ReadyClean, CallTypes, OthersUntouched, SafeStep
<1>2. AnswersRecorded'
  <2>. SUFFICES ASSUME NEW b \in Calls, outcome'[b] \in {"ok", "replayed"}, idemKey'[b] # None
                PROVE  Recorded(op[b], idemKey[b])'
    BY DEF AnswersRecorded
  <2>1. CASE b = c
    BY <2>1 DEF SafeStep
  <2>2. CASE b # c
    <3>1. Recorded(op[b], idemKey[b]) /\ op'[b] = op[b] /\ idemKey'[b] = idemKey[b]
      BY <2>2 DEF RetryInv, AnswersRecorded, OthersUntouched
    <3>. QED  BY <3>1 DEF Recorded
  <2>. QED  BY <2>1, <2>2
<1>3. RetriesDone'
  BY DEF RetryInv, RetriesDone, CallTypes, OthersUntouched, SafeStep
<1>4. SafeRetry'
  BY DEF RetryInv, SafeRetry, CallTypes, OthersUntouched, SafeStep
<1>. QED  BY <1>1, <1>2, <1>3, <1>4 DEF RetryInv

LEMMA RetryBegin ==
    ASSUME RetryInv, NEW c \in Calls, NEW o \in Ops, NEW k \in IdemKeys \union {None},
           Begin(c, o, k)
    PROVE  RetryInv'
<1>. USE DEF RetryInv, CallTypes
<1>1. /\ UNCHANGED <<idem, wrote>> /\ pc[c] = "ready" /\ c \notin wrote /\ c \notin retryOf
      /\ op' = [op EXCEPT ![c] = o] /\ idemKey' = [idemKey EXCEPT ![c] = k]
  BY DEF Begin, tables, ReadyClean
<1>2. \/ /\ ~ Recorded(o, k)
         /\ \E l \in {"pack", "read"} : pc' = [pc EXCEPT ![c] = l]
         /\ outcome' = outcome
      \/ /\ Recorded(o, k)
         /\ pc' = [pc EXCEPT ![c] = "done"]
         /\ \E a \in {"replayed", "conflict"} : outcome' = [outcome EXCEPT ![c] = a]
  BY DEF Begin, Goto, Answer, Recorded
<1>3. \/ retryOf' = retryOf
      \/ retryOf' = retryOf \union {c} /\ Recorded(o, k)
  BY DEF Begin, AnswersRecorded
<1>4. CallTypes'
  BY <1>1, <1>2, <1>3
<1>5. OthersUntouched(c)
  BY <1>1, <1>2, <1>3 DEF OthersUntouched
<1>6. SafeStep(c)
  <2>1. outcome[c] = ""
    BY <1>1 DEF ReadyClean
  <2>2. Recorded(o, k) => Recorded(op[c], idemKey[c])'
    BY <1>1 DEF Recorded
  <2>. QED  BY <1>1, <1>2, <1>3, <2>1, <2>2 DEF SafeStep
<1>. QED  BY <1>1, <1>4, <1>5, <1>6, RetryFrame

\* Steps of a handler between its first and its last.
LEMMA RetryWork ==
    ASSUME RetryInv, NEW c \in Calls,
           \/ ChoosePack(c) \/ InsertScreening(c) \/ RecordDecision(c) \/ UpsertCase(c)
           \/ InsertEvent(c)
    PROVE  RetryInv'
<1>. USE DEF RetryInv, CallTypes
<1>1. /\ UNCHANGED <<idem, op, idemKey, outcome, retryOf>>
      /\ wrote' = wrote \/ wrote' = wrote \union {c}
      /\ pc[c] # "ready" /\ pc[c] # "done"
      /\ \E l \in {"insert", "case", "event", "emit", "store"} : pc' = [pc EXCEPT ![c] = l]
  BY DEF ChoosePack, InsertScreening, RecordDecision, UpsertCase, InsertEvent, AfterEvent, Goto,
     tables, locals, history
<1>2. CallTypes'
  BY <1>1
<1>3. c \notin retryOf
  BY <1>1 DEF RetriesDone
<1>4. outcome[c] \in {"ok", "replayed"} /\ idemKey[c] # None => Recorded(op[c], idemKey[c])'
  BY <1>1 DEF AnswersRecorded, Recorded
<1>5. OthersUntouched(c)
  BY <1>1 DEF OthersUntouched
<1>6. SafeStep(c)
  BY <1>1, <1>3, <1>4 DEF SafeStep, Recorded
<1>. QED  BY <1>1, <1>2, <1>5, <1>6, RetryFrame

\* Steps after which a handler goes on or ends without a record of its own.
LEMMA RetryEnd ==
    ASSUME RetryInv, NEW c \in Calls, ReadRow(c) \/ EmitWebhooks(c) \/ Die(c)
    PROVE  RetryInv'
<1>. USE DEF RetryInv, CallTypes
<1>1. /\ UNCHANGED <<idem, op, idemKey, retryOf, wrote>>
      /\ pc[c] # "ready" /\ pc[c] # "done"
      /\ \/ /\ \E l \in {"decision", "event", "store"} : pc' = [pc EXCEPT ![c] = l]
            /\ outcome' = outcome
         \/ /\ pc' = [pc EXCEPT ![c] = "done"]
            /\ \E a \in {"missing", "error"} : outcome' = [outcome EXCEPT ![c] = a]
  BY DEF ReadRow, EmitWebhooks, Die, Answer, Goto, tables, history
<1>2. CallTypes'
  BY <1>1
<1>3. c \notin retryOf
  BY <1>1 DEF RetriesDone
<1>4. outcome[c] \in {"ok", "replayed"} /\ idemKey[c] # None => Recorded(op[c], idemKey[c])'
  BY <1>1 DEF AnswersRecorded, Recorded
<1>5. OthersUntouched(c)
  BY <1>1 DEF OthersUntouched
<1>6. SafeStep(c)
  BY <1>1, <1>3, <1>4 DEF SafeStep, Recorded
<1>. QED  BY <1>1, <1>2, <1>5, <1>6, RetryFrame

LEMMA RetryStore ==
    ASSUME RetryInv, NEW c \in Calls, Store(c)
    PROVE  RetryInv'
<1>. USE DEF RetryInv, CallTypes
<1>1. /\ UNCHANGED <<op, idemKey, retryOf, wrote>>
      /\ pc[c] = "store"
      /\ pc' = [pc EXCEPT ![c] = "done"]
      /\ outcome' = [outcome EXCEPT ![c] = "ok"]
  BY DEF Store, Answer, Goto, history
<1>2. idem \subseteq idem' /\ (idemKey[c] # None => Recorded(op[c], idemKey[c])')
  <2>1. CASE idemKey[c] = None
    BY <2>1 DEF Store
  <2>2. CASE Recorded(op[c], idemKey[c])
    BY <2>2 DEF Store, Recorded
  <2>3. CASE idemKey[c] # None /\ ~ Recorded(op[c], idemKey[c])
    <3>1. idem' = idem \union {[scope |-> Scope(op[c]), key |-> idemKey[c], op |-> op[c]]}
      BY <2>3 DEF Store, Recorded
    <3>. DEFINE row == [scope |-> Scope(op[c]), key |-> idemKey[c], op |-> op[c]]
    <3>2. row \in idem' /\ row.scope = Scope(op[c]) /\ row.key = idemKey[c]
      BY <3>1
    <3>3. Scope(op[c])' = Scope(op[c]) /\ idemKey'[c] = idemKey[c]
      BY <1>1 DEF Scope
    <3>. HIDE DEF row
    <3>4. Recorded(op[c], idemKey[c])'
      BY <3>2, <3>3 DEF Recorded
    <3>. QED  BY <3>1, <3>4
  <2>. QED  BY <2>1, <2>2, <2>3
<1>3. CallTypes'
  BY <1>1
<1>4. c \notin retryOf
  BY <1>1 DEF RetriesDone
<1>5. OthersUntouched(c)
  BY <1>1 DEF OthersUntouched
<1>6. SafeStep(c)
  BY <1>1, <1>2, <1>4 DEF SafeStep, Recorded
<1>. QED  BY <1>2, <1>3, <1>5, <1>6, RetryFrame

LEMMA RetryStep == RetryInv /\ [Next]_vars => RetryInv'
<1>. SUFFICES ASSUME RetryInv, [Next]_vars PROVE RetryInv'
  OBVIOUS
<1>1. CASE ClockTick \/ UNCHANGED vars
  BY <1>1 DEF ClockTick, vars, tables, locals, history, RetryInv, CallTypes, ReadyClean,
     AnswersRecorded, RetriesDone, Recorded, SafeRetry
<1>2. CASE \E c \in Calls : CallStep(c) \/ Die(c)
  BY <1>2, RetryBegin, RetryWork, RetryEnd, RetryStore DEF CallStep
<1>. QED  BY <1>1, <1>2 DEF Next

\* A keyed call that begins after an equal one was answered 2xx writes nothing, for
\* any number of concurrent calls and keys, calls that reuse the key with another
\* body included: the promise of app.py:164-209 that does hold.
THEOREM SafeRetryHolds == Spec => []SafeRetry
<1>1. Spec => []RetryInv
  BY RetryInit, RetryStep, PTL DEF Spec
<1>2. RetryInv => SafeRetry
  BY DEF RetryInv
<1>. QED  BY <1>1, <1>2, PTL

-----------------------------------------------------------------------------
(* Types, with what the control points say of the locals.                   *)

RowTypes ==
    /\ clock \in 0 .. MaxTime /\ screening \in Packs /\ decision \in Packs
    /\ caseRow \in CaseRow \union {None} /\ cached \in Packs
    /\ \A r \in idem : r.key \in IdemKeys /\ r.op \in Ops
    /\ raced \in BOOLEAN
LocalTypes ==
    /\ ts \in [Calls -> 0 .. MaxTime] /\ pack \in [Calls -> Packs]
    /\ snap \in [Calls -> Statuses \union {None}]

\* A call that has begun has an operation, each control point belongs to the handlers
\* that pass it, and an assign that has read a status still has it.
Shaped(c) ==
    /\ pc[c] # "ready" => op[c] \in Ops
    /\ pc[c] \in {"pack", "insert"} => op[c] = "screen"
    /\ pc[c] = "decision" => op[c] = "decide"
    /\ pc[c] = "read" => op[c] # "screen"
    /\ pc[c] = "case" => op[c] # "comment"
    /\ op[c] = "assign" /\ pc[c] \in {"event", "case"} => snap[c] \in Statuses

\* Timestamps are of the past.
TsPast == \A c \in Calls : ts[c] <= clock

TypeInv == CallTypes /\ RowTypes /\ LocalTypes /\ TsPast /\ \A c \in Calls : Shaped(c)

LEMMA CaseConstants ==
    /\ Ops \subseteq AllOps /\ None \notin IdemKeys /\ None \notin Calls /\ Flagged \in BOOLEAN
    /\ MaxTime \in Nat /\ 0 \in 0 .. MaxTime /\ IsFiniteSet(Calls)
  BY CaseAssumption

LEMMA CaseTypeInit == Init => TypeInv
<1>. SUFFICES ASSUME Init PROVE TypeInv
  OBVIOUS
<1>1. CallTypes /\ LocalTypes
  BY CaseConstants DEF Init, CallTypes, LocalTypes, Packs
<1>2. RowTypes
  BY CaseConstants DEF Init, RowTypes, Packs
<1>3. \A c \in Calls : Shaped(c)
  BY DEF Init, Shaped
<1>4. TsPast
  <2>1. clock = 0 /\ \A c \in Calls : ts[c] = 0
    BY DEF Init
  <2>2. 0 <= 0
    OBVIOUS
  <2>. QED  BY <2>1, <2>2 DEF TsPast
<1>. QED  BY <1>1, <1>2, <1>3, <1>4 DEF TypeInv

\* A step of call c keeps the shapes if c's own is kept: it touches no other call.
Own(c) == \A b \in Calls : b # c =>
    /\ pc'[b] = pc[b] /\ op'[b] = op[b] /\ ts'[b] = ts[b] /\ snap'[b] = snap[b]
    /\ pack'[b] = pack[b]

LEMMA ShapeFrame ==
    ASSUME TypeInv, CallTypes', RowTypes', LocalTypes', NEW c \in Calls, Own(c), clock' = clock,
           ts'[c] \in {0, ts[c], clock}, Shaped(c)'
    PROVE  TypeInv'
<1>1. ASSUME NEW b \in Calls, b # c PROVE Shaped(b)'
  BY <1>1 DEF TypeInv, Shaped, Own
<1>2. TsPast'
  <2>. SUFFICES ASSUME NEW b \in Calls PROVE ts'[b] <= clock
    BY DEF TsPast
  <2>1. ts[b] <= clock /\ clock \in 0 .. MaxTime /\ MaxTime \in Nat
    BY CaseConstants DEF TypeInv, TsPast, RowTypes
  <2>2. ts'[b] = 0 \/ ts'[b] = ts[b] \/ ts'[b] = clock
    BY DEF Own
  <2>. QED  BY <2>1, <2>2
<1>. QED  BY <1>1, <1>2 DEF TypeInv

\* The last step of a handler.
LEMMA AnswerTypes ==
    ASSUME TypeInv, NEW c \in Calls, NEW o, Answer(c, o)
    PROVE  /\ LocalTypes'
           /\ pc' = [pc EXCEPT ![c] = "done"]
           /\ ts'[c] = 0
           /\ \A b \in Calls : b # c => /\ ts'[b] = ts[b] /\ snap'[b] = snap[b]
                                        /\ pack'[b] = pack[b]
<1>1. LocalTypes /\ None \in Packs
  BY DEF TypeInv, Packs
<1>. QED  BY <1>1, CaseConstants DEF Answer, Goto, LocalTypes

LEMMA TypeBegin ==
    ASSUME TypeInv, CallTypes', NEW c \in Calls, NEW o \in Ops, NEW k \in IdemKeys \union {None},
           Begin(c, o, k)
    PROVE  TypeInv'
<1>1. /\ pc[c] = "ready" /\ op' = [op EXCEPT ![c] = o]
      /\ UNCHANGED <<clock, screening, caseRow, decision, idem, cached>>
  BY DEF Begin, tables
<1>2. RowTypes'
  <2>1. raced' \in BOOLEAN
    BY Zenon DEF Begin, TypeInv, RowTypes
  <2>. QED  BY <1>1, <2>1 DEF TypeInv, RowTypes
<1>3. CASE /\ Goto(c, IF o = "screen" THEN "pack" ELSE "read")
           /\ UNCHANGED <<ts, pack, snap, outcome>>
  <2>1. LocalTypes' /\ Own(c)
    BY <1>1, <1>3 DEF TypeInv, CallTypes, LocalTypes, Own, Goto
  <2>2. Shaped(c)'
    BY <1>1, <1>3 DEF TypeInv, CallTypes, LocalTypes, Shaped, Goto
  <2>3. ts'[c] = ts[c] /\ clock' = clock
    BY <1>1, <1>3
  <2>. QED  BY <1>2, <2>1, <2>2, <2>3, ShapeFrame
<1>4. CASE \E r \in idem : Answer(c, IF r.op = o THEN "replayed" ELSE "conflict")
  <2>1. /\ LocalTypes' /\ pc' = [pc EXCEPT ![c] = "done"] /\ ts'[c] = 0
        /\ \A b \in Calls : b # c => /\ ts'[b] = ts[b] /\ snap'[b] = snap[b]
                                     /\ pack'[b] = pack[b]
    BY <1>4, AnswerTypes
  <2>2. Own(c)
    BY <1>1, <2>1 DEF TypeInv, CallTypes, Own
  <2>3. Shaped(c)'
    BY <1>1, <2>1, CaseConstants DEF TypeInv, CallTypes, Shaped
  <2>. QED  BY <1>1, <1>2, <2>1, <2>2, <2>3, ShapeFrame
<1>. QED  BY <1>3, <1>4 DEF Begin

\* The steps of a screening call up to its rows.
LEMMA TypeScreen ==
    ASSUME TypeInv, CallTypes', NEW c \in Calls, ChoosePack(c) \/ InsertScreening(c)
    PROVE  TypeInv'
<1>1. CASE ChoosePack(c)
  <2>1. PICK p \in Packs : pack' = [pack EXCEPT ![c] = p] /\ cached' = p
    BY <1>1 DEF ChoosePack, TypeInv, RowTypes, Packs
  <2>2. /\ pc[c] = "pack" /\ pc' = [pc EXCEPT ![c] = "insert"]
        /\ UNCHANGED <<clock, screening, caseRow, decision, idem, op, ts, snap, raced>>
    BY <1>1 DEF ChoosePack, Goto, tables, history
  <2>3. RowTypes' /\ LocalTypes'
    BY <2>1, <2>2 DEF TypeInv, RowTypes, LocalTypes
  <2>4. Own(c)
    BY <2>1, <2>2 DEF TypeInv, CallTypes, LocalTypes, Own
  <2>5. Shaped(c)'
    BY <2>2 DEF TypeInv, CallTypes, Shaped
  <2>. QED  BY <2>2, <2>3, <2>4, <2>5, ShapeFrame
<1>2. CASE InsertScreening(c)
  <2>1. /\ pc[c] = "insert" /\ pc' = [pc EXCEPT ![c] = "case"]
        /\ screening' = pack[c] /\ ts' = [ts EXCEPT ![c] = clock]
        /\ UNCHANGED <<clock, caseRow, decision, idem, cached, op, snap, pack, raced>>
    BY <1>2 DEF InsertScreening, Goto
  <2>2. RowTypes' /\ LocalTypes'
    BY <2>1 DEF TypeInv, RowTypes, LocalTypes
  <2>3. Own(c)
    BY <2>1 DEF TypeInv, CallTypes, LocalTypes, Own
  <2>4. Shaped(c)'
    BY <2>1, CaseConstants DEF TypeInv, CallTypes, LocalTypes, Shaped
  <2>5. ts'[c] = clock
    BY <2>1 DEF TypeInv, LocalTypes
  <2>. QED  BY <2>1, <2>2, <2>3, <2>4, <2>5, ShapeFrame
<1>. QED  BY <1>1, <1>2

LEMMA TypeRead ==
    ASSUME TypeInv, CallTypes', NEW c \in Calls, ReadRow(c)
    PROVE  TypeInv'
<1>1. /\ pc[c] = "read" /\ UNCHANGED <<clock, screening, caseRow, decision, idem, cached, op, raced>>
  BY DEF ReadRow, tables, history
<1>2. RowTypes'
  BY <1>1 DEF TypeInv, RowTypes
<1>3. CASE Answer(c, "missing")
  <2>1. /\ LocalTypes' /\ pc' = [pc EXCEPT ![c] = "done"] /\ ts'[c] = 0
        /\ \A b \in Calls : b # c => /\ ts'[b] = ts[b] /\ snap'[b] = snap[b]
                                     /\ pack'[b] = pack[b]
    BY <1>3, AnswerTypes
  <2>2. Own(c)
    BY <1>1, <2>1 DEF TypeInv, CallTypes, Own
  <2>3. Shaped(c)'
    BY <1>1, <2>1, CaseConstants DEF TypeInv, CallTypes, Shaped
  <2>. QED  BY <1>1, <1>2, <2>1, <2>2, <2>3, ShapeFrame
<1>4. CASE ~ Answer(c, "missing")
  <2>1. /\ op[c] # "decide" => caseRow # None
        /\ ts' = [ts EXCEPT ![c] = clock]
        /\ snap' = [snap EXCEPT ![c] = IF op[c] = "assign" THEN caseRow.status ELSE None]
        /\ pack' = [pack EXCEPT ![c] = IF op[c] = "decide" THEN screening ELSE caseRow.pack]
        /\ pc' = [pc EXCEPT ![c] = IF op[c] = "decide" THEN "decision" ELSE "event"]
    BY <1>4 DEF ReadRow, Goto
  <2>2. op[c] # "decide" => caseRow.status \in Statuses /\ caseRow.pack \in Packs
    BY <2>1 DEF TypeInv, RowTypes, CaseRow
  <2>3. LocalTypes'
    BY <2>1, <2>2 DEF TypeInv, RowTypes, LocalTypes
  <2>4. Own(c)
    BY <1>1, <2>1 DEF TypeInv, CallTypes, LocalTypes, Own
  <2>5. Shaped(c)'
    BY <1>1, <2>1, <2>2, CaseConstants DEF TypeInv, CallTypes, LocalTypes, Shaped
  <2>6. ts'[c] = clock
    BY <2>1 DEF TypeInv, LocalTypes
  <2>. QED  BY <1>1, <1>2, <2>3, <2>4, <2>5, <2>6, ShapeFrame
<1>. QED  BY <1>3, <1>4

\* What UpsertCase writes is a status.
LEMMA NewStatusType ==
    ASSUME TypeInv, NEW c \in Calls, pc[c] = "case"
    PROVE  NewStatus(c) \in Statuses
  BY DEF TypeInv, Shaped, NewStatus, Statuses

LEMMA TypeRows ==
    ASSUME TypeInv, CallTypes', NEW c \in Calls,
           RecordDecision(c) \/ UpsertCase(c) \/ InsertEvent(c)
    PROVE  TypeInv'
<1>1. CASE RecordDecision(c)
  <2>1. /\ pc[c] = "decision" /\ pc' = [pc EXCEPT ![c] = "case"] /\ decision' = pack[c]
        /\ UNCHANGED <<clock, screening, caseRow, idem, cached, op, ts, pack, snap, raced>>
    BY <1>1 DEF RecordDecision, Goto, locals
  <2>2. RowTypes' /\ LocalTypes'
    BY <2>1 DEF TypeInv, RowTypes, LocalTypes
  <2>3. Own(c) /\ Shaped(c)'
    BY <2>1 DEF TypeInv, CallTypes, Own, Shaped
  <2>. QED  BY <2>1, <2>2, <2>3, ShapeFrame
<1>2. CASE UpsertCase(c)
  <2>1. PICK l \in {"event", "store"} :
            /\ pc[c] = "case" /\ pc' = [pc EXCEPT ![c] = l]
            /\ l = "event" => op[c] \in {"screen", "decide"}
            /\ caseRow' = [status |-> NewStatus(c), pack |-> pack[c]]
            /\ pack' = [pack EXCEPT ![c] = None] /\ snap' = [snap EXCEPT ![c] = None]
            /\ UNCHANGED <<clock, screening, decision, idem, cached, op, ts, raced>>
    BY <1>2 DEF UpsertCase, Goto, history
  <2>2. RowTypes' /\ LocalTypes'
    BY <2>1, NewStatusType DEF TypeInv, RowTypes, LocalTypes, CaseRow, Packs
  <2>3. Own(c) /\ Shaped(c)'
    BY <2>1 DEF TypeInv, CallTypes, LocalTypes, Own, Shaped
  <2>. QED  BY <2>1, <2>2, <2>3, ShapeFrame
<1>3. CASE InsertEvent(c)
  <2>1. PICK l \in {"emit", "store", "case"} :
            /\ pc[c] = "event" /\ pc' = [pc EXCEPT ![c] = l]
            /\ l = "case" => op[c] # "comment"
            /\ ts' = [ts EXCEPT ![c] = 0]
            /\ UNCHANGED <<clock, screening, caseRow, decision, idem, cached, op, pack, snap, raced>>
    BY <1>3 DEF InsertEvent, AfterEvent, Goto
  <2>2. RowTypes' /\ LocalTypes'
    BY <2>1, CaseConstants DEF TypeInv, RowTypes, LocalTypes
  <2>3. Own(c) /\ Shaped(c)'
    BY <2>1, CaseConstants DEF TypeInv, CallTypes, LocalTypes, Own, Shaped
  <2>. QED  BY <2>1, <2>2, <2>3, ShapeFrame
<1>. QED  BY <1>1, <1>2, <1>3

LEMMA TypeEnd ==
    ASSUME TypeInv, CallTypes', NEW c \in Calls, EmitWebhooks(c) \/ Store(c) \/ Die(c)
    PROVE  TypeInv'
<1>1. /\ pc[c] # "ready"
      /\ UNCHANGED <<clock, screening, caseRow, decision, cached, op>>
  BY DEF EmitWebhooks, Store, Die, tables
<1>2. RowTypes'
  <2>1. raced' \in BOOLEAN
    BY Zenon DEF EmitWebhooks, Store, Die, history, TypeInv, RowTypes
  <2>2. \A r \in idem' : r.key \in IdemKeys /\ r.op \in Ops
    <3>1. CASE Store(c)
      <4>1. op[c] \in Ops /\ idemKey[c] \in IdemKeys \union {None}
        BY <1>1 DEF TypeInv, CallTypes, Shaped
      <4>2. \/ idem' = idem
            \/ /\ idemKey[c] # None
               /\ idem' = idem \union {[scope |-> Scope(op[c]), key |-> idemKey[c], op |-> op[c]]}
        BY <3>1 DEF Store
      <4>. QED  BY <4>1, <4>2 DEF TypeInv, RowTypes
    <3>2. CASE EmitWebhooks(c) \/ Die(c)
      BY <3>2 DEF EmitWebhooks, Die, tables, TypeInv, RowTypes
    <3>. QED  BY <3>1, <3>2
  <2>. QED  BY <1>1, <2>1, <2>2 DEF TypeInv, RowTypes
<1>3. CASE \E o \in {"ok", "error"} : Answer(c, o)
  <2>1. /\ LocalTypes' /\ pc' = [pc EXCEPT ![c] = "done"] /\ ts'[c] = 0
        /\ \A b \in Calls : b # c => /\ ts'[b] = ts[b] /\ snap'[b] = snap[b]
                                     /\ pack'[b] = pack[b]
    BY <1>3, AnswerTypes
  <2>2. Own(c)
    BY <1>1, <2>1 DEF TypeInv, CallTypes, Own
  <2>3. Shaped(c)'
    BY <1>1, <2>1, CaseConstants DEF TypeInv, CallTypes, Shaped
  <2>. QED  BY <1>1, <1>2, <2>1, <2>2, <2>3, ShapeFrame
<1>4. CASE Goto(c, "store") /\ UNCHANGED <<ts, pack, snap>>
  <2>1. LocalTypes' /\ Own(c) /\ Shaped(c)'
    BY <1>1, <1>4 DEF TypeInv, CallTypes, LocalTypes, Own, Shaped, Goto
  <2>2. ts'[c] = ts[c] /\ clock' = clock
    BY <1>1, <1>4
  <2>. QED  BY <1>2, <2>1, <2>2, ShapeFrame
<1>. QED  BY <1>3, <1>4 DEF EmitWebhooks, Store, Die

\* Every step is one of the actions, or changes nothing.
LEMMA CaseSteps ==
    ASSUME [Next]_vars
    PROVE  \/ \E c \in Calls :
                \/ \E o \in Ops, k \in IdemKeys \union {None} : Begin(c, o, k)
                \/ ChoosePack(c) \/ InsertScreening(c) \/ ReadRow(c) \/ RecordDecision(c)
                \/ UpsertCase(c) \/ InsertEvent(c) \/ EmitWebhooks(c) \/ Store(c) \/ Die(c)
           \/ ClockTick
           \/ UNCHANGED vars
  BY Zenon DEF Next, CallStep

LEMMA CaseTypeStep == TypeInv /\ CallTypes' /\ [Next]_vars => TypeInv'
<1>. SUFFICES ASSUME TypeInv, CallTypes', [Next]_vars PROVE TypeInv'
  OBVIOUS
<1>1. CASE ClockTick
  <2>1. /\ clock < MaxTime /\ clock' = clock + 1
        /\ UNCHANGED <<screening, caseRow, decision, idem, cached, raced, pc, op, ts, pack, snap>>
    BY <1>1 DEF ClockTick, tables, locals, history
  <2>2. RowTypes' /\ TsPast'
    BY <2>1, CaseConstants DEF TypeInv, RowTypes, LocalTypes, TsPast
  <2>. QED  BY <2>1, <2>2 DEF TypeInv, LocalTypes, Shaped
<1>2. CASE UNCHANGED vars
  BY <1>2 DEF vars, tables, locals, history, TypeInv, RowTypes, LocalTypes, TsPast, Shaped
<1>. QED
  BY <1>1, <1>2, CaseSteps, TypeBegin, TypeScreen, TypeRead, TypeRows, TypeEnd, Zenon

-----------------------------------------------------------------------------
(* The events: at most one of a call, numbered as they were inserted, with a *)
(* timestamp of the past.                                                   *)

EventRow == [id : Nat, ts : 0 .. MaxTime, by : Calls]

\* A call that may have inserted its event.
HadEvent(c) ==
    pc[c] \in {"emit", "store", "done"} \/ (pc[c] = "case" /\ op[c] \notin {"screen", "decide"})

EventRows == events \subseteq EventRow /\ IsFiniteSet(events)
EventsPast ==
    \A e \in events : e.ts <= clock /\ e.id \in 1 .. Cardinality(events) /\ HadEvent(e.by)
EventsSingle == \A e, f \in events : e.by = f.by \/ e.id = f.id => e = f
EventInv == EventRows /\ EventsPast /\ EventsSingle

LEMMA EventInit == Init => EventInv
  BY FS_EmptySet DEF Init, EventInv, EventRows, EventsPast, EventsSingle

LEMMA EventFrame ==
    ASSUME TypeInv, EventInv, events' = events, clock' = clock \/ clock' = clock + 1,
           \A c \in Calls : HadEvent(c) => HadEvent(c)'
    PROVE  EventInv'
<1>1. EventRows' /\ EventsSingle'
  BY DEF EventInv, EventRows, EventsSingle
<1>2. ASSUME NEW e \in events
      PROVE  e.ts <= clock' /\ e.id \in 1 .. Cardinality(events) /\ HadEvent(e.by)'
  <2>1. e.by \in Calls /\ e.ts \in 0 .. MaxTime
    BY DEF EventInv, EventRows, EventRow
  <2>2. e.ts <= clock /\ e.id \in 1 .. Cardinality(events) /\ HadEvent(e.by)
    BY DEF EventInv, EventsPast
  <2>3. clock \in 0 .. MaxTime /\ MaxTime \in Nat
    BY CaseConstants DEF TypeInv, RowTypes
  <2>4. e.ts <= clock'
    BY <2>1, <2>2, <2>3
  <2>. QED  BY <2>1, <2>2, <2>4
<1>3. EventsPast'
  BY <1>2 DEF EventsPast
<1>. QED  BY <1>1, <1>3 DEF EventInv

\* What insert_case_event adds.
NewEvent(c) == [id |-> Cardinality(events) + 1, ts |-> ts[c], by |-> c]

LEMMA Inserted ==
    ASSUME TypeInv, EventInv, NEW c \in Calls, InsertEvent(c)
    PROVE  /\ events' = events \union {NewEvent(c)} /\ NewEvent(c) \in EventRow
           /\ pc[c] = "event" /\ UNCHANGED <<clock, op>>
           /\ NewEvent(c).by = c /\ NewEvent(c).ts = ts[c]
           /\ NewEvent(c).id = Cardinality(events) + 1
           /\ Cardinality(events) \in Nat
           /\ \A e \in events : e.by # c /\ e.id < NewEvent(c).id
<1>1. Cardinality(events) \in Nat
  BY FS_CardinalityType DEF EventInv, EventRows
<1>2. ts[c] \in 0 .. MaxTime
  BY DEF TypeInv, LocalTypes
<1>3. NewEvent(c) \in EventRow
  BY <1>1, <1>2 DEF NewEvent, EventRow
<1>4. events' = events \union {NewEvent(c)} /\ pc[c] = "event" /\ UNCHANGED <<clock, op>>
  BY DEF InsertEvent, NewEvent
<1>5. \A e \in events : e.by # c
  BY <1>4 DEF EventInv, EventsPast, HadEvent
<1>6. NewEvent(c).by = c /\ NewEvent(c).ts = ts[c] /\ NewEvent(c).id = Cardinality(events) + 1
  BY DEF NewEvent
<1>7. \A e \in events : e.id < NewEvent(c).id
  <2>1. \A e \in events : e.id \in 1 .. Cardinality(events)
    BY DEF EventInv, EventsPast
  <2>. QED  BY <1>1, <1>6, <2>1
<1>. QED  BY <1>1, <1>3, <1>4, <1>5, <1>6, <1>7

LEMMA EventInsert ==
    ASSUME TypeInv, EventInv, NEW c \in Calls, InsertEvent(c)
    PROVE  EventInv'
<1>. DEFINE n == NewEvent(c)
<1>1. /\ events' = events \union {n} /\ n \in EventRow
      /\ pc[c] = "event" /\ UNCHANGED <<clock, op>>
      /\ n.by = c /\ n.ts = ts[c] /\ n.id = Cardinality(events) + 1
      /\ Cardinality(events) \in Nat
      /\ \A e \in events : e.by # c /\ e.id < n.id
  BY Inserted
<1>. HIDE DEF n
<1>2. n \notin events
  BY <1>1
<1>3. IsFiniteSet(events') /\ Cardinality(events') = Cardinality(events) + 1
  BY <1>1, <1>2, FS_AddElement DEF EventInv, EventRows
<1>4. EventRows'
  BY <1>1, <1>3 DEF EventInv, EventRows
<1>5. \A e \in events : e.id \in 1 .. Cardinality(events)
  BY DEF EventInv, EventsPast
<1>6. \A e \in events' : e.id \in 1 .. Cardinality(events')
  BY <1>1, <1>3, <1>5
<1>7. \A e \in events' : e.ts <= clock'
  BY <1>1 DEF EventInv, EventsPast, TypeInv, TsPast
<1>8. HadEvent(c)' /\ \A b \in Calls : b # c => (HadEvent(b) => HadEvent(b)')
  BY DEF InsertEvent, AfterEvent, Goto, HadEvent, TypeInv, CallTypes
<1>9. \A e \in events' : HadEvent(e.by)'
  <2>1. \A e \in events : e.by \in Calls /\ HadEvent(e.by)
    BY DEF EventInv, EventsPast, EventRows, EventRow
  <2>. QED  BY <1>1, <1>8, <2>1
<1>10. EventsPast'
  BY <1>6, <1>7, <1>9 DEF EventsPast
<1>11. EventsSingle'
  <2>1. \A e \in events : e.id # n.id
    BY <1>1, <1>5
  <2>. QED  BY <1>1, <2>1 DEF EventInv, EventsSingle
<1>. QED  BY <1>4, <1>10, <1>11 DEF EventInv

\* No other step touches the events, nor takes a call back.
LEMMA EventsElsewhere ==
    ASSUME TypeInv, NEW c \in Calls,
           \/ \E o \in Ops, k \in IdemKeys \union {None} : Begin(c, o, k)
           \/ ChoosePack(c) \/ InsertScreening(c) \/ ReadRow(c) \/ RecordDecision(c)
           \/ UpsertCase(c) \/ EmitWebhooks(c) \/ Store(c) \/ Die(c)
    PROVE  /\ events' = events /\ clock' = clock
           /\ \A b \in Calls : HadEvent(b) => HadEvent(b)'
<1>1. events' = events /\ clock' = clock
  BY Zenon DEF Begin, ChoosePack, InsertScreening, ReadRow, RecordDecision, UpsertCase,
               EmitWebhooks, Store, Die, tables
<1>2. PICK l : pc' = [pc EXCEPT ![c] = l]
  BY Zenon DEF Begin, ChoosePack, InsertScreening, ReadRow, RecordDecision, UpsertCase,
               EmitWebhooks, Store, Die, Answer, Goto
<1>3. \A b \in Calls : b # c => pc'[b] = pc[b] /\ op'[b] = op[b]
  BY <1>2 DEF Begin, ChoosePack, InsertScreening, ReadRow, RecordDecision, UpsertCase,
              EmitWebhooks, Store, Die, locals, TypeInv, CallTypes
<1>4. HadEvent(c) => HadEvent(c)'
  BY DEF HadEvent, Begin, ChoosePack, InsertScreening, ReadRow, RecordDecision, UpsertCase,
         EmitWebhooks, Store, Die, Answer, Goto, TypeInv, CallTypes
<1>. QED  BY <1>1, <1>3, <1>4 DEF HadEvent

LEMMA EventStep == TypeInv /\ EventInv /\ [Next]_vars => EventInv'
<1>. SUFFICES ASSUME TypeInv, EventInv, [Next]_vars PROVE EventInv'
  OBVIOUS
<1>1. CASE ClockTick \/ UNCHANGED vars
  <2>1. events' = events /\ (clock' = clock \/ clock' = clock + 1) /\ UNCHANGED <<pc, op>>
    BY <1>1 DEF ClockTick, vars, tables, locals
  <2>. QED  BY <2>1, EventFrame DEF HadEvent
<1>2. CASE \E c \in Calls :
              \/ \E o \in Ops, k \in IdemKeys \union {None} : Begin(c, o, k)
              \/ ChoosePack(c) \/ InsertScreening(c) \/ ReadRow(c) \/ RecordDecision(c)
              \/ UpsertCase(c) \/ EmitWebhooks(c) \/ Store(c) \/ Die(c)
  BY <1>2, EventsElsewhere, EventFrame
<1>3. CASE \E c \in Calls : InsertEvent(c)
  BY <1>3, EventInsert
<1>. QED  BY <1>1, <1>2, <1>3, CaseSteps, Zenon

\* One event per call, so no more events than calls.
LEMMA EventsBounded == EventInv => Cardinality(events) <= Cardinality(Calls)
<1>. SUFFICES ASSUME EventInv PROVE Cardinality(events) <= Cardinality(Calls)
  OBVIOUS
<1>. DEFINE by == [e \in events |-> e.by]
<1>1. by \in Injection(events, Calls)
  BY DEF EventInv, EventRows, EventRow, EventsSingle, Injection, IsInjective
<1>. QED  BY <1>1, CaseConstants, FS_Injection

LEMMA CaseTypeOK == TypeInv /\ EventInv => TypeOK
<1>. SUFFICES ASSUME TypeInv, EventInv PROVE TypeOK
  OBVIOUS
<1>1. events \subseteq [id : 1 .. Cardinality(Calls), ts : 0 .. MaxTime, by : Calls]
  <2>1. Cardinality(events) \in Nat /\ Cardinality(Calls) \in Nat
    BY CaseConstants, FS_CardinalityType DEF EventInv, EventRows
  <2>. SUFFICES ASSUME NEW e \in events
                PROVE  e \in [id : 1 .. Cardinality(Calls), ts : 0 .. MaxTime, by : Calls]
    OBVIOUS
  <2>2. e \in EventRow /\ e.id \in 1 .. Cardinality(events)
    BY DEF EventInv, EventRows, EventsPast
  <2>3. e.id \in 1 .. Cardinality(Calls)
    BY <2>1, <2>2, EventsBounded
  <2>. QED  BY <2>2, <2>3 DEF EventRow
<1>2. \A e, f \in events : e.id = f.id => e = f
  BY DEF EventInv, EventsSingle
<1>. QED  BY <1>1, <1>2, Zenon DEF TypeOK, TypeInv, CallTypes, RowTypes, LocalTypes

LEMMA CaseInvariants == Spec => [](TypeInv /\ EventInv)
<1>1. Spec => []RetryInv
  BY RetryInit, RetryStep, PTL DEF Spec
<1>2. RetryInv => CallTypes
  BY DEF RetryInv
<1>. QED  BY <1>1, <1>2, CaseTypeInit, CaseTypeStep, EventInit, EventStep, PTL DEF Spec

\* The variables keep their types: no two events share a row id, none is numbered
\* beyond the number of calls, and every row of a case names a status and a pack.
THEOREM TypeCorrect == Spec => []TypeOK
<1>1. TypeInv /\ EventInv => TypeOK
  BY CaseTypeOK
<1>. QED  BY <1>1, CaseInvariants, PTL

\* A step that inserts an event inserts it behind every settled one.
LEMMA SettledStep ==
    ASSUME TypeInv, EventInv, [Next]_vars, events' # events, NEW e \in Timeline, Settled(e)
    PROVE  e \in Timeline' /\ UpTo(e)' = UpTo(e)
<1>1. PICK c \in Calls : InsertEvent(c)
  <2>1. ~ ClockTick /\ ~ UNCHANGED vars
    BY DEF ClockTick, vars, tables
  <2>. QED  BY <2>1, CaseSteps, EventsElsewhere
<1>. DEFINE n == NewEvent(c)
<1>2. /\ events' = events \union {n} /\ n \in EventRow
      /\ pc[c] = "event" /\ n.ts = ts[c] /\ \A f \in events : f.id < n.id
  BY <1>1, Inserted
<1>3. e \in events /\ Cardinality(UpTo(e)) <= ListLimit
  BY DEF Timeline
<1>4. e \in EventRow
  BY <1>3 DEF EventInv, EventRows
<1>. HIDE DEF n
<1>5. e.ts <= n.ts /\ e.id < n.id
  BY <1>2, <1>3 DEF Settled, AwaitsEvent
<1>6. ~ Before(n, e)
  <2>1. e.ts \in Nat /\ n.ts \in Nat /\ e.id \in Nat /\ n.id \in Nat
    BY <1>2, <1>4, CaseConstants DEF EventRow
  <2>. QED  BY <1>5, <2>1 DEF Before
<1>7. UpTo(e)' = UpTo(e)
  <2>1. UpTo(e)' = {f \in events' : Before(f, e)} \union {e}
    BY DEF UpTo, Before
  <2>2. {f \in events' : Before(f, e)} = {f \in events : Before(f, e)}
    BY <1>2, <1>6
  <2>. QED  BY <2>1, <2>2 DEF UpTo
<1>8. e \in Timeline'
  BY <1>2, <1>3, <1>7 DEF Timeline
<1>. QED  BY <1>7, <1>8

\* What a bundle exported is a prefix of every later one: the chain up to a settled
\* event never changes (list_case_events in db.py, chained by the export of a bundle).
THEOREM SettledTimelineHolds == Spec => SettledTimeline
<1>. DEFINE A == \A e \in Timeline : Settled(e) => e \in Timeline' /\ UpTo(e)' = UpTo(e)
<1>1. TypeInv /\ EventInv /\ [Next]_vars => [A]_events
  BY SettledStep
<1>2. Spec => [][A]_events
  BY <1>1, CaseInvariants, PTL DEF Spec
<1>. QED  BY <1>2 DEF SettledTimeline

-----------------------------------------------------------------------------
(* The quiet case: no two writers of the row have overlapped, none has died. *)

\* The events that set a status, the last of them, and the status it sets.
Setting == {e \in events : SetsStatus(e)}
LastSetting(e) == e \in Setting /\ \A f \in Setting : f = e \/ Before(f, e)
LastStatus(s) == \A e \in Setting : LastSetting(e) => NewStatus(e.by) = s

\* What the case row should say, once it is there.
Agrees == caseRow # None => caseRow.pack = screening /\ LastStatus(caseRow.status)

\* A call in the part of its handler that writes the case row and its event, and no
\* status event is younger than its timestamp.
Updating(c) == Writing(c) /\ pc[c] \in {"decision", "case", "event"}
NotBehind(c) == \A f \in Setting : f.ts <= ts[c]

\* A screening or a decision writes the row first, then its event; the others read a
\* row that agrees, write their event and then what the row should say by now.
BeforeRow(c) == pack[c] = screening /\ NotBehind(c)
AfterRow(c) == caseRow.pack = screening /\ caseRow.status = NewStatus(c) /\ NotBehind(c)
BeforeEvent(c) ==
    /\ caseRow # None /\ Agrees /\ pack[c] = screening /\ NotBehind(c)
    /\ op[c] = "assign" => snap[c] = caseRow.status
AfterOwnEvent(c) == pack[c] = screening /\ LastStatus(NewStatus(c))
RowFirst(c) == op[c] \in {"screen", "decide"}
Stage(c) ==
    /\ RowFirst(c) /\ pc[c] \in {"decision", "case"} => BeforeRow(c)
    /\ RowFirst(c) /\ pc[c] = "event" => AfterRow(c)
    /\ ~ RowFirst(c) /\ pc[c] = "event" => BeforeEvent(c)
    /\ ~ RowFirst(c) /\ pc[c] = "case" => AfterOwnEvent(c)

OneWriter == \A b, c \in Calls : Writing(b) /\ Writing(c) => b = c
Stages == \A c \in Calls : Updating(c) => Stage(c)
AtRest == (\A c \in Calls : ~ Updating(c)) => Agrees
Quiet == OneWriter /\ Stages /\ AtRest
QuietInv == raced \/ Quiet

LEMMA QuietInit == Init => QuietInv
  BY DEF Init, QuietInv, Quiet, OneWriter, Stages, AtRest, Agrees, Updating, Writing

\* The status events and what they say stay the same.
SameSetting == Setting' = Setting /\ \A e \in Setting : NewStatus(e.by)' = NewStatus(e.by)

LEMMA SettingType == EventInv => \A e \in Setting : e \in events /\ SetsStatus(e) /\ e.by \in Calls
  BY DEF EventInv, EventRows, EventRow, Setting

\* A step of call c that adds no status event and leaves the events of c theirs.
LEMMA SettingStays ==
    ASSUME EventInv, NEW c \in Calls, Own(c), events' = events,
           op'[c] = op[c] \/ \A e \in events : e.by # c
    PROVE  SameSetting
<1>1. \A e \in events : e.by \in Calls /\ op'[e.by] = op[e.by]
  BY DEF EventInv, EventRows, EventRow, Own
<1>2. Setting' = Setting
  BY <1>1 DEF Setting, SetsStatus
<1>3. \A e \in Setting : NewStatus(e.by)' = NewStatus(e.by)
  BY <1>1 DEF Setting, SetsStatus, NewStatus
<1>. QED  BY <1>2, <1>3 DEF SameSetting

LEMMA LastStays ==
    ASSUME SameSetting, NEW s
    PROVE  LastStatus(s)' <=> LastStatus(s)
  BY DEF SameSetting, LastStatus, LastSetting, Before

LEMMA AgreesStays ==
    ASSUME SameSetting, UNCHANGED <<caseRow, screening>>
    PROVE  Agrees' <=> Agrees
<1>1. PICK s : s = caseRow.status
  OBVIOUS
<1>2. LastStatus(s)' <=> LastStatus(s)
  BY LastStays
<1>3. LastStatus(caseRow.status)' <=> LastStatus(caseRow.status)
  BY <1>1, <1>2
<1>. QED  BY <1>3 DEF Agrees

LEMMA StageStays ==
    ASSUME SameSetting, UNCHANGED <<caseRow, screening>>, NEW b \in Calls,
           pc'[b] = pc[b], op'[b] = op[b], ts'[b] = ts[b], snap'[b] = snap[b],
           pack'[b] = pack[b], Stage(b)
    PROVE  Stage(b)'
<1>1. NotBehind(b)' <=> NotBehind(b)
  BY DEF NotBehind, SameSetting
<1>2. NewStatus(b)' = NewStatus(b)
  BY DEF NewStatus
<1>3. PICK s : s = NewStatus(b)
  OBVIOUS
<1>4. LastStatus(s)' <=> LastStatus(s)
  BY LastStays
<1>5. LastStatus(NewStatus(b))' <=> LastStatus(NewStatus(b))
  BY <1>2, <1>3, <1>4
<1>6. Agrees' <=> Agrees
  BY AgreesStays
<1>. QED
  BY <1>1, <1>2, <1>5, <1>6 DEF Stage, RowFirst, BeforeRow, AfterRow, BeforeEvent, AfterOwnEvent

\* A step of a call that updates nothing, before or after.
LEMMA QuietFrame ==
    ASSUME Quiet, NEW c \in Calls, SameSetting, Own(c), UNCHANGED <<caseRow, screening>>,
           ~ Updating(c), ~ Updating(c)', Writing(c)' => \A b \in Calls : b # c => ~ Writing(b)
    PROVE  Quiet'
<1>1. \A b \in Calls : b # c => (Writing(b)' <=> Writing(b)) /\ (Updating(b)' <=> Updating(b))
  BY DEF Own, Writing, Updating
<1>2. OneWriter'
  BY <1>1 DEF Quiet, OneWriter
<1>3. Stages'
  <2>. SUFFICES ASSUME NEW b \in Calls, Updating(b)' PROVE Stage(b)'
    BY DEF Stages
  <2>1. b # c
    OBVIOUS
  <2>2. Stage(b)
    BY <1>1, <2>1 DEF Quiet, Stages
  <2>. QED  BY <2>1, <2>2, StageStays DEF Own
<1>4. AtRest'
  BY <1>1, AgreesStays DEF Quiet, AtRest
<1>. QED  BY <1>2, <1>3, <1>4 DEF Quiet

\* A step of the one call that is writing.
LEMMA SoleWriter ==
    ASSUME Quiet, NEW c \in Calls, Own(c), Writing(c),
           Updating(c)' => Stage(c)', ~ Updating(c)' => Agrees'
    PROVE  Quiet'
<1>1. \A b \in Calls : b # c => ~ Writing(b)' /\ ~ Updating(b)'
  BY DEF Quiet, OneWriter, Own, Writing, Updating
<1>2. OneWriter'
  BY <1>1 DEF OneWriter
<1>3. Stages' /\ AtRest'
  BY <1>1 DEF Stages, AtRest
<1>. QED  BY <1>2, <1>3 DEF Quiet

\* Before a writer has come to its update, nobody updates.
LEMMA AgreesWhile ==
    ASSUME Quiet, NEW c \in Calls, Writing(c), ~ Updating(c)
    PROVE  Agrees
  BY DEF Quiet, OneWriter, AtRest, Updating

\* A timestamp sampled now is not behind any event.
LEMMA NowNotBehind ==
    ASSUME TypeInv, EventInv, SameSetting, NEW c \in Calls, ts' = [ts EXCEPT ![c] = clock]
    PROVE  NotBehind(c)'
  BY DEF NotBehind, SameSetting, Setting, EventInv, EventsPast, TypeInv, LocalTypes

\* A keyed or plain call begins: it has no event yet, and updates nothing yet.
LEMMA QuietBegin ==
    ASSUME TypeInv, EventInv, Quiet, NEW c \in Calls, NEW o \in Ops,
           NEW k \in IdemKeys \union {None}, Begin(c, o, k), ~ raced'
    PROVE  Quiet'
<1>1. /\ pc[c] = "ready" /\ op' = [op EXCEPT ![c] = o]
      /\ UNCHANGED <<clock, screening, caseRow, events>>
  BY DEF Begin, tables
<1>2. \A e \in events : e.by # c
  BY <1>1 DEF EventInv, EventsPast, HadEvent
<1>3. ~ Updating(c)
  BY <1>1 DEF Updating
<1>4. CASE /\ Goto(c, IF o = "screen" THEN "pack" ELSE "read")
           /\ raced' = (raced \/ (o \in CaseWriters /\ \E b \in Calls : Writing(b)))
           /\ UNCHANGED <<ts, pack, snap, outcome>>
  <2>1. PICK l \in {"pack", "read"} : pc' = [pc EXCEPT ![c] = l]
    BY <1>4 DEF Goto
  <2>2. Own(c) /\ pc'[c] = l /\ op'[c] = o
    BY <1>1, <1>4, <2>1 DEF TypeInv, CallTypes, Own
  <2>3. o \in CaseWriters => \A b \in Calls : ~ Writing(b)
    BY <1>4, Zenon
  <2>4. ~ Updating(c)' /\ (Writing(c)' => \A b \in Calls : b # c => ~ Writing(b))
    BY <2>2, <2>3 DEF Updating, Writing
  <2>. QED  BY <1>1, <1>2, <1>3, <2>2, <2>4, SettingStays, QuietFrame
<1>5. CASE \E r \in idem : Answer(c, IF r.op = o THEN "replayed" ELSE "conflict")
  <2>1. /\ LocalTypes' /\ pc' = [pc EXCEPT ![c] = "done"] /\ ts'[c] = 0
        /\ \A b \in Calls : b # c => /\ ts'[b] = ts[b] /\ snap'[b] = snap[b]
                                     /\ pack'[b] = pack[b]
    BY <1>5, AnswerTypes
  <2>2. Own(c) /\ pc'[c] = "done"
    BY <1>1, <2>1 DEF TypeInv, CallTypes, Own
  <2>3. ~ Updating(c)' /\ ~ Writing(c)'
    BY <2>2 DEF Updating, Writing
  <2>. QED  BY <1>1, <1>2, <1>3, <2>2, <2>3, SettingStays, QuietFrame
<1>. QED  BY <1>4, <1>5 DEF Begin

\* The last steps of a call: the row and the events are written.  A writer that dies
\* in the middle is the crash the property excepts.
LEMMA QuietEnd ==
    ASSUME TypeInv, EventInv, Quiet, NEW c \in Calls,
           EmitWebhooks(c) \/ Store(c) \/ Die(c) \/ (ReadRow(c) /\ Answer(c, "missing")), ~ raced'
    PROVE  Quiet'
<1>1. UNCHANGED <<op, screening, caseRow, events>>
  BY DEF EmitWebhooks, Store, Die, ReadRow, tables
<1>2. ~ Updating(c) /\ (pc[c] \in {"ready", "done"} => ~ Writing(c))
  <2>1. CASE Die(c)
    <3>1. ~ Writing(c)
      BY <2>1, Zenon DEF Die
    <3>. QED  BY <3>1 DEF Updating
  <2>2. CASE EmitWebhooks(c) \/ Store(c) \/ ReadRow(c)
    BY <2>2 DEF EmitWebhooks, Store, ReadRow, Updating, Writing
  <2>. QED  BY <2>1, <2>2
<1>3. PICK l \in {"store", "done"} :
          /\ pc' = [pc EXCEPT ![c] = l]
          /\ l = "store" => pc[c] = "emit"
          /\ \A b \in Calls : b # c => /\ ts'[b] = ts[b] /\ snap'[b] = snap[b]
                                       /\ pack'[b] = pack[b]
  <2>1. CASE \E o : Answer(c, o)
    BY <2>1, AnswerTypes
  <2>2. CASE EmitWebhooks(c) /\ Goto(c, "store") /\ UNCHANGED <<ts, pack, snap>>
    BY <2>2 DEF EmitWebhooks, Goto
  <2>. QED  BY <2>1, <2>2 DEF EmitWebhooks, Store, Die
<1>4. Own(c) /\ pc'[c] = l
  BY <1>1, <1>3 DEF TypeInv, CallTypes, Own
<1>5. ~ Updating(c)' /\ (Writing(c)' => Writing(c))
  BY <1>1, <1>3, <1>4 DEF Updating, Writing
<1>6. Writing(c)' => \A b \in Calls : b # c => ~ Writing(b)
  BY <1>5 DEF Quiet, OneWriter
<1>. QED  BY <1>1, <1>2, <1>4, <1>5, <1>6, SettingStays, QuietFrame

LEMMA QuietChoose ==
    ASSUME TypeInv, EventInv, Quiet, NEW c \in Calls, ChoosePack(c)
    PROVE  Quiet'
<1>1. /\ pc[c] = "pack" /\ pc' = [pc EXCEPT ![c] = "insert"]
      /\ UNCHANGED <<screening, caseRow, events, op, ts, snap>>
      /\ \E p : pack' = [pack EXCEPT ![c] = p]
  BY DEF ChoosePack, Goto, tables
<1>2. Own(c) /\ pc'[c] = "insert"
  BY <1>1 DEF TypeInv, CallTypes, LocalTypes, Own
<1>3. ~ Updating(c) /\ ~ Updating(c)' /\ (Writing(c)' => Writing(c))
  BY <1>1, <1>2 DEF Updating, Writing
<1>4. Writing(c)' => \A b \in Calls : b # c => ~ Writing(b)
  BY <1>3 DEF Quiet, OneWriter
<1>. QED  BY <1>1, <1>2, <1>3, <1>4, SettingStays, QuietFrame

LEMMA QuietInsert ==
    ASSUME TypeInv, EventInv, Quiet, NEW c \in Calls, InsertScreening(c)
    PROVE  Quiet'
<1>1. /\ pc[c] = "insert" /\ op[c] = "screen" /\ pc' = [pc EXCEPT ![c] = "case"]
      /\ screening' = pack[c] /\ ts' = [ts EXCEPT ![c] = clock]
      /\ UNCHANGED <<caseRow, events, op, snap, pack>>
  BY DEF InsertScreening, Goto, TypeInv, Shaped
<1>2. Own(c) /\ pc'[c] = "case"
  BY <1>1 DEF TypeInv, CallTypes, LocalTypes, Own
<1>3. NotBehind(c)'
  BY <1>1, <1>2, SettingStays, NowNotBehind
<1>4. Writing(c) /\ Updating(c)'
  BY <1>1, <1>2 DEF Writing, Updating, CaseWriters
<1>5. Stage(c)'
  BY <1>1, <1>2, <1>3 DEF Stage, RowFirst, BeforeRow
<1>. QED  BY <1>2, <1>4, <1>5, SoleWriter

\* get_screening or get_case, by a call that finds its row.
LEMMA QuietRead ==
    ASSUME TypeInv, EventInv, Quiet, NEW c \in Calls, ReadRow(c), ~ Answer(c, "missing")
    PROVE  Quiet'
<1>1. /\ pc[c] = "read" /\ op[c] # "screen" /\ op[c] \in Ops
      /\ UNCHANGED <<screening, caseRow, events, op>>
  BY DEF ReadRow, tables, TypeInv, Shaped
<1>2. /\ op[c] # "decide" => caseRow # None
      /\ ts' = [ts EXCEPT ![c] = clock]
      /\ snap' = [snap EXCEPT ![c] = IF op[c] = "assign" THEN caseRow.status ELSE None]
      /\ pack' = [pack EXCEPT ![c] = IF op[c] = "decide" THEN screening ELSE caseRow.pack]
      /\ pc' = [pc EXCEPT ![c] = IF op[c] = "decide" THEN "decision" ELSE "event"]
  BY DEF ReadRow, Goto
<1>3. /\ Own(c)
      /\ pc'[c] = (IF op[c] = "decide" THEN "decision" ELSE "event")
      /\ snap'[c] = (IF op[c] = "assign" THEN caseRow.status ELSE None)
      /\ pack'[c] = (IF op[c] = "decide" THEN screening ELSE caseRow.pack)
  BY <1>1, <1>2 DEF TypeInv, CallTypes, LocalTypes, Own
<1>4. SameSetting
  BY <1>1, <1>3, SettingStays
<1>5. CASE op[c] = "comment"
  <2>1. ~ Writing(c) /\ ~ Updating(c) /\ ~ Writing(c)' /\ ~ Updating(c)'
    BY <1>1, <1>5 DEF Writing, Updating, CaseWriters
  <2>. QED  BY <1>1, <1>3, <1>4, <2>1, QuietFrame
<1>6. CASE op[c] # "comment"
  <2>1. Writing(c) /\ ~ Updating(c) /\ Updating(c)'
    BY <1>1, <1>3, <1>6, CaseConstants DEF Writing, Updating, CaseWriters, AllOps
  <2>2. NotBehind(c)'
    BY <1>2, <1>4, NowNotBehind
  <2>3. Agrees /\ Agrees'
    BY <1>1, <1>4, <2>1, AgreesWhile, AgreesStays
  <2>4. CASE op[c] = "decide"
    <3>1. BeforeRow(c)'
      BY <1>1, <1>3, <2>2, <2>4 DEF BeforeRow
    <3>2. Stage(c)'
      BY <1>1, <1>3, <2>4, <3>1 DEF Stage, RowFirst
    <3>. QED  BY <1>3, <2>1, <3>2, SoleWriter
  <2>5. CASE op[c] # "decide"
    <3>1. caseRow.pack = screening /\ caseRow' # None
      BY <1>1, <1>2, <2>3, <2>5 DEF Agrees
    <3>2. BeforeEvent(c)'
      BY <1>1, <1>3, <2>2, <2>3, <2>5, <3>1 DEF BeforeEvent
    <3>3. Stage(c)'
      BY <1>1, <1>3, <2>5, <3>2 DEF Stage, RowFirst
    <3>. QED  BY <1>3, <2>1, <3>3, SoleWriter
  <2>. QED  BY <2>4, <2>5
<1>. QED  BY <1>5, <1>6

LEMMA QuietDecision ==
    ASSUME TypeInv, EventInv, Quiet, NEW c \in Calls, RecordDecision(c)
    PROVE  Quiet'
<1>1. /\ pc[c] = "decision" /\ op[c] = "decide" /\ pc' = [pc EXCEPT ![c] = "case"]
      /\ UNCHANGED <<screening, caseRow, events, op, ts, pack, snap>>
  BY DEF RecordDecision, Goto, locals, TypeInv, Shaped
<1>2. Own(c) /\ pc'[c] = "case"
  BY <1>1 DEF TypeInv, CallTypes, Own
<1>3. Writing(c) /\ Updating(c) /\ Updating(c)'
  BY <1>1, <1>2 DEF Writing, Updating, CaseWriters
<1>4. BeforeRow(c)
  BY <1>1, <1>3 DEF Quiet, Stages, Stage, RowFirst
<1>5. BeforeRow(c)'
  BY <1>1, <1>2, <1>4, SettingStays DEF BeforeRow, NotBehind, SameSetting
<1>6. Stage(c)'
  BY <1>1, <1>2, <1>5 DEF Stage, RowFirst
<1>. QED  BY <1>2, <1>3, <1>6, SoleWriter

LEMMA QuietUpsert ==
    ASSUME TypeInv, EventInv, Quiet, NEW c \in Calls, UpsertCase(c)
    PROVE  Quiet'
<1>1. /\ pc[c] = "case" /\ op[c] # "comment" /\ op[c] \in Ops
      /\ caseRow' = [status |-> NewStatus(c), pack |-> pack[c]]
      /\ pc' = [pc EXCEPT ![c] = IF RowFirst(c) THEN "event" ELSE "store"]
      /\ UNCHANGED <<screening, events, op, ts>>
      /\ pack' = [pack EXCEPT ![c] = None] /\ snap' = [snap EXCEPT ![c] = None]
  BY DEF UpsertCase, Goto, RowFirst, TypeInv, Shaped
<1>2. Own(c) /\ pc'[c] = (IF RowFirst(c) THEN "event" ELSE "store")
  BY <1>1 DEF TypeInv, CallTypes, LocalTypes, Own
<1>3. SameSetting
  BY <1>1, <1>2, SettingStays
<1>4. Writing(c) /\ Updating(c) /\ (Updating(c)' <=> RowFirst(c))
  <2>1. op[c] \in CaseWriters /\ op'[c] \in CaseWriters
    BY <1>1, CaseConstants DEF CaseWriters, AllOps
  <2>2. CASE RowFirst(c)
    BY <1>1, <1>2, <2>1, <2>2 DEF Writing, Updating
  <2>3. CASE ~ RowFirst(c)
    BY <1>1, <1>2, <2>1, <2>3 DEF Writing, Updating
  <2>. QED  BY <2>2, <2>3
<1>5. Stage(c)
  BY <1>4 DEF Quiet, Stages
<1>6. CASE RowFirst(c)
  <2>1. BeforeRow(c)
    BY <1>1, <1>5, <1>6 DEF Stage
  <2>2. NotBehind(c)'
    BY <1>1, <1>3, <2>1 DEF BeforeRow, NotBehind, SameSetting
  <2>3. NewStatus(c)' = NewStatus(c)
    BY <1>1, <1>6 DEF NewStatus, RowFirst
  <2>4. AfterRow(c)'
    BY <1>1, <2>1, <2>2, <2>3 DEF AfterRow, BeforeRow
  <2>5. Stage(c)'
    BY <1>1, <1>2, <1>6, <2>4 DEF Stage, RowFirst
  <2>. QED  BY <1>2, <1>4, <1>6, <2>5, SoleWriter
<1>7. CASE ~ RowFirst(c)
  <2>1. pack[c] = screening /\ LastStatus(NewStatus(c))
    BY <1>1, <1>5, <1>7 DEF Stage, AfterOwnEvent
  <2>2. PICK s : s = NewStatus(c)
    OBVIOUS
  <2>3. LastStatus(s)'
    BY <1>3, <2>1, <2>2, LastStays
  <2>4. Agrees'
    BY <1>1, <2>1, <2>2, <2>3 DEF Agrees
  <2>. QED  BY <1>2, <1>4, <1>7, <2>4, SoleWriter
<1>. QED  BY <1>6, <1>7

\* An event that no status event is younger than is the last one, once inserted.
LEMMA NewIsLast ==
    ASSUME TypeInv, EventInv, NEW c \in Calls, InsertEvent(c), SetsStatus(NewEvent(c)), NotBehind(c)
    PROVE  \A e : LastSetting(e)' => e = NewEvent(c)
<1>. DEFINE n == NewEvent(c)
<1>1. /\ events' = events \union {n} /\ n \in EventRow
      /\ UNCHANGED <<clock, op>> /\ n.by = c /\ n.ts = ts[c]
      /\ \A e \in events : e.by # c /\ e.id < n.id
  BY Inserted
<1>2. SetsStatus(n)
  OBVIOUS
<1>. HIDE DEF n
<1>3. Setting' = Setting \union {n}
  BY <1>1, <1>2 DEF Setting, SetsStatus
<1>4. SUFFICES ASSUME NEW e, LastSetting(e)', e # n PROVE FALSE
  BY Zenon DEF n
<1>5. e \in Setting /\ Before(n, e)
  BY <1>3, <1>4 DEF LastSetting, Before
<1>6. e \in EventRow /\ e.id < n.id /\ e.ts <= n.ts
  BY <1>1, <1>5 DEF Setting, EventInv, EventRows, NotBehind
<1>7. e.ts \in Nat /\ n.ts \in Nat /\ e.id \in Nat /\ n.id \in Nat
  BY <1>1, <1>6, CaseConstants DEF EventRow
<1>. QED  BY <1>5, <1>6, <1>7 DEF Before

\* insert_case_event of a comment or an assign: no status event.
LEMMA OtherEvent ==
    ASSUME TypeInv, EventInv, NEW c \in Calls, InsertEvent(c), op[c] \in {"comment", "assign"}
    PROVE  SameSetting
<1>. DEFINE n == NewEvent(c)
<1>1. /\ events' = events \union {n} /\ n.by = c /\ UNCHANGED <<clock, op>>
      /\ snap' = snap
  BY Inserted DEF InsertEvent
<1>. HIDE DEF n
<1>2. Setting' = Setting
  BY <1>1 DEF Setting, SetsStatus
<1>3. \A e \in Setting : NewStatus(e.by)' = NewStatus(e.by)
  BY <1>1 DEF NewStatus
<1>. QED  BY <1>2, <1>3 DEF SameSetting

LEMMA QuietEvent ==
    ASSUME TypeInv, EventInv, Quiet, NEW c \in Calls, InsertEvent(c)
    PROVE  Quiet'
<1>1. /\ pc[c] = "event" /\ op[c] \in Ops
      /\ pc' = [pc EXCEPT ![c] = AfterEvent(c)] /\ ts' = [ts EXCEPT ![c] = 0]
      /\ UNCHANGED <<screening, caseRow, op, pack, snap>>
  BY DEF InsertEvent, Goto, TypeInv, Shaped
<1>2. Own(c)
  BY <1>1 DEF TypeInv, CallTypes, LocalTypes, Own
<1>3. NewStatus(c)' = NewStatus(c)
  BY <1>1 DEF NewStatus
<1>4. NewEvent(c).by = c
  BY DEF NewEvent
<1>5. CASE RowFirst(c)
  <2>1. pc'[c] = "emit" /\ Writing(c) /\ Updating(c) /\ ~ Updating(c)'
    BY <1>1, <1>5 DEF AfterEvent, RowFirst, TypeInv, CallTypes, Writing, Updating, CaseWriters
  <2>2. AfterRow(c)
    BY <1>1, <1>5, <2>1 DEF Quiet, Stages, Stage
  <2>3. \A e : LastSetting(e)' => e = NewEvent(c)
    BY <1>4, <1>5, <2>2, NewIsLast DEF SetsStatus, RowFirst, AfterRow
  <2>4. PICK s : s = caseRow.status
    OBVIOUS
  <2>5. LastStatus(s)'
    BY <1>3, <1>4, <2>2, <2>3, <2>4 DEF LastStatus, AfterRow
  <2>6. Agrees'
    BY <1>1, <2>2, <2>4, <2>5 DEF Agrees, AfterRow
  <2>. QED  BY <1>2, <2>1, <2>6, SoleWriter
<1>6. CASE op[c] \in {"close", "reopen"}
  <2>1. pc'[c] = "case" /\ Writing(c) /\ Updating(c) /\ Updating(c)' /\ ~ RowFirst(c)
    BY <1>1, <1>6 DEF AfterEvent, RowFirst, TypeInv, CallTypes, Writing, Updating, CaseWriters
  <2>2. BeforeEvent(c)
    BY <1>1, <2>1 DEF Quiet, Stages, Stage
  <2>3. \A e : LastSetting(e)' => e = NewEvent(c)
    BY <1>4, <1>6, <2>2, NewIsLast DEF SetsStatus, BeforeEvent
  <2>4. PICK s : s = NewStatus(c)
    OBVIOUS
  <2>5. LastStatus(s)'
    BY <1>3, <1>4, <2>3, <2>4 DEF LastStatus
  <2>6. AfterOwnEvent(c)'
    BY <1>1, <1>3, <2>2, <2>4, <2>5 DEF AfterOwnEvent, BeforeEvent
  <2>7. Stage(c)'
    BY <1>1, <2>1, <2>6 DEF Stage, RowFirst
  <2>. QED  BY <1>2, <2>1, <2>7, SoleWriter
<1>7. CASE op[c] = "assign"
  <2>1. pc'[c] = "case" /\ Writing(c) /\ Updating(c) /\ Updating(c)' /\ ~ RowFirst(c)
    BY <1>1, <1>7 DEF AfterEvent, RowFirst, TypeInv, CallTypes, Writing, Updating, CaseWriters
  <2>2. BeforeEvent(c)
    BY <1>1, <2>1 DEF Quiet, Stages, Stage
  <2>3. NewStatus(c) = caseRow.status
    BY <1>7, <2>2 DEF BeforeEvent, NewStatus
  <2>4. PICK s : s = NewStatus(c)
    OBVIOUS
  <2>5. LastStatus(s)
    BY <2>2, <2>3, <2>4 DEF BeforeEvent, Agrees
  <2>6. LastStatus(s)'
    BY <1>7, <2>5, OtherEvent, LastStays
  <2>7. AfterOwnEvent(c)'
    BY <1>1, <1>3, <2>2, <2>4, <2>6 DEF AfterOwnEvent, BeforeEvent
  <2>8. Stage(c)'
    BY <1>1, <2>1, <2>7 DEF Stage, RowFirst
  <2>. QED  BY <1>2, <2>1, <2>8, SoleWriter
<1>8. CASE op[c] = "comment"
  <2>1. ~ Writing(c)' /\ ~ Updating(c) /\ ~ Updating(c)'
    BY <1>1, <1>8 DEF Writing, Updating, CaseWriters
  <2>. QED  BY <1>1, <1>2, <1>8, <2>1, OtherEvent, QuietFrame
<1>. QED  BY <1>1, <1>5, <1>6, <1>7, <1>8, CaseConstants DEF AllOps, RowFirst

LEMMA QuietStep == TypeInv /\ EventInv /\ QuietInv /\ [Next]_vars => QuietInv'
<1>. SUFFICES ASSUME TypeInv, EventInv, QuietInv, [Next]_vars PROVE QuietInv'
  OBVIOUS
<1>1. CASE UNCHANGED vars \/ ClockTick
  <2>1. UNCHANGED <<screening, caseRow, events, pc, op, ts, pack, snap, raced>>
    BY <1>1 DEF vars, ClockTick, tables, locals, history
  <2>. QED
    BY <2>1 DEF QuietInv, Quiet, OneWriter, Stages, AtRest, Agrees, Updating, Writing, Stage,
       RowFirst, BeforeRow, AfterRow, BeforeEvent, AfterOwnEvent, NotBehind, LastStatus,
       LastSetting, Setting, SetsStatus, NewStatus, Before
<1>2. CASE \E c \in Calls :
              \/ \E o \in Ops, k \in IdemKeys \union {None} : Begin(c, o, k)
              \/ ChoosePack(c) \/ InsertScreening(c) \/ ReadRow(c) \/ RecordDecision(c)
              \/ UpsertCase(c) \/ InsertEvent(c) \/ EmitWebhooks(c) \/ Store(c) \/ Die(c)
  <2>. SUFFICES ASSUME ~ raced' PROVE Quiet'
    BY Zenon DEF QuietInv
  <2>1. ~ raced
    BY <1>2, Zenon DEF Begin, ChoosePack, InsertScreening, ReadRow, RecordDecision, UpsertCase,
       InsertEvent, EmitWebhooks, Store, Die, history
  <2>2. Quiet
    BY <2>1, Zenon DEF QuietInv
  <2>. QED
    BY <1>2, <2>2, QuietBegin, QuietChoose, QuietInsert, QuietRead, QuietDecision, QuietUpsert,
       QuietEvent, QuietEnd, Zenon
<1>. QED  BY <1>1, <1>2, CaseSteps, Zenon

\* As long as no two writers of the case row have overlapped and none has died, the row
\* says what the last status event says and names the screening's pack (upsert_case and
\* insert_case_event as the handlers of app.py order them).
THEOREM QuietCaseAgreesHolds == Spec => []QuietCaseAgrees
<1>1. Spec => []QuietInv
  BY CaseInvariants, QuietInit, QuietStep, PTL DEF Spec
<1>2. QuietInv => QuietCaseAgrees
  <2>. SUFFICES ASSUME QuietInv, ~ raced, caseRow # None, \A c \in Calls : ~ Writing(c)
                PROVE  /\ caseRow.pack = screening
                       /\ \A e \in events :
                            SetsStatus(e) /\ (\A f \in events : SetsStatus(f) => f = e \/ Before(f, e))
                            => caseRow.status = NewStatus(e.by)
    BY Zenon DEF QuietCaseAgrees
  <2>1. Quiet
    BY Zenon DEF QuietInv
  <2>2. Agrees
    BY <2>1 DEF Quiet, AtRest, Updating
  <2>. QED  BY <2>2 DEF Agrees, LastStatus, LastSetting, Setting
<1>. QED  BY <1>1, <1>2, PTL
=============================================================================
