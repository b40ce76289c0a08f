------------------------ MODULE ServedRequestsProofs -------------------------
(***************************************************************************)
(* Proofs about the parts of a served request that MCServedRequests puts    *)
(* together, for all constants:                                             *)
(*   - metering: the queue and the batch keep their limits, and every served *)
(*     request is billed at most once, in order, and is accounted for;       *)
(*   - the screening decision: the list version of an ingest determines its  *)
(*     name sets, and every allow and every block has its reason;            *)
(*   - the lists: following the cursors misses no row that stays as it is,   *)
(*     and the two databases give one answer.                               *)
(* The last three are about operators.  They need induction over the pages   *)
(* of a traversal, which is derived here from the theorem that inclusion     *)
(* orders the finite sets well.                                             *)
(***************************************************************************)
EXTENDS MCServedRequests, SequenceTheorems, FiniteSetTheorems, WellFoundedInduction, TLAPS

-----------------------------------------------------------------------------
(* Metering.                                                                *)

Events == 1 .. metered

\* TypeOK is inductive once a batch that is not being written is not full and has
\* no row yet.
TypeInv ==
    /\ TypeOK
    /\ flusher = "get" => Len(batch) < BatchSize
    /\ flusher \in {"get", "ended"} => inserted = 0

LEMMA Types ==
    TypeInv => /\ queue \in Seq(Events) /\ batch \in Seq(Events) /\ rows \in Seq(Events)
               /\ metered \in Nat /\ dropped \in Nat /\ flushed \in Nat
               /\ lost \in SUBSET Events
<1>1. metered \in 0 .. MaxMetered => metered \in Nat
  BY UsageAssumption
<1>. QED  BY <1>1, Zenon DEF TypeInv, TypeOK, Events

LEMMA Lengths ==
    TypeInv => /\ Len(queue) \in 0 .. QueueMax /\ Len(batch) \in 0 .. BatchSize
               /\ Len(rows) \in Nat /\ inserted \in 0 .. Len(batch)
<1>. SUFFICES ASSUME TypeInv
              PROVE  /\ Len(queue) \in 0 .. QueueMax /\ Len(batch) \in 0 .. BatchSize
                     /\ Len(rows) \in Nat /\ inserted \in 0 .. Len(batch)
  OBVIOUS
<1>1. Len(queue) <= QueueMax /\ Len(batch) <= BatchSize /\ inserted \in 0 .. Len(batch)
  BY Zenon DEF TypeInv, TypeOK
<1>2. Len(queue) \in Nat /\ Len(batch) \in Nat /\ Len(rows) \in Nat
  BY Types, LenProperties
<1>. QED  BY <1>1, <1>2, UsageAssumption

LEMMA TypeInit == Init => TypeInv
<1>. SUFFICES ASSUME Init PROVE TypeInv
  OBVIOUS
<1>1. <<>> \in Seq(Events) /\ Len(<<>>) = 0
  BY EmptySeq
<1>2. Len(<<>>) <= QueueMax /\ Len(<<>>) <= BatchSize /\ Len(<<>>) < BatchSize
      /\ 0 \in 0 .. MaxMetered /\ 0 \in Nat /\ 0 \in 0 .. Len(<<>>)
  BY <1>1, UsageAssumption
<1>. QED  BY <1>1, <1>2, Zenon DEF Init, TypeInv, TypeOK, Events

LEMMA RangeWithin == ASSUME NEW S, NEW s \in Seq(S) PROVE Range(s) \subseteq S
  BY RangeOfSeq

LEMMA UnwrittenTyped == TypeInv => Unwritten \in Seq(Events)
<1>. SUFFICES ASSUME TypeInv PROVE Unwritten \in Seq(Events)
  OBVIOUS
<1>1. batch \in Seq(Events) /\ Len(batch) \in Nat /\ inserted \in Nat
  BY Types, Lengths, UsageAssumption
<1>2. \A i \in inserted + 1 .. Len(batch) : i \in 1 .. Len(batch)
  BY <1>1
<1>3. \A i \in 1 .. Len(batch) : batch[i] \in Events
  BY <1>1, ElementOfSeq
<1>. QED  BY <1>1, <1>2, <1>3, SubSeqProperties DEF Unwritten

LEMMA TypePut == TypeInv /\ UsagePut => TypeInv'
<1>. SUFFICES ASSUME TypeInv, UsagePut PROVE TypeInv'
  OBVIOUS
<1>1. metered' = metered + 1 /\ metered' \in 0 .. MaxMetered /\ metered' \in Events'
      /\ Events \subseteq Events'
  BY UsageAssumption, Types DEF UsagePut, Events
<1>2. queue \in Seq(Events') /\ batch \in Seq(Events') /\ rows \in Seq(Events')
  BY <1>1, Types, SeqMonotonic
<1>3. queue' \in Seq(Events') /\ Len(queue') <= QueueMax
  <2>1. CASE Len(queue) < QueueMax
    <3>1. queue' = Append(queue, metered')
      BY <2>1 DEF UsagePut
    <3>2. Append(queue, metered') \in Seq(Events') /\ Len(Append(queue, metered')) = Len(queue) + 1
      BY <1>1, <1>2, AppendProperties
    <3>. QED  BY <2>1, <3>1, <3>2, Lengths, UsageAssumption
  <2>2. CASE ~(Len(queue) < QueueMax)
    BY <1>2, <2>2, Lengths DEF UsagePut
  <2>. QED  BY <2>1, <2>2
<1>4. dropped' \in Nat /\ lost' \in SUBSET Events'
  <2>1. lost' = lost /\ (dropped' = dropped \/ dropped' = dropped + 1)
    BY DEF UsagePut
  <2>2. dropped \in Nat /\ lost \in SUBSET Events
    BY Types
  <2>. QED  BY <1>1, <2>1, <2>2
<1>5. Len(batch) <= BatchSize /\ inserted \in 0 .. Len(batch)
  BY Lengths, UsageAssumption
<1>. QED  BY <1>1, <1>2, <1>3, <1>4, <1>5, Zenon DEF UsagePut, TypeInv, TypeOK, Events

\* A turn of the loop adds at most one event to the batch.
LEMMA TypeTurn ==
    ASSUME TypeInv, NEW events \in Seq(Events), Len(events) <= BatchSize, Turn(events),
           queue' \in Seq(Events), Len(queue') <= QueueMax
    PROVE  TypeInv'
<1>1. Len(events) \in Nat /\ batch' = events /\ metered' = metered /\ rows' = rows
      /\ lost' = lost /\ flushed' = flushed /\ dropped' = dropped /\ inserted' = inserted
  BY LenProperties DEF Turn
<1>2. flusher' \in {"get", "flush"} /\ (flusher' = "get" => Len(events) < BatchSize)
  BY <1>1, UsageAssumption DEF Turn, ToFlush
<1>3. flusher' \in {"get", "flush", "last flush", "ended"}
  BY <1>2
<1>4. inserted = 0 /\ 0 \in 0 .. Len(events)
  BY <1>1 DEF Turn, TypeInv
<1>. QED  BY <1>1, <1>2, <1>3, <1>4, Types, Zenon DEF Turn, TypeInv, TypeOK, Events

LEMMA TypeFlusher == TypeInv /\ FlusherStep => TypeInv'
<1>. SUFFICES ASSUME TypeInv, FlusherStep PROVE TypeInv'
  OBVIOUS
<1>0. queue \in Seq(Events) /\ batch \in Seq(Events) /\ rows \in Seq(Events)
  BY Types
<1>1. CASE GetEvent
  <2>1. Head(queue) \in Events /\ Tail(queue) \in Seq(Events) /\ Len(Tail(queue)) = Len(queue) - 1
    BY <1>0, <1>1, HeadTailProperties DEF GetEvent
  <2>2. Append(batch, Head(queue)) \in Seq(Events) /\ Len(Append(batch, Head(queue))) = Len(batch) + 1
    BY <1>0, <2>1, AppendProperties
  <2>3. Len(Tail(queue)) <= QueueMax
    BY <2>1, Lengths, UsageAssumption
  <2>4. Len(batch) < BatchSize
    BY <1>1 DEF GetEvent, Turn, TypeInv
  <2>5. Len(Append(batch, Head(queue))) <= BatchSize
    BY <2>2, <2>4, Lengths, UsageAssumption
  <2>. QED  BY <1>1, <2>1, <2>2, <2>3, <2>5, TypeTurn DEF GetEvent
<1>2. CASE GetNothing
  <2>1. Len(batch) <= BatchSize /\ Len(queue) <= QueueMax
    BY Lengths, UsageAssumption
  <2>. QED  BY <1>0, <1>2, <2>1, TypeTurn DEF GetNothing
<1>3. CASE EndLoop
  BY <1>3 DEF EndLoop, TypeInv, TypeOK
<1>4. CASE InsertEvents
  <2>1. inserted \in Nat /\ Len(batch) \in Nat /\ inserted < Len(batch)
    <3>1. inserted \in 0 .. Len(batch) /\ Len(batch) \in Nat
      BY <1>0, Lengths, LenProperties
    <3>2. inserted < Len(batch)
      BY <1>4, Zenon DEF InsertEvents
    <3>. QED  BY <3>1, <3>2
  <2>2. inserted' \in inserted + 1 .. Len(batch)
    <3>1. inserted' = Len(batch) \/ inserted' = inserted + 1
      BY <1>4, Zenon DEF InsertEvents
    <3>. QED  BY <2>1, <3>1
  <2>3. SubSeq(batch, inserted + 1, inserted') \in Seq(Events)
    <3>1. inserted + 1 \in Int /\ inserted' \in Int
          /\ \A i \in inserted + 1 .. inserted' : i \in 1 .. Len(batch)
      BY <2>1, <2>2
    <3>2. \A i \in 1 .. Len(batch) : batch[i] \in Events
      BY <1>0, ElementOfSeq
    <3>. QED  BY <3>1, <3>2, SubSeqProperties
  <2>4. rows' \in Seq(Events)
    BY <1>0, <1>4, <2>3, ConcatProperties DEF InsertEvents
  <2>5. batch' = batch /\ flusher' = flusher /\ flusher \notin {"get", "ended"}
        /\ metered' = metered /\ queue' = queue
    <3>1. flusher \in {"flush", "last flush"}
      BY <1>4, Zenon DEF InsertEvents
    <3>. QED  BY <1>4, <3>1, Zenon DEF InsertEvents
  <2>6. inserted' \in 0 .. Len(batch)
    BY <2>1, <2>2
  <2>. QED  BY <1>4, <2>4, <2>5, <2>6, Zenon DEF InsertEvents, TypeInv, TypeOK, Events
<1>5. ASSUME NEW ok, EndFlush(ok), flushed' \in Nat, lost' \in SUBSET Events PROVE TypeInv'
  <2>1. batch' = <<>> /\ inserted' = 0 /\ <<>> \in Seq(Events) /\ Len(<<>>) = 0
    BY <1>5, EmptySeq DEF EndFlush, AfterFlush
  <2>2. Len(batch') <= BatchSize /\ Len(batch') < BatchSize /\ inserted' \in 0 .. Len(batch')
    BY <2>1, UsageAssumption
  <2>3. flusher' \in {"get", "flush", "last flush", "ended"} /\ due' = FALSE
        /\ metered' = metered /\ queue' = queue /\ stop' = stop /\ dropped' = dropped
        /\ rows' = rows /\ database' = database
    BY <1>5 DEF EndFlush
  <2>. QED  BY <1>0, <1>5, <2>1, <2>2, <2>3, Zenon DEF TypeInv, TypeOK, Events
<1>6. CASE Flushed
  <2>1. flushed' = flushed + Len(batch) /\ flushed \in Nat /\ Len(batch) \in Nat
    BY <1>6, Types, LenProperties DEF Flushed
  <2>2. EndFlush(TRUE) /\ lost' = lost /\ lost \in SUBSET Events
    BY <1>6, Types DEF Flushed
  <2>3. flushed' \in Nat /\ lost' \in SUBSET Events
    BY <2>1, <2>2
  <2>. QED  BY <1>5, <2>2, <2>3, Zenon
<1>7. CASE FlushFails
  <2>1. EndFlush(FALSE) /\ lost' = lost \union Range(Unwritten) /\ flushed' = flushed
    BY <1>7 DEF FlushFails
  <2>2. flushed \in Nat /\ lost \in SUBSET Events /\ Range(Unwritten) \subseteq Events
    BY UnwrittenTyped, RangeWithin, Types
  <2>3. flushed' \in Nat /\ lost' \in SUBSET Events
    BY <2>1, <2>2
  <2>. QED  BY <1>5, <2>1, <2>3, Zenon
<1>. QED  BY <1>1, <1>2, <1>3, <1>4, <1>6, <1>7 DEF FlusherStep

LEMMA TypeEnds == TypeInv /\ ProcessEnds => TypeInv'
<1>. SUFFICES ASSUME TypeInv, ProcessEnds PROVE TypeInv'
  OBVIOUS
<1>1. <<>> \in Seq(Events) /\ Len(<<>>) = 0
  BY EmptySeq
<1>2. queue' = <<>> /\ batch' = <<>> /\ inserted' = 0 /\ database' = database /\ stop' = TRUE /\ flusher' = "ended"
      /\ metered' = metered /\ rows' = rows /\ due' = due /\ dropped' = dropped
      /\ flushed' = flushed
  BY DEF ProcessEnds
<1>3. lost' \in SUBSET Events
  BY RangeWithin, UnwrittenTyped, Types DEF ProcessEnds
<1>4. Len(<<>>) <= QueueMax /\ Len(<<>>) <= BatchSize /\ 0 \in 0 .. Len(<<>>)
  BY <1>1, UsageAssumption
<1>5. flusher' # "get" /\ flusher' \in {"get", "flush", "last flush", "ended"}
  BY <1>2
<1>. QED  BY <1>1, <1>2, <1>3, <1>4, <1>5, Zenon DEF TypeInv, TypeOK, Events

LEMMA TypeStep == TypeInv /\ [Next]_vars => TypeInv'
<1>. SUFFICES ASSUME TypeInv, [Next]_vars PROVE TypeInv'
  OBVIOUS
<1>1. CASE IntervalPasses
  BY <1>1 DEF IntervalPasses, TypeInv, TypeOK
<1>2. CASE Stop
  BY <1>2 DEF Stop, TypeInv, TypeOK
<1>3. CASE UNCHANGED vars
  BY <1>3 DEF vars, TypeInv, TypeOK
<1>. QED  BY <1>1, <1>2, <1>3, TypePut, TypeFlusher, TypeEnds DEF Next, Exit, Crash

\* Every reachable state is well typed: queue and batch keep their limits.
THEOREM TypeCorrect == Spec => []TypeOK
<1>1. TypeInv => TypeOK
  BY DEF TypeInv
<1>. QED  BY <1>1, TypeInit, TypeStep, PTL DEF Spec

-----------------------------------------------------------------------------
\* The events of a sequence are in the order of their numbers, and so are those
\* of one sequence before those of another.
Increasing(s) == \A i, j \in 1 .. Len(s) : i < j => s[i] < s[j]
Below(s, t) == \A x \in Range(s), y \in Range(t) : x < y

Ordered ==
    /\ Increasing(rows) /\ Increasing(batch) /\ Increasing(queue)
    /\ Below(rows, Unwritten) /\ Below(rows, queue) /\ Below(batch, queue)

Apart ==
    lost \cap Range(rows) = {} /\ lost \cap Range(Unwritten) = {} /\ lost \cap Range(queue) = {}

\* The rows of a batch that is being written are not in the statistics yet.
Count ==
    /\ metered = Len(rows) + Len(Unwritten) + Len(queue) + Cardinality(lost) + dropped
    /\ flushed + inserted <= Len(rows)

BillInv == TypeInv /\ Ordered /\ Apart /\ Count

LEMMA RangeElements ==
    ASSUME NEW s \in Seq(Nat)
    PROVE  /\ Len(s) \in Nat /\ Range(s) \subseteq Nat
           /\ \A i \in 1 .. Len(s) : s[i] \in Range(s) /\ s[i] \in Nat
           /\ \A x \in Range(s) : \E i \in 1 .. Len(s) : x = s[i]
<1>1. Range(s) = {s[i] : i \in 1 .. Len(s)} /\ Range(s) \subseteq Nat
  BY RangeEquality, RangeWithin
<1>. QED  BY <1>1, LenProperties

LEMMA RangeEmpty == Range(<<>>) = {} /\ Len(<<>>) = 0 /\ <<>> \in Seq(Nat)
<1>1. <<>> \in Seq(Nat) /\ Len(<<>>) = 0
  BY EmptySeq
<1>2. Range(<<>>) = {<<>>[i] : i \in 1 .. Len(<<>>)}
  BY <1>1, RangeEquality
<1>3. 1 .. Len(<<>>) = {}
  BY <1>1
<1>. QED  BY <1>1, <1>2, <1>3

LEMMA SortedConcat ==
    ASSUME NEW s \in Seq(Nat), NEW t \in Seq(Nat), Increasing(s), Increasing(t), Below(s, t)
    PROVE  s \o t \in Seq(Nat) /\ Increasing(s \o t) /\ Range(s \o t) = Range(s) \union Range(t)
<1>1. /\ s \o t \in Seq(Nat) /\ Len(s \o t) = Len(s) + Len(t)
      /\ \A i \in 1 .. Len(s) + Len(t) :
            (s \o t)[i] = IF i <= Len(s) THEN s[i] ELSE t[i - Len(s)]
  BY ConcatProperties
<1>2. ASSUME NEW i \in 1 .. Len(s \o t), NEW j \in 1 .. Len(s \o t), i < j
      PROVE  (s \o t)[i] < (s \o t)[j]
  <2>0. Len(s) \in Nat /\ Len(t) \in Nat
    BY RangeElements
  <2>1. CASE j <= Len(s)
    <3>1. i \in 1 .. Len(s) /\ j \in 1 .. Len(s) /\ i <= Len(s)
      BY <1>1, <1>2, <2>0, <2>1
    <3>2. (s \o t)[i] = s[i] /\ (s \o t)[j] = s[j]
      BY <1>1, <2>1, <3>1
    <3>. QED  BY <1>2, <3>1, <3>2 DEF Increasing
  <2>2. CASE i <= Len(s) /\ ~(j <= Len(s))
    <3>1. i \in 1 .. Len(s) /\ j - Len(s) \in 1 .. Len(t)
      BY <1>1, <1>2, <2>0, <2>2
    <3>2. (s \o t)[i] = s[i] /\ (s \o t)[j] = t[j - Len(s)]
      BY <1>1, <2>2
    <3>3. s[i] \in Range(s) /\ t[j - Len(s)] \in Range(t)
      BY <3>1, RangeElements
    <3>. QED  BY <3>2, <3>3 DEF Below
  <2>3. CASE ~(i <= Len(s)) /\ ~(j <= Len(s))
    <3>1. i - Len(s) \in 1 .. Len(t) /\ j - Len(s) \in 1 .. Len(t) /\ i - Len(s) < j - Len(s)
      BY <1>1, <1>2, <2>0, <2>3
    <3>2. (s \o t)[i] = t[i - Len(s)] /\ (s \o t)[j] = t[j - Len(s)]
      BY <1>1, <2>3
    <3>. QED  BY <3>1, <3>2 DEF Increasing
  <2>. QED  BY <1>1, <1>2, <2>0, <2>1, <2>2, <2>3
<1>3. Increasing(s \o t)
  BY <1>2 DEF Increasing
<1>. QED  BY <1>1, <1>3, RangeConcatenation

LEMMA SortedAppend ==
    ASSUME NEW s \in Seq(Nat), NEW e \in Nat, Increasing(s), \A x \in Range(s) : x < e
    PROVE  /\ Append(s, e) \in Seq(Nat) /\ Increasing(Append(s, e))
           /\ Range(Append(s, e)) = Range(s) \union {e} /\ Len(Append(s, e)) = Len(s) + 1
<1>1. /\ Append(s, e) \in Seq(Nat) /\ Len(Append(s, e)) = Len(s) + 1
      /\ \A i \in 1 .. Len(s) : Append(s, e)[i] = s[i]
      /\ Append(s, e)[Len(s) + 1] = e
  BY AppendProperties
<1>2. Len(s) \in Nat
  BY RangeElements
<1>3. ASSUME NEW i \in 1 .. Len(Append(s, e)), NEW j \in 1 .. Len(Append(s, e)), i < j
      PROVE  Append(s, e)[i] < Append(s, e)[j]
  <2>1. i \in 1 .. Len(s) /\ (j \in 1 .. Len(s) \/ j = Len(s) + 1)
    BY <1>1, <1>2, <1>3
  <2>2. Append(s, e)[i] = s[i] /\ s[i] \in Range(s)
    BY <1>1, <2>1, RangeElements
  <2>3. CASE j \in 1 .. Len(s)
    BY <1>1, <1>3, <2>1, <2>2, <2>3 DEF Increasing
  <2>4. CASE j = Len(s) + 1
    BY <1>1, <2>2, <2>4
  <2>. QED  BY <2>1, <2>3, <2>4
<1>4. ASSUME NEW x PROVE x \in Range(Append(s, e)) <=> x \in Range(s) \union {e}
  <2>1. x \in Range(Append(s, e)) <=> \E i \in 1 .. Len(s) + 1 : x = Append(s, e)[i]
    BY <1>1, RangeElements
  <2>2. x \in Range(s) <=> \E i \in 1 .. Len(s) : x = s[i]
    BY RangeElements
  <2>3. \A i : i \in 1 .. Len(s) + 1 <=> (i \in 1 .. Len(s) \/ i = Len(s) + 1)
    BY <1>2
  <2>. QED  BY <1>1, <2>1, <2>2, <2>3
<1>. QED  BY <1>1, <1>3, <1>4 DEF Increasing

LEMMA SortedTail ==
    ASSUME NEW s \in Seq(Nat), s # <<>>, Increasing(s)
    PROVE  /\ Tail(s) \in Seq(Nat) /\ Increasing(Tail(s)) /\ Len(s) = Len(Tail(s)) + 1
           /\ Head(s) \in Nat /\ Head(s) \in Range(s) /\ Range(Tail(s)) \subseteq Range(s)
           /\ \A x \in Range(Tail(s)) : Head(s) < x
<1>1. /\ Head(s) \in Nat /\ Tail(s) \in Seq(Nat) /\ Len(Tail(s)) = Len(s) - 1
      /\ \A i \in 1 .. Len(Tail(s)) : Tail(s)[i] = s[i + 1]
  BY HeadTailProperties
<1>2. Len(s) \in Nat \ {0} /\ Len(s) = Len(Tail(s)) + 1
  BY <1>1, EmptySeq
<1>3. Head(s) = s[1] /\ 1 \in 1 .. Len(s)
  BY <1>2
<1>4. \A i \in 1 .. Len(Tail(s)) : i + 1 \in 1 .. Len(s) /\ 1 < i + 1
  BY <1>1, <1>2
<1>5. ASSUME NEW i \in 1 .. Len(Tail(s)), NEW j \in 1 .. Len(Tail(s)), i < j
      PROVE  Tail(s)[i] < Tail(s)[j]
  BY <1>1, <1>4, <1>5 DEF Increasing
<1>6. ASSUME NEW x \in Range(Tail(s)) PROVE x \in Range(s) /\ Head(s) < x
  <2>1. PICK i \in 1 .. Len(Tail(s)) : x = Tail(s)[i]
    BY <1>1, RangeElements
  <2>2. x = s[i + 1] /\ i + 1 \in 1 .. Len(s)
    BY <1>1, <1>4, <2>1
  <2>. QED  BY <1>3, <1>4, <2>2, RangeElements DEF Increasing
<1>. QED  BY <1>1, <1>2, <1>3, <1>5, <1>6, RangeElements DEF Increasing

\* A sorted sequence has as many elements as positions.
LEMMA SortedCard ==
    ASSUME NEW s \in Seq(Nat), Increasing(s)
    PROVE  IsFiniteSet(Range(s)) /\ Cardinality(Range(s)) = Len(s)
<1>. DEFINE pos == [i \in 1 .. Len(s) |-> s[i]]
<1>1. Len(s) \in Nat /\ IsFiniteSet(1 .. Len(s)) /\ Cardinality(1 .. Len(s)) = Len(s)
  <2>1. Len(s) \in Nat
    BY RangeElements
  <2>2. IsFiniteSet(1 .. Len(s)) /\ Cardinality(1 .. Len(s)) = IF 1 > Len(s) THEN 0 ELSE Len(s) - 1 + 1
    BY <2>1, FS_Interval
  <2>. QED  BY <2>1, <2>2
<1>2. pos \in [1 .. Len(s) -> Range(s)] /\ \A x \in Range(s) : \E i \in 1 .. Len(s) : pos[i] = x
  BY RangeElements
<1>3. ASSUME NEW i \in 1 .. Len(s), NEW j \in 1 .. Len(s), pos[i] = pos[j] PROVE i = j
  <2>1. s[i] = s[j] /\ s[i] \in Nat /\ i \in Int /\ j \in Int
    BY <1>1, <1>3, RangeElements
  <2>2. (i < j => s[i] < s[j]) /\ (j < i => s[j] < s[i])
    BY DEF Increasing
  <2>. QED  BY <2>1, <2>2
<1>4. pos \in Bijection(1 .. Len(s), Range(s))
  BY <1>2, <1>3 DEF Bijection, Injection, Surjection, IsInjective
<1>5. ExistsBijection(1 .. Len(s), Range(s))
  BY <1>4 DEF ExistsBijection
<1>. QED  BY <1>1, <1>5, FS_Bijection

\* What is lost is finite, and the events of a sorted sequence apart from it add
\* their number to it.
LEMMA LoseSequence ==
    ASSUME NEW l, IsFiniteSet(l), NEW s \in Seq(Nat), Increasing(s), l \cap Range(s) = {}
    PROVE  /\ IsFiniteSet(l \union Range(s))
           /\ Cardinality(l \union Range(s)) = Cardinality(l) + Len(s)
           /\ Cardinality(l) \in Nat /\ Len(s) \in Nat
<1>1. IsFiniteSet(Range(s)) /\ Cardinality(Range(s)) = Len(s) /\ Cardinality({}) = 0
  BY SortedCard, FS_EmptySet
<1>2. /\ IsFiniteSet(l \union Range(s))
      /\ Cardinality(l \union Range(s))
           = Cardinality(l) + Cardinality(Range(s)) - Cardinality(l \cap Range(s))
  BY <1>1, FS_Union
<1>3. Cardinality(l) \in Nat /\ Len(s) \in Nat
  BY FS_CardinalityType, RangeElements
<1>4. Cardinality(l \cap Range(s)) = 0
  BY <1>1
<1>5. Cardinality(l \union Range(s)) = Cardinality(l) + Len(s)
  BY <1>1, <1>2, <1>3, <1>4
<1>. QED  BY <1>2, <1>3, <1>5

\* The elements of a sequence after the first m, up to the first n.
Part(s, m, n) == SubSeq(s, m + 1, n)

\* A part of a sorted sequence is sorted, and its elements are known by position.
LEMMA SortedPart ==
    ASSUME NEW s \in Seq(Nat), Increasing(s), NEW m \in 0 .. Len(s), NEW n \in m .. Len(s)
    PROVE  /\ Part(s, m, n) \in Seq(Nat) /\ Len(Part(s, m, n)) = n - m /\ Increasing(Part(s, m, n))
           /\ \A x \in Range(Part(s, m, n)) : \E p \in m + 1 .. n : x = s[p]
           /\ Range(Part(s, m, n)) \subseteq Range(s)
<1>. DEFINE t == Part(s, m, n)
<1>1. Len(s) \in Nat /\ m \in Nat /\ n \in Nat /\ m <= n /\ n <= Len(s) /\ n - m \in Nat
  BY RangeElements
<1>2. \A k \in m + 1 .. n : s[k] \in Nat
  BY <1>1, RangeElements
<1>3. /\ t \in Seq(Nat) /\ Len(t) = n - m
      /\ \A k \in 1 .. n - m : t[k] = s[m + k]
  <2>1. m + 1 \in Int /\ n \in Int /\ n - (m + 1) + 1 = n - m
        /\ (IF m + 1 <= n THEN n - (m + 1) + 1 ELSE 0) = n - m
        /\ \A k \in 1 .. n - m : (m + 1) + k - 1 = m + k
    BY <1>1
  <2>2. /\ t \in Seq(Nat) /\ Len(t) = (IF m + 1 <= n THEN n - (m + 1) + 1 ELSE 0)
        /\ \A k \in 1 .. n - (m + 1) + 1 : t[k] = s[(m + 1) + k - 1]
    BY <1>2, <2>1, SubSeqProperties DEF Part
  <2>. QED  BY <2>1, <2>2
<1>. HIDE DEF t
<1>4. \A k \in 1 .. n - m : m + k \in m + 1 .. n /\ m + k \in 1 .. Len(s)
  BY <1>1
<1>5. ASSUME NEW k \in 1 .. Len(t), NEW l \in 1 .. Len(t), k < l PROVE t[k] < t[l]
  <2>1. m + k < m + l
    BY <1>1, <1>3, <1>5
  <2>. QED  BY <1>3, <1>4, <2>1 DEF Increasing
<1>6. ASSUME NEW x \in Range(t) PROVE x \in Range(s) /\ \E p \in m + 1 .. n : x = s[p]
  <2>1. PICK k \in 1 .. Len(t) : x = t[k]
    BY <1>3, RangeElements
  <2>2. x = s[m + k] /\ m + k \in m + 1 .. n /\ m + k \in 1 .. Len(s)
    BY <1>3, <1>4, <2>1
  <2>. QED  BY <2>2, RangeElements
<1>. QED  BY <1>3, <1>5, <1>6 DEF Increasing, t

\* What is left of a sorted sequence after i elements is cut in two after j.
LEMMA SortedCut ==
    ASSUME NEW s \in Seq(Nat), Increasing(s), NEW i \in 0 .. Len(s), NEW j \in i .. Len(s)
    PROVE  /\ Below(Part(s, i, j), Part(s, j, Len(s)))
           /\ Range(Part(s, i, Len(s))) = Range(Part(s, i, j)) \union Range(Part(s, j, Len(s)))
<1>1. Len(s) \in Nat /\ i \in Nat /\ j \in Nat /\ i <= j /\ j <= Len(s)
  BY RangeElements
<1>2. j \in 0 .. Len(s) /\ Len(s) \in j .. Len(s)
  BY <1>1
<1>3. ASSUME NEW x \in Range(Part(s, i, j)), NEW y \in Range(Part(s, j, Len(s))) PROVE x < y
  <2>1. PICK p \in i + 1 .. j : x = s[p]
    BY SortedPart
  <2>2. PICK q \in j + 1 .. Len(s) : y = s[q]
    BY <1>2, SortedPart
  <2>3. p \in 1 .. Len(s) /\ q \in 1 .. Len(s) /\ p < q
    BY <1>1
  <2>. QED  BY <2>1, <2>2, <2>3 DEF Increasing
<1>4. Part(s, i, j) \o Part(s, j, Len(s)) = Part(s, i, Len(s))
  <2>1. i + 1 \in 1 .. Len(s) + 1 /\ j \in (i + 1) - 1 .. Len(s)
    BY <1>1
  <2>. QED  BY <1>2, <2>1, ConcatAdjacentSubSeq, Zenon DEF Part
<1>5. Part(s, i, j) \in Seq(Nat) /\ Part(s, j, Len(s)) \in Seq(Nat)
  BY <1>2, SortedPart
<1>6. Range(Part(s, i, j) \o Part(s, j, Len(s))) = Range(Part(s, i, j)) \union Range(Part(s, j, Len(s)))
  BY <1>5, RangeConcatenation
<1>. QED  BY <1>3, <1>4, <1>6 DEF Below

LEMMA BillTypes ==
    TypeInv => /\ queue \in Seq(Nat) /\ batch \in Seq(Nat) /\ rows \in Seq(Nat)
               /\ Range(queue) \subseteq Events /\ Range(batch) \subseteq Events
               /\ Range(rows) \subseteq Events /\ lost \subseteq Events
               /\ IsFiniteSet(lost) /\ Cardinality(lost) \in Nat
               /\ Len(queue) \in Nat /\ Len(batch) \in Nat /\ Len(rows) \in Nat
<1>. SUFFICES ASSUME TypeInv
              PROVE  /\ queue \in Seq(Nat) /\ batch \in Seq(Nat) /\ rows \in Seq(Nat)
                     /\ Range(queue) \subseteq Events /\ Range(batch) \subseteq Events
                     /\ Range(rows) \subseteq Events /\ lost \subseteq Events
                     /\ IsFiniteSet(lost) /\ Cardinality(lost) \in Nat
                     /\ Len(queue) \in Nat /\ Len(batch) \in Nat /\ Len(rows) \in Nat
  OBVIOUS
<1>1. Events \subseteq Nat /\ IsFiniteSet(Events)
  <2>1. metered \in Nat /\ metered \in Int /\ 1 \in Int
    BY Types
  <2>2. IsFiniteSet(1 .. metered)
    BY <2>1, FS_Interval
  <2>. QED  BY <2>1, <2>2 DEF Events
<1>2. IsFiniteSet(lost) /\ Cardinality(lost) \in Nat
  BY <1>1, Types, FS_Subset, FS_CardinalityType
<1>3. queue \in Seq(Nat) /\ batch \in Seq(Nat) /\ rows \in Seq(Nat)
  BY <1>1, Types, SeqMonotonic
<1>. QED  BY <1>2, <1>3, Types, RangeWithin, LenProperties

\* What is unwritten is the end of the batch, all of it outside a flush.
LEMMA UnwrittenEnd ==
    ASSUME TypeInv, Increasing(batch)
    PROVE  /\ Unwritten \in Seq(Nat) /\ Increasing(Unwritten)
           /\ Range(Unwritten) \subseteq Range(batch)
           /\ inserted \in Nat /\ Len(Unwritten) \in Nat
           /\ Len(Unwritten) = Len(batch) - inserted
<1>1. batch \in Seq(Nat) /\ Len(batch) \in Nat /\ inserted \in 0 .. Len(batch)
  BY BillTypes, Lengths
<1>2. Len(batch) \in inserted .. Len(batch) /\ inserted \in Nat /\ Len(batch) - inserted \in Nat
  BY <1>1
<1>3. Unwritten = Part(batch, inserted, Len(batch))
  BY DEF Unwritten, Part
<1>4. /\ Unwritten \in Seq(Nat) /\ Increasing(Unwritten)
      /\ Range(Unwritten) \subseteq Range(batch) /\ Len(Unwritten) = Len(batch) - inserted
  BY <1>1, <1>2, <1>3, SortedPart
<1>. QED  BY <1>2, <1>4

LEMMA UnwrittenAll == TypeInv /\ inserted = 0 => Unwritten = batch
<1>1. TypeInv => SubSeq(batch, 1, Len(batch)) = batch
  BY Types, SubSeqFull
<1>2. 0 + 1 = 1
  OBVIOUS
<1>. QED  BY <1>1, <1>2 DEF Unwritten

LEMMA BillInit == Init => BillInv
<1>. SUFFICES ASSUME Init PROVE BillInv
  OBVIOUS
<1>1. TypeInv
  BY TypeInit
<1>2. Increasing(<<>>) /\ Below(<<>>, <<>>)
  BY RangeEmpty DEF Increasing, Below
<1>3. Cardinality({}) = 0
  BY FS_EmptySet
<1>4. Unwritten = <<>> /\ inserted = 0
  BY <1>1, UnwrittenAll DEF Init
<1>. QED  BY <1>1, <1>2, <1>3, <1>4, RangeEmpty DEF Init, BillInv, Ordered, Apart, Count

\* A put event is newer than all before it.
LEMMA BillPut == BillInv /\ UsagePut => BillInv'
<1>. SUFFICES ASSUME BillInv, UsagePut PROVE BillInv'
  OBVIOUS
<1>0. TypeInv /\ TypeInv'
  BY TypePut DEF BillInv
<1>1. metered' = metered + 1 /\ metered \in Nat /\ dropped \in Nat /\ flushed \in Nat
  BY <1>0, Types DEF UsagePut
<1>2. \A x \in Events : x < metered'
  BY <1>1 DEF Events
<1>3. rows' = rows /\ batch' = batch /\ lost' = lost /\ flushed' = flushed
      /\ inserted' = inserted /\ Unwritten' = Unwritten
  BY DEF UsagePut, Unwritten
<1>4. Range(Unwritten) \subseteq Range(batch) /\ Len(Unwritten) \in Nat
  BY <1>0, UnwrittenEnd DEF BillInv, Ordered
<1>5. CASE Len(queue) < QueueMax
  <2>1. queue' = Append(queue, metered') /\ dropped' = dropped
    BY <1>5 DEF UsagePut
  <2>2. Increasing(queue') /\ Range(queue') = Range(queue) \union {metered'} /\ Len(queue') = Len(queue) + 1
    BY <1>0, <1>1, <1>2, <2>1, BillTypes, SortedAppend DEF BillInv, Ordered
  <2>3. Ordered'
    BY <1>0, <1>2, <1>3, <1>4, <2>2, BillTypes DEF BillInv, Ordered, Below
  <2>4. Apart'
    BY <1>0, <1>2, <1>3, <2>2, BillTypes DEF BillInv, Apart, Events
  <2>5. Count'
    <3>1. Count /\ Len(queue') = Len(queue) + 1
      BY <2>2 DEF BillInv
    <3>2. /\ Len(rows) \in Nat /\ Len(Unwritten) \in Nat /\ Len(queue) \in Nat
          /\ Cardinality(lost) \in Nat
      BY <1>0, <1>4, BillTypes
    <3>3. /\ Cardinality(lost') = Cardinality(lost) /\ Len(rows') = Len(rows)
          /\ Len(Unwritten') = Len(Unwritten)
      BY <1>3
    <3>4. /\ metered = Len(rows) + Len(Unwritten) + Len(queue) + Cardinality(lost) + dropped
          /\ flushed + inserted <= Len(rows)
      BY <3>1 DEF Count
    <3>5. metered' = Len(rows) + Len(Unwritten) + (Len(queue) + 1) + Cardinality(lost) + dropped
      BY <1>1, <3>2, <3>4, SMTT(30)
    <3>6. metered' = Len(rows') + Len(Unwritten') + Len(queue') + Cardinality(lost') + dropped'
      BY <2>1, <3>1, <3>3, <3>5
    <3>7. flushed' + inserted' <= Len(rows')
      BY <1>3, <3>4
    <3>. QED  BY <3>6, <3>7 DEF Count
  <2>. QED  BY <1>0, <2>3, <2>4, <2>5 DEF BillInv
<1>6. CASE ~(Len(queue) < QueueMax)
  <2>1. queue' = queue /\ dropped' = dropped + 1
    BY <1>6 DEF UsagePut
  <2>2. Ordered' /\ Apart'
    BY <1>3, <2>1 DEF BillInv, Ordered, Apart
  <2>3. Count'
    BY <1>0, <1>1, <1>3, <1>4, <2>1, BillTypes DEF BillInv, Count
  <2>. QED  BY <1>0, <2>2, <2>3 DEF BillInv
<1>. QED  BY <1>5, <1>6

\* The oldest queued event becomes the newest of the batch.
LEMMA BillGet == BillInv /\ GetEvent => BillInv'
<1>. SUFFICES ASSUME BillInv, GetEvent PROVE BillInv'
  OBVIOUS
<1>0. TypeInv /\ TypeInv'
  BY TypeFlusher DEF BillInv, FlusherStep
<1>1. queue # <<>> /\ batch' = Append(batch, Head(queue)) /\ queue' = Tail(queue)
      /\ rows' = rows /\ lost' = lost /\ flushed' = flushed /\ dropped' = dropped
      /\ metered' = metered
  BY DEF GetEvent, Turn
<1>2. /\ Increasing(queue') /\ Len(queue) = Len(queue') + 1 /\ Head(queue) \in Nat
      /\ Head(queue) \in Range(queue) /\ Range(queue') \subseteq Range(queue)
      /\ \A x \in Range(queue') : Head(queue) < x
  BY <1>0, <1>1, BillTypes, SortedTail DEF BillInv, Ordered
<1>3. \A x \in Range(batch) : x < Head(queue)
  BY <1>2 DEF BillInv, Ordered, Below
<1>4. /\ Increasing(batch') /\ Range(batch') = Range(batch) \union {Head(queue)}
      /\ Len(batch') = Len(batch) + 1
  BY <1>0, <1>1, <1>2, <1>3, BillTypes, SortedAppend DEF BillInv, Ordered
<1>5. Unwritten = batch /\ Unwritten' = batch' /\ inserted = 0 /\ inserted' = 0
  <2>1. inserted = 0 /\ inserted' = 0
    BY <1>0 DEF GetEvent, Turn, TypeInv
  <2>2. (TypeInv /\ inserted = 0 => Unwritten = batch)'
    BY UnwrittenAll, PTL
  <2>. QED  BY <1>0, <2>1, <2>2, UnwrittenAll
<1>6. Ordered'
  BY <1>1, <1>2, <1>4, <1>5 DEF BillInv, Ordered, Below
<1>7. Apart'
  BY <1>1, <1>2, <1>4, <1>5 DEF BillInv, Apart
<1>8. Len(queue') \in Nat /\ Len(batch) \in Nat
  BY <1>0, BillTypes, LenProperties, Types
<1>9. Count'
  BY <1>0, <1>1, <1>2, <1>4, <1>5, <1>8, BillTypes, Types DEF BillInv, Count
<1>. QED  BY <1>0, <1>6, <1>7, <1>9 DEF BillInv

\* The next events of the batch become rows, one or all of them.
LEMMA BillInsert == BillInv /\ InsertEvents => BillInv'
<1>. SUFFICES ASSUME BillInv, InsertEvents PROVE BillInv'
  OBVIOUS
<1>0. TypeInv /\ TypeInv'
  BY TypeFlusher DEF BillInv, FlusherStep
<1>. DEFINE part == Part(batch, inserted, inserted')
<1>1. /\ queue' = queue /\ batch' = batch /\ metered' = metered /\ dropped' = dropped
      /\ lost' = lost /\ flushed' = flushed /\ rows' = rows \o part
  BY DEF InsertEvents, Part
<1>2. /\ inserted \in 0 .. Len(batch) /\ inserted' \in inserted .. Len(batch)
      /\ inserted \in Nat /\ inserted' \in Nat /\ Len(batch) \in Nat
  <2>1. inserted \in 0 .. Len(batch) /\ Len(batch) \in Nat
    BY <1>0, Lengths, BillTypes
  <2>2. inserted < Len(batch) /\ (inserted' = Len(batch) \/ inserted' = inserted + 1)
    BY Zenon DEF InsertEvents
  <2>. QED  BY <2>1, <2>2
<1>3. /\ part \in Seq(Nat) /\ Increasing(part) /\ Below(part, Unwritten')
      /\ Range(Unwritten) = Range(part) \union Range(Unwritten')
      /\ Range(Unwritten) \subseteq Range(batch)
      /\ Len(part) = inserted' - inserted /\ Len(Unwritten) = Len(batch) - inserted
      /\ Len(Unwritten') = Len(batch) - inserted'
  <2>1. batch \in Seq(Nat) /\ Increasing(batch)
    BY <1>0, BillTypes DEF BillInv, Ordered
  <2>2. Unwritten = Part(batch, inserted, Len(batch)) /\ Unwritten' = Part(batch, inserted', Len(batch))
    BY <1>1 DEF Unwritten, Part
  <2>3. inserted' \in 0 .. Len(batch) /\ Len(batch) \in inserted' .. Len(batch)
        /\ Len(batch) \in inserted .. Len(batch)
    BY <1>2
  <2>4. /\ part \in Seq(Nat) /\ Increasing(part) /\ Len(part) = inserted' - inserted
        /\ Len(Unwritten) = Len(batch) - inserted /\ Len(Unwritten') = Len(batch) - inserted'
        /\ Range(Unwritten) \subseteq Range(batch)
    BY <1>2, <2>1, <2>2, <2>3, SortedPart
  <2>5. Below(part, Unwritten') /\ Range(Unwritten) = Range(part) \union Range(Unwritten')
    BY <1>2, <2>1, <2>2, <2>3, SortedCut
  <2>. QED  BY <2>4, <2>5
<1>4. Below(rows, part)
  BY <1>3 DEF BillInv, Ordered, Below
<1>5. Increasing(rows') /\ Range(rows') = Range(rows) \union Range(part)
  BY <1>0, <1>1, <1>3, <1>4, BillTypes, SortedConcat DEF BillInv, Ordered
<1>6. Len(rows') = Len(rows) + (inserted' - inserted)
  BY <1>0, <1>1, <1>3, BillTypes, ConcatProperties
<1>7. Ordered'
  BY <1>1, <1>3, <1>5 DEF BillInv, Ordered, Below
<1>8. Apart'
  BY <1>1, <1>3, <1>5 DEF BillInv, Apart
<1>9. Count'
  <2>1. /\ Len(rows) \in Nat /\ Len(queue) \in Nat /\ Cardinality(lost) \in Nat
        /\ dropped \in Nat /\ metered \in Nat /\ flushed \in Nat
    BY <1>0, BillTypes, Types
  <2>2. Len(Unwritten) = Len(batch) - inserted /\ Len(Unwritten') = Len(batch) - inserted'
    BY <1>3, Zenon
  <2>3. Len(rows') + Len(Unwritten') = Len(rows) + Len(Unwritten)
    BY <1>2, <1>6, <2>1, <2>2
  <2>4. flushed + inserted <= Len(rows)
    BY Zenon DEF BillInv, Count
  <2>5. flushed + inserted' <= Len(rows')
    BY <1>2, <1>6, <2>1, <2>4
  <2>6. metered = Len(rows) + Len(Unwritten) + Len(queue) + Cardinality(lost) + dropped
    BY Zenon DEF BillInv, Count
  <2>7. metered = Len(rows') + Len(Unwritten') + Len(queue) + Cardinality(lost) + dropped
    BY <2>3, <2>6
  <2>. QED  BY <1>1, <2>5, <2>7, Zenon DEF Count
<1>. QED  BY <1>0, <1>7, <1>8, <1>9 DEF BillInv

\* The batch is given up: what of it has a row keeps it, the rest is lost.
LEMMA BillFlush == BillInv /\ (Flushed \/ FlushFails) => BillInv'
<1>. SUFFICES ASSUME BillInv, Flushed \/ FlushFails PROVE BillInv'
  OBVIOUS
<1>0. TypeInv /\ TypeInv'
  BY TypeFlusher DEF BillInv, FlusherStep
<1>1. /\ queue' = queue /\ batch' = <<>> /\ metered' = metered /\ dropped' = dropped
      /\ rows' = rows /\ inserted' = 0
  BY DEF Flushed, FlushFails, EndFlush, AfterFlush
<1>2. Unwritten' = <<>> /\ Increasing(<<>>)
  <2>1. (TypeInv /\ inserted = 0 => Unwritten = batch)'
    BY UnwrittenAll, PTL
  <2>. QED  BY <1>0, <1>1, <2>1, RangeEmpty DEF Increasing
<1>3. /\ Unwritten \in Seq(Nat) /\ Increasing(Unwritten) /\ Range(Unwritten) \subseteq Range(batch)
      /\ inserted \in Nat /\ Len(Unwritten) = Len(batch) - inserted
  BY <1>0, UnwrittenEnd DEF BillInv, Ordered
<1>4. /\ flushed \in Nat /\ metered \in Nat /\ dropped \in Nat
      /\ Len(rows) \in Nat /\ Len(queue) \in Nat /\ Len(batch) \in Nat
      /\ Cardinality(lost) \in Nat
  BY <1>0, Types, BillTypes
<1>5. Ordered'
  BY <1>1, <1>2, RangeEmpty DEF BillInv, Ordered, Below
<1>6. CASE Flushed
  <2>1. lost' = lost /\ flushed' = flushed + Len(batch) /\ inserted = Len(batch)
    BY <1>6 DEF Flushed
  <2>2. Apart'
    BY <1>1, <1>2, <2>1, RangeEmpty DEF BillInv, Apart
  <2>3. Len(Unwritten) = 0
    BY <1>3, <1>4, <2>1
  <2>4. Count'
    BY <1>1, <1>2, <1>4, <2>1, <2>3, RangeEmpty DEF BillInv, Count
  <2>. QED  BY <1>0, <1>5, <2>2, <2>4 DEF BillInv
<1>7. CASE FlushFails
  <2>1. lost' = lost \union Range(Unwritten) /\ flushed' = flushed
    BY <1>7 DEF FlushFails
  <2>2. Cardinality(lost') = Cardinality(lost) + Len(Unwritten) /\ Len(Unwritten) \in Nat
    BY <1>0, <1>3, <2>1, BillTypes, LoseSequence DEF BillInv, Apart
  <2>3. Range(Unwritten) \cap Range(rows) = {} /\ Range(Unwritten) \cap Range(queue) = {}
    <3>1. Range(Unwritten) \subseteq Nat
      BY <1>3, RangeElements
    <3>. QED  BY <1>3, <3>1 DEF BillInv, Ordered, Below
  <2>4. Apart'
    BY <1>1, <1>2, <2>1, <2>3, RangeEmpty DEF BillInv, Apart
  <2>5. Count'
    <3>1. metered = Len(rows) + Len(Unwritten) + Len(queue) + Cardinality(lost) + dropped
          /\ flushed + inserted <= Len(rows)
      BY Zenon DEF BillInv, Count
    <3>2. flushed + 0 <= Len(rows)
      BY <1>3, <1>4, <3>1
    <3>3. metered = Len(rows) + 0 + Len(queue) + (Cardinality(lost) + Len(Unwritten)) + dropped
      BY <1>4, <2>2, <3>1
    <3>. QED  BY <1>1, <1>2, <2>1, <2>2, <3>2, <3>3, RangeEmpty DEF Count
  <2>. QED  BY <1>0, <1>5, <2>4, <2>5 DEF BillInv
<1>. QED  BY <1>6, <1>7

\* The end of the process loses the queue and what of the batch has no row.
LEMMA BillEnds == BillInv /\ ProcessEnds => BillInv'
<1>. SUFFICES ASSUME BillInv, ProcessEnds PROVE BillInv'
  OBVIOUS
<1>0. TypeInv /\ TypeInv'
  BY TypeEnds DEF BillInv
<1>1. queue' = <<>> /\ batch' = <<>> /\ metered' = metered /\ dropped' = dropped
      /\ rows' = rows /\ flushed' = flushed /\ inserted' = 0
      /\ lost' = lost \union Range(queue) \union Range(Unwritten)
  BY DEF ProcessEnds
<1>2. Unwritten' = <<>>
  <2>1. (TypeInv /\ inserted = 0 => Unwritten = batch)'
    BY UnwrittenAll, PTL
  <2>. QED  BY <1>0, <1>1, <2>1
<1>3. /\ Unwritten \in Seq(Nat) /\ Increasing(Unwritten) /\ Range(Unwritten) \subseteq Range(batch)
      /\ inserted \in Nat
  BY <1>0, UnwrittenEnd DEF BillInv, Ordered
<1>4. Range(queue) \subseteq Nat /\ Range(Unwritten) \subseteq Nat
  BY <1>0, <1>3, BillTypes, RangeElements
<1>5. /\ Range(Unwritten) \cap Range(rows) = {} /\ Range(queue) \cap Range(rows) = {}
      /\ Range(Unwritten) \cap Range(queue) = {}
  BY <1>3, <1>4 DEF BillInv, Ordered, Below
<1>6. /\ IsFiniteSet(lost \union Range(queue))
      /\ Cardinality(lost \union Range(queue)) = Cardinality(lost) + Len(queue)
  BY <1>0, BillTypes, LoseSequence DEF BillInv, Ordered, Apart
<1>7. (lost \union Range(queue)) \cap Range(Unwritten) = {}
  BY <1>5 DEF BillInv, Apart
<1>8. /\ Cardinality(lost') = Cardinality(lost \union Range(queue)) + Len(Unwritten)
      /\ Len(Unwritten) \in Nat
  BY <1>1, <1>3, <1>6, <1>7, LoseSequence
<1>9. Ordered'
  BY <1>1, <1>2, RangeEmpty DEF BillInv, Ordered, Below, Increasing
<1>10. Apart'
  BY <1>1, <1>2, <1>5, RangeEmpty DEF BillInv, Apart
<1>11. Count'
  <2>1. metered = Len(rows) + Len(Unwritten) + Len(queue) + Cardinality(lost) + dropped
        /\ flushed + inserted <= Len(rows)
    BY Zenon DEF BillInv, Count
  <2>2. /\ flushed \in Nat /\ metered \in Nat /\ dropped \in Nat
        /\ Len(rows) \in Nat /\ Len(queue) \in Nat /\ Cardinality(lost) \in Nat
    BY <1>0, Types, BillTypes
  <2>3. Cardinality(lost') = Cardinality(lost) + Len(queue) + Len(Unwritten)
    BY <1>6, <1>8
  <2>4. flushed + 0 <= Len(rows)
    BY <1>3, <2>1, <2>2
  <2>5. metered = Len(rows) + 0 + 0 + Cardinality(lost') + dropped
    BY <1>8, <2>1, <2>2, <2>3
  <2>. QED  BY <1>1, <1>2, <2>4, <2>5, RangeEmpty DEF Count
<1>. QED  BY <1>0, <1>9, <1>10, <1>11 DEF BillInv

LEMMA BillStep == BillInv /\ [Next]_vars => BillInv'
<1>. SUFFICES ASSUME BillInv, [Next]_vars PROVE BillInv'
  OBVIOUS
<1>0. TypeInv'
  BY TypeStep DEF BillInv
<1>1. CASE UNCHANGED <<queue, batch, inserted, rows, metered, lost, dropped, flushed>>
  BY <1>0, <1>1 DEF BillInv, Ordered, Apart, Count, Unwritten
<1>2. CASE GetNothing \/ EndLoop \/ IntervalPasses \/ Stop \/ UNCHANGED vars
  <2>1. UNCHANGED <<queue, batch, inserted, rows, metered, lost, dropped, flushed>>
    BY <1>2 DEF GetNothing, Turn, EndLoop, IntervalPasses, Stop, vars
  <2>. QED  BY <1>1, <2>1
<1>. QED  BY <1>2, BillPut, BillGet, BillInsert, BillFlush, BillEnds DEF Next, FlusherStep, Exit, Crash

\* Every served request is billed at most once and in the order of the answers,
\* and has a row, is on its way to one, was dropped, or was lost; the statistics
\* never report more than there was.  With either database, whichever part of a
\* batch a flush that failed or was cut off had committed.
THEOREM UsageAccountedHolds == Spec => []UsageAccounted
<1>1. ASSUME BillInv PROVE UsageAccounted
  <2>0. TypeInv
    BY <1>1 DEF BillInv
  <2>1. /\ Unwritten \in Seq(Nat) /\ Increasing(Unwritten) /\ Len(Unwritten) \in Nat
        /\ Range(Unwritten) \subseteq Range(batch) /\ inserted \in Nat
    BY <1>1, <2>0, UnwrittenEnd DEF BillInv, Ordered
  <2>2. /\ rows \o Unwritten \in Seq(Nat) /\ Increasing(rows \o Unwritten)
        /\ Range(rows \o Unwritten) = Range(rows) \union Range(Unwritten)
    BY <1>1, <2>0, <2>1, BillTypes, SortedConcat DEF BillInv, Ordered
  <2>3. Below(rows \o Unwritten, queue)
    BY <1>1, <2>1, <2>2 DEF BillInv, Ordered, Below
  <2>4. Increasing((rows \o Unwritten) \o queue)
    BY <1>1, <2>0, <2>2, <2>3, BillTypes, SortedConcat DEF BillInv, Ordered
  <2>5. Len((rows \o Unwritten) \o queue) = Len(rows) + Len(Unwritten) + Len(queue)
    <3>1. Len(rows \o Unwritten) = Len(rows) + Len(Unwritten)
      BY <2>0, <2>1, BillTypes, ConcatProperties
    <3>2. Len((rows \o Unwritten) \o queue) = Len(rows \o Unwritten) + Len(queue)
      BY <2>0, <2>2, BillTypes, ConcatProperties
    <3>. QED  BY <3>1, <3>2
  <2>6. flushed <= Len(rows)
    <3>1. flushed \in Nat /\ Len(rows) \in Nat
      BY <2>0, Types, BillTypes
    <3>. QED  BY <1>1, <2>1, <3>1 DEF BillInv, Count
  <2>. QED  BY <1>1, <2>4, <2>5, <2>6 DEF UsageAccounted, BillInv, Count, Increasing
<1>. QED  BY <1>1, BillInit, BillStep, PTL DEF Spec

-----------------------------------------------------------------------------
(* The list version: what it is a hash of determines the name sets.         *)

\* Two ingests with one list version have the same name sets: for any replies and any
\* two times, and not only for the replies of the run (compute_list_version).
THEOREM VersionDetermines ==
    ASSUME NEW ts, NEW us, NEW R, NEW Q,
           IngestSources(ts, R).version = IngestSources(us, Q).version
    PROVE  IngestSources(ts, R).sets = IngestSources(us, Q).sets
<1>. DEFINE Got(X) == [s \in Sources |-> FetchSource(X[s])]
            Parsed(F) == [s \in Sources |-> IF F[s].status = "ok"
                                            THEN ParseNames(s, F[s].content[1]) ELSE {}]
            SetsOf(F) == [s \in Sources |-> normalised_name_set(Parsed(F)[s])]
<1>1. \A t, X : /\ IngestSources(t, X).version = compute_list_version(t, Got(X))
                /\ IngestSources(t, X).sets = SetsOf(Got(X))
  BY DEF IngestSources
<1>2. \A s \in Sources : /\ Got(R)[s].content = Got(Q)[s].content
                         /\ Got(R)[s].status = Got(Q)[s].status
  <2>. DEFINE Hashed(F) == [s \in Sources |-> <<F[s].content, F[s].status>>]
  <2>. HIDE DEF Got
  <2>1. /\ IngestSources(ts, R).version = <<ts, Hashed(Got(R))>>
        /\ IngestSources(us, Q).version = <<us, Hashed(Got(Q))>>
    BY <1>1 DEF compute_list_version
  <2>. HIDE DEF Hashed
  <2>2. <<ts, Hashed(Got(R))>> = <<us, Hashed(Got(Q))>>
    BY <2>1
  <2>3. Hashed(Got(R)) = Hashed(Got(Q))
    BY <2>2
  <2>. USE DEF Hashed
  <2>4. \A s \in Sources : Hashed(Got(R))[s] = Hashed(Got(Q))[s]
    BY <2>3
  <2>. QED  BY <2>4
<1>. HIDE DEF Got
<1>3. Parsed(Got(R)) = Parsed(Got(Q))
  BY <1>2
<1>4. SetsOf(Got(R)) = SetsOf(Got(Q))
  BY <1>3
<1>. HIDE DEF SetsOf
<1>. QED  BY <1>1, <1>4

\* The inputs the run enumerates are finitely many.
LEMMA FinitePair == ASSUME NEW x, NEW y PROVE IsFiniteSet({x, y})
<1>1. {x, y} = {x} \union {y}
  OBVIOUS
<1>2. IsFiniteSet({x}) /\ IsFiniteSet({y})
  BY FS_Singleton
<1>. QED  BY <1>1, <1>2, FS_Union

\* Records are finitely many when their fields have finitely many values.
LEMMA TextRecord ==
    ASSUME NEW A, NEW B, NEW t \in [first : A, rest : B]
    PROVE  t = [first |-> t.first, rest |-> t.rest] /\ t.first \in A /\ t.rest \in B
  OBVIOUS

LEMMA AnswerRecord ==
    ASSUME NEW A, NEW B, NEW C, NEW a \in [raised : A, code : B, body : C]
    PROVE  /\ a = [raised |-> a.raised, code |-> a.code, body |-> a.body]
           /\ a.raised \in A /\ a.code \in B /\ a.body \in C
  OBVIOUS

LEMMA FiniteAnswers ==
    ASSUME NEW B, NEW C, IsFiniteSet(B), IsFiniteSet(C)
    PROVE  IsFiniteSet([raised : {FALSE}, code : B, body : C])
<1>. DEFINE T == [raised : {FALSE}, code : B, body : C]
            f == [x \in B \X C |-> [raised |-> FALSE, code |-> x[1], body |-> x[2]]]
<1>1. f \in [B \X C -> T]
  OBVIOUS
<1>2. \A a \in T : \E x \in B \X C : f[x] = a
  <2>. TAKE a \in T
  <2>1. a = [raised |-> a.raised, code |-> a.code, body |-> a.body]
    BY AnswerRecord
  <2>2. a.raised = FALSE /\ a.code \in B /\ a.body \in C
    OBVIOUS
  <2>3. a = [raised |-> FALSE, code |-> a.code, body |-> a.body]
    BY <2>1, <2>2
  <2>4. <<a.code, a.body>> \in B \X C /\ f[<<a.code, a.body>>] = a
    BY <2>2, <2>3
  <2>. QED  BY <2>4
<1>3. f \in Surjection(B \X C, T)
  <2>. HIDE DEF f, T
  <2>. QED  BY <1>1, <1>2 DEF Surjection
<1>. QED  BY <1>3, FS_Product, FS_Surjection

LEMMA FiniteNames == IsFiniteSet(Names)
<1>1. IsFiniteSet(LastNames \union {""})
  BY ScreeningAssumption, FS_AddElement
<1>2. IsFiniteSet(Texts)
  <2>. DEFINE S == FirstNames \X (LastNames \union {""})
              f == [x \in S |-> [first |-> x[1], rest |-> x[2]]]
  <2>1. IsFiniteSet(S)
    BY <1>1, ScreeningAssumption, FS_Product
  <2>2. f \in Surjection(S, Texts)
    <3>1. f \in [S -> Texts]
      BY DEF Texts
    <3>2. \A t \in Texts : <<t.first, t.rest>> \in S
      BY DEF Texts
    <3>3. \A t \in Texts : t = [first |-> t.first, rest |-> t.rest]
      BY TextRecord DEF Texts
    <3>4. \A t \in Texts : f[<<t.first, t.rest>>] = t
      BY <3>2, <3>3
    <3>. QED  BY <3>1, <3>2, <3>4 DEF Surjection
  <2>. QED  BY <2>1, <2>2, FS_Surjection
<1>3. IsFiniteSet(Texts \X Spellings)
  BY <1>2, ScreeningAssumption, FS_Product
<1>. DEFINE g == [x \in Texts \X Spellings |-> [text |-> x[1], spelling |-> x[2]]]
<1>4. g \in Surjection(Texts \X Spellings, Names)
  <2>1. g \in [Texts \X Spellings -> Names]
    BY DEF Names
  <2>2. \A n \in Names : /\ <<n.text, n.spelling>> \in Texts \X Spellings
                         /\ g[<<n.text, n.spelling>>] = n
    BY DEF Names
  <2>. QED  BY <2>1, <2>2 DEF Surjection
<1>. QED  BY <1>3, <1>4, FS_Surjection

\* Zenon writes a number as that many successors: the codes are kept apart.
Codes == {200, 503}

LEMMA FiniteReplies == IsFiniteSet(Replies)
<1>. DEFINE Listed == {{}} \union {{n} : n \in Names}
<1>1. IsFiniteSet(Listed)
  <2>. DEFINE f == [n \in Names |-> {n}]
  <2>1. f \in Surjection(Names, {{n} : n \in Names})
    BY DEF Surjection
  <2>2. IsFiniteSet({{n} : n \in Names})
    BY <2>1, FiniteNames, FS_Surjection
  <2>. QED  BY <2>2, FS_Singleton, FS_Union
<1>2. IsFiniteSet(BOOLEAN) /\ IsFiniteSet(Codes)
  <2>1. BOOLEAN = {TRUE, FALSE}
    OBVIOUS
  <2>2. IsFiniteSet({TRUE, FALSE})
    BY FinitePair, Zenon
  <2>3. IsFiniteSet(Codes)
    BY FinitePair, SMT DEF Codes
  <2>. QED  BY <2>1, <2>2, <2>3
<1>3. IsFiniteSet(Bodies)
  <2>. DEFINE f == [x \in Listed \X BOOLEAN |-> [names |-> x[1], parses |-> x[2]]]
  <2>1. f \in Surjection(Listed \X BOOLEAN, Bodies)
    <3>1. f \in [Listed \X BOOLEAN -> Bodies]
      BY DEF Bodies
    <3>2. \A b \in Bodies : /\ <<b.names, b.parses>> \in Listed \X BOOLEAN
                            /\ f[<<b.names, b.parses>>] = b
      BY DEF Bodies
    <3>. QED  BY <3>1, <3>2 DEF Surjection
  <2>2. IsFiniteSet(Listed \X BOOLEAN)
    BY <1>1, <1>2, FS_Product
  <2>. QED  BY <2>1, <2>2, FS_Surjection
<1>4. IsFiniteSet([raised : {FALSE}, code : Codes, body : Bodies])
  BY <1>2, <1>3, FiniteAnswers, Zenon
<1>5. IsFiniteSet({[raised |-> TRUE]})
  BY FS_Singleton, Zenon
<1>6. Replies = [raised : {FALSE}, code : Codes, body : Bodies] \union {[raised |-> TRUE]}
  BY DEF Replies, Codes
<1>. QED  BY <1>4, <1>5, <1>6, FS_Union, Zenon

LEMMA FiniteReplySets == IsFiniteSet(ReplySets)
<1>. DEFINE Pairs == {"EU", "OFAC"} \X {"OFAC", "UN"}
            S == Pairs \X (Replies \X Replies)
            quiet == [raised |-> TRUE]
            f == [x \in S |-> [s \in Sources |-> IF s = x[1][1] THEN x[2][1]
                                  ELSE IF s = x[1][2] THEN x[2][2] ELSE quiet]]
<1>1. IsFiniteSet({"EU", "OFAC"}) /\ IsFiniteSet({"OFAC", "UN"})
  BY FinitePair
<1>2. IsFiniteSet(S)
  BY <1>1, FiniteReplies, FS_Product
<1>3. \A R \in ReplySets : \E x \in S : f[x] = R
  <2>. TAKE R \in ReplySets
  <2>1. PICK a \in {"EU", "OFAC"}, b \in {"OFAC", "UN"}, r \in Replies, q \in Replies :
            R = [s \in Sources |-> IF s = a THEN r ELSE IF s = b THEN q ELSE quiet]
    BY DEF ReplySets
  <2>2. <<<<a, b>>, <<r, q>>>> \in S
    OBVIOUS
  <2>. QED  BY <2>1, <2>2
<1>4. \A x \in S : f[x] \in ReplySets
  BY DEF ReplySets
<1>5. f \in Surjection(S, ReplySets)
  BY <1>3, <1>4 DEF Surjection
<1>. QED  BY <1>2, <1>5, FS_Surjection

\* A pack that is found by its key says what a new one would say: the key has the list
\* version and the subject in it, and the result is a function of the name sets.
LEMMA KeysDetermine == KeyDetermines
<1>. SUFFICES ASSUME NEW subject \in Subjects, NEW alike \in Similarities
              PROVE  LET artifacts == {IngestSources(0, R) : R \in ReplySets}
                         keyed == {<<compute_screening_key(a.version, subject),
                                     screen_subject_name(subject, a.sets, alike)>> :
                                   a \in artifacts}
                     IN  Cardinality({k[1] : k \in keyed}) = Cardinality(keyed)
  BY DEF KeyDetermines
<1>. DEFINE Key(a) == compute_screening_key(a.version, subject)
            Result(a) == screen_subject_name(subject, a.sets, alike)
            artifacts == {IngestSources(0, R) : R \in ReplySets}
            keyed == {<<Key(a), Result(a)>> : a \in artifacts}
            keys == {k[1] : k \in keyed}
            f == [k \in keyed |-> k[1]]
<1>1. IsFiniteSet(keyed)
  <2>. DEFINE g == [R \in ReplySets |-> <<Key(IngestSources(0, R)), Result(IngestSources(0, R))>>]
  <2>. HIDE DEF Key, Result
  <2>1. g \in Surjection(ReplySets, keyed)
    BY DEF Surjection
  <2>. QED  BY <2>1, FiniteReplySets, FS_Surjection
<1>2. \A a, b \in artifacts : Key(a) = Key(b) => Result(a) = Result(b)
  <2>1. \A a, b \in artifacts : a.version = b.version => a.sets = b.sets
    BY VersionDetermines
  <2>2. \A a, b \in artifacts : Key(a) = Key(b) => a.version = b.version
    BY DEF compute_screening_key
  <2>. QED  BY <2>1, <2>2
<1>. HIDE DEF Key, Result, artifacts
<1>3. \A k, l \in keyed : k[1] = l[1] => k = l
  BY <1>2
<1>4. f \in Bijection(keyed, keys)
  BY <1>3 DEF Bijection, Injection, Surjection, IsInjective
<1>5. ExistsBijection(keyed, keys)
  BY <1>4 DEF ExistsBijection
<1>6. Cardinality(keys) = Cardinality(keyed)
  <2>. HIDE DEF keyed, keys
  <2>. QED  BY <1>1, <1>5, FS_Bijection
<1>. QED  BY <1>6 DEF Key, Result, artifacts

-----------------------------------------------------------------------------
(* The decision: what a match and a disambiguation can come to.             *)

\* An exact hit, and nothing else, ends in a block, and never in an allow.
LEMMA Matched ==
    ASSUME NEW norm, NEW sets, NEW alike
    PROVE  LET match == Match(norm, sets, alike)
               hits == {s \in Sources : norm \in sets[s]}
           IN  /\ match.decision = "allow" => hits = {}
               /\ match.decision = "block" => hits # {} /\ match.hits = hits
  BY Zenon DEF Match

LEMMA Disambiguated ==
    ASSUME NEW match, NEW subject \in Subjects
    PROVE  LET result == Disambiguate(match, subject)
           IN  /\ result.decision = "allow" => match.decision = "allow"
               /\ result.decision = "block" =>
                    match.decision = "block" /\ result.hits = match.hits /\ Penalty(subject) = 0
  BY DEF Disambiguate

\* The names an artifact has of a source are those of its body, as its parser reads them.
NamesOf(s, R) == IF FetchSource(R[s]).status = "ok"
                 THEN ParseNames(s, FetchSource(R[s]).content[1]) ELSE {}

LEMMA Ingested ==
    ASSUME NEW ts, NEW R, NEW s \in Sources
    PROVE  LET a == IngestSources(ts, R) IN
           /\ a.sets[s] = normalised_name_set(NamesOf(s, R))
           /\ a.status[s] = FetchSource(R[s]).status
           /\ a.entries[s] = Cardinality(NamesOf(s, R))
  BY DEF IngestSources, NamesOf

\* Whatever the three sources may reply: any status code and any list of names.
AnyReplies ==
    [Sources -> [raised : {FALSE}, code : Int, body : [names : SUBSET Names, parses : BOOLEAN]]
                \union {[raised |-> TRUE]}]

LEMMA RepliesOfRun == ReplySets \subseteq AnyReplies
<1>. DEFINE A == [raised : {FALSE}, code : Int, body : [names : SUBSET Names, parses : BOOLEAN]]
                 \union {[raised |-> TRUE]}
<1>1. Replies \subseteq A
  <2>1. Bodies \subseteq [names : SUBSET Names, parses : BOOLEAN]
    BY DEF Bodies
  <2>. HIDE DEF Bodies
  <2>2. ASSUME NEW r \in [raised : {FALSE}, code : Codes, body : Bodies] PROVE r \in A
    <3>1. /\ r = [raised |-> r.raised, code |-> r.code, body |-> r.body]
          /\ r.raised \in {FALSE} /\ r.code \in Codes /\ r.body \in Bodies
      BY AnswerRecord
    <3>2. r.code \in Int /\ r.body \in [names : SUBSET Names, parses : BOOLEAN]
      BY <2>1, <3>1 DEF Codes
    <3>. QED  BY <3>1, <3>2
  <2>3. [raised |-> TRUE] \in A
    OBVIOUS
  <2>. HIDE DEF A
  <2>4. Replies = [raised : {FALSE}, code : Codes, body : Bodies] \union {[raised |-> TRUE]}
    BY DEF Replies, Codes
  <2>. QED  BY <2>2, <2>3, <2>4, Zenon
<1>2. [raised |-> TRUE] \in A
  OBVIOUS
<1>. HIDE DEF A
<1>3. ASSUME NEW R \in ReplySets PROVE R \in [Sources -> A]
  <2>1. PICK a \in {"EU", "OFAC"}, b \in {"OFAC", "UN"}, r \in Replies, q \in Replies :
            R = [t \in Sources |-> IF t = a THEN r ELSE IF t = b THEN q ELSE [raised |-> TRUE]]
    BY DEF ReplySets
  <2>. QED  BY <1>1, <1>2, <2>1
<1>. QED  BY <1>3 DEF AnyReplies, A

\* Bodies list names.
LEMMA ListedNames ==
    ASSUME NEW R \in AnyReplies, NEW s \in Sources, ~R[s].raised
    PROVE  R[s].body.names \subseteq Names
<1>1. R[s] = [raised |-> TRUE] => R[s].raised
  OBVIOUS
<1>2. R[s] \in [raised : {FALSE}, code : Int, body : [names : SUBSET Names, parses : BOOLEAN]]
  BY <1>1 DEF AnyReplies
<1>3. R[s].body \in [names : SUBSET Names, parses : BOOLEAN]
  BY <1>2, AnswerRecord
<1>. QED  BY <1>3

\* What is read is listed, and what is listed in a source that answered is read, unless
\* nothing of the list was, or it is a name of the UN list with more than a first name.
LEMMA ReadIsListed ==
    ASSUME NEW R \in AnyReplies, NEW s \in Sources, NEW n \in NamesOf(s, R)
    PROVE  /\ ~R[s].raised
           /\ \/ n \in R[s].body.names
              \/ s = "UN" /\ \E m \in R[s].body.names : n = FirstName(m)
  BY DEF NamesOf, FetchSource, ParseNames, parse_eu_names, parse_ofac_names, parse_un_names,
         Sources

LEMMA ListedIsRead ==
    ASSUME NEW R \in AnyReplies, NEW s \in Sources, ~R[s].raised, NEW n \in R[s].body.names,
           FetchSource(R[s]).status = "ok"
    PROVE  \/ NamesOf(s, R) = {}
           \/ s = "UN" /\ n # FirstName(n)
           \/ n \in NamesOf(s, R)
  BY DEF NamesOf, FetchSource, ParseNames, parse_eu_names, parse_ofac_names, parse_un_names,
         Sources

\* The reason of a decision, as DecisionExplained asks for it.
Explained(R, subject, a, result) ==
    LET norm == normalise_name(subject.name)
        Lists(s, n) == ~R[s].raised /\ n \in R[s].body.names
        Same(n) == normalise_name(n) = norm
    IN  /\ result.decision = "allow" =>
             \A s \in Sources, n \in Names :
                Lists(s, n) /\ Same(n) =>
                   \/ a.status[s] # "ok" \/ a.entries[s] = 0
                   \/ norm = Nothing
                   \/ (s = "UN" /\ n # FirstName(n))
        /\ result.decision = "block" =>
             /\ Penalty(subject) = 0
             /\ \A s \in result.hits : \E n \in Names :
                   Lists(s, n) /\ (Same(n) \/ (s = "UN" /\ Same(FirstName(n))))

\* Every allow and every block has its reason in the artifact, whatever the three
\* sources list and however alike any two names are (screen_subject_name).
THEOREM EveryDecisionExplained ==
    ASSUME NEW ts, NEW R \in AnyReplies, NEW subject \in Subjects, NEW alike
    PROVE  LET a == IngestSources(ts, R)
           IN  Explained(R, subject, a, screen_subject_name(subject, a.sets, alike))
<1>. DEFINE a == IngestSources(ts, R)
            norm == normalise_name(subject.name)
            Lists(s, n) == ~R[s].raised /\ n \in R[s].body.names
            Same(n) == normalise_name(n) = norm
            match == Match(norm, a.sets, alike)
            result == screen_subject_name(subject, a.sets, alike)
            hits == {s \in Sources : norm \in a.sets[s]}
<1>1. /\ result.decision = "allow" => hits = {}
      /\ result.decision = "block" => result.hits = hits /\ Penalty(subject) = 0
  <2>1. result = Disambiguate(match, subject)
    BY DEF screen_subject_name
  <2>. HIDE DEF result, match
  <2>2. /\ match.decision = "allow" => hits = {}
        /\ match.decision = "block" => match.hits = hits
    BY Matched DEF match
  <2>. QED  BY <2>1, <2>2, Disambiguated
<1>2. \A s \in Sources : s \in hits <=>
         norm # Nothing /\ \E n \in NamesOf(s, R) : Same(n)
  BY Ingested DEF normalised_name_set
<1>3. ASSUME result.decision = "allow", NEW s \in Sources, NEW n \in Names,
             Lists(s, n), Same(n)
      PROVE  a.status[s] # "ok" \/ a.entries[s] = 0 \/ norm = Nothing
             \/ (s = "UN" /\ n # FirstName(n))
  <2>1. s \notin hits
    BY <1>1, <1>3
  <2>2. norm = Nothing \/ n \notin NamesOf(s, R)
    BY <1>2, <1>3, <2>1
  <2>3. NamesOf(s, R) = {} => a.entries[s] = 0
    <3>1. a.entries[s] = Cardinality(NamesOf(s, R))
      BY Ingested
    <3>. QED  BY <3>1, FS_EmptySet
  <2>4. a.status[s] = FetchSource(R[s]).status
    BY Ingested
  <2>. QED  BY <1>3, <2>2, <2>3, <2>4, ListedIsRead
<1>4. ASSUME result.decision = "block", NEW s \in result.hits
      PROVE  \E n \in Names : Lists(s, n) /\ (Same(n) \/ (s = "UN" /\ Same(FirstName(n))))
  <2>1. s \in Sources /\ s \in hits
    BY <1>1, <1>4
  <2>2. PICK n \in NamesOf(s, R) : Same(n)
    BY <1>2, <2>1
  <2>3. ~R[s].raised /\ R[s].body.names \subseteq Names
    BY <2>1, ReadIsListed, ListedNames
  <2>. QED  BY <2>1, <2>2, <2>3, ReadIsListed
<1>. HIDE DEF a, norm, result, hits
<1>. QED  BY <1>1, <1>3, <1>4 DEF a, norm, result, Explained

LEMMA DecisionsAreExplained == DecisionExplained
<1>. SUFFICES ASSUME NEW R \in ReplySets, NEW subject \in Subjects, NEW alike \in Similarities
              PROVE  LET a == IngestSources(0, R)
                     IN  Explained(R, subject, a, screen_subject_name(subject, a.sets, alike))
  BY Zenon DEF DecisionExplained, Explained
<1>. QED  BY RepliesOfRun, EveryDecisionExplained

\* A pack found by its screening key is what a new one would be: what the list
\* version of an ingest hashes determines the name sets that it is screened with.
THEOREM PackReusableHolds == Spec => []PackReusable
<1>1. PackReusable
  BY KeysDetermine DEF PackReusable
<1>. QED  BY <1>1, PTL

\* Every allow and every block of screen_subject_name has its reason in the artifact
\* of the ingest, whatever the sources replied.
THEOREM DecisionsExplainedHolds == Spec => []DecisionsExplained
<1>1. DecisionsExplained
  BY DecisionsAreExplained DEF DecisionsExplained
<1>. QED  BY <1>1, PTL

-----------------------------------------------------------------------------
(* Induction over the naturals, for a set of numbers and not an operator:    *)
(* the least number outside the set is neither zero nor a successor.  That   *)
(* there is a least one follows from the intervals 1 .. n, finite sets,       *)
(* which inclusion orders well.                                             *)

LEMMA LeastNumber ==
    ASSUME NEW T \in SUBSET Nat, T # {}
    PROVE  \E n \in T : \A m \in T : n <= m
<1>. DEFINE F == {1 .. n : n \in T}
<1>1. F \subseteq FiniteSubsetsOf(Nat)
  <2>. SUFFICES ASSUME NEW n \in T PROVE 1 .. n \in FiniteSubsetsOf(Nat)
    OBVIOUS
  <2>1. IsFiniteSet(1 .. n)
    BY FS_Interval
  <2>. QED  BY <2>1 DEF FiniteSubsetsOf
<1>2. F # {}
  OBVIOUS
<1>3. IsWellFoundedOn(StrictSubsetOrdering(Nat), FiniteSubsetsOf(Nat))
  BY FS_StrictSubsetOrderingWellFounded
<1>4. PICK x \in F : \A y \in F : ~ (<<y, x>> \in StrictSubsetOrdering(Nat))
  <2>. HIDE DEF F
  <2>. QED  BY <1>1, <1>2, <1>3, WFMin
<1>5. PICK n \in T : x = 1 .. n
  BY <1>4
<1>6. ASSUME NEW m \in T, m < n PROVE FALSE
  <2>1. 1 .. m \subseteq 1 .. n /\ 1 .. m # 1 .. n /\ 1 .. n \subseteq Nat
    <3>1. n \in 1 .. n /\ n \notin 1 .. m
      BY <1>6
    <3>. QED  BY <1>6, <3>1
  <2>2. <<1 .. m, 1 .. n>> \in StrictSubsetOrdering(Nat)
    BY <2>1 DEF StrictSubsetOrdering
  <2>3. 1 .. m \in F
    OBVIOUS
  <2>. QED  BY <1>4, <1>5, <2>2, <2>3
<1>. QED  BY <1>6

LEMMA Induction ==
    ASSUME NEW S, 0 \in S, \A n \in Nat : n \in S => n + 1 \in S
    PROVE  Nat \subseteq S
<1>. SUFFICES ASSUME Nat \ S # {} PROVE FALSE
  OBVIOUS
<1>1. PICK n \in Nat \ S : \A m \in Nat \ S : n <= m
  BY LeastNumber
<1>2. n # 0 /\ n - 1 \in Nat
  BY <1>1
<1>3. n - 1 \in S
  BY <1>1, <1>2
<1>. QED  BY <1>1, <1>2, <1>3

-----------------------------------------------------------------------------
(* Sorting by rank.  A table is finite and its rows are told apart by their  *)
(* timestamp and id; a row's rank is how many rows are newer.               *)

IsTable(R) ==
    /\ IsFiniteSet(R)
    /\ \A r \in R : r.stamp \in Int /\ r.id \in Int
    /\ \A q, r \in R : q.stamp = r.stamp /\ q.id = r.id => q = r

Above(R, r) == {q \in R : Newer(q, r)}

LEMMA NewerOrders ==
    ASSUME NEW R, IsTable(R)
    PROVE  /\ \A r \in R : ~ Newer(r, r)
           /\ \A p, q, r \in R : Newer(p, q) /\ Newer(q, r) => Newer(p, r)
           /\ \A q, r \in R : q = r \/ Newer(q, r) \/ Newer(r, q)
  BY DEF IsTable, Newer

LEMMA Ranks ==
    ASSUME NEW R, IsTable(R)
    PROVE  /\ Cardinality(R) \in Nat
           /\ \A r \in R : /\ IsFiniteSet(Above(R, r))
                           /\ Cardinality(Above(R, r)) \in 0 .. Cardinality(R) - 1
           /\ \A q, r \in R : Newer(q, r) =>
                Cardinality(Above(R, q)) < Cardinality(Above(R, r))
<1>1. IsFiniteSet(R) /\ Cardinality(R) \in Nat
  BY FS_CardinalityType DEF IsTable
<1>2. ASSUME NEW r \in R
      PROVE  /\ IsFiniteSet(Above(R, r)) /\ Cardinality(Above(R, r)) \in Nat
             /\ Cardinality(Above(R, r)) <= Cardinality(R) - 1
  <2>1. Above(R, r) \subseteq R \ {r}
    BY NewerOrders DEF Above
  <2>2. IsFiniteSet(R \ {r}) /\ Cardinality(R \ {r}) = Cardinality(R) - 1
    BY <1>1, FS_RemoveElement
  <2>3. IsFiniteSet(Above(R, r)) /\ Cardinality(Above(R, r)) <= Cardinality(R \ {r})
    BY <2>1, <2>2, FS_Subset
  <2>. QED  BY <2>2, <2>3, FS_CardinalityType
<1>3. ASSUME NEW q \in R, NEW r \in R, Newer(q, r)
      PROVE  Cardinality(Above(R, q)) < Cardinality(Above(R, r))
  <2>1. Above(R, q) \subseteq Above(R, r)
    BY <1>3, NewerOrders DEF Above
  <2>2. q \in Above(R, r) /\ q \notin Above(R, q)
    BY <1>3, NewerOrders DEF Above
  <2>3. /\ Cardinality(Above(R, q)) <= Cardinality(Above(R, r))
        /\ Cardinality(Above(R, r)) = Cardinality(Above(R, q)) => Above(R, r) = Above(R, q)
    BY <1>2, <2>1, FS_Subset
  <2>4. Cardinality(Above(R, q)) \in Nat /\ Cardinality(Above(R, r)) \in Nat
    BY <1>2
  <2>. QED  BY <2>2, <2>3, <2>4
<1>4. \A r \in R : Cardinality(Above(R, r)) \in 0 .. Cardinality(R) - 1
  BY <1>1, <1>2
<1>. QED  BY <1>1, <1>2, <1>3, <1>4

\* There is one row of every rank.
LEMMA RanksTaken ==
    ASSUME NEW R, IsTable(R), NEW n \in 1 .. Cardinality(R)
    PROVE  /\ \E r \in R : Cardinality(Above(R, r)) = n - 1
           /\ \A q, r \in R : Cardinality(Above(R, q)) = Cardinality(Above(R, r)) => q = r
<1>. DEFINE N == 1 .. Cardinality(R)
            f == [r \in R |-> Cardinality(Above(R, r)) + 1]
<1>1. Cardinality(R) \in Nat /\ \A r \in R : Cardinality(Above(R, r)) \in 0 .. Cardinality(R) - 1
  BY Ranks
<1>2. \A q, r \in R : Cardinality(Above(R, q)) = Cardinality(Above(R, r)) => q = r
  BY Ranks, NewerOrders
<1>3. f \in [R -> N]
  BY <1>1
<1>4. \A q, r \in R : f[q] = f[r] => q = r
  BY <1>1, <1>2
<1>5. f \in Injection(R, N)
  <2>. HIDE DEF f, N
  <2>. QED  BY <1>3, <1>4 DEF Injection, IsInjective
<1>6. IsFiniteSet(N) /\ Cardinality(N) = Cardinality(R)
  BY <1>1, FS_Interval
<1>7. f \in Surjection(R, N)
  <2>. HIDE DEF f, N
  <2>. QED  BY <1>5, <1>6, FS_Injection
<1>8. PICK r \in R : f[r] = n
  <2>1. n \in N
    OBVIOUS
  <2>. HIDE DEF f, N
  <2>. QED  BY <1>7, <2>1 DEF Surjection
<1>9. Cardinality(Above(R, r)) = n - 1
  BY <1>1, <1>8
<1>. QED  BY <1>2, <1>9

LEMMA SortedRows ==
    ASSUME NEW R, IsTable(R)
    PROVE  /\ Sorted(R) \in Seq(R) /\ Len(Sorted(R)) = Cardinality(R)
           /\ \A n \in 1 .. Cardinality(R) :
                Sorted(R)[n] \in R /\ Cardinality(Above(R, Sorted(R)[n])) = n - 1
           /\ \A r \in R : \E n \in 1 .. Cardinality(R) : r = Sorted(R)[n]
           /\ \A m, n \in 1 .. Cardinality(R) : m < n => Newer(Sorted(R)[m], Sorted(R)[n])
<1>0. Cardinality(R) \in Nat
  BY Ranks
<1>1. ASSUME NEW n \in 1 .. Cardinality(R)
      PROVE  Sorted(R)[n] \in R /\ Cardinality(Above(R, Sorted(R)[n])) = n - 1
  <2>1. Sorted(R)[n] = CHOOSE r \in R : Cardinality(Above(R, r)) = n - 1
    BY DEF Sorted, Above
  <2>. QED  BY <2>1, RanksTaken
<1>2. Sorted(R) \in [1 .. Cardinality(R) -> R]
  <2>. DEFINE D == 1 .. Cardinality(R)
              At(n) == CHOOSE r \in R : Cardinality({q \in R : Newer(q, r)}) = n - 1
  <2>0. Sorted(R) = [n \in D |-> At(n)]
    BY Zenon DEF Sorted
  <2>. HIDE DEF At, D
  <2>2. Sorted(R) = [n \in D |-> Sorted(R)[n]]
    BY <2>0
  <2>1. Sorted(R) = [n \in 1 .. Cardinality(R) |-> Sorted(R)[n]]
    BY <2>2 DEF D
  <2>. QED  BY <1>1, <2>1
<1>3. Sorted(R) \in Seq(R) /\ Len(Sorted(R)) = Cardinality(R)
  BY <1>0, <1>2
<1>4. ASSUME NEW r \in R PROVE \E n \in 1 .. Cardinality(R) : r = Sorted(R)[n]
  <2>. DEFINE n == Cardinality(Above(R, r)) + 1
  <2>1. n \in 1 .. Cardinality(R) /\ Cardinality(Above(R, r)) = n - 1
    BY <1>0, Ranks
  <2>2. Sorted(R)[n] = r
    BY <1>1, <2>1, RanksTaken
  <2>. QED  BY <2>1, <2>2
<1>5. ASSUME NEW m \in 1 .. Cardinality(R), NEW n \in 1 .. Cardinality(R), m < n
      PROVE  Newer(Sorted(R)[m], Sorted(R)[n])
  <2>1. Sorted(R)[m] # Sorted(R)[n]
    BY <1>1, <1>5
  <2>2. ~ Newer(Sorted(R)[n], Sorted(R)[m])
    <3>1. Newer(Sorted(R)[n], Sorted(R)[m]) => n - 1 < m - 1
      BY <1>1, Ranks
    <3>. QED  BY <1>5, <3>1
  <2>. QED  BY <1>1, <2>1, <2>2, NewerOrders
<1>. QED  BY <1>1, <1>3, <1>4, <1>5

Descending(s) == \A m, n \in 1 .. Len(s) : m < n => Newer(s[m], s[n])
Listed(s) == {s[n] : n \in 1 .. Len(s)}

\* A descending sequence of rows with every row that is newer than one of them is
\* where the sorted table begins.
LEMMA BeginsSorted ==
    ASSUME NEW R, IsTable(R), NEW s \in Seq(R), Descending(s),
           \A n \in 1 .. Len(s), q \in R : Newer(q, s[n]) => q \in Listed(s)
    PROVE  IsPrefix(s, Sorted(R))
<1>0. Len(s) \in Nat /\ \A n \in 1 .. Len(s) : s[n] \in R
  OBVIOUS
<1>1. ASSUME NEW n \in 1 .. Len(s) PROVE Cardinality(Above(R, s[n])) = n - 1
  <2>. DEFINE g == [m \in 1 .. n - 1 |-> s[m]]
  <2>1. \A m \in 1 .. n - 1 : s[m] \in Above(R, s[n])
    BY <1>0 DEF Descending, Above
  <2>2. \A q \in Above(R, s[n]) : \E m \in 1 .. n - 1 : q = s[m]
    <3>1. SUFFICES ASSUME NEW q \in R, Newer(q, s[n]) PROVE \E m \in 1 .. n - 1 : q = s[m]
      BY DEF Above
    <3>2. PICK m \in 1 .. Len(s) : q = s[m]
      BY <3>1 DEF Listed
    <3>3. m # n
      BY <1>0, <3>1, <3>2, NewerOrders
    <3>4. ~ (n < m)
      BY <1>0, <3>1, <3>2, NewerOrders DEF Descending
    <3>. QED  BY <3>2, <3>3, <3>4
  <2>3. \A l, m \in 1 .. n - 1 : s[l] = s[m] => l = m
    BY <1>0, NewerOrders DEF Descending
  <2>4. g \in Bijection(1 .. n - 1, Above(R, s[n]))
    BY <2>1, <2>2, <2>3 DEF Bijection, Injection, Surjection, IsInjective
  <2>5. ExistsBijection(1 .. n - 1, Above(R, s[n])) /\ n - 1 \in Nat
    BY <2>4 DEF ExistsBijection
  <2>. QED  BY <2>5, FS_CountingElements
<1>2. \A n \in 1 .. Len(s) : n \in 1 .. Cardinality(R) /\ s[n] = Sorted(R)[n]
  <2>. TAKE n \in 1 .. Len(s)
  <2>1. n \in 1 .. Cardinality(R)
    <3>1. s[n] \in R /\ Cardinality(Above(R, s[n])) = n - 1
      BY <1>0, <1>1
    <3>2. Cardinality(R) \in Nat /\ n - 1 \in 0 .. Cardinality(R) - 1
      BY <3>1, Ranks
    <3>. QED  BY <1>0, <3>2
  <2>2. s[n] \in R /\ Cardinality(Above(R, s[n])) = n - 1
    BY <1>0, <1>1
  <2>3. Sorted(R)[n] \in R /\ Cardinality(Above(R, Sorted(R)[n])) = n - 1
    BY <2>1, SortedRows
  <2>. QED  BY <2>1, <2>2, <2>3, RanksTaken
<1>3. Len(s) <= Len(Sorted(R))
  BY <1>0, <1>2, SortedRows, Ranks
<1>4. SubSeq(s, 1, Len(s)) = SubSeq(Sorted(R), 1, Len(s))
  <2>. DEFINE t == SubSeq(Sorted(R), 1, Len(s))
  <2>1. \A n \in 1 .. Len(s) : Sorted(R)[n] \in R
    BY <1>0, <1>2
  <2>2. /\ t \in Seq(R) /\ Len(t) = Len(s)
        /\ \A n \in 1 .. Len(s) : t[n] = Sorted(R)[n]
    <3>1. Len(s) - 1 + 1 = Len(s) /\ \A n \in 1 .. Len(s) : 1 + n - 1 = n
      BY <1>0
    <3>2. /\ t \in Seq(R) /\ Len(t) = IF 1 <= Len(s) THEN Len(s) - 1 + 1 ELSE 0
          /\ \A n \in 1 .. Len(s) - 1 + 1 : t[n] = Sorted(R)[1 + n - 1]
      BY <1>0, <2>1, SubSeqProperties
    <3>. QED  BY <1>0, <3>1, <3>2
  <2>3. t = s
    <3>. HIDE DEF t
    <3>. QED  BY <1>2, <2>2, SeqEqual
  <2>. QED  BY <2>3, SubSeqFull
<1>. QED  BY <1>3, <1>4 DEF IsPrefix

-----------------------------------------------------------------------------
(* A page: the newest rows, as many as the limit allows.                    *)

LEMMA Clamps ==
    ASSUME NEW limit \in Int
    PROVE  /\ Clamp(limit) \in 1 .. PageCap
           /\ Clamp(Clamp(limit)) = Clamp(limit)
<1>0. PageCap \in Nat \ {0}
  BY ListingAssumption
<1>1. \A a, b \in Int : /\ Min({a, b}) = IF a <= b THEN a ELSE b
                        /\ Max({a, b}) = IF a >= b THEN a ELSE b
  BY DEF Min, Max
<1>2. \A n \in Int : Clamp(n) = IF n > PageCap THEN PageCap ELSE IF n < 1 THEN 1 ELSE n
  BY <1>0, <1>1 DEF Clamp
<1>. QED  BY <1>0, <1>2

\* What there is to say of the page p of the rows R: it is in order, newer than what
\* it leaves out, and leaves something out only if it is full.
PageOf(p, R, limit) ==
    /\ p \in Seq(R) /\ Descending(p) /\ Len(p) <= Clamp(limit)
    /\ \A r \in R : r \in Listed(p) \/ \A n \in 1 .. Len(p) : Newer(p[n], r)
    /\ Len(p) < Clamp(limit) => R \subseteq Listed(p)

LEMMA FetchedPage ==
    ASSUME NEW R, IsTable(R), NEW limit \in Int
    PROVE  PageOf(Fetched(R, limit), R, limit)
<1>. DEFINE c == Cardinality(R)
            k == Min({c, Clamp(limit)})
            p == Fetched(R, limit)
<1>0. c \in Nat /\ Clamp(limit) \in Nat \ {0}
  BY Ranks, Clamps, ListingAssumption
<1>1. k \in Nat /\ k <= c /\ k <= Clamp(limit) /\ (k < Clamp(limit) => k = c)
  BY <1>0 DEF Min
<1>. HIDE DEF c, k
<1>2. \A n \in 1 .. k : Sorted(R)[n] \in R
  BY <1>0, <1>1, SortedRows DEF c
<1>3. p \in Seq(R) /\ Len(p) = k /\ \A n \in 1 .. k : p[n] = Sorted(R)[n]
  <2>1. p = SubSeq(Sorted(R), 1, k)
    BY DEF Fetched, k, c
  <2>2. /\ p \in Seq(R) /\ Len(p) = IF 1 <= k THEN k - 1 + 1 ELSE 0
        /\ \A n \in 1 .. k - 1 + 1 : p[n] = Sorted(R)[1 + n - 1]
    BY <1>1, <1>2, <2>1, SubSeqProperties
  <2>. QED  BY <1>1, <2>2
<1>. HIDE DEF p
<1>7. /\ \A r \in R : \E m \in 1 .. c : r = Sorted(R)[m]
      /\ \A m, n \in 1 .. c : m < n => Newer(Sorted(R)[m], Sorted(R)[n])
      /\ \A n \in 1 .. k : n \in 1 .. c
  <2>1. \A n \in 1 .. k : n \in 1 .. c
    BY <1>0, <1>1
  <2>. QED  BY <2>1, SortedRows DEF c
<1>4. Descending(p)
  BY <1>3, <1>7 DEF Descending
<1>5. ASSUME NEW r \in R PROVE r \in Listed(p) \/ \A n \in 1 .. Len(p) : Newer(p[n], r)
  <2>1. PICK m \in 1 .. c : r = Sorted(R)[m]
    BY <1>7
  <2>2. CASE m <= k
    BY <1>1, <1>3, <2>1, <2>2 DEF Listed
  <2>3. CASE m > k
    BY <1>0, <1>1, <1>3, <1>7, <2>1, <2>3
  <2>. QED  BY <1>0, <1>1, <2>2, <2>3
<1>6. Len(p) < Clamp(limit) => R \subseteq Listed(p)
  <2>. SUFFICES ASSUME k = c, NEW r \in R PROVE r \in Listed(p)
    BY <1>1, <1>3
  <2>. QED  BY <1>3, <1>7 DEF Listed
<1>. QED  BY <1>1, <1>3, <1>4, <1>5, <1>6 DEF PageOf, p

-----------------------------------------------------------------------------
(* The tables of a traversal, and what an endpoint answers about them.       *)

Stamps == [RowIds -> 0 .. MaxStamp]
Row(i, t) == [id |-> i, stamp |-> t, owner |-> "c1", status |-> "failed", assignee |-> NULL]
WalkCursors == {NoCursor} \union [stamp : 1 .. MaxStamp, id : RowIds]

LEMMA NumbersOfRows ==
    /\ 1 .. MaxStamp \subseteq Int /\ RowIds \subseteq Int
    /\ 1 .. MaxStamp \subseteq Nat \ {0} /\ RowIds \subseteq Nat \ {0}
  BY ListingAssumption

LEMMA SubTable ==
    ASSUME NEW R, IsTable(R), NEW T \in SUBSET R
    PROVE  IsTable(T)
  BY FS_Subset DEF IsTable

LEMMA RowsAreTable ==
    ASSUME NEW stamps \in Stamps
    PROVE  /\ IsTable(RowsOf(stamps))
           /\ \A r \in RowsOf(stamps) : /\ r.id \in RowIds /\ stamps[r.id] > 0
                                        /\ r.stamp = stamps[r.id]
                                        /\ r.stamp \in 1 .. MaxStamp
                                        /\ r.owner = "c1" /\ r.status = "failed"
           /\ \A i \in RowIds : stamps[i] > 0 => Row(i, stamps[i]) \in RowsOf(stamps)
<1>. DEFINE ids == {j \in RowIds : stamps[j] > 0}
            f == [i \in ids |-> Row(i, stamps[i])]
            R == RowsOf(stamps)
<1>0. /\ RowIds \subseteq Nat \ {0} /\ IsFiniteSet(RowIds) /\ MaxStamp \in Nat \ {0}
      /\ \A i \in RowIds : stamps[i] \in 0 .. MaxStamp
  BY ListingAssumption DEF Stamps
<1>1. R = {Row(i, stamps[i]) : i \in ids}
  BY DEF RowsOf, Row
<1>2. f \in Surjection(ids, R)
  <2>1. f \in [ids -> R] /\ \A r \in R : \E i \in ids : f[i] = r
    BY <1>1
  <2>. HIDE DEF f, R, ids
  <2>. QED  BY <2>1 DEF Surjection
<1>3. IsFiniteSet(ids)
  BY <1>0, FS_Subset
<1>4. IsFiniteSet(R)
  <2>. HIDE DEF f, R, ids
  <2>. QED  BY <1>2, <1>3, FS_Surjection
<1>5. \A r \in R : /\ r.id \in RowIds /\ stamps[r.id] > 0 /\ r.stamp = stamps[r.id]
                   /\ r.stamp \in 1 .. MaxStamp /\ r.owner = "c1" /\ r.status = "failed"
                   /\ r = Row(r.id, r.stamp)
  BY <1>0, <1>1 DEF Row
<1>6. IsTable(R)
  <2>1. \A r \in R : r.stamp \in Int /\ r.id \in Int
    <3>. HIDE DEF R
    <3>. QED  BY <1>5, NumbersOfRows
  <2>2. ASSUME NEW q \in R, NEW r \in R, q.stamp = r.stamp, q.id = r.id PROVE q = r
    <3>1. q = Row(q.id, q.stamp) /\ r = Row(r.id, r.stamp)
      BY <1>5
    <3>. QED  BY <2>2, <3>1
  <2>. QED  BY <1>4, <2>1, <2>2 DEF IsTable
<1>. QED  BY <1>1, <1>5, <1>6

\* Every endpoint answers with the page of the rows after the cursor.
LEMMA Served ==
    ASSUME NEW endpoint \in Endpoints, NEW stamps \in Stamps, NEW limit \in Int,
           NEW cursor \in WalkCursors
    PROVE  Serve(endpoint, RowsOf(stamps), limit, cursor)
           = Answer(Fetched({r \in RowsOf(stamps) : cursor # NoCursor => After(cursor, r)}, limit),
                    limit)
<1>. DEFINE R == RowsOf(stamps)
            A == {r \in R : cursor # NoCursor => After(cursor, r)}
<1>0. RowIds \subseteq Nat \ {0} /\ MaxStamp \in Nat \ {0}
  BY ListingAssumption
<1>1. /\ {r \in R : r.owner = "c1" /\ CaseSelected(r, NULL, NULL)} = R
      /\ {r \in R : r.owner = "c1"} = R
      /\ {r \in R : r.status = "failed"} = R
  <2>1. \A r \in R : r.owner = "c1" /\ r.status = "failed"
    BY RowsAreTable
  <2>2. \A r : CaseSelected(r, NULL, NULL)
    BY DEF CaseSelected, Given, NULL
  <2>. HIDE DEF R
  <2>. QED  BY <2>1, <2>2
<1>2. /\ (cursor.stamp > 0 /\ cursor.id > 0) <=> cursor # NoCursor
      /\ (cursor.stamp # None /\ cursor.id # None) <=> cursor # NoCursor
  <2>1. CASE cursor = NoCursor
    <3>1. cursor.stamp = -1 /\ cursor.id = -1
      BY <2>1 DEF NoCursor, None
    <3>. QED  BY <2>1, <3>1 DEF None
  <2>2. CASE cursor \in [stamp : 1 .. MaxStamp, id : RowIds]
    <3>1. cursor.stamp \in Nat \ {0} /\ cursor.id \in Nat \ {0}
      <4>1. cursor.stamp \in 1 .. MaxStamp /\ cursor.id \in RowIds
        BY <2>2
      <4>. QED  BY <4>1, NumbersOfRows
    <3>2. NoCursor.stamp = -1
      BY DEF NoCursor, None
    <3>3. cursor # NoCursor
      BY <3>1, <3>2
    <3>. QED  BY <3>1, <3>3 DEF None
  <2>. QED  BY <2>1, <2>2 DEF WalkCursors
<1>3. \A l : SqlitePage(R, l, cursor) = Fetched(A, l) /\ Page(R, l, cursor) = Fetched(A, l)
  BY <1>2 DEF SqlitePage, Page
<1>4. Clamp(Clamp(limit)) = Clamp(limit)
  BY Clamps
<1>5. Fetched(A, Clamp(limit)) = Fetched(A, limit)
  BY <1>4 DEF Fetched
<1>6. \A p : Answer(p, Clamp(limit)) = Answer(p, limit)
  BY <1>4 DEF Answer, NextCursor
<1>. HIDE DEF A
<1>7. /\ v2_list_cases(R, "c1", NULL, NULL, limit, cursor) = Answer(Fetched(A, limit), limit)
      /\ v2_list_webhook_subscriptions(R, "c1", limit, cursor) = Answer(Fetched(A, limit), limit)
  BY <1>1, <1>3 DEF v2_list_cases, ListCases, v2_list_webhook_subscriptions, ListSubscriptions
<1>8. /\ admin_webhook_dlq(R, limit, cursor) = Answer(Fetched(A, limit), limit)
      /\ admin_jobs_dlq(R, limit, cursor) = Answer(Fetched(A, limit), limit)
  BY <1>1, <1>3, <1>5, <1>6
  DEF admin_webhook_dlq, ListFailedDeliveries, admin_jobs_dlq, ListFailedJobs
<1>9. Serve(endpoint, R, limit, cursor) = Answer(Fetched(A, limit), limit)
  BY <1>7, <1>8 DEF Serve, Endpoints
<1>. QED  BY <1>9 DEF A

\* The pages of a traversal, as a recursive function has them: it exists.
LEMMA Walked ==
    ASSUME NEW endpoint, NEW history, NEW limit
    PROVE  \E walk : /\ walk[0] = Start
                     /\ \A n \in 1 .. Fetches :
                          walk[n] = Visit(endpoint, walk[n - 1], history[n], limit)
                     /\ Traverse(endpoint, history, limit) = walk[Fetches]
<1>. DEFINE V(w, n) == Visit(endpoint, w, history[n], limit)
            Is(g, n) == g = [m \in 0 .. n |-> IF m = 0 THEN Start ELSE V(g[m - 1], m)]
            S == {n \in Nat : \E g : Is(g, n)}
<1>1. Fetches \in Nat \ {0}
  BY ListingAssumption
<1>2. 0 \in S
  <2>1. Is([m \in 0 .. 0 |-> Start], 0)
    <3>. HIDE DEF V
    <3>. QED  OBVIOUS
  <2>. QED  BY <2>1
<1>3. ASSUME NEW n \in Nat, n \in S PROVE n + 1 \in S
  <2>1. PICK g : Is(g, n)
    BY <1>3
  <2>. HIDE DEF V
  <2>. DEFINE k == [m \in 0 .. n + 1 |-> IF m = 0 THEN Start ELSE V(g[m - 1], m)]
  <2>2. \A m \in 0 .. n : k[m] = g[m]
    <3>. TAKE m \in 0 .. n
    <3>1. g[m] = IF m = 0 THEN Start ELSE V(g[m - 1], m)
      BY <2>1
    <3>2. m \in 0 .. n + 1
      OBVIOUS
    <3>. QED  BY <3>1, <3>2
  <2>3. \A m \in 1 .. n + 1 : k[m - 1] = g[m - 1]
    <3>. TAKE m \in 1 .. n + 1
    <3>1. m - 1 \in 0 .. n
      BY <1>3
    <3>. HIDE DEF k
    <3>. QED  BY <2>2, <3>1
  <2>4. k = [m \in 0 .. n + 1 |-> IF m = 0 THEN Start ELSE V(k[m - 1], m)]
    <3>. DEFINE L == [m \in 0 .. n + 1 |-> IF m = 0 THEN Start ELSE V(k[m - 1], m)]
    <3>1. \A m \in 0 .. n + 1 : k[m] = L[m]
      <4>. TAKE m \in 0 .. n + 1
      <4>1. CASE m = 0
        BY <4>1
      <4>2. CASE m # 0
        <5>1. m \in 1 .. n + 1
          BY <4>2
        <5>2. k[m - 1] = g[m - 1]
          BY <2>3, <5>1
        <5>. HIDE DEF k
        <5>3. L[m] = V(k[m - 1], m)
          BY <4>2
        <5>4. k[m] = V(g[m - 1], m)
          BY <4>2 DEF k
        <5>. QED  BY <5>2, <5>3, <5>4
      <4>. QED  BY <4>1, <4>2
    <3>. QED  BY <3>1
  <2>5. Is(k, n + 1)
    BY <2>4
  <2>6. \E h : Is(h, n + 1)
    <3>. HIDE DEF k, Is
    <3>. QED  BY <2>5
  <2>. QED  BY <2>6
<1>4. Fetches \in S
  <2>. HIDE DEF S
  <2>. QED  BY <1>1, <1>2, <1>3, Induction
<1>. DEFINE w == CHOOSE g : Is(g, Fetches)
<1>5. Is(w, Fetches)
  BY <1>4
<1>6. Traverse(endpoint, history, limit) = w[Fetches]
  BY DEF Traverse
<1>7. /\ w[0] = Start
      /\ \A n \in 1 .. Fetches : w[n] = V(w[n - 1], n)
  <2>. HIDE DEF V, w
  <2>. QED  BY <1>1, <1>5
<1>. HIDE DEF w
<1>. QED  BY <1>6, <1>7

-----------------------------------------------------------------------------
(* A traversal.  What has been seen is in order, the cursor is its last row,  *)
(* and a row that stays as it is has been seen or is after the cursor.        *)

RowsIn(history) == UNION {RowsOf(history[f]) : f \in 1 .. Fetches}
Stays(history, i) == \A f \in 1 .. Fetches : history[f][i] = history[1][i]

\* No row that is yet to be listed is ahead of the cursor.
Ahead(walk, r) == ~walk.done /\ (walk.cursor # NoCursor => After(walk.cursor, r))

WalkInv(walk, history) ==
    /\ walk.seen \in Seq(RowsIn(history)) /\ walk.done \in BOOLEAN
    /\ walk.cursor \in WalkCursors
    /\ Descending(walk.seen)
    /\ ~walk.done => \A n \in 1 .. Len(walk.seen) :
          walk.cursor # NoCursor /\ ~After(walk.cursor, walk.seen[n])
    /\ \A i \in RowIds : Stays(history, i) /\ history[1][i] > 0 =>
          LET r == Row(i, history[1][i])
          IN  r \in Listed(walk.seen) \/ Ahead(walk, r)

LEMMA RowsInType ==
    ASSUME NEW history \in Histories
    PROVE  /\ \A f \in 1 .. Fetches : history[f] \in Stamps
           /\ \A r \in RowsIn(history) : r.stamp \in 1 .. MaxStamp /\ r.id \in RowIds
           /\ \A r \in RowsIn(history) : r.stamp \in Int /\ r.id \in Int
           /\ \A r \in RowsIn(history) : \E f \in 1 .. Fetches : r.stamp = history[f][r.id]
<1>1. \A f \in 1 .. Fetches : history[f] \in Stamps
  BY DEF Histories, Stamps
<1>2. ASSUME NEW r \in RowsIn(history)
      PROVE  /\ r.stamp \in 1 .. MaxStamp /\ r.id \in RowIds
             /\ \E f \in 1 .. Fetches : r.stamp = history[f][r.id]
  <2>1. PICK f \in 1 .. Fetches : r \in RowsOf(history[f])
    BY <1>2 DEF RowsIn
  <2>. QED  BY <1>1, <2>1, RowsAreTable
<1>3. \A r \in RowsIn(history) : r.stamp \in Int /\ r.id \in Int
  <2>. QED  BY <1>2, NumbersOfRows
<1>. QED  BY <1>1, <1>2, <1>3

LEMMA WalkStarts ==
    ASSUME NEW history
    PROVE  WalkInv(Start, history)
<1>. DEFINE S == RowsIn(history)
<1>1. <<>> \in Seq(S) /\ Len(<<>>) = 0
  OBVIOUS
<1>. QED  BY <1>1 DEF WalkInv, Start, WalkCursors, Descending, Ahead

LEMMA VisitKeeps ==
    ASSUME NEW endpoint \in Endpoints, NEW history \in Histories, NEW limit \in Int,
           NEW f \in 1 .. Fetches, NEW walk, WalkInv(walk, history)
    PROVE  LET w == Visit(endpoint, walk, history[f], limit)
           IN  WalkInv(w, history) /\ (~w.done => ~walk.done /\ Len(w.seen) > Len(walk.seen))
<1>. SUFFICES ASSUME walk.done = FALSE
              PROVE  LET w == Visit(endpoint, walk, history[f], limit)
                     IN  WalkInv(w, history) /\ (~w.done => Len(w.seen) > Len(walk.seen))
  BY DEF WalkInv, Visit
<1>. DEFINE S == RowsIn(history)
            c == walk.cursor
            R == {r \in RowsOf(history[f]) : c # NoCursor => After(c, r)}
            p == Fetched(R, limit)
            s == walk.seen
            t == s \o p
            next == NextCursor(p, limit)
            w == Visit(endpoint, walk, history[f], limit)
<1>0. /\ s \in Seq(S) /\ Descending(s) /\ c \in WalkCursors
      /\ \A n \in 1 .. Len(s) : c # NoCursor /\ ~After(c, s[n])
  BY DEF WalkInv
<1>1. /\ history[f] \in Stamps
      /\ \A r \in S : r.stamp \in Int /\ r.id \in Int
      /\ \A r \in S : r.stamp \in 1 .. MaxStamp /\ r.id \in RowIds
  BY RowsInType
<1>2. IsTable(R) /\ R \subseteq S
  <2>1. R \subseteq RowsOf(history[f])
    OBVIOUS
  <2>2. RowsOf(history[f]) \subseteq S
    BY DEF RowsIn
  <2>. HIDE DEF R, S
  <2>. QED  BY <1>1, <2>1, <2>2, RowsAreTable, SubTable
<1>3. PageOf(p, R, limit)
  <2>. HIDE DEF R
  <2>. QED  BY <1>2, FetchedPage
<1>4. w = [seen |-> t, cursor |-> next, done |-> next = NoCursor]
  <2>1. Serve(endpoint, RowsOf(history[f]), limit, c) = Answer(p, limit)
    BY <1>0, <1>1, Served
  <2>2. Answer(p, limit).items = p /\ Answer(p, limit).next = next
    BY DEF Answer
  <2>. HIDE DEF p, next
  <2>. QED  BY <2>1, <2>2 DEF Visit
<1>5. \A r \in R : c # NoCursor => After(c, r)
  OBVIOUS
<1>6. /\ p \in Seq(S) /\ Len(p) \in Nat /\ \A n \in 1 .. Len(p) : p[n] \in R
      /\ Descending(p) /\ Clamp(limit) \in Nat \ {0}
      /\ \A r \in R : r \in Listed(p) \/ \A n \in 1 .. Len(p) : Newer(p[n], r)
      /\ Len(p) < Clamp(limit) => R \subseteq Listed(p)
  <2>1. p \in Seq(R)
    BY <1>3 DEF PageOf
  <2>. HIDE DEF p, R, S
  <2>2. p \in Seq(S)
    BY <1>2, <2>1, SeqMonotonic
  <2>3. Clamp(limit) \in Nat \ {0}
    BY Clamps, ListingAssumption
  <2>. QED  BY <1>3, <2>1, <2>2, <2>3 DEF PageOf
<1>. HIDE DEF R, p, S
\* What is listed now, and that it is in order.
<1>7. /\ t \in Seq(S) /\ Len(s) \in Nat /\ Len(t) = Len(s) + Len(p)
      /\ \A n \in 1 .. Len(s) : t[n] = s[n] /\ t[n] \in S
      /\ \A n \in 1 .. Len(t) : n > Len(s) => n - Len(s) \in 1 .. Len(p) /\ t[n] = p[n - Len(s)]
      /\ \A n \in 1 .. Len(p) : n + Len(s) \in 1 .. Len(t) /\ t[n + Len(s)] = p[n]
  <2>1. /\ t \in Seq(S) /\ Len(s) \in Nat /\ Len(t) = Len(s) + Len(p)
        /\ \A n \in 1 .. Len(s) + Len(p) : t[n] = IF n <= Len(s) THEN s[n] ELSE p[n - Len(s)]
    BY <1>0, <1>6, ConcatProperties
  <2>. HIDE DEF t
  <2>. HIDE DEF s
  <2>2. ASSUME NEW n \in 1 .. Len(s) PROVE t[n] = s[n] /\ t[n] \in S
    <3>1. n \in 1 .. Len(t) /\ n <= Len(s)
      BY <1>6, <2>1
    <3>. QED  BY <2>1, <3>1, ElementOfSeq
  <2>3. ASSUME NEW n \in 1 .. Len(t), n > Len(s)
        PROVE  n - Len(s) \in 1 .. Len(p) /\ t[n] = p[n - Len(s)]
    BY <1>6, <2>1, <2>3
  <2>4. ASSUME NEW n \in 1 .. Len(p)
        PROVE  n + Len(s) \in 1 .. Len(t) /\ t[n + Len(s)] = p[n]
    <3>1. /\ n + Len(s) \in 1 .. Len(s) + Len(p) /\ ~ (n + Len(s) <= Len(s))
          /\ n + Len(s) - Len(s) = n
      BY <1>6, <2>1
    <3>. QED  BY <2>1, <3>1
  <2>. QED  BY <2>1, <2>2, <2>3, <2>4
<1>8. ASSUME NEW a \in S, NEW b \in R, c # NoCursor, ~After(c, a) PROVE Newer(a, b)
  <2>1. /\ a.stamp \in Int /\ a.id \in Int /\ b.stamp \in Int /\ b.id \in Int
        /\ c.stamp \in Int /\ c.id \in Int
    <3>1. c \in [stamp : 1 .. MaxStamp, id : RowIds]
      BY <1>0, <1>8 DEF WalkCursors
    <3>3. c.stamp \in 1 .. MaxStamp /\ c.id \in RowIds
      BY <3>1
    <3>. QED  BY <1>1, <1>2, <1>8, <3>3, NumbersOfRows
  <2>. QED  BY <1>5, <1>8, <2>1 DEF After, Newer
<1>9. Descending(t)
  <2>. SUFFICES ASSUME NEW m \in 1 .. Len(t), NEW n \in 1 .. Len(t), m < n
                PROVE  Newer(t[m], t[n])
    BY DEF Descending
  <2>. HIDE DEF t
  <2>1. CASE n <= Len(s)
    <3>1. /\ n \in 1 .. Len(s) /\ m \in 1 .. Len(s)
          /\ t[m] = s[m] /\ t[n] = s[n]
      BY <1>7, <2>1
    <3>. QED  BY <1>0, <3>1 DEF Descending
  <2>2. CASE m > Len(s)
    <3>1. /\ t[m] = p[m - Len(s)] /\ t[n] = p[n - Len(s)]
          /\ m - Len(s) \in 1 .. Len(p) /\ n - Len(s) \in 1 .. Len(p)
          /\ m - Len(s) < n - Len(s)
      <4>1. m > Len(s) /\ n > Len(s) /\ m - Len(s) < n - Len(s)
        BY <1>7, <2>2
      <4>. QED  BY <1>7, <4>1
    <3>. QED  BY <1>6, <3>1 DEF Descending
  <2>3. CASE m <= Len(s) /\ n > Len(s)
    <3>1. t[m] = s[m] /\ t[m] \in S /\ m \in 1 .. Len(s)
      BY <1>7, <2>3
    <3>2. t[n] \in R
      BY <1>6, <1>7, <2>3
    <3>. QED  BY <1>0, <1>8, <3>1, <3>2
  <2>. QED  BY <1>7, <2>1, <2>2, <2>3
<1>10. Listed(t) = Listed(s) \union Listed(p)
  <2>. HIDE DEF t
  <2>1. Listed(t) \subseteq Listed(s) \union Listed(p)
    <3>. SUFFICES ASSUME NEW n \in 1 .. Len(t) PROVE t[n] \in Listed(s) \union Listed(p)
      BY DEF Listed
    <3>1. CASE n <= Len(s)
      <4>1. n \in 1 .. Len(s)
        BY <1>7, <3>1
      <4>. QED  BY <1>7, <4>1 DEF Listed
    <3>2. CASE n > Len(s)
      BY <1>7, <3>2 DEF Listed
    <3>. QED  BY <1>7, <3>1, <3>2
  <2>2. \A n \in 1 .. Len(s) : s[n] \in Listed(t)
    <3>. TAKE n \in 1 .. Len(s)
    <3>1. n \in 1 .. Len(t) /\ t[n] = s[n]
      BY <1>6, <1>7
    <3>. QED  BY <3>1 DEF Listed
  <2>3. \A n \in 1 .. Len(p) : p[n] \in Listed(t)
    BY <1>7 DEF Listed
  <2>. QED  BY <2>1, <2>2, <2>3 DEF Listed
\* A full page leaves the cursor at its last row; a page that is not, none.
<1>11. CASE Len(p) >= Clamp(limit)
  <2>. DEFINE last == p[Len(p)]
  <2>1. Len(p) \in 1 .. Len(p) /\ last \in R /\ last \in S
    BY <1>2, <1>6, <1>11
  <2>2. next = [stamp |-> last.stamp, id |-> last.id]
    BY <1>11 DEF NextCursor, Last
  <2>3. next \in WalkCursors /\ next # NoCursor
    <3>1. last.stamp \in 1 .. MaxStamp /\ last.id \in RowIds
      BY <1>1, <2>1
    <3>2. last.stamp # -1
      BY <1>1, <2>1, <3>1, ListingAssumption
    <3>. HIDE DEF last, next
    <3>3. next.stamp # NoCursor.stamp
      BY <2>2, <3>2 DEF NoCursor, None
    <3>. QED  BY <2>2, <3>1, <3>3 DEF WalkCursors
  <2>4. \A r : After(next, r) <=>
                 r.stamp < last.stamp \/ (r.stamp = last.stamp /\ r.id < last.id)
    <3>. HIDE DEF last, next
    <3>. QED  BY <2>2 DEF After
  <2>5. ASSUME NEW n \in 1 .. Len(t) PROVE ~After(next, t[n])
    <3>1. t[n] = last \/ Newer(t[n], last)
      <4>1. Len(t) \in 1 .. Len(t) /\ t[Len(t)] = last
        BY <1>6, <1>7, <2>1
      <4>2. n = Len(t) \/ n < Len(t)
        <5>. HIDE DEF t, s
        <5>. QED  BY <1>6, <1>7
      <4>. HIDE DEF t, last
      <4>. QED  BY <1>9, <4>1, <4>2 DEF Descending
    <3>2. t[n] \in S
      BY <1>7
    <3>3. /\ t[n].stamp \in Int /\ t[n].id \in Int
          /\ last.stamp \in Int /\ last.id \in Int
      BY <1>1, <2>1, <3>2
    <3>. HIDE DEF t, last, next
    <3>. QED  BY <2>4, <3>1, <3>3 DEF Newer
  <2>6. ASSUME NEW r \in R PROVE r \in Listed(p) \/ After(next, r)
    <3>1. r \in Listed(p) \/ Newer(last, r)
      BY <1>6, <2>1
    <3>2. /\ r.stamp \in Int /\ r.id \in Int
          /\ last.stamp \in Int /\ last.id \in Int
      BY <1>1, <1>2, <2>1
    <3>. HIDE DEF last, next
    <3>. QED  BY <2>4, <3>1, <3>2 DEF Newer
  <2>. HIDE DEF next, t, s, c, w
  <2>7. ASSUME NEW i \in RowIds, Stays(history, i), history[1][i] > 0
        PROVE  LET r == Row(i, history[1][i]) IN r \in Listed(t) \/ Ahead(w, r)
    <3>. DEFINE r == Row(i, history[1][i])
    <3>1. r \in RowsOf(history[f])
      <4>1. history[f][i] = history[1][i]
        BY <2>7 DEF Stays
      <4>. QED  BY <1>1, <2>7, <4>1, RowsAreTable
    <3>2. r \in Listed(s) \/ (c # NoCursor => After(c, r))
      BY <2>7 DEF WalkInv, Ahead, s, c
    <3>3. r \in Listed(s) \/ r \in R
      BY <3>1, <3>2 DEF R
    <3>4. r \in Listed(t) \/ After(next, r)
      BY <1>10, <2>6, <3>3
    <3>. HIDE DEF r
    <3>. QED  BY <1>4, <2>3, <3>4 DEF Ahead, r
  <2>8. WalkInv(w, history)
    <3>1. w.seen = t /\ w.cursor = next /\ w.done = FALSE
      BY <1>4, <2>3
    <3>. QED  BY <1>7, <1>9, <2>3, <2>5, <2>7, <3>1 DEF WalkInv, S
  <2>9. w.seen = t
    BY <1>4
  <2>10. Len(t) > Len(s)
    BY <1>6, <1>7, <1>11
  <2>. QED  BY <2>8, <2>9, <2>10 DEF w, s
<1>12. CASE ~ (Len(p) >= Clamp(limit))
  <2>1. next = NoCursor
    BY <1>12 DEF NextCursor
  <2>2. R \subseteq Listed(p)
    BY <1>6, <1>12
  <2>. HIDE DEF next, t, s, c, w
  <2>3. ASSUME NEW i \in RowIds, Stays(history, i), history[1][i] > 0
        PROVE  Row(i, history[1][i]) \in Listed(t)
    <3>. DEFINE r == Row(i, history[1][i])
    <3>1. r \in RowsOf(history[f])
      <4>1. history[f][i] = history[1][i]
        BY <2>3 DEF Stays
      <4>. QED  BY <1>1, <2>3, <4>1, RowsAreTable
    <3>2. r \in Listed(s) \/ (c # NoCursor => After(c, r))
      BY <2>3 DEF WalkInv, Ahead, s, c
    <3>3. r \in Listed(s) \/ r \in R
      BY <3>1, <3>2 DEF R
    <3>. QED  BY <1>10, <2>2, <3>3
  <2>4. WalkInv(w, history)
    <3>1. w.seen = t /\ w.cursor = NoCursor /\ w.done = TRUE
      BY <1>4, <2>1
    <3>. QED  BY <1>7, <1>9, <2>3, <3>1 DEF WalkInv, S, WalkCursors
  <2>5. w.done = TRUE
    BY <1>4, <2>1
  <2>. QED  BY <2>4, <2>5 DEF w
<1>. QED  BY <1>11, <1>12

LEMMA TraverseKeeps ==
    ASSUME NEW endpoint \in Endpoints, NEW history \in Histories, NEW limit \in Int
    PROVE  LET walk == Traverse(endpoint, history, limit)
           IN  WalkInv(walk, history) /\ (~walk.done => Len(walk.seen) >= Fetches)
<1>1. PICK walk : /\ walk[0] = Start
                  /\ \A n \in 1 .. Fetches :
                       walk[n] = Visit(endpoint, walk[n - 1], history[n], limit)
                  /\ Traverse(endpoint, history, limit) = walk[Fetches]
  BY Walked
<1>. DEFINE Inv(n) == /\ WalkInv(walk[n], history)
                      /\ Len(walk[n].seen) \in Nat
                      /\ ~walk[n].done => Len(walk[n].seen) >= n
            S == {n \in Nat : n <= Fetches => Inv(n)}
<1>0. \A w : WalkInv(w, history) => Len(w.seen) \in Nat
  <2>1. \A T : \A t \in Seq(T) : Len(t) \in Nat
    OBVIOUS
  <2>. QED  BY <2>1 DEF WalkInv
<1>2. 0 \in S
  <2>1. Start.seen = <<>>
    BY DEF Start
  <2>. QED  BY <1>1, <2>1, WalkStarts
<1>3. ASSUME NEW n \in Nat, n \in S PROVE n + 1 \in S
  <2>. SUFFICES ASSUME n + 1 <= Fetches PROVE Inv(n + 1)
    OBVIOUS
  <2>1. n + 1 \in 1 .. Fetches /\ n + 1 - 1 = n /\ n <= Fetches
    BY ListingAssumption
  <2>2. Inv(n)
    BY <1>3, <2>1
  <2>3. walk[n + 1] = Visit(endpoint, walk[n], history[n + 1], limit)
    BY <1>1, <2>1
  <2>4. /\ WalkInv(walk[n + 1], history)
        /\ ~walk[n + 1].done => ~walk[n].done /\ Len(walk[n + 1].seen) > Len(walk[n].seen)
    <3>1. \A w : WalkInv(w, history) =>
            LET v == Visit(endpoint, w, history[n + 1], limit)
            IN  WalkInv(v, history) /\ (~v.done => ~w.done /\ Len(v.seen) > Len(w.seen))
      BY <2>1, VisitKeeps, Zenon
    <3>. QED  BY <2>2, <2>3, <3>1
  <2>5. Len(walk[n + 1].seen) \in Nat
    BY <1>0, <2>4
  <2>. QED  BY <2>2, <2>4, <2>5
<1>4. Fetches \in S
  <2>. HIDE DEF S
  <2>. QED  BY <1>2, <1>3, Induction, ListingAssumption
<1>. QED  BY <1>1, <1>4, ListingAssumption

\* A client that pages through a table at rest gets to its end: after one page more than
\* there are rows there is no cursor, since every page with one has listed a new row
\* (the x-next-cursor of the four list endpoints).
THEOREM TraversalEnds ==
    ASSUME NEW endpoint \in Endpoints, NEW history \in Histories, NEW limit \in Int,
           \A i \in RowIds : Stays(history, i), Fetches > Cardinality(RowIds)
    PROVE  Traverse(endpoint, history, limit).done
<1>. DEFINE walk == Traverse(endpoint, history, limit)
            seen == walk.seen
            N == 1 .. Len(seen)
            f == [n \in N |-> seen[n].id]
<1>1. WalkInv(walk, history) /\ (~walk.done => Len(seen) >= Fetches)
  BY TraverseKeeps
<1>2. seen \in Seq(RowsIn(history)) /\ Descending(seen)
  BY <1>1 DEF WalkInv
<1>. HIDE DEF walk, seen
<1>3. Len(seen) \in Nat /\ \A n \in N : seen[n] \in RowsIn(history)
  BY <1>2
<1>4. \A n \in N : /\ seen[n].id \in RowIds /\ seen[n].id \in Int
                   /\ seen[n].stamp = history[1][seen[n].id] /\ seen[n].stamp \in Int
  <2>1. \A r \in RowsIn(history) : r.id \in RowIds /\ r.id \in Int /\ r.stamp \in Int
    BY RowsInType
  <2>2. \A r \in RowsIn(history) : \E g \in 1 .. Fetches : r.stamp = history[g][r.id]
    BY RowsInType
  <2>3. \A r \in RowsIn(history) : r.stamp = history[1][r.id]
    BY <2>1, <2>2 DEF Stays
  <2>. QED  BY <1>3, <2>1, <2>3
<1>5. ASSUME NEW m \in N, NEW n \in N, m < n PROVE seen[m].id # seen[n].id
  <2>1. Newer(seen[m], seen[n])
    BY <1>2, <1>5 DEF Descending
  <2>. QED  BY <1>4, <2>1 DEF Newer
<1>6. \A m, n \in N : seen[m].id = seen[n].id => m = n
  BY <1>3, <1>5
<1>7. f \in Injection(N, RowIds)
  <2>1. f \in [N -> RowIds] /\ \A m, n \in N : f[m] = f[n] => m = n
    BY <1>4, <1>6
  <2>. HIDE DEF f, N
  <2>. QED  BY <2>1 DEF Injection, IsInjective
<1>8. IsFiniteSet(RowIds) /\ IsFiniteSet(N) /\ Cardinality(N) = Len(seen)
  <2>1. IsFiniteSet(N) /\ Cardinality(N) = IF 1 <= Len(seen) THEN Len(seen) - 1 + 1 ELSE 0
    BY <1>3, FS_Interval
  <2>. HIDE DEF N
  <2>. QED  BY <1>3, <2>1, ListingAssumption
<1>9. Len(seen) <= Cardinality(RowIds)
  <2>. HIDE DEF f, N
  <2>. QED  BY <1>7, <1>8, FS_Injection
<1>10. Cardinality(RowIds) \in Nat /\ Fetches \in Nat
  BY <1>8, FS_CardinalityType, ListingAssumption
<1>11. walk.done
  BY <1>1, <1>3, <1>9, <1>10 DEF WalkInv
<1>. QED  BY <1>11 DEF walk

\* Following the cursors while the table changes.
LEMMA PagesAreComplete == ListedOnce
<1>. SUFFICES ASSUME NEW endpoint \in Endpoints, NEW history \in Histories, NEW limit \in Limits
              PROVE
        LET walk == Traverse(endpoint, history, limit)
            seen == walk.seen
            Seen(i) == {n \in DOMAIN seen : seen[n].id = i}
            Still(i) == \A f \in 1 .. Fetches : history[f][i] = history[1][i]
        IN  /\ \A i \in RowIds :
                 Still(i) /\ history[1][i] > 0
                 => /\ Cardinality(Seen(i)) <= 1
                    /\ walk.done => Seen(i) # {}
            /\ \A i \in RowIds : \A m, n \in Seen(i) :
                 m < n => seen[n].stamp < seen[m].stamp
            /\ (\A i \in RowIds : Still(i))
               => IsPrefix(seen, Sorted(RowsOf(history[1])))
  BY DEF ListedOnce
<1>. DEFINE walk == Traverse(endpoint, history, limit)
            seen == walk.seen
            Seen(i) == {n \in DOMAIN seen : seen[n].id = i}
            R == RowsOf(history[1])
            S == RowsIn(history)
<1>0. WalkInv(walk, history)
  BY TraverseKeeps, ListingAssumption
<1>. HIDE DEF walk
<1>1. /\ seen \in Seq(S) /\ Descending(seen) /\ Len(seen) \in Nat
      /\ DOMAIN seen = 1 .. Len(seen) /\ \A n \in 1 .. Len(seen) : seen[n] \in S
  <2>1. seen \in Seq(S) /\ Descending(seen)
    BY <1>0 DEF WalkInv
  <2>. HIDE DEF seen, S
  <2>. QED  BY <2>1
<1>2. /\ \A n \in 1 .. Len(seen) : /\ seen[n].stamp \in Int /\ seen[n].id \in Int
                                   /\ \E f \in 1 .. Fetches : seen[n].stamp = history[f][seen[n].id]
      /\ history[1] \in Stamps
  <2>1. /\ \A r \in S : r.stamp \in Int /\ r.id \in Int
        /\ \A r \in S : \E f \in 1 .. Fetches : r.stamp = history[f][r.id]
    BY RowsInType
  <2>2. 1 \in 1 .. Fetches
    BY ListingAssumption
  <2>3. history[1] \in Stamps
    BY <2>2, RowsInType
  <2>. HIDE DEF seen, S
  <2>. QED  BY <1>1, <2>1, <2>3
<1>. HIDE DEF seen, S
\* A row is listed again only with an older timestamp.
<1>3. ASSUME NEW i \in RowIds, NEW m \in Seen(i), NEW n \in Seen(i), m < n
      PROVE  seen[n].stamp < seen[m].stamp
  <2>1. m \in 1 .. Len(seen) /\ n \in 1 .. Len(seen) /\ seen[m].id = i /\ seen[n].id = i
    BY <1>1
  <2>2. Newer(seen[m], seen[n])
    BY <1>1, <1>3, <2>1 DEF Descending
  <2>. QED  BY <1>2, <2>1, <2>2 DEF Newer
<1>4. ASSUME NEW i \in RowIds, Stays(history, i), history[1][i] > 0
      PROVE  Cardinality(Seen(i)) <= 1
  <2>1. \A m, n \in Seen(i) : m = n
    <3>. SUFFICES ASSUME NEW m \in Seen(i), NEW n \in Seen(i), m < n PROVE FALSE
      BY <1>1
    <3>1. m \in 1 .. Len(seen) /\ n \in 1 .. Len(seen) /\ seen[m].id = i /\ seen[n].id = i
      BY <1>1
    <3>2. seen[m].stamp = history[1][i] /\ seen[n].stamp = history[1][i]
      BY <1>2, <1>4, <3>1 DEF Stays
    <3>. QED  BY <1>2, <1>3, <3>1, <3>2
  <2>2. CASE Seen(i) = {}
    BY <2>2, FS_EmptySet
  <2>3. CASE Seen(i) # {}
    <3>1. PICK n : Seen(i) = {n}
      <4>. HIDE DEF Seen
      <4>. QED  BY <2>1, <2>3
    <3>. HIDE DEF Seen
    <3>. QED  BY <3>1, FS_Singleton
  <2>. QED  BY <2>2, <2>3
<1>5. ASSUME NEW i \in RowIds, Stays(history, i), history[1][i] > 0, walk.done
      PROVE  Seen(i) # {}
  <2>. DEFINE r == Row(i, history[1][i])
  <2>1. r \in Listed(seen)
    BY <1>0, <1>5 DEF WalkInv, Ahead, seen
  <2>2. PICK n \in 1 .. Len(seen) : seen[n] = r
    BY <2>1 DEF Listed
  <2>3. seen[n].id = i
    BY <2>2 DEF Row
  <2>. QED  BY <1>1, <2>3
\* A table at rest.
<1>6. ASSUME \A i \in RowIds : Stays(history, i)
      PROVE  IsPrefix(seen, Sorted(R))
  <2>1. IsTable(R) /\ \A r \in R : r.id \in RowIds /\ r.stamp = history[1][r.id] /\ history[1][r.id] > 0
    BY <1>2, RowsAreTable
  <2>2. S \subseteq R
    <3>1. \A f \in 1 .. Fetches : history[f] = history[1]
      <4>. TAKE f \in 1 .. Fetches
      <4>1. history[f] \in [RowIds -> 0 .. MaxStamp] /\ history[1] \in [RowIds -> 0 .. MaxStamp]
        BY RowsInType, ListingAssumption DEF Stamps
      <4>2. \A i \in RowIds : history[f][i] = history[1][i]
        BY <1>6 DEF Stays
      <4>. QED  BY <4>1, <4>2
    <3>. QED  BY <3>1 DEF S, RowsIn
  <2>. HIDE DEF R
  <2>3. seen \in Seq(R)
    BY <1>1, <2>2, SeqMonotonic
  <2>4. ASSUME NEW n \in 1 .. Len(seen), NEW q \in R, Newer(q, seen[n])
        PROVE  q \in Listed(seen)
    <3>. DEFINE c == walk.cursor
    <3>1. q = Row(q.id, history[1][q.id])
      BY <2>1 DEF R, RowsOf, Row
    <3>2. q \in Listed(seen) \/ Ahead(walk, q)
      BY <1>0, <1>6, <2>1, <3>1 DEF WalkInv, seen
    <3>3. ASSUME Ahead(walk, q) PROVE FALSE
      <4>1. /\ c # NoCursor /\ ~After(c, seen[n]) /\ After(c, q) /\ c \in WalkCursors
        BY <1>0, <3>3 DEF Ahead, WalkInv, seen
      <4>2. c.stamp \in Int /\ c.id \in Int
        <5>. HIDE DEF c
        <5>1. c.stamp \in 1 .. MaxStamp /\ c.id \in RowIds
          BY <4>1 DEF WalkCursors
        <5>. QED  BY <5>1, NumbersOfRows
      <4>3. q.stamp \in Int /\ q.id \in Int /\ seen[n].stamp \in Int /\ seen[n].id \in Int
        BY <1>2, <2>1 DEF IsTable
      <4>. HIDE DEF c
      <4>. QED  BY <2>4, <4>1, <4>2, <4>3 DEF After, Newer
    <3>. QED  BY <3>2, <3>3
  <2>. QED  BY <1>1, <2>1, <2>3, <2>4, BeginsSorted
<1>7. \A i : Stays(history, i) <=> \A f \in 1 .. Fetches : history[f][i] = history[1][i]
  BY DEF Stays
<1>. HIDE DEF Seen, R
<1>. QED  BY <1>3, <1>4, <1>5, <1>6, <1>7 DEF walk, seen, Seen, R

-----------------------------------------------------------------------------
(* The two databases: they select the same rows, and where a page begins is   *)
(* the same for them when no part of a cursor is the empty string.           *)

LEMMA TablesAreTables ==
    ASSUME NEW table \in Tables
    PROVE  IsTable(table)
<1>. DEFINE At(i, a) == [id |-> i, stamp |-> a.stamp, owner |-> a.owner,
                         status |-> a.status, assignee |-> a.assignee]
<1>1. PICK ids \in SUBSET RowIds :
           \E f \in [ids -> Attributes] : table = {At(i, f[i]) : i \in ids}
  BY DEF Tables
<1>0. PICK f \in [ids -> Attributes] : table = {At(i, f[i]) : i \in ids}
  BY <1>1
<1>. DEFINE g == [i \in ids |-> At(i, f[i])]
<1>2. IsFiniteSet(ids)
  BY FS_Subset, ListingAssumption
<1>3. g \in Surjection(ids, table)
  <2>1. g \in [ids -> table] /\ \A r \in table : \E i \in ids : g[i] = r
    BY <1>0
  <2>. HIDE DEF g
  <2>. QED  BY <2>1 DEF Surjection
<1>4. IsFiniteSet(table)
  <2>. HIDE DEF g
  <2>. QED  BY <1>2, <1>3, FS_Surjection
<1>5. \A r \in table : r.id \in ids /\ r.stamp \in 1 .. MaxStamp /\ r = At(r.id, f[r.id])
  BY <1>0 DEF Attributes
<1>. HIDE DEF At
<1>6. \A r \in table : r.stamp \in Int /\ r.id \in Int
  BY <1>5, NumbersOfRows
<1>7. \A q, r \in table : q.id = r.id => q = r
  BY <1>5
<1>. QED  BY <1>4, <1>6, <1>7 DEF IsTable

\* Cursors with no empty part.
WholeCursors == {c \in Cursors : c.stamp # 0 /\ c.id # 0}

LEMMA CursorTests ==
    ASSUME NEW cursor \in WholeCursors
    PROVE  (cursor.stamp > 0 /\ cursor.id > 0) <=> (cursor.stamp # None /\ cursor.id # None)
<1>1. CASE cursor = NoCursor
  <2>1. cursor.stamp = -1 /\ cursor.id = -1
    BY <1>1 DEF NoCursor, None
  <2>. QED  BY <2>1 DEF None
<1>2. CASE cursor \in [stamp : 0 .. MaxStamp, id : RowIds \union {0}]
  <2>1. cursor.stamp \in 0 .. MaxStamp /\ cursor.stamp # 0 /\ cursor.id \in RowIds
    BY <1>2 DEF WholeCursors
  <2>2. cursor.stamp \in Nat \ {0} /\ cursor.id \in Nat \ {0}
    <3>1. cursor.stamp \in 1 .. MaxStamp
      BY <2>1, ListingAssumption
    <3>. QED  BY <2>1, <3>1, NumbersOfRows
  <2>. QED  BY <2>2 DEF None
<1>. QED  BY <1>1, <1>2 DEF Cursors, WholeCursors

\* What the two databases say to the list requests of a customer and of an administrator.
AnswersAlike(table, customer, limit, cursor, status, assignee) ==
    LET page == ListCases(table, customer, status, assignee, limit, cursor) IN
    /\ page = ListCasesPg(table, customer, status, assignee, limit, cursor)
    /\ \A r \in Range(page) : r.owner = customer
    /\ ListSubscriptions(table, customer, limit, cursor)
       = ListSubscriptionsPg(table, customer, limit, cursor)
    /\ ListFailedDeliveries(table, limit, cursor)
       = ListFailedDeliveriesPg(table, limit, cursor)
    /\ ListFailedJobs(table, limit, cursor) = ListFailedJobsPg(table, limit, cursor)

\* The databases answer a list request alike, whatever the table and the customer, unless
\* a filter or a part of the cursor is the empty string (the queries of db.py and db_pg.py).
THEOREM EveryListAlike ==
    ASSUME NEW table, IsTable(table), NEW customer, NEW limit \in Int,
           NEW cursor \in WholeCursors, NEW status, status # "", NEW assignee, assignee # ""
    PROVE  AnswersAlike(table, customer, limit, cursor, status, assignee)
<1>1. (cursor.stamp > 0 /\ cursor.id > 0) <=> (cursor.stamp # None /\ cursor.id # None)
  BY CursorTests
<1>2. \A R : SqlitePage(R, limit, cursor) = Page(R, limit, cursor)
  BY <1>1 DEF SqlitePage, Page
<1>3. LET page == ListCases(table, customer, status, assignee, limit, cursor) IN
      /\ page = ListCasesPg(table, customer, status, assignee, limit, cursor)
      /\ \A r \in Range(page) : r.owner = customer
  <2>. DEFINE R == {r \in table : r.owner = customer /\ CaseSelected(r, status, assignee)}
              A == {r \in R : cursor.stamp > 0 /\ cursor.id > 0 => After(cursor, r)}
              page == Fetched(A, limit)
  <2>1. (Given(status) <=> Present(status)) /\ (Given(assignee) <=> Present(assignee))
    BY DEF Given, Present, NULL
  <2>2. \A r : CaseSelected(r, status, assignee) <=>
                 /\ Present(status) => r.status = status
                 /\ Present(assignee) => r.assignee = assignee
    BY <2>1 DEF CaseSelected
  <2>3. R = {r \in table : /\ r.owner = customer
                           /\ Present(status) => r.status = status
                           /\ Present(assignee) => r.assignee = assignee}
    BY <2>2
  <2>4. /\ ListCases(table, customer, status, assignee, limit, cursor) = page
        /\ ListCasesPg(table, customer, status, assignee, limit, cursor) = page
    <3>1. SqlitePage(R, limit, cursor) = page
      BY DEF SqlitePage
    <3>2. ListCases(table, customer, status, assignee, limit, cursor) = SqlitePage(R, limit, cursor)
      BY DEF ListCases
    <3>3. ListCasesPg(table, customer, status, assignee, limit, cursor) = Page(R, limit, cursor)
      BY <2>3 DEF ListCasesPg
    <3>. HIDE DEF R, page
    <3>. QED  BY <1>2, <3>1, <3>2, <3>3
  <2>5. \A r \in Range(page) : r.owner = customer
    <3>1. A \subseteq table /\ \A r \in A : r.owner = customer
      OBVIOUS
    <3>. HIDE DEF A
    <3>2. IsTable(A)
      BY <3>1, SubTable
    <3>3. page \in Seq(A)
      BY <3>2, FetchedPage DEF PageOf
    <3>. HIDE DEF page
    <3>4. Range(page) \subseteq A
      BY <3>3, RangeOfSeq
    <3>. QED  BY <3>1, <3>4
  <2>. HIDE DEF page
  <2>. QED  BY <2>4, <2>5
<1>4. /\ ListSubscriptions(table, customer, limit, cursor)
         = ListSubscriptionsPg(table, customer, limit, cursor)
      /\ ListFailedDeliveries(table, limit, cursor)
         = ListFailedDeliveriesPg(table, limit, cursor)
      /\ ListFailedJobs(table, limit, cursor) = ListFailedJobsPg(table, limit, cursor)
  BY <1>2 DEF ListSubscriptions, ListSubscriptionsPg, ListFailedDeliveries,
     ListFailedDeliveriesPg, ListFailedJobs, ListFailedJobsPg
<1>. QED  BY <1>3, <1>4 DEF AnswersAlike

LEMMA DatabasesAnswerAlike == BackendsAgree
<1>1. ASSUME NEW table \in Tables, NEW limit \in Limits, NEW cursor \in WholeCursors,
             NEW status \in {NULL, "open", "failed"}, NEW assignee \in {NULL, "ann"}
      PROVE  AnswersAlike(table, "c1", limit, cursor, status, assignee)
  <2>1. IsTable(table) /\ limit \in Int
    BY TablesAreTables, ListingAssumption
  <2>2. status # "" /\ assignee # ""
    BY DEF NULL
  <2>. QED  BY <2>1, <2>2, EveryListAlike, Zenon
<1>. SUFFICES ASSUME NEW table \in Tables, NEW limit \in Limits, NEW cursor \in WholeCursors
     PROVE
        /\ \A status \in {NULL, "open", "failed"}, assignee \in {NULL, "ann"} :
             LET page == ListCases(table, "c1", status, assignee, limit, cursor) IN
             /\ page = ListCasesPg(table, "c1", status, assignee, limit, cursor)
             /\ \A r \in Range(page) : r.owner = "c1"
        /\ ListSubscriptions(table, "c1", limit, cursor)
           = ListSubscriptionsPg(table, "c1", limit, cursor)
        /\ ListFailedDeliveries(table, limit, cursor)
           = ListFailedDeliveriesPg(table, limit, cursor)
        /\ ListFailedJobs(table, limit, cursor) = ListFailedJobsPg(table, limit, cursor)
  BY Zenon DEF BackendsAgree, WholeCursors
<1>2. \A status \in {NULL, "open", "failed"}, assignee \in {NULL, "ann"} :
         AnswersAlike(table, "c1", limit, cursor, status, assignee)
  BY <1>1
<1>3. AnswersAlike(table, "c1", limit, cursor, NULL, NULL)
  BY <1>2
<1>4. \A status \in {NULL, "open", "failed"}, assignee \in {NULL, "ann"} :
         LET page == ListCases(table, "c1", status, assignee, limit, cursor) IN
         /\ page = ListCasesPg(table, "c1", status, assignee, limit, cursor)
         /\ \A r \in Range(page) : r.owner = "c1"
  BY <1>2, Zenon DEF AnswersAlike
<1>. QED  BY <1>3, <1>4, Zenon DEF AnswersAlike

\* Following x-next-cursor against writers lists every row that stays as it is once,
\* another row again only at an older place, and a table at rest in its order: for
\* any number of rows and pages, any limits and any changes between the pages.
THEOREM PagesCompleteHolds == Spec => []PagesComplete
<1>1. PagesComplete
  BY PagesAreComplete DEF PagesComplete
<1>. QED  BY <1>1, PTL

\* SQLite and Postgres give one answer to a list request whose cursor and filters
\* have no empty string, and no list of cases mixes customers.
THEOREM DatabasesAgreeHolds == Spec => []DatabasesAgree
<1>1. DatabasesAgree
  BY DatabasesAnswerAlike DEF DatabasesAgree
<1>. QED  BY <1>1, PTL
=============================================================================
