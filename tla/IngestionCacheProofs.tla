------------------------- MODULE IngestionCacheProofs -------------------------
(***************************************************************************)
(* Proofs about IngestionCache: only one refresh per key at a time, no key  *)
(* is left marked as refreshing, and artifacts are served in fetch order.   *)
(***************************************************************************)
EXTENDS IngestionCache, FiniteSetTheorems, TLAPS

\* The types the proofs need; TypeOK bounds the counters as well.
Types ==
    /\ entry \in [Keys -> Nat]
    /\ fresh \in [Keys -> BOOLEAN]
    /\ refreshing \in SUBSET Keys
    /\ pc \in [Threads -> {"idle", "get", "enter", "waiting", "reread"} \union Refresher]
    /\ key \in [Threads -> Keys]
    /\ art \in [Threads -> Nat]
    /\ result \in [Threads -> Nat]
    /\ fetches \in Nat
    /\ floor \in [Threads -> Nat]
    /\ newest \in [Keys -> Nat]

\* `refreshing` holds exactly the keys that a thread refreshes: what makes
\* SingleFlight inductive.
Marked == \A t \in Threads : pc[t] \in Refresher => key[t] \in refreshing

FlightInv == Types /\ Marked /\ SingleFlight /\ RefreshOwned

LEMMA FlightInit == Init => FlightInv
BY DEF Init, FlightInv, Types, Marked, SingleFlight, RefreshOwned, Refresher

\* Each step of a thread preserves the invariant.
LEMMA FlightThread ==
    ASSUME FlightInv, NEW t \in Threads, ThreadStep(t)
    PROVE  FlightInv'
<1>. USE DEF FlightInv, Types, Refresher, cacheVars, historyVars
<1>1. CASE Get(t)
  BY <1>1 DEF Get, Return, Marked, SingleFlight, RefreshOwned
<1>2. CASE Enter(t)
  <2>1. CASE key[t] \in refreshing
    BY <1>2, <2>1 DEF Enter, Marked, SingleFlight, RefreshOwned
  <2>2. CASE key[t] \notin refreshing
    BY <1>2, <2>2 DEF Enter, Marked, SingleFlight, RefreshOwned
  <2>. QED  BY <2>1, <2>2
<1>3. CASE Wake(t)
  BY <1>3 DEF Wake, Marked, SingleFlight, RefreshOwned
<1>4. CASE Fetch(t)
  BY <1>4 DEF Fetch, Marked, SingleFlight, RefreshOwned
<1>5. CASE Put(t)
  BY <1>5 DEF Put, Marked, SingleFlight, RefreshOwned
<1>6. CASE Finally(t)
  BY <1>6 DEF Finally, Return, Marked, SingleFlight, RefreshOwned
<1>. QED  BY <1>1, <1>2, <1>3, <1>4, <1>5, <1>6 DEF ThreadStep

LEMMA FlightStep == FlightInv /\ [Next]_vars => FlightInv'
<1>. SUFFICES ASSUME FlightInv, [Next]_vars PROVE FlightInv'
  OBVIOUS
<1>. USE DEF FlightInv, Types, Refresher, cacheVars, historyVars, Marked, SingleFlight, RefreshOwned
<1>1. ASSUME NEW t \in Threads, NEW k \in Keys, Call(t, k)
      PROVE  FlightInv'
  BY <1>1 DEF Call
<1>2. ASSUME NEW k \in Keys, Expire(k)
      PROVE  FlightInv'
  BY <1>2 DEF Expire
<1>3. CASE UNCHANGED vars
  BY <1>3 DEF vars
<1>. QED  BY <1>1, <1>2, <1>3, FlightThread DEF Next

THEOREM FlightInvariant == Spec => []FlightInv
BY FlightInit, FlightStep, PTL DEF Spec

\* Only one refresh per key runs at a time, for any number of threads and keys:
\* the claim of the comment at cache.py:52.
THEOREM SingleFlightHolds == Spec => []SingleFlight
<1>1. FlightInv => SingleFlight
  BY DEF FlightInv
<1>. QED  BY <1>1, FlightInvariant, PTL

\* A key marked as refreshing always has the thread that will unmark it, whether
\* its fetch succeeds or raises (cache.py:66-77).
THEOREM RefreshOwnedHolds == Spec => []RefreshOwned
<1>1. FlightInv => RefreshOwned
  BY DEF FlightInv
<1>. QED  BY <1>1, FlightInvariant, PTL

-----------------------------------------------------------------------------
(***************************************************************************)
(* Serving order.  The entry of a key is at least as new as anything a call *)
(* has returned, and a refresher's artifact is newer than the entry until it *)
(* is put and is the entry from then on; the latter needs SingleFlight.     *)
(***************************************************************************)

ServingInv ==
    /\ \A k \in Keys : newest[k] <= entry[k] /\ entry[k] <= fetches
    /\ \A t \in Threads :
        /\ pc[t] \in {"fetch", "put"} => entry[key[t]] < art[t] /\ art[t] <= fetches
        /\ pc[t] = "finally" => art[t] \in {0, entry[key[t]]}
        /\ pc[t] # "idle" => floor[t] <= newest[key[t]]
    /\ MonotonicServing

LEMMA ServingInit == Init => ServingInv
BY DEF Init, ServingInv, MonotonicServing

LEMMA ServingThread ==
    ASSUME FlightInv, FlightInv', ServingInv, NEW t \in Threads, ThreadStep(t)
    PROVE  ServingInv'
<1>. USE DEF FlightInv, Types, Refresher, cacheVars, historyVars, ServingInv, MonotonicServing
<1>1. CASE Get(t)
  BY <1>1 DEF Get, Return
<1>2. CASE Enter(t)
  BY <1>2 DEF Enter
<1>3. CASE Wake(t)
  BY <1>3 DEF Wake
<1>4. CASE Fetch(t)
  BY <1>4 DEF Fetch
<1>5. CASE Put(t)
  BY <1>5 DEF Put, SingleFlight
<1>6. CASE Finally(t)
  BY <1>6 DEF Finally, Return
<1>. QED  BY <1>1, <1>2, <1>3, <1>4, <1>5, <1>6 DEF ThreadStep

LEMMA ServingStep == FlightInv /\ FlightInv' /\ ServingInv /\ [Next]_vars => ServingInv'
<1>. SUFFICES ASSUME FlightInv, FlightInv', ServingInv, [Next]_vars PROVE ServingInv'
  OBVIOUS
<1>. USE DEF FlightInv, Types, Refresher, cacheVars, historyVars, ServingInv, MonotonicServing
<1>1. ASSUME NEW t \in Threads, NEW k \in Keys, Call(t, k)
      PROVE  ServingInv'
  BY <1>1 DEF Call
<1>2. ASSUME NEW k \in Keys, Expire(k)
      PROVE  ServingInv'
  BY <1>2 DEF Expire
<1>3. CASE UNCHANGED vars
  BY <1>3 DEF vars
<1>. QED  BY <1>1, <1>2, <1>3, ServingThread DEF Next

\* No call is served an artifact older than one that was returned before the call
\* began: fetches of a key never overtake each other (cache.py:45-77).
THEOREM MonotonicServingHolds == Spec => []MonotonicServing
<1>1. Spec => []ServingInv
  BY FlightInvariant, ServingInit, ServingStep, PTL DEF Spec
<1>2. ServingInv => MonotonicServing
  BY DEF ServingInv
<1>. QED  BY <1>1, <1>2, PTL

-----------------------------------------------------------------------------
(***************************************************************************)
(* TypeOK bounds the fetches by the calls, which is not inductive: what is   *)
(* needed is that every call that has yet to choose between waiting and      *)
(* fetching is still owed a fetch of its own.                                *)
(***************************************************************************)
Choosing == {t \in Threads : pc[t] \in {"get", "enter"}}
CountInv ==
    /\ lock \in Threads \union {Free}
    /\ calls \in 0 .. MaxCalls
    /\ fetches + Cardinality(Choosing) <= calls
    /\ \A t \in Threads :
        art[t] \in 0 .. fetches /\ result[t] \in 0 .. fetches /\ floor[t] \in 0 .. fetches
    /\ \A k \in Keys : entry[k] \in 0 .. fetches /\ newest[k] \in 0 .. fetches

LEMMA ChoosingFinite ==
    /\ IsFiniteSet(Choosing) /\ Cardinality(Choosing) \in Nat
    /\ IsFiniteSet(Choosing') /\ Cardinality(Choosing') \in Nat
<1>1. IsFiniteSet(Choosing) /\ IsFiniteSet(Choosing')
  BY IngestionAssumption, FS_Subset DEF Choosing
<1>. QED  BY <1>1, FS_CardinalityType

\* A thread that begins a call, and one that has chosen.
LEMMA ChoosingBegins ==
    ASSUME NEW t \in Threads, Choosing' \subseteq Choosing \union {t}
    PROVE  Cardinality(Choosing') <= Cardinality(Choosing) + 1
<1>1. /\ IsFiniteSet(Choosing \union {t})
      /\ Cardinality(Choosing \union {t}) \in {Cardinality(Choosing), Cardinality(Choosing) + 1}
  BY ChoosingFinite, FS_AddElement
<1>2. Cardinality(Choosing') <= Cardinality(Choosing \union {t})
  BY <1>1, FS_Subset
<1>. QED  BY <1>1, <1>2, ChoosingFinite

LEMMA ChoosingEnds ==
    ASSUME NEW t \in Choosing, Choosing' \subseteq Choosing \ {t}
    PROVE  Cardinality(Choosing') <= Cardinality(Choosing) - 1
<1>1. /\ IsFiniteSet(Choosing \ {t})
      /\ Cardinality(Choosing \ {t}) = Cardinality(Choosing) - 1
  BY ChoosingFinite, FS_RemoveElement
<1>. QED  BY <1>1, FS_Subset

LEMMA ChoosingStays ==
    ASSUME Choosing' \subseteq Choosing
    PROVE  Cardinality(Choosing') <= Cardinality(Choosing)
  BY ChoosingFinite, FS_Subset

LEMMA CountInit == Init => CountInv
<1>. SUFFICES ASSUME Init PROVE CountInv
  OBVIOUS
<1>1. Choosing = {}
  BY DEF Init, Choosing
<1>2. Cardinality(Choosing) = 0
  BY <1>1, FS_EmptySet
<1>. QED  BY <1>2, IngestionAssumption DEF Init, CountInv

LEMMA CountThread ==
    ASSUME FlightInv, CountInv, NEW t \in Threads, ThreadStep(t)
    PROVE  CountInv'
<1>. USE DEF FlightInv, Types, cacheVars, historyVars
<1>1. CASE Get(t)
  <2>1. Choosing' \subseteq Choosing
    BY <1>1 DEF Get, Return, Choosing
  <2>. QED  BY <1>1, <2>1, ChoosingStays, ChoosingFinite DEF Get, Return, CountInv
<1>2. CASE Enter(t)
  <2>1. t \in Choosing /\ Choosing' \subseteq Choosing \ {t}
    BY <1>2 DEF Enter, Choosing
  <2>2. Cardinality(Choosing') <= Cardinality(Choosing) - 1
    BY <2>1, ChoosingEnds
  <2>. QED  BY <1>2, <2>2, ChoosingFinite DEF Enter, CountInv
<1>3. CASE Wake(t)
  <2>1. Choosing' \subseteq Choosing
    BY <1>3 DEF Wake, Choosing
  <2>. QED  BY <1>3, <2>1, ChoosingStays, ChoosingFinite DEF Wake, CountInv
<1>4. CASE Fetch(t)
  <2>1. Choosing' \subseteq Choosing
    BY <1>4 DEF Fetch, Choosing
  <2>. QED  BY <1>4, <2>1, ChoosingStays, ChoosingFinite DEF Fetch, CountInv
<1>5. CASE Put(t)
  <2>1. Choosing' \subseteq Choosing
    BY <1>5 DEF Put, Choosing
  <2>. QED  BY <1>5, <2>1, ChoosingStays, ChoosingFinite DEF Put, CountInv
<1>6. CASE Finally(t)
  <2>1. Choosing' \subseteq Choosing
    BY <1>6 DEF Finally, Return, Choosing
  <2>. QED  BY <1>6, <2>1, ChoosingStays, ChoosingFinite DEF Finally, Return, CountInv
<1>. QED  BY <1>1, <1>2, <1>3, <1>4, <1>5, <1>6 DEF ThreadStep

LEMMA CountStep == FlightInv /\ CountInv /\ [Next]_vars => CountInv'
<1>. SUFFICES ASSUME FlightInv, CountInv, [Next]_vars PROVE CountInv'
  OBVIOUS
<1>. USE DEF FlightInv, Types, cacheVars, historyVars
<1>1. ASSUME NEW t \in Threads, NEW k \in Keys, Call(t, k)
      PROVE  CountInv'
  <2>1. Choosing' \subseteq Choosing \union {t}
    BY <1>1 DEF Call, Choosing
  <2>. QED  BY <1>1, <2>1, ChoosingBegins, ChoosingFinite, IngestionAssumption DEF Call, CountInv
<1>2. ASSUME NEW k \in Keys, Expire(k)
      PROVE  CountInv'
  <2>1. Choosing' \subseteq Choosing
    BY <1>2 DEF Expire, Choosing
  <2>. QED  BY <1>2, <2>1, ChoosingStays, ChoosingFinite DEF Expire, CountInv
<1>3. CASE UNCHANGED vars
  BY <1>3 DEF vars, CountInv, Choosing
<1>. QED  BY <1>1, <1>2, <1>3, CountThread DEF Next

\* Every reachable state is well typed, and no call fetches more than once: fetches
\* never outnumber calls (get_or_refresh, cache.py:45-77).
THEOREM TypeCorrect == Spec => []TypeOK
<1>1. Spec => []CountInv
  BY FlightInvariant, CountInit, CountStep, PTL DEF Spec
<1>2. FlightInv /\ CountInv => TypeOK
  BY ChoosingFinite DEF FlightInv, Types, CountInv, TypeOK
<1>. QED  BY <1>1, <1>2, FlightInvariant, PTL
=============================================================================
