---------------------------- MODULE IngestionCache ----------------------------
(***************************************************************************)
(* IngestionCache (cache.py): the in-process cache of ingest artifacts that *)
(* every screening request goes through, with its single-flight refresh.    *)
(*                                                                          *)
(* The one mutex, a non-reentrant threading.Lock shared by the cache and by *)
(* the condition variables, is modelled: `lock` is the thread that blocks   *)
(* while it holds it.  A critical section in which nobody can block is one  *)
(* action guarded by lock = Free.                                           *)
(*                                                                          *)
(* Artifacts are numbered in the order their fetches began.  A wait of the  *)
(* code has a timeout of 5 s, so a waiter may wake at any time whether it   *)
(* was notified or not, and notify_all needs no state.                      *)
(***************************************************************************)
EXTENDS Naturals, FiniteSets

CONSTANTS
    Threads,   \* request-handling threads of the API process
    Keys,      \* cache keys (the application uses one, "__global__")
    Free,      \* nobody blocks holding the lock
    MaxCalls   \* BOUND: calls of get_or_refresh altogether

ASSUME IngestionAssumption ==
    IsFiniteSet(Threads) /\ Free \notin Threads /\ MaxCalls \in Nat

VARIABLES
    entry,       \* _entries: artifact number per key, 0 for none
    fresh,       \* is the entry of the key within its TTL?
    refreshing,  \* _refreshing
    lock,        \* _lock
    pc,          \* thread: control point in get_or_refresh
    key,         \* thread: customer_id of its call
    art,         \* thread: its local `artifact`, 0 when it has none
    result,      \* thread: what its last call returned, 0 if it raised
    fetches,     \* fetches begun so far
    calls,       \* calls begun so far
    floor,       \* history, thread: newest artifact returned before its call began
    newest       \* history, key: newest artifact any call has returned

cacheVars == <<entry, fresh, refreshing, lock>>
historyVars == <<calls, floor, newest>>
vars == <<cacheVars, pc, key, art, result, fetches, historyVars>>

Refresher == {"fetch", "put", "finally"}

TypeOK ==
    /\ entry \in [Keys -> 0 .. fetches]
    /\ fresh \in [Keys -> BOOLEAN]
    /\ refreshing \in SUBSET Keys
    /\ lock \in Threads \union {Free}
    /\ pc \in [Threads -> {"idle", "get", "enter", "waiting", "reread"} \union Refresher]
    /\ key \in [Threads -> Keys]
    /\ art \in [Threads -> 0 .. fetches]
    /\ result \in [Threads -> 0 .. fetches]
    /\ fetches \in 0 .. calls
    /\ calls \in 0 .. MaxCalls
    /\ floor \in [Threads -> 0 .. fetches]
    /\ newest \in [Keys -> 0 .. fetches]

Init ==
    /\ entry = [k \in Keys |-> 0]
    /\ fresh = [k \in Keys |-> FALSE]
    /\ refreshing = {}
    /\ lock = Free
    /\ pc = [t \in Threads |-> "idle"]
    /\ key \in [Threads -> Keys]
    /\ art = [t \in Threads |-> 0]
    /\ result = [t \in Threads |-> 0]
    /\ fetches = 0
    /\ calls = 0
    /\ floor = [t \in Threads |-> 0]
    /\ newest = [k \in Keys |-> 0]

-----------------------------------------------------------------------------
\* A request handler calls get_or_refresh.
Call(t, k) ==
    /\ pc[t] = "idle" /\ calls < MaxCalls
    /\ calls' = calls + 1
    /\ key' = [key EXCEPT ![t] = k]
    /\ floor' = [floor EXCEPT ![t] = newest[k]]
    /\ pc' = [pc EXCEPT ![t] = "get"]
    /\ UNCHANGED <<cacheVars, art, result, fetches, newest>>

\* get_or_refresh returns artifact a, or raises (a = 0).
Return(t, a) ==
    /\ pc' = [pc EXCEPT ![t] = "idle"]
    /\ result' = [result EXCEPT ![t] = a]
    /\ art' = [art EXCEPT ![t] = 0]
    /\ newest' = IF a > newest[key[t]] THEN [newest EXCEPT ![key[t]] = a] ELSE newest

\* The first get(): a hit ends the call.
Get(t) ==
    /\ pc[t] = "get" /\ lock = Free
    /\ \/ fresh[key[t]] /\ Return(t, entry[key[t]])
       \/ /\ ~ fresh[key[t]]
          /\ pc' = [pc EXCEPT ![t] = "enter"]
          /\ UNCHANGED <<art, result, newest>>
    /\ UNCHANGED <<cacheVars, key, fetches, calls, floor>>

\* Mutant of Enter: the check for a refresh in flight is left out.
EnterUnchecked(t) ==
    /\ pc[t] = "enter" /\ lock = Free
    /\ refreshing' = refreshing \union {key[t]}
    /\ fetches' = fetches + 1
    /\ art' = [art EXCEPT ![t] = fetches + 1]
    /\ pc' = [pc EXCEPT ![t] = "fetch"]
    /\ UNCHANGED <<entry, fresh, lock, key, result, historyVars>>

\* With the lock, after a miss: wait for the refresh in flight, or become the
\* refresher.  The entry is not looked at again on the second path.
Enter(t) ==
    /\ pc[t] = "enter" /\ lock = Free
    /\ \/ /\ key[t] \in refreshing
          /\ pc' = [pc EXCEPT ![t] = "waiting"]
          /\ UNCHANGED <<refreshing, art, fetches>>
       \/ /\ key[t] \notin refreshing
          /\ refreshing' = refreshing \union {key[t]}
          /\ fetches' = fetches + 1
          /\ art' = [art EXCEPT ![t] = fetches + 1]
          /\ pc' = [pc EXCEPT ![t] = "fetch"]
    /\ UNCHANGED <<entry, fresh, lock, key, result, historyVars>>

\* The wait ends with the lock taken again and the refresh over.  The next
\* statement calls get(), which takes the same lock once more: the thread blocks
\* in "reread" with the lock held, and the statements after it are unreachable.
Wake(t) ==
    /\ pc[t] = "waiting" /\ lock = Free
    /\ key[t] \notin refreshing
    /\ lock' = t
    /\ pc' = [pc EXCEPT ![t] = "reread"]
    /\ UNCHANGED <<entry, fresh, refreshing, key, art, result, fetches, historyVars>>

\* refresh_func, outside the lock: returns an artifact or raises.
Fetch(t) ==
    /\ pc[t] = "fetch"
    /\ \/ /\ pc' = [pc EXCEPT ![t] = "put"]
          /\ UNCHANGED art
       \/ /\ pc' = [pc EXCEPT ![t] = "finally"]
          /\ art' = [art EXCEPT ![t] = 0]
    /\ UNCHANGED <<cacheVars, key, result, fetches, historyVars>>

\* Mutant of Put: the lock of put() is never released.
PutKeepsLock(t) ==
    /\ pc[t] = "put" /\ lock = Free
    /\ lock' = t
    /\ entry' = [entry EXCEPT ![key[t]] = art[t]]
    /\ fresh' = [fresh EXCEPT ![key[t]] = TRUE]
    /\ pc' = [pc EXCEPT ![t] = "finally"]
    /\ UNCHANGED <<refreshing, key, art, result, fetches, historyVars>>

\* put(): replaces the entry whatever it is.
Put(t) ==
    /\ pc[t] = "put" /\ lock = Free
    /\ entry' = [entry EXCEPT ![key[t]] = art[t]]
    /\ fresh' = [fresh EXCEPT ![key[t]] = TRUE]
    /\ pc' = [pc EXCEPT ![t] = "finally"]
    /\ UNCHANGED <<refreshing, lock, key, art, result, fetches, historyVars>>

\* Mutant of Finally: only a successful refresh leaves _refreshing.
FinallyOnSuccess(t) ==
    /\ pc[t] = "finally" /\ lock = Free
    /\ refreshing' = IF art[t] # 0 THEN refreshing \ {key[t]} ELSE refreshing
    /\ Return(t, art[t])
    /\ UNCHANGED <<entry, fresh, lock, key, fetches, calls, floor>>

\* Mutant of Finally: a failed refresh is tried again within the same call.
FinallyRetries(t) ==
    /\ pc[t] = "finally" /\ lock = Free
    /\ refreshing' = refreshing \ {key[t]}
    /\ IF art[t] # 0 THEN Return(t, art[t])
       ELSE pc' = [pc EXCEPT ![t] = "get"] /\ UNCHANGED <<art, result, newest>>
    /\ UNCHANGED <<entry, fresh, lock, key, fetches, calls, floor>>

\* The finally clause, and the return or the exception that passes through it.
Finally(t) ==
    /\ pc[t] = "finally" /\ lock = Free
    /\ refreshing' = refreshing \ {key[t]}
    /\ Return(t, art[t])
    /\ UNCHANGED <<entry, fresh, lock, key, fetches, calls, floor>>

\* Time passes and the TTL of an entry runs out.
Expire(k) ==
    /\ fresh[k]
    /\ fresh' = [fresh EXCEPT ![k] = FALSE]
    /\ UNCHANGED <<entry, refreshing, lock, pc, key, art, result, fetches, historyVars>>

ThreadStep(t) == Get(t) \/ Enter(t) \/ Wake(t) \/ Fetch(t) \/ Put(t) \/ Finally(t)

Next ==
    \/ \E t \in Threads : ThreadStep(t) \/ \E k \in Keys : Call(t, k)
    \/ \E k \in Keys : Expire(k)

Spec == Init /\ [][Next]_vars

\* Threads are scheduled, and a fetch ends (its HTTP requests have timeouts).
FairSpec == Spec /\ \A t \in Threads : WF_vars(ThreadStep(t))

-----------------------------------------------------------------------------
(* Safety.                                                                  *)

\* Only one refresh per key at a time (the comment of cache.py:52), although the
\* miss is observed under one acquisition of the lock and acted on under another.
SingleFlight ==
    \A t, u \in Threads :
        /\ pc[t] \in Refresher /\ pc[u] \in Refresher
        /\ key[t] = key[u]
        => t = u

\* A key marked as refreshing has a thread that will unmark it, after a fetch that
\* raised as well: no key stays closed to refreshes.
RefreshOwned ==
    \A k \in refreshing : \E t \in Threads : pc[t] \in Refresher /\ key[t] = k

\* No caller is served an artifact older than one that some call had returned
\* before it began: fetches of one key do not overtake each other.
MonotonicServing ==
    \A t \in Threads : pc[t] = "idle" /\ result[t] # 0 => result[t] >= floor[t]

-----------------------------------------------------------------------------
(* Liveness.                                                                *)

\* Every call returns, unless at some point one call had to wait for another.
Returns == \A t \in Threads : pc[t] # "idle" ~> pc[t] = "idle"
NobodyWaits == \A t \in Threads : pc[t] # "waiting"
ReturnsUnlessWaiting == []NobodyWaits => Returns

\* A waiter goes on once the refresh in flight is over: it returns or becomes the
\* refresher ("wait for the in-flight refresh to complete", cache.py:59).
WaiterProceeds ==
    \A t \in Threads : pc[t] = "waiting" ~> pc[t] \in {"idle", "fetch"}

=============================================================================
