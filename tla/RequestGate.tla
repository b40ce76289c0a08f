----------------------------- MODULE RequestGate -----------------------------
(***************************************************************************)
(* The gate of the API (middleware.py): the rate limits of the host, of the *)
(* anonymous caller and of the API key, the lookup of the key and of the    *)
(* plan.  What it lets through is served and metered (UsageMetering).       *)
(*                                                                          *)
(* The middleware is a coroutine without an await before call_next: on the  *)
(* one event loop nothing else of it runs in between (`loop` is the request *)
(* it has begun), but others may write to the database at every lookup, and *)
(* the wall clock the buckets use may step back.                            *)
(***************************************************************************)
EXTENDS RateLimits

CONSTANTS
    Keys,          \* API keys of one customer
    Hosts,         \* client hosts
    NoRequest,
    DefaultRpm,    \* cfg.rpm
    PreauthRpm,    \* cfg.preauth_rpm
    PlanRpms,      \* values of rpm a plan of the customer may have
    MaxRequests,   \* BOUND: requests with an API key
    MaxAnonymous,  \* BOUND: requests without one
    MaxClock,      \* BOUND: ticks of the wall clock
    MaxChanges     \* BOUND: changed plans, revoked keys and steps back of the clock

ASSUME RequestAssumption ==
    /\ {DefaultRpm, PreauthRpm} \union PlanRpms \subseteq Nat \ {0}
    /\ {MaxRequests, MaxAnonymous, MaxClock, MaxChanges} \subseteq Nat
    /\ Keys \cap Hosts = {} /\ NoRequest \notin Keys

VARIABLES
    clock,       \* the wall clock
    revoked,     \* api_keys: the keys with a revoked_at
    rpm,         \* plans.rpm of the customer, DefaultRpm when there is no plan
    limiter,     \* state.limiter, of keys and of anonymous hosts
    preauth,     \* state.preauth_limiter
    byCustomer,  \* state.limiter_by_customer: capacity (0: none yet) and buckets
    loop,        \* the request in the middleware: its key, the rpm read (0: not yet)
    requests, anonymous, changes,   \* counters of the bounds
    spent,       \* history, key: calls admitted under the current plan
    evictions,   \* history, key: its buckets evicted under the current plan
    ticks        \* history: ticks forward under the current plan

gateVars == <<limiter, preauth, byCustomer>>
dbVars == <<revoked, rpm>>
boundVars == <<requests, anonymous, changes>>
historyVars == <<spent, evictions, ticks>>
vars == <<clock, dbVars, gateVars, loop, boundVars, historyVars>>

Idle == [key |-> NoRequest, rpm |-> 0]

\* At most MaxBuckets buckets of different keys, none above its capacity.
IsLimiter(buckets, names, capacity) ==
    /\ buckets \in Seq([key : names, tokens : 0 .. capacity * Minute, at : 0 .. MaxClock])
    /\ Len(buckets) <= MaxBuckets
    /\ \A i, j \in 1 .. Len(buckets) : buckets[i].key = buckets[j].key => i = j

TypeOK ==
    /\ clock \in 0 .. MaxClock
    /\ revoked \in SUBSET Keys
    /\ rpm \in PlanRpms \union {DefaultRpm}
    /\ IsLimiter(limiter, Keys \union Hosts, DefaultRpm)
    /\ IsLimiter(preauth, Hosts, PreauthRpm)
    /\ byCustomer.capacity \in PlanRpms \union {0}
    /\ IsLimiter(byCustomer.buckets, Keys, byCustomer.capacity)
    /\ loop = Idle \/ loop \in [key : Keys, rpm : PlanRpms \union {DefaultRpm, 0}]
    /\ requests \in 0 .. MaxRequests /\ anonymous \in 0 .. MaxAnonymous
    /\ changes \in 0 .. MaxChanges
    /\ spent \in [Keys -> 0 .. MaxRequests] /\ evictions \in [Keys -> Nat] /\ ticks \in Nat

Init ==
    /\ clock = 0 /\ revoked = {} /\ rpm \in PlanRpms \union {DefaultRpm}
    /\ limiter = <<>> /\ preauth = <<>> /\ byCustomer = [capacity |-> 0, buckets |-> <<>>]
    /\ loop = Idle
    /\ requests = 0 /\ anonymous = 0 /\ changes = 0
    /\ spent = [k \in Keys |-> 0] /\ evictions = [k \in Keys |-> 0] /\ ticks = 0

-----------------------------------------------------------------------------
CountEvictions(buckets, key) ==
    evictions' = [k \in Keys |-> evictions[k] + (IF k \in Evicted(buckets, key) THEN 1 ELSE 0)]

\* The default limiter charges the host of an unauthenticated caller (401 or 429).
ChargeHost(h) ==
    /\ limiter' = AfterAllow(limiter, h, DefaultRpm, clock)
    /\ CountEvictions(limiter, h)

AnonymousRequest(h) ==
    /\ loop = Idle /\ anonymous < MaxAnonymous
    /\ anonymous' = anonymous + 1
    /\ ChargeHost(h)
    /\ UNCHANGED <<clock, dbVars, preauth, byCustomer, loop, requests, changes,
                   spent, ticks>>

\* A request with a key: the limit of its host comes before the lookup of the key.
ResolveKey(h, k) ==
    /\ loop = Idle /\ requests < MaxRequests
    /\ requests' = requests + 1
    /\ preauth' = AfterAllow(preauth, h, PreauthRpm, clock)
    /\ IF ~Allowed(preauth, h, PreauthRpm, clock)
       THEN UNCHANGED <<limiter, evictions, loop>>
       ELSE IF k \in revoked
            THEN ChargeHost(h) /\ UNCHANGED loop
            ELSE loop' = [key |-> k, rpm |-> 0] /\ UNCHANGED <<limiter, evictions>>
    /\ UNCHANGED <<clock, dbVars, byCustomer, anonymous, changes, spent, ticks>>

\* get_plan: another lookup, and other transactions may come between the two.
ReadPlan ==
    /\ loop # Idle /\ loop.rpm = 0
    /\ loop' = [loop EXCEPT !.rpm = rpm]
    /\ UNCHANGED <<clock, dbVars, gateVars, boundVars, historyVars>>

\* Mutant of CustomerLimiter: once made, it is used for every later plan.
CustomerLimiterKept(capacity) ==
    IF byCustomer.capacity # 0 THEN byCustomer
    ELSE [capacity |-> capacity, buckets |-> <<>>]

\* The limiter of the customer: one of another capacity is replaced.
CustomerLimiter(capacity) ==
    IF byCustomer.capacity = capacity THEN byCustomer
    ELSE [capacity |-> capacity, buckets |-> <<>>]

\* The limit of the key: 429, or the handler is called.
Admit ==
    /\ loop.rpm # 0
    /\ LET k == loop.key
           used == IF loop.rpm = DefaultRpm
                   THEN [capacity |-> DefaultRpm, buckets |-> limiter]
                   ELSE CustomerLimiter(loop.rpm)
           after == AfterAllow(used.buckets, k, used.capacity, clock)
           served == loop.rpm = rpm /\ Allowed(used.buckets, k, used.capacity, clock)
       IN /\ IF loop.rpm = DefaultRpm
             THEN limiter' = after /\ UNCHANGED byCustomer
             ELSE byCustomer' = [capacity |-> used.capacity, buckets |-> after] /\ UNCHANGED limiter
          /\ spent' = [spent EXCEPT ![k] = @ + (IF served THEN 1 ELSE 0)]
          /\ CountEvictions(used.buckets, k)
    /\ loop' = Idle
    /\ UNCHANGED <<clock, dbVars, preauth, boundVars, ticks>>

-----------------------------------------------------------------------------
RevokeApiKey(k) ==
    /\ k \notin revoked /\ changes < MaxChanges
    /\ changes' = changes + 1
    /\ revoked' = revoked \union {k}
    /\ UNCHANGED <<clock, rpm, gateVars, loop, requests, anonymous, historyVars>>

\* The row of the plan changes: upsert_plan in SQLite, which no endpoint calls, a
\* statement by hand in Postgres.  The histories are those of the new plan.
UpsertPlan(new) ==
    /\ new # rpm /\ changes < MaxChanges
    /\ changes' = changes + 1
    /\ rpm' = new
    /\ spent' = [k \in Keys |-> 0] /\ evictions' = [k \in Keys |-> 0] /\ ticks' = 0
    /\ UNCHANGED <<clock, revoked, gateVars, loop, requests, anonymous>>

ClockTick ==
    /\ clock < MaxClock /\ clock' = clock + 1
    /\ ticks' = ticks + 1
    /\ UNCHANGED <<dbVars, gateVars, loop, boundVars, spent, evictions>>

ClockStepsBack ==
    /\ clock > 0 /\ changes < MaxChanges
    /\ changes' = changes + 1
    /\ clock' = clock - 1
    /\ UNCHANGED <<dbVars, gateVars, loop, requests, anonymous, historyVars>>

EventLoop ==
    \/ \E h \in Hosts : AnonymousRequest(h) \/ \E k \in Keys : ResolveKey(h, k)
    \/ ReadPlan \/ Admit

Environment ==
    \/ \E k \in Keys : RevokeApiKey(k)
    \/ \E new \in PlanRpms \union {DefaultRpm} : UpsertPlan(new)
    \/ ClockTick
    \/ ClockStepsBack

Next == EventLoop \/ Environment

Spec == Init /\ [][Next]_vars

-----------------------------------------------------------------------------
\* Under one plan a key gets no more than its allowance: the plan's rpm at once
\* and its rate from then on.  Only an eviction of its bucket, for which other
\* callers of the same limiter suffice, gives it the burst once more; a changed
\* plan, a limiter shared with other callers or replaced, and a clock that steps
\* back and forward again never do.
RateBound ==
    \A k \in Keys :
        spent[k] * Minute <= rpm * (Minute * (1 + evictions[k]) + ticks)
=============================================================================
