------------------------------ MODULE RateLimits ------------------------------
(***************************************************************************)
(* The token buckets of ratelimit.py as operators.  A limiter of the code   *)
(* is its OrderedDict: a sequence of buckets, the least recently used one   *)
(* first.  Its capacity, calls per minute, is an argument; a bucket refills *)
(* at capacity / 60 per second, so in units of 1/Minute of a token a tick   *)
(* refills `capacity` units and a call costs Minute units.                  *)
(***************************************************************************)
EXTENDS Naturals, Sequences, FiniteSets, SequencesExt, FiniteSetsExt

CONSTANTS
    Minute,      \* ticks in a minute
    MaxBuckets   \* ratelimit_max_buckets

ASSUME RateAssumption == Minute \in Nat \ {0} /\ MaxBuckets \in Nat \ {0}

\* A new bucket is full.
NewBucket(key, capacity, now) == [key |-> key, tokens |-> capacity * Minute, at |-> now]

\* Mutant of Refill: the refill is not capped at the capacity.
RefillUncapped(bucket, capacity, now) ==
    LET elapsed == IF now > bucket.at THEN now - bucket.at ELSE 0 IN
    [bucket EXCEPT !.tokens = @ + elapsed * capacity, !.at = now]

\* The tokens of the time since the last call; none when the clock went back.
Refill(bucket, capacity, now) ==
    LET elapsed == IF now > bucket.at THEN now - bucket.at ELSE 0 IN
    [bucket EXCEPT !.tokens = Min({capacity * Minute, @ + elapsed * capacity}), !.at = now]

\* Where the key's bucket is: one position, or none.
Held(buckets, key) == {i \in 1 .. Len(buckets) : buckets[i].key = key}

\* How many buckets make room for a new one: the least recently used.
Surplus(buckets, key) ==
    IF Held(buckets, key) # {} \/ Len(buckets) < MaxBuckets
    THEN 0 ELSE Len(buckets) + 1 - MaxBuckets

Evicted(buckets, key) == {buckets[i].key : i \in 1 .. Surplus(buckets, key)}

\* The buckets in front of the key's after allow(): it is moved to the end, or a new
\* one takes its place there.
Others(buckets, key) ==
    IF Held(buckets, key) = {}
    THEN SubSeq(buckets, Surplus(buckets, key) + 1, Len(buckets))
    ELSE RemoveAt(buckets, CHOOSE i \in Held(buckets, key) : TRUE)

\* The bucket of the key as allow() finds or makes it, refilled up to now.
BucketOf(buckets, key, capacity, now) ==
    IF Held(buckets, key) = {} THEN NewBucket(key, capacity, now)
    ELSE Refill(buckets[CHOOSE i \in Held(buckets, key) : TRUE], capacity, now)

Allowed(buckets, key, capacity, now) ==
    BucketOf(buckets, key, capacity, now).tokens >= Minute

\* The limiter after allow(key): the key's bucket last, a call paid if allowed.
AfterAllow(buckets, key, capacity, now) ==
    LET bucket == BucketOf(buckets, key, capacity, now)
        paid == IF bucket.tokens >= Minute
                THEN [bucket EXCEPT !.tokens = @ - Minute] ELSE bucket
    IN Append(Others(buckets, key), paid)
=============================================================================
