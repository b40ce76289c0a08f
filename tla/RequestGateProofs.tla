--------------------------- MODULE RequestGateProofs ---------------------------
(***************************************************************************)
(* Proofs about RequestGate: its types, and that a key is admitted no more   *)
(* than its allowance, for any number of keys, hosts, buckets and plans.    *)
(***************************************************************************)
EXTENDS RequestGate, SequenceTheorems, TLAPS

-----------------------------------------------------------------------------
(* A limiter: what allow() keeps of the buckets, and the bucket it finds.   *)

Distinct(buckets) ==
    \A i, j \in 1 .. Len(buckets) : buckets[i].key = buckets[j].key => i = j

\* The buckets in front of the one charged are the ones there were, except that
\* of the key and the evicted ones, in one place each, and there is room for one.
KeptOf(O, B, key, S) ==
    /\ O \in Seq(S) /\ Len(O) < MaxBuckets /\ Distinct(O)
    /\ \A i \in 1 .. Len(O) : O[i].key # key
    /\ \A i \in 1 .. Len(O) : \E j \in 1 .. Len(B) : O[i] = B[j]
    /\ \A j \in 1 .. Len(B) : B[j].key = key \/ B[j].key \in Evicted(B, key)
                                \/ \E i \in 1 .. Len(O) : O[i] = B[j]

LEMMA OthersKept ==
  ASSUME NEW S, NEW B \in Seq(S), NEW key, Len(B) <= MaxBuckets, Distinct(B)
  PROVE  KeptOf(Others(B, key), B, key, S)
<1>. DEFINE O == Others(B, key)
<1>. HIDE DEF O
<1>. SUFFICES KeptOf(O, B, key, S)
  BY DEF O
<1>. DEFINE n == Len(B)
<1>0. n \in Nat /\ MaxBuckets \in Nat \ {0} /\ \A i \in 1 .. n : B[i] \in S
  BY RateAssumption
<1>1. CASE Held(B, key) = {}
  <2>. DEFINE s == Surplus(B, key)
  <2>1. s \in Nat /\ s <= n /\ n - s < MaxBuckets
    BY <1>0, <1>1 DEF Surplus
  <2>2. O = SubSeq(B, s + 1, n)
    BY <1>1 DEF Others, O
  <2>3. \A i \in s + 1 .. n : B[i] \in S
    BY <1>0, <2>1
  <2>4. O \in Seq(S) /\ Len(O) = n - s /\ \A i \in 1 .. n - s : O[i] = B[s + i]
    <3>1. /\ O \in Seq(S)
          /\ Len(O) = IF s + 1 <= n THEN n - (s + 1) + 1 ELSE 0
          /\ \A i \in 1 .. n - (s + 1) + 1 : O[i] = B[s + 1 + i - 1]
      <4>. HIDE DEF s, n
      <4>. QED  BY <1>0, <2>1, <2>2, <2>3, SubSeqProperties
    <3>. HIDE DEF s, n
    <3>. QED  BY <1>0, <2>1, <3>1
  <2>5. \A j \in 1 .. n : B[j].key # key
    BY <1>1 DEF Held
  <2>6. \A j \in 1 .. n : j <= s => B[j].key \in Evicted(B, key)
    BY <1>0, <2>1 DEF Evicted
  <2>7. \A j \in 1 .. n : j <= s \/ (j - s \in 1 .. n - s /\ s + (j - s) = j)
    BY <1>0, <2>1
  <2>8. \A i \in 1 .. n - s : s + i \in 1 .. n
    BY <1>0, <2>1
  <2>9. \A i, j \in 1 .. n - s : s + i = s + j => i = j
    BY <1>0, <2>1
  <2>. HIDE DEF s
  <2>10. Distinct(O)
    BY <2>4, <2>8, <2>9 DEF Distinct
  <2>11. \A i \in 1 .. Len(O) : O[i] = B[s + i] /\ s + i \in 1 .. n
    BY <2>4, <2>8
  <2>12. \A j \in 1 .. n : j <= s \/ \E i \in 1 .. Len(O) : O[i] = B[j]
    BY <2>4, <2>7
  <2>13. \A i \in 1 .. Len(O) : O[i].key # key
    BY <2>5, <2>11
  <2>14. \A i \in 1 .. Len(O) : \E j \in 1 .. n : O[i] = B[j]
    BY <2>11
  <2>15. \A j \in 1 .. n : B[j].key \in Evicted(B, key) \/ \E i \in 1 .. Len(O) : O[i] = B[j]
    BY <2>6, <2>12
  <2>16. Len(O) < MaxBuckets
    BY <2>1, <2>4
  <2>. HIDE DEF n
  <2>. QED  BY <2>4, <2>10, <2>13, <2>14, <2>15, <2>16 DEF n, KeptOf
<1>2. CASE Held(B, key) # {}
  <2>. DEFINE h == CHOOSE i \in Held(B, key) : TRUE
  <2>1. h \in 1 .. n /\ B[h].key = key
    BY <1>2 DEF Held
  <2>. HIDE DEF h
  <2>. DEFINE front == SubSeq(B, 1, h - 1)
              back == SubSeq(B, h + 1, n)
              pos(i) == IF i < h THEN i ELSE i + 1
  <2>2. O = front \o back
    BY <1>2 DEF Others, RemoveAt, h, O
  <2>3. front \in Seq(S) /\ Len(front) = h - 1 /\ \A i \in 1 .. h - 1 : front[i] = B[i]
    <3>1. h - 1 \in Int /\ \A i \in 1 .. h - 1 : B[i] \in S
      BY <1>0, <2>1
    <3>2. /\ front \in Seq(S)
          /\ Len(front) = IF 1 <= h - 1 THEN h - 1 - 1 + 1 ELSE 0
          /\ \A i \in 1 .. h - 1 - 1 + 1 : front[i] = B[1 + i - 1]
      BY <3>1, SubSeqProperties
    <3>. HIDE DEF front
    <3>. QED  BY <1>0, <2>1, <3>2
  <2>4. back \in Seq(S) /\ Len(back) = n - h /\ \A i \in 1 .. n - h : back[i] = B[h + i]
    <3>1. h + 1 \in Int /\ n \in Int /\ \A i \in h + 1 .. n : B[i] \in S
      BY <1>0, <2>1
    <3>2. /\ back \in Seq(S)
          /\ Len(back) = IF h + 1 <= n THEN n - (h + 1) + 1 ELSE 0
          /\ \A i \in 1 .. n - (h + 1) + 1 : back[i] = B[h + 1 + i - 1]
      <4>. HIDE DEF n
      <4>. QED  BY <3>1, SubSeqProperties
    <3>. HIDE DEF back
    <3>. QED  BY <1>0, <2>1, <3>2
  <2>. HIDE DEF front, back
  <2>5. /\ O \in Seq(S) /\ Len(O) = n - 1
        /\ \A i \in 1 .. n - 1 : O[i] = IF i <= h - 1 THEN front[i] ELSE back[i - (h - 1)]
    <3>1. /\ O \in Seq(S) /\ Len(O) = Len(front) + Len(back)
          /\ \A i \in 1 .. Len(front) + Len(back) :
                O[i] = IF i <= Len(front) THEN front[i] ELSE back[i - Len(front)]
      <4>1. front \in Seq(S) /\ back \in Seq(S)
        BY <2>3, <2>4
      <4>. HIDE DEF n
      <4>. QED  BY ONLY <2>2, <4>1, ConcatProperties
    <3>2. Len(front) + Len(back) = n - 1
      BY <1>0, <2>1, <2>3, <2>4
    <3>. QED  BY <2>3, <3>1, <3>2
  <2>6. \A i \in 1 .. n - 1 : O[i] = B[pos(i)]
    BY <1>0, <2>1, <2>3, <2>4, <2>5
  <2>7. \A i \in 1 .. n - 1 : pos(i) \in 1 .. n /\ pos(i) # h
    BY <1>0, <2>1
  <2>8. \A i, j \in 1 .. n - 1 : pos(i) = pos(j) => i = j
    BY <1>0, <2>1
  <2>9. \A j \in 1 .. n : j = h \/ \E i \in 1 .. n - 1 : pos(i) = j
    <3>. SUFFICES ASSUME NEW j \in 1 .. n, j # h PROVE \E i \in 1 .. n - 1 : pos(i) = j
      OBVIOUS
    <3>1. CASE j < h
      BY <1>0, <2>1, <3>1
    <3>2. CASE j > h
      <4>1. j - 1 \in 1 .. n - 1 /\ pos(j - 1) = j
        BY <1>0, <2>1, <3>2
      <4>. QED  BY <4>1
    <3>. QED  BY <1>0, <2>1, <3>1, <3>2
  <2>. HIDE DEF pos
  <2>10. Distinct(O)
    BY <2>5, <2>6, <2>7, <2>8 DEF Distinct
  <2>11. \A i \in 1 .. n - 1 : O[i].key # key
    BY <2>1, <2>6, <2>7 DEF Distinct
  <2>12. n - 1 < MaxBuckets
    BY <1>0, <2>1
  <2>13. \A i \in 1 .. Len(O) : O[i] = B[pos(i)] /\ pos(i) \in 1 .. n
    BY <2>5, <2>6, <2>7
  <2>14. \A j \in 1 .. n : j = h \/ \E i \in 1 .. Len(O) : O[i] = B[j]
    BY <2>5, <2>6, <2>9
  <2>. HIDE DEF n
  <2>15. \A i \in 1 .. Len(O) : \E j \in 1 .. n : O[i] = B[j]
    BY <2>13
  <2>16. \A j \in 1 .. n : B[j].key = key \/ \E i \in 1 .. Len(O) : O[i] = B[j]
    BY <2>1, <2>14
  <2>17. O \in Seq(S) /\ Len(O) < MaxBuckets /\ \A i \in 1 .. Len(O) : O[i].key # key
    BY <2>5, <2>11, <2>12
  <2>. HIDE DEF n
  <2>. QED  BY <2>10, <2>15, <2>16, <2>17 DEF n, KeptOf
<1>. QED  BY <1>1, <1>2

-----------------------------------------------------------------------------
(* The tokens of a bucket: its capacity bounds them, a tick refills at most *)
(* the capacity, and a clock that steps back refills nothing.               *)

Full(capacity) == capacity * Minute

BucketType(names, capacity) ==
    [key : names, tokens : 0 .. Full(capacity), at : 0 .. MaxClock]

LEMMA MinOfTwo ==
  ASSUME NEW a \in Nat, NEW b \in Nat
  PROVE  Min({a, b}) = IF a <= b THEN a ELSE b
<1>. DEFINE m == IF a <= b THEN a ELSE b
<1>1. m \in {a, b} /\ \A y \in {a, b} : m <= y
  OBVIOUS
<1>2. \A x \in {a, b} : (\A y \in {a, b} : x <= y) => x = m
  OBVIOUS
<1>. HIDE DEF m
<1>3. Min({a, b}) = m
  BY <1>1, <1>2 DEF Min
<1>. QED  BY <1>3 DEF m

Elapsed(bucket, now) == IF now > bucket.at THEN now - bucket.at ELSE 0
Uncapped(bucket, capacity, now) == bucket.tokens + Elapsed(bucket, now) * capacity

LEMMA Products ==
  ASSUME NEW a \in Nat, NEW b \in Nat
  PROVE  /\ a * b \in Nat
         /\ (a + 1) * b = a * b + b
         /\ a * (b + 1) = a * b + a
  OBVIOUS

LEMMA RefillTokens ==
  ASSUME NEW names, NEW capacity \in Nat, NEW bucket \in BucketType(names, capacity),
         NEW now \in Nat
  PROVE  /\ Uncapped(bucket, capacity, now) \in Nat /\ Full(capacity) \in Nat
         /\ Uncapped(bucket, capacity, now) >= bucket.tokens
         /\ Refill(bucket, capacity, now).tokens
              = IF Full(capacity) <= Uncapped(bucket, capacity, now)
                THEN Full(capacity) ELSE Uncapped(bucket, capacity, now)
         /\ Refill(bucket, capacity, now).tokens \in 0 .. Full(capacity)
         /\ now <= MaxClock => Refill(bucket, capacity, now) \in BucketType(names, capacity)
         /\ Refill(bucket, capacity, now).key = bucket.key
         /\ Refill(bucket, capacity, now).at = now
<1>. DEFINE full == capacity * Minute
            some == bucket.tokens + Elapsed(bucket, now) * capacity
            refilled == Refill(bucket, capacity, now)
<1>1. full \in Nat
  BY RateAssumption, Products
<1>2. /\ bucket.tokens \in 0 .. full /\ bucket.at \in 0 .. MaxClock /\ bucket.key \in names
      /\ MaxClock \in Nat
  BY RequestAssumption DEF BucketType, Full
<1>3. Elapsed(bucket, now) \in Nat
  BY <1>2 DEF Elapsed
<1>4. Elapsed(bucket, now) * capacity \in Nat
  BY <1>3, Products
<1>5. some \in Nat /\ some >= bucket.tokens
  <2>. HIDE DEF full
  <2>. QED  BY <1>1, <1>2, <1>4
<1>. HIDE DEF full, some
<1>6. Min({full, some}) = IF full <= some THEN full ELSE some
  BY <1>1, <1>5, MinOfTwo
<1>7. refilled = [bucket EXCEPT !.tokens = Min({full, some}), !.at = now]
  BY DEF Refill, full, some, Elapsed
<1>8. bucket = [key |-> bucket.key, tokens |-> bucket.tokens, at |-> bucket.at]
  BY DEF BucketType
<1>9. refilled = [key |-> bucket.key, tokens |-> Min({full, some}), at |-> now]
  BY <1>7, <1>8
<1>10. Min({full, some}) \in 0 .. full
  BY <1>1, <1>5, <1>6
<1>. HIDE DEF refilled
<1>11. now <= MaxClock => refilled \in BucketType(names, capacity)
  BY <1>2, <1>9, <1>10 DEF BucketType, Full, full
<1>12. /\ refilled.tokens = Min({full, some})
       /\ refilled.key = bucket.key /\ refilled.at = now
  BY <1>9
<1>. QED  BY <1>1, <1>5, <1>6, <1>10, <1>11, <1>12 DEF Full, Uncapped, full, some, refilled

LEMMA BucketFound ==
  ASSUME NEW B, Distinct(B), NEW i \in 1 .. Len(B), NEW capacity, NEW now
  PROVE  BucketOf(B, B[i].key, capacity, now) = Refill(B[i], capacity, now)
<1>. DEFINE held == Held(B, B[i].key)
            h == CHOOSE j \in held : TRUE
<1>1. i \in held /\ \A j \in held : j = i
  BY DEF Held, Distinct
<1>2. h = i /\ held # {}
  BY <1>1
<1>. HIDE DEF h
<1>3. BucketOf(B, B[i].key, capacity, now) = Refill(B[h], capacity, now)
  BY <1>2 DEF BucketOf, h
<1>. QED  BY <1>2, <1>3

LEMMA BucketNew ==
  ASSUME NEW B, NEW key, \A i \in 1 .. Len(B) : B[i].key # key, NEW capacity, NEW now
  PROVE  BucketOf(B, key, capacity, now) = NewBucket(key, capacity, now)
  BY DEF BucketOf, Held

LEMMA LimiterParts ==
  ASSUME NEW names, NEW capacity, NEW B, IsLimiter(B, names, capacity)
  PROVE  /\ B \in Seq(BucketType(names, capacity)) /\ Len(B) <= MaxBuckets /\ Distinct(B)
         /\ \A i \in 1 .. Len(B) : B[i] \in BucketType(names, capacity)
<1>1. B \in Seq(BucketType(names, capacity)) /\ Len(B) <= MaxBuckets /\ Distinct(B)
  BY DEF IsLimiter, BucketType, Distinct, Full
<1>. QED  BY <1>1, ElementOfSeq

\* The bucket a call of the key finds now, at most a minute of its capacity in it.
LEMMA BucketTokens ==
  ASSUME NEW names, NEW capacity \in Nat, NEW B, IsLimiter(B, names, capacity),
         NEW key \in names, NEW now \in Nat
  PROVE  LET bucket == BucketOf(B, key, capacity, now) IN
         /\ bucket.tokens \in 0 .. Full(capacity)
         /\ now <= MaxClock => bucket \in BucketType(names, capacity)
         /\ bucket.key = key /\ bucket.at = now
<1>0. Distinct(B) /\ \A i \in 1 .. Len(B) : B[i] \in BucketType(names, capacity)
  BY LimiterParts
<1>1. CASE \E i \in 1 .. Len(B) : B[i].key = key
  <2>1. PICK i \in 1 .. Len(B) : B[i].key = key
    BY <1>1
  <2>2. PICK b \in BucketType(names, capacity) : b = B[i]
    BY <1>0, <2>1
  <2>3. BucketOf(B, key, capacity, now) = Refill(b, capacity, now)
    BY <1>0, <2>1, <2>2, BucketFound
  <2>4. Refill(b, capacity, now).tokens \in 0 .. Full(capacity)
    BY RefillTokens
  <2>5. now <= MaxClock => Refill(b, capacity, now) \in BucketType(names, capacity)
    BY RefillTokens
  <2>6. Refill(b, capacity, now).key = b.key
    BY RefillTokens
  <2>7. Refill(b, capacity, now).at = now
    BY RefillTokens
  <2>. QED  BY <2>1, <2>2, <2>3, <2>4, <2>5, <2>6, <2>7
<1>2. CASE \A i \in 1 .. Len(B) : B[i].key # key
  <2>1. BucketOf(B, key, capacity, now) = [key |-> key, tokens |-> Full(capacity), at |-> now]
    BY <1>2, BucketNew DEF NewBucket, Full
  <2>2. Full(capacity) \in Nat
    BY RateAssumption, Products DEF Full
  <2>3. Full(capacity) \in 0 .. Full(capacity)
    BY <2>2
  <2>. QED  BY <2>1, <2>3, RequestAssumption DEF BucketType
<1>. QED  BY <1>1, <1>2

\* One tick later it holds no less, and at most a tick's refill more.
LEMMA BucketTick ==
  ASSUME NEW names, NEW capacity \in Nat, NEW B, IsLimiter(B, names, capacity),
         NEW key \in names, NEW now \in Nat
  PROVE  LET before == BucketOf(B, key, capacity, now).tokens
             after == BucketOf(B, key, capacity, now + 1).tokens
         IN before <= after /\ after <= before + capacity
<1>0. Distinct(B) /\ \A i \in 1 .. Len(B) : B[i] \in BucketType(names, capacity)
  BY LimiterParts
<1>1. CASE \E i \in 1 .. Len(B) : B[i].key = key
  <2>1. PICK i \in 1 .. Len(B) : B[i].key = key
    BY <1>1
  <2>2. PICK b \in BucketType(names, capacity) : b = B[i]
    BY <1>0, <2>1
  <2>3. \A t \in Nat : BucketOf(B, key, capacity, t) = Refill(b, capacity, t)
    BY <1>0, <2>1, <2>2, BucketFound
  <2>. DEFINE some(t) == Uncapped(b, capacity, t)
  <2>4. \A t \in Nat : some(t) \in Nat /\ Full(capacity) \in Nat
    BY RefillTokens
  <2>9. \A t \in Nat : Refill(b, capacity, t).tokens
                         = IF Full(capacity) <= some(t) THEN Full(capacity) ELSE some(t)
    BY RefillTokens
  <2>5. some(now) <= some(now + 1) /\ some(now + 1) <= some(now) + capacity
    <3>. DEFINE e == Elapsed(b, now)
                tokens == b.tokens
    <3>1. b.at \in Nat /\ tokens \in Nat
      BY <2>2, RequestAssumption, RateAssumption, Products DEF BucketType, Full
    <3>2. e \in Nat /\ (Elapsed(b, now + 1) = e + 1 \/ Elapsed(b, now + 1) = e)
      BY <3>1 DEF Elapsed
    <3>3. (e + 1) * capacity = e * capacity + capacity /\ e * capacity \in Nat
      BY <3>2, Products
    <3>4. some(now) = tokens + e * capacity
      BY DEF Uncapped
    <3>5. some(now + 1) = tokens + (e + 1) * capacity \/ some(now + 1) = tokens + e * capacity
      BY <3>2 DEF Uncapped
    <3>. HIDE DEF some, e, tokens
    <3>6. PICK x \in Nat : x = e * capacity
      BY <3>3
    <3>. QED  BY <3>1, <3>3, <3>4, <3>5, <3>6
  <2>. HIDE DEF some
  <2>6. now + 1 \in Nat
    OBVIOUS
  <2>7. /\ BucketOf(B, key, capacity, now) = Refill(b, capacity, now)
        /\ BucketOf(B, key, capacity, now + 1) = Refill(b, capacity, now + 1)
    BY <2>3, <2>6
  <2>8. /\ some(now) \in Nat /\ some(now + 1) \in Nat /\ Full(capacity) \in Nat
        /\ Refill(b, capacity, now).tokens
             = IF Full(capacity) <= some(now) THEN Full(capacity) ELSE some(now)
        /\ Refill(b, capacity, now + 1).tokens
             = IF Full(capacity) <= some(now + 1) THEN Full(capacity) ELSE some(now + 1)
    BY <2>4, <2>6, <2>9
  <2>. QED  BY <2>5, <2>7, <2>8
<1>2. CASE \A i \in 1 .. Len(B) : B[i].key # key
  <2>1. \A t \in Nat : BucketOf(B, key, capacity, t).tokens = Full(capacity)
    BY <1>2, BucketNew DEF NewBucket, Full
  <2>2. Full(capacity) \in Nat
    BY RateAssumption, Products DEF Full
  <2>. QED  BY <2>1, <2>2
<1>. QED  BY <1>1, <1>2

-----------------------------------------------------------------------------
(* What allow() does to the limiter: it stays one, the key pays for a call   *)
(* it is allowed, and every other key that is not evicted keeps its bucket. *)

\* The key's bucket after the call.
Paid(B, key, capacity, now) ==
    LET bucket == BucketOf(B, key, capacity, now) IN
    IF bucket.tokens >= Minute THEN [bucket EXCEPT !.tokens = @ - Minute] ELSE bucket

Charged(bucket, tokens, key, now, names, capacity) ==
    /\ bucket \in BucketType(names, capacity) /\ bucket.key = key /\ bucket.at = now
    /\ bucket.tokens = tokens - (IF tokens >= Minute THEN Minute ELSE 0)

LEMMA PaidBucket ==
  ASSUME NEW names, NEW capacity \in Nat, NEW B, IsLimiter(B, names, capacity),
         NEW key \in names, NEW now \in 0 .. MaxClock
  PROVE  Charged(Paid(B, key, capacity, now), BucketOf(B, key, capacity, now).tokens,
                 key, now, names, capacity)
<1>0. now \in Nat /\ now <= MaxClock /\ MaxClock \in Nat /\ Minute \in Nat \ {0}
  BY RequestAssumption, RateAssumption
<1>1. PICK b, paid : b = BucketOf(B, key, capacity, now) /\ paid = Paid(B, key, capacity, now)
  OBVIOUS
<1>2. b.tokens \in 0 .. Full(capacity) /\ b \in BucketType(names, capacity)
      /\ b.key = key /\ b.at = now
  BY <1>0, <1>1, BucketTokens
<1>3. paid = IF b.tokens >= Minute THEN [b EXCEPT !.tokens = b.tokens - Minute] ELSE b
  BY <1>1 DEF Paid
<1>5. Full(capacity) \in Nat
  BY RateAssumption, Products DEF Full
<1>6. CASE b.tokens >= Minute
  <2>1. b.tokens - Minute \in 0 .. Full(capacity)
    BY <1>0, <1>2, <1>5, <1>6
  <2>2. paid = [key |-> key, tokens |-> b.tokens - Minute, at |-> now]
    BY <1>2, <1>3, <1>6 DEF BucketType
  <2>. QED  BY <1>0, <1>1, <1>6, <2>1, <2>2 DEF BucketType, Charged
<1>7. CASE ~(b.tokens >= Minute)
  <2>1. paid = b /\ b.tokens = b.tokens - 0
    BY <1>2, <1>3, <1>5, <1>7
  <2>. QED  BY <1>1, <1>2, <1>7, <2>1 DEF Charged
<1>. QED  BY <1>6, <1>7

Appended(A, O, last, names, capacity) ==
    /\ A \in Seq(BucketType(names, capacity)) /\ Len(A) <= MaxBuckets /\ Distinct(A)
    /\ Len(O) \in Nat /\ Len(A) = Len(O) + 1
    /\ \A i \in 1 .. Len(O) : A[i] = O[i]
    /\ A[Len(A)] = last

LEMMA AfterAllowParts ==
  ASSUME NEW names, NEW capacity \in Nat, NEW B, IsLimiter(B, names, capacity),
         NEW key \in names, NEW now \in 0 .. MaxClock
  PROVE  Appended(AfterAllow(B, key, capacity, now), Others(B, key),
                  Paid(B, key, capacity, now), names, capacity)
<1>1. PICK A, O, paid : /\ A = AfterAllow(B, key, capacity, now) /\ O = Others(B, key)
                        /\ paid = Paid(B, key, capacity, now)
  OBVIOUS
<1>2. paid \in BucketType(names, capacity) /\ paid.key = key
  BY <1>1, PaidBucket DEF Charged
<1>3. A = Append(O, paid)
  BY <1>1 DEF AfterAllow, Paid
<1>4. B \in Seq(BucketType(names, capacity)) /\ Len(B) <= MaxBuckets /\ Distinct(B)
  BY LimiterParts
<1>5. /\ O \in Seq(BucketType(names, capacity)) /\ Len(O) < MaxBuckets /\ Distinct(O)
      /\ \A i \in 1 .. Len(O) : O[i].key # key
  BY <1>1, <1>4, OthersKept DEF KeptOf
<1>6. /\ A \in Seq(BucketType(names, capacity)) /\ Len(A) = Len(O) + 1
      /\ \A i \in 1 .. Len(O) : A[i] = O[i]
      /\ A[Len(O) + 1] = paid
  BY <1>2, <1>3, <1>5, AppendProperties
<1>7. Len(O) \in Nat /\ MaxBuckets \in Nat
  BY <1>5, RateAssumption
<1>8. Distinct(A)
  <2>1. \A i \in 1 .. Len(A) : i \in 1 .. Len(O) \/ i = Len(O) + 1
    BY <1>6, <1>7
  <2>2. \A i, j \in 1 .. Len(O) : O[i].key = O[j].key => i = j
    BY <1>5 DEF Distinct
  <2>. QED  BY <1>2, <1>5, <1>6, <2>1, <2>2 DEF Distinct
<1>9. Len(A) <= MaxBuckets
  BY <1>5, <1>6, <1>7
<1>. QED  BY <1>1, <1>6, <1>7, <1>8, <1>9 DEF Appended

LEMMA AllowKeepsLimiter ==
  ASSUME NEW names, NEW capacity \in Nat, NEW B, IsLimiter(B, names, capacity),
         NEW key \in names, NEW now \in 0 .. MaxClock
  PROVE  IsLimiter(AfterAllow(B, key, capacity, now), names, capacity)
<1>1. PICK A, O : A = AfterAllow(B, key, capacity, now) /\ O = Others(B, key)
  OBVIOUS
<1>2. A \in Seq(BucketType(names, capacity)) /\ Len(A) <= MaxBuckets /\ Distinct(A)
  BY <1>1, AfterAllowParts DEF Appended
<1>. QED  BY <1>1, <1>2 DEF IsLimiter, BucketType, Distinct, Full

\* The key: its bucket holds one call less if it was allowed.
LEMMA AllowCharges ==
  ASSUME NEW names, NEW capacity \in Nat, NEW B, IsLimiter(B, names, capacity),
         NEW key \in names, NEW now \in 0 .. MaxClock
  PROVE  BucketOf(AfterAllow(B, key, capacity, now), key, capacity, now).tokens
           = BucketOf(B, key, capacity, now).tokens
               - (IF Allowed(B, key, capacity, now) THEN Minute ELSE 0)
<1>1. PICK A, O, paid : /\ A = AfterAllow(B, key, capacity, now) /\ O = Others(B, key)
                        /\ paid = Paid(B, key, capacity, now)
  OBVIOUS
<1>2. Distinct(A) /\ Len(A) \in 1 .. Len(A) /\ A[Len(A)] = paid /\ paid.key = key
  <2>1. Appended(A, O, paid, names, capacity)
    BY <1>1, AfterAllowParts
  <2>2. Distinct(A) /\ A[Len(A)] = paid /\ Len(A) \in 1 .. Len(A)
    BY <2>1 DEF Appended
  <2>3. paid.key = key
    BY <1>1, PaidBucket DEF Charged
  <2>. QED  BY <2>2, <2>3
<1>3. paid \in BucketType(names, capacity) /\ paid.at = now
  BY <1>1, PaidBucket DEF Charged
<1>4. BucketOf(A, key, capacity, now) = Refill(paid, capacity, now)
  BY <1>2, BucketFound
<1>5. now \in Nat
  BY RequestAssumption
<1>6. Refill(paid, capacity, now).tokens = paid.tokens
  <2>1. paid.tokens \in 0 .. Full(capacity) /\ Full(capacity) \in Nat
    BY <1>3, RateAssumption, Products DEF BucketType, Full
  <2>2. Elapsed(paid, now) = 0 /\ 0 * capacity = 0
    BY <1>3, <1>5 DEF Elapsed
  <2>3. Uncapped(paid, capacity, now) = paid.tokens
    BY <2>1, <2>2 DEF Uncapped
  <2>4. Refill(paid, capacity, now).tokens
          = IF Full(capacity) <= Uncapped(paid, capacity, now)
            THEN Full(capacity) ELSE Uncapped(paid, capacity, now)
    BY <1>3, <1>5, RefillTokens
  <2>. QED  BY <2>1, <2>3, <2>4
<1>7. paid.tokens = BucketOf(B, key, capacity, now).tokens
                      - (IF Allowed(B, key, capacity, now) THEN Minute ELSE 0)
  <2>. DEFINE tokens == BucketOf(B, key, capacity, now).tokens
  <2>1. Charged(paid, tokens, key, now, names, capacity)
    BY <1>1, PaidBucket
  <2>2. Allowed(B, key, capacity, now) <=> tokens >= Minute
    BY DEF Allowed
  <2>. HIDE DEF tokens
  <2>3. paid.tokens = tokens - (IF tokens >= Minute THEN Minute ELSE 0)
    BY <2>1 DEF Charged
  <2>. QED  BY <2>2, <2>3 DEF tokens
<1>. QED  BY <1>1, <1>4, <1>6, <1>7

\* Another key.
LEMMA AllowKeepsOthers ==
  ASSUME NEW names, NEW capacity \in Nat, NEW B, IsLimiter(B, names, capacity),
         NEW key \in names, NEW now \in 0 .. MaxClock,
         NEW k \in names, k # key, k \notin Evicted(B, key), NEW t \in Nat
  PROVE  BucketOf(AfterAllow(B, key, capacity, now), k, capacity, t)
           = BucketOf(B, k, capacity, t)
<1>1. PICK A, O : A = AfterAllow(B, key, capacity, now) /\ O = Others(B, key)
  OBVIOUS
<1>2. /\ Distinct(A) /\ Len(O) \in Nat /\ Len(A) = Len(O) + 1
      /\ \A i \in 1 .. Len(O) : A[i] = O[i]
      /\ A[Len(A)].key = key
  <2>. DEFINE paid == Paid(B, key, capacity, now)
  <2>1. Appended(A, O, paid, names, capacity)
    BY <1>1, AfterAllowParts
  <2>2. paid.key = key
    <3>1. Charged(paid, BucketOf(B, key, capacity, now).tokens, key, now, names, capacity)
      BY PaidBucket
    <3>. QED  BY <3>1 DEF Charged
  <2>. HIDE DEF paid
  <2>. QED  BY <2>1, <2>2 DEF Appended
<1>3. Distinct(B) /\ B \in Seq(BucketType(names, capacity)) /\ Len(B) <= MaxBuckets
  BY LimiterParts
<1>4. /\ \A i \in 1 .. Len(O) : \E j \in 1 .. Len(B) : O[i] = B[j]
      /\ \A j \in 1 .. Len(B) : B[j].key = key \/ B[j].key \in Evicted(B, key)
                                  \/ \E i \in 1 .. Len(O) : O[i] = B[j]
  <2>1. KeptOf(O, B, key, BucketType(names, capacity))
    BY <1>1, <1>3, OthersKept
  <2>. QED  BY <2>1 DEF KeptOf
<1>5. CASE \E j \in 1 .. Len(B) : B[j].key = k
  <2>1. PICK j \in 1 .. Len(B) : B[j].key = k
    BY <1>5
  <2>2. PICK i \in 1 .. Len(O) : O[i] = B[j]
    BY <1>4, <2>1
  <2>3. i \in 1 .. Len(A) /\ A[i] = B[j]
    BY <1>2, <2>2
  <2>4. BucketOf(A, A[i].key, capacity, t) = Refill(A[i], capacity, t)
    <3>1. Distinct(A) /\ i \in 1 .. Len(A)
      BY <1>2, <2>3
    <3>. QED  BY ONLY <3>1, BucketFound
  <2>5. BucketOf(B, k, capacity, t) = Refill(B[j], capacity, t)
    BY <1>3, <2>1, BucketFound
  <2>. QED  BY <1>1, <2>1, <2>3, <2>4, <2>5
<1>6. CASE \A j \in 1 .. Len(B) : B[j].key # k
  <2>1. \A i \in 1 .. Len(A) : i \in 1 .. Len(O) \/ i = Len(A)
    BY <1>2
  <2>2. \A i \in 1 .. Len(O) : O[i].key # k
    BY <1>4, <1>6
  <2>3. A[Len(A)].key # k
    BY <1>2
  <2>4. \A i \in 1 .. Len(O) : A[i].key # k
    BY <1>2, <2>2
  <2>5. \A i \in 1 .. Len(A) : A[i].key # k
    BY <2>1, <2>3, <2>4
  <2>. QED  BY <1>1, <1>6, <2>5, BucketNew
<1>. QED  BY <1>5, <1>6

\* A call does not evict the bucket it charges.
LEMMA OwnBucketStays ==
  ASSUME NEW S, NEW B \in Seq(S), NEW key, Len(B) <= MaxBuckets
  PROVE  key \notin Evicted(B, key)
<1>1. CASE Held(B, key) # {}
  BY <1>1 DEF Evicted, Surplus
<1>2. CASE Held(B, key) = {}
  <2>1. Len(B) \in Nat /\ MaxBuckets \in Nat \ {0}
    BY RateAssumption
  <2>2. Surplus(B, key) \in Nat /\ Surplus(B, key) <= Len(B)
    BY <1>2, <2>1 DEF Surplus
  <2>3. \A i \in 1 .. Surplus(B, key) : i \in 1 .. Len(B)
    BY <2>1, <2>2
  <2>. QED  BY <1>2, <2>3 DEF Evicted, Held
<1>. QED  BY <1>1, <1>2

-----------------------------------------------------------------------------
(* What a key is allowed: the calls it made and the tokens in its bucket     *)
(* never exceed it, and every step leaves it so.                            *)

Allowance(rate, evicted, elapsed) == rate * (Minute * (1 + evicted) + elapsed)

Within(calls, buckets, key, capacity, now, evicted, elapsed) ==
    calls * Minute + BucketOf(buckets, key, capacity, now).tokens
      <= Allowance(capacity, evicted, elapsed)

LEMMA Distributes ==
  ASSUME NEW a \in Nat, NEW b \in Nat, NEW c \in Nat
  PROVE  a * (b + c) = a * b + a * c
  OBVIOUS

LEMMA AllowanceGrows ==
  ASSUME NEW rate \in Nat, NEW evicted \in Nat, NEW elapsed \in Nat
  PROVE  /\ Allowance(rate, evicted, elapsed) \in Nat /\ Full(rate) \in Nat
         /\ Allowance(rate, evicted + 1, elapsed) = Allowance(rate, evicted, elapsed) + Full(rate)
         /\ Allowance(rate, evicted, elapsed + 1) = Allowance(rate, evicted, elapsed) + rate
         /\ Allowance(rate, 0, 0) = Full(rate)
<1>0. Minute \in Nat
  BY RateAssumption
<1>1. PICK m \in Nat : m = Minute * (1 + evicted)
  <2>1. 1 + evicted \in Nat
    OBVIOUS
  <2>. QED  BY <1>0, <2>1, Products
<1>2. Minute * (1 + (evicted + 1)) = m + Minute
  <2>1. (1 + evicted) + 1 = 1 + (evicted + 1) /\ 1 + evicted \in Nat
    OBVIOUS
  <2>. QED  BY <1>0, <1>1, <2>1, Products
<1>3. m + elapsed \in Nat
  OBVIOUS
<1>4. Allowance(rate, evicted, elapsed) = rate * (m + elapsed)
  BY <1>1 DEF Allowance
<1>5. rate * (m + elapsed) \in Nat
  BY <1>3, Products
<1>6. Allowance(rate, evicted + 1, elapsed) = rate * (m + elapsed) + rate * Minute
  <2>1. (m + Minute) + elapsed = (m + elapsed) + Minute
    BY <1>0
  <2>2. Allowance(rate, evicted + 1, elapsed) = rate * ((m + elapsed) + Minute)
    BY <1>2, <2>1 DEF Allowance
  <2>. QED  BY <1>0, <1>3, <2>2, Distributes
<1>7. Allowance(rate, evicted, elapsed + 1) = rate * (m + elapsed) + rate
  <2>1. m + (elapsed + 1) = (m + elapsed) + 1
    OBVIOUS
  <2>2. Allowance(rate, evicted, elapsed + 1) = rate * ((m + elapsed) + 1)
    BY <1>1, <2>1 DEF Allowance
  <2>. QED  BY <1>3, <2>2, Products
<1>8. Allowance(rate, 0, 0) = rate * Minute
  <2>1. Minute * (1 + 0) + 0 = Minute
    BY <1>0
  <2>. QED  BY <2>1 DEF Allowance
<1>9. rate * Minute \in Nat
  BY <1>0, Products
<1>. QED  BY <1>4, <1>5, <1>6, <1>7, <1>8, <1>9 DEF Full

\* A call of `caller` on a limiter that `key` is in too.
LEMMA CallStaysWithin ==
  ASSUME NEW names, NEW capacity \in Nat, NEW B, IsLimiter(B, names, capacity),
         NEW caller \in names, NEW key \in names, NEW now \in 0 .. MaxClock,
         NEW calls \in Nat, NEW evicted \in Nat, NEW elapsed \in Nat,
         Within(calls, B, key, capacity, now, evicted, elapsed)
  PROVE  Within(calls + (IF key = caller /\ Allowed(B, caller, capacity, now) THEN 1 ELSE 0),
                AfterAllow(B, caller, capacity, now), key, capacity, now,
                evicted + (IF key \in Evicted(B, caller) THEN 1 ELSE 0), elapsed)
<1>. DEFINE A == AfterAllow(B, caller, capacity, now)
<1>0. now \in Nat /\ Minute \in Nat /\ calls * Minute \in Nat /\ evicted + 0 = evicted
  BY RequestAssumption, RateAssumption, Products
<1>1. PICK T : T = BucketOf(B, key, capacity, now).tokens
  OBVIOUS
<1>2. PICK U : U = BucketOf(A, key, capacity, now).tokens
  OBVIOUS
<1>3. T \in 0 .. Full(capacity) /\ T \in Nat
  <2>1. Full(capacity) \in Nat
    BY AllowanceGrows
  <2>2. T \in 0 .. Full(capacity)
    BY <1>0, <1>1, BucketTokens
  <2>. QED  BY <2>1, <2>2
<1>4. calls * Minute + T <= Allowance(capacity, evicted, elapsed)
  BY <1>1 DEF Within
<1>5. CASE key = caller
  <2>1. key \notin Evicted(B, caller)
    <3>1. B \in Seq(BucketType(names, capacity)) /\ Len(B) <= MaxBuckets
      BY LimiterParts
    <3>. QED  BY <1>5, <3>1, OwnBucketStays
  <2>2. U = T - (IF Allowed(B, caller, capacity, now) THEN Minute ELSE 0)
    BY <1>1, <1>2, <1>5, AllowCharges
  <2>3. CASE Allowed(B, caller, capacity, now)
    <3>1. (calls + 1) * Minute = calls * Minute + Minute
      BY <1>0, Products
    <3>2. (calls + 1) * Minute + U = calls * Minute + T
      BY <1>0, <1>3, <2>2, <2>3, <3>1
    <3>3. Within(calls + 1, A, key, capacity, now, evicted, elapsed)
      BY <1>2, <1>4, <3>2 DEF Within
    <3>. QED  BY <1>0, <1>5, <2>1, <2>3, <3>3
  <2>4. CASE ~Allowed(B, caller, capacity, now)
    <3>1. U = T /\ calls + 0 = calls
      BY <1>3, <2>2, <2>4
    <3>2. Within(calls, A, key, capacity, now, evicted, elapsed)
      BY <1>2, <1>4, <3>1 DEF Within
    <3>. QED  BY <1>0, <1>5, <2>1, <2>4, <3>1, <3>2
  <2>. QED  BY <2>3, <2>4
<1>6. CASE key # caller /\ key \notin Evicted(B, caller)
  <2>1. U = T /\ calls + 0 = calls
    BY <1>0, <1>1, <1>2, <1>6, AllowKeepsOthers
  <2>2. Within(calls, A, key, capacity, now, evicted, elapsed)
    BY <1>2, <1>4, <2>1 DEF Within
  <2>. QED  BY <1>0, <1>6, <2>1, <2>2
<1>7. CASE key # caller /\ key \in Evicted(B, caller)
  <2>1. IsLimiter(A, names, capacity)
    BY AllowKeepsLimiter
  <2>2. U \in 0 .. Full(capacity)
    BY <1>0, <1>2, <2>1, BucketTokens
  <2>3. /\ Allowance(capacity, evicted + 1, elapsed)
             = Allowance(capacity, evicted, elapsed) + Full(capacity)
        /\ Allowance(capacity, evicted, elapsed) \in Nat /\ Full(capacity) \in Nat
    BY AllowanceGrows
  <2>4. calls * Minute + U <= Allowance(capacity, evicted + 1, elapsed) /\ calls + 0 = calls
    BY <1>0, <1>3, <1>4, <2>2, <2>3
  <2>5. Within(calls, A, key, capacity, now, evicted + 1, elapsed)
    BY <1>2, <2>4 DEF Within
  <2>. QED  BY <1>7, <2>4, <2>5
<1>. QED  BY <1>5, <1>6, <1>7

-----------------------------------------------------------------------------
(* The invariant.  `Current` is the limiter that charges a key under the     *)
(* plan of the database; a request in the middleware may still hold the rpm *)
(* of an earlier plan, and then nothing is admitted yet under this one.     *)

ChargedBy(rate, default, customer) ==
    IF rate = DefaultRpm THEN default
    ELSE IF customer.capacity = rate THEN customer.buckets ELSE <<>>
Current == ChargedBy(rpm, limiter, byCustomer)
Names(rate) == IF rate = DefaultRpm THEN Keys \union Hosts ELSE Keys

WorldTypes ==
    /\ clock \in 0 .. MaxClock /\ revoked \in SUBSET Keys
    /\ rpm \in PlanRpms \union {DefaultRpm}
LimiterTypes ==
    /\ IsLimiter(limiter, Keys \union Hosts, DefaultRpm)
    /\ IsLimiter(preauth, Hosts, PreauthRpm)
    /\ byCustomer.capacity \in PlanRpms \union {0}
    /\ IsLimiter(byCustomer.buckets, Keys, byCustomer.capacity)
LoopTypes == loop = Idle \/ loop \in [key : Keys, rpm : PlanRpms \union {DefaultRpm, 0}]
BoundTypes ==
    /\ requests \in 0 .. MaxRequests /\ anonymous \in 0 .. MaxAnonymous
    /\ changes \in 0 .. MaxChanges
HistoryTypes == spent \in [Keys -> Nat] /\ evictions \in [Keys -> Nat] /\ ticks \in Nat
TypeInv == WorldTypes /\ LimiterTypes /\ LoopTypes /\ BoundTypes /\ HistoryTypes

\* Every admitted call, and the one in the middleware, is a request.
SpentRequested ==
    \A k \in Keys : spent[k] + (IF loop.key = k THEN 1 ELSE 0) <= requests

StaleUnspent == loop.rpm \notin {0, rpm} => \A k \in Keys : spent[k] = 0

AllowanceKept ==
    \A k \in Keys : Within(spent[k], Current, k, rpm, clock, evictions[k], ticks)

GateInv == TypeInv /\ SpentRequested /\ StaleUnspent /\ AllowanceKept

LEMMA Constants ==
    /\ DefaultRpm \in Nat \ {0} /\ PreauthRpm \in Nat \ {0} /\ PlanRpms \subseteq Nat \ {0}
    /\ MaxRequests \in Nat /\ MaxAnonymous \in Nat /\ MaxClock \in Nat /\ MaxChanges \in Nat
    /\ Keys \cap Hosts = {} /\ NoRequest \notin Keys /\ Minute \in Nat \ {0}
  BY RequestAssumption, RateAssumption

LEMMA EmptyLimiter == ASSUME NEW names, NEW capacity PROVE IsLimiter(<<>>, names, capacity)
<1>1. <<>> \in Seq([key : names, tokens : 0 .. capacity * Minute, at : 0 .. MaxClock])
      /\ Len(<<>>) = 0
  OBVIOUS
<1>. QED  BY <1>1, RateAssumption DEF IsLimiter

LEMMA IdleLoop == Idle.key = NoRequest /\ Idle.rpm = 0
  BY DEF Idle

LEMMA ChargedByLimiter ==
  ASSUME NEW rate \in PlanRpms \union {DefaultRpm},
         NEW default, IsLimiter(default, Keys \union Hosts, DefaultRpm),
         NEW customer, IsLimiter(customer.buckets, Keys, customer.capacity)
  PROVE  /\ IsLimiter(ChargedBy(rate, default, customer), Names(rate), rate)
         /\ rate \in Nat \ {0} /\ Keys \subseteq Names(rate)
  BY Constants, EmptyLimiter DEF ChargedBy, Names

\* With nothing spent yet, no bucket holds more than a key is allowed.
LEMMA UnspentIsWithin ==
  ASSUME NEW names, NEW capacity \in Nat, NEW B, IsLimiter(B, names, capacity),
         NEW key \in names, NEW now \in Nat, NEW evicted \in Nat, NEW elapsed \in Nat
  PROVE  Within(0, B, key, capacity, now, evicted, elapsed)
<1>1. PICK T : T = BucketOf(B, key, capacity, now).tokens
  OBVIOUS
<1>2. T \in 0 .. Full(capacity)
  BY <1>1, BucketTokens
<1>3. Allowance(capacity, evicted, elapsed) >= Full(capacity) /\ Full(capacity) \in Nat
      /\ Allowance(capacity, evicted, elapsed) \in Nat
  <2>1. Minute \in Nat \ {0} /\ 1 + evicted \in Nat
    BY RateAssumption
  <2>2. PICK x \in Nat : x = Minute * evicted
    BY <2>1, Products
  <2>3. Minute * (1 + evicted) + elapsed = Minute + (x + elapsed)
    BY <2>1, <2>2, Distributes
  <2>4. Allowance(capacity, evicted, elapsed) = capacity * Minute + capacity * (x + elapsed)
    BY <2>1, <2>2, <2>3, Distributes DEF Allowance
  <2>5. capacity * (x + elapsed) \in Nat /\ capacity * Minute \in Nat
    BY <2>1, <2>2, Products
  <2>. QED  BY <2>4, <2>5 DEF Full
<1>4. 0 * Minute + T = T
  <2>1. Minute \in Nat /\ T \in Nat
    BY <1>2, <1>3, RateAssumption
  <2>. QED  BY <2>1
<1>. QED  BY <1>1, <1>2, <1>3, <1>4 DEF Within

LEMMA InitGate == Init => GateInv
<1>. SUFFICES ASSUME Init PROVE GateInv
  OBVIOUS
<1>1. WorldTypes /\ BoundTypes /\ HistoryTypes
  BY Constants DEF Init, WorldTypes, BoundTypes, HistoryTypes
<1>2. LimiterTypes
  BY EmptyLimiter DEF Init, LimiterTypes
<1>3. LoopTypes /\ SpentRequested /\ StaleUnspent
  BY Constants, IdleLoop DEF Init, LoopTypes, SpentRequested, StaleUnspent
<1>4. AllowanceKept
  <2>. SUFFICES ASSUME NEW k \in Keys
                PROVE  Within(spent[k], Current, k, rpm, clock, evictions[k], ticks)
    BY DEF AllowanceKept
  <2>1. spent[k] = 0 /\ clock \in Nat /\ evictions[k] \in Nat /\ ticks \in Nat
    BY DEF Init
  <2>. QED  BY <1>1, <1>2, <2>1, ChargedByLimiter, UnspentIsWithin DEF Current, WorldTypes, LimiterTypes
<1>. QED  BY <1>1, <1>2, <1>3, <1>4 DEF GateInv, TypeInv

\* The limiter of the plan, for the steps.
LEMMA CurrentLimiter ==
  ASSUME TypeInv
  PROVE  /\ IsLimiter(Current, Names(rpm), rpm) /\ rpm \in Nat \ {0} /\ Keys \subseteq Names(rpm)
         /\ clock \in Nat /\ clock \in 0 .. MaxClock
<1>1. clock \in Nat /\ clock \in 0 .. MaxClock
  BY Constants DEF TypeInv, WorldTypes
<1>. QED  BY <1>1, ChargedByLimiter DEF TypeInv, WorldTypes, LimiterTypes, Current

LEMMA MoreEvictions ==
  ASSUME NEW calls \in Nat, NEW names, NEW capacity \in Nat, NEW B, IsLimiter(B, names, capacity),
         NEW key \in names, NEW now \in Nat, NEW evicted \in Nat, NEW elapsed \in Nat,
         Within(calls, B, key, capacity, now, evicted, elapsed)
  PROVE  Within(calls, B, key, capacity, now, evicted + 1, elapsed)
<1>1. PICK T : T = BucketOf(B, key, capacity, now).tokens
  OBVIOUS
<1>2. /\ Allowance(capacity, evicted + 1, elapsed)
           = Allowance(capacity, evicted, elapsed) + Full(capacity)
      /\ Allowance(capacity, evicted, elapsed) \in Nat /\ Full(capacity) \in Nat
  BY AllowanceGrows
<1>3. T \in 0 .. Full(capacity)
  BY <1>1, BucketTokens
<1>4. calls * Minute \in Nat
  BY RateAssumption, Products
<1>. QED  BY <1>1, <1>2, <1>3, <1>4 DEF Within

LEMMA CountedEvictions ==
  ASSUME HistoryTypes, NEW B, NEW caller, CountEvictions(B, caller)
  PROVE  /\ evictions' \in [Keys -> Nat]
         /\ \A k \in Keys :
              evictions'[k] = evictions[k] + (IF k \in Evicted(B, caller) THEN 1 ELSE 0)
<1>1. \A k \in Keys : evictions[k] \in Nat
  BY DEF HistoryTypes
<1>2. \A k \in Keys : evictions[k] + (IF k \in Evicted(B, caller) THEN 1 ELSE 0) \in Nat
  BY <1>1
<1>. QED  BY <1>2 DEF CountEvictions

LEMMA SameAllowance ==
  ASSUME AllowanceKept,
         UNCHANGED <<spent, limiter, byCustomer, rpm, clock, evictions, ticks>>
  PROVE  AllowanceKept'
<1>1. Current' = Current
  BY DEF Current
<1>. QED  BY <1>1 DEF AllowanceKept

\* The host of an unauthenticated caller: its call may only evict buckets.
LEMMA HostCharge ==
  ASSUME TypeInv, AllowanceKept, NEW h \in Hosts, ChargeHost(h),
         UNCHANGED <<byCustomer, rpm, clock, spent, ticks>>
  PROVE  /\ IsLimiter(limiter', Keys \union Hosts, DefaultRpm)
         /\ evictions' \in [Keys -> Nat]
         /\ AllowanceKept'
<1>0. /\ IsLimiter(limiter, Keys \union Hosts, DefaultRpm) /\ DefaultRpm \in Nat
      /\ clock \in 0 .. MaxClock /\ clock \in Nat /\ HistoryTypes /\ h \notin Keys
  BY CurrentLimiter, Constants DEF TypeInv, LimiterTypes
<1>1. limiter' = AfterAllow(limiter, h, DefaultRpm, clock) /\ CountEvictions(limiter, h)
  BY DEF ChargeHost
<1>2. IsLimiter(limiter', Keys \union Hosts, DefaultRpm)
  BY <1>0, <1>1, AllowKeepsLimiter
<1>3. /\ evictions' \in [Keys -> Nat]
      /\ \A k \in Keys :
           evictions'[k] = evictions[k] + (IF k \in Evicted(limiter, h) THEN 1 ELSE 0)
  BY <1>0, <1>1, CountedEvictions
<1>4. AllowanceKept'
  <2>. SUFFICES ASSUME NEW k \in Keys
                PROVE  Within(spent[k], Current', k, rpm, clock, evictions'[k], ticks)
    BY DEF AllowanceKept
  <2>1. Within(spent[k], Current, k, rpm, clock, evictions[k], ticks)
    BY DEF AllowanceKept
  <2>2. spent[k] \in Nat /\ evictions[k] \in Nat /\ ticks \in Nat /\ spent[k] + 0 = spent[k]
    BY <1>0 DEF HistoryTypes
  <2>3. CASE rpm = DefaultRpm
    <3>1. Current = limiter /\ Current' = AfterAllow(limiter, h, rpm, clock)
      BY <1>1, <2>3 DEF Current, ChargedBy
    <3>2. k # h
      BY <1>0
    <3>3. Within(spent[k] + (IF k = h /\ Allowed(limiter, h, rpm, clock) THEN 1 ELSE 0),
                 AfterAllow(limiter, h, rpm, clock), k, rpm, clock,
                 evictions[k] + (IF k \in Evicted(limiter, h) THEN 1 ELSE 0), ticks)
      <4>1. PICK names : /\ IsLimiter(limiter, names, rpm)
                         /\ k \in names /\ h \in names /\ rpm \in Nat
        BY <1>0, <2>3
      <4>2. Within(spent[k], limiter, k, rpm, clock, evictions[k], ticks)
        BY <2>1, <3>1
      <4>. QED  BY <1>0, <2>2, <4>1, <4>2, CallStaysWithin
    <3>. QED  BY <1>3, <2>2, <3>1, <3>2, <3>3
  <2>4. CASE rpm # DefaultRpm
    <3>1. Current' = Current
      BY <2>4 DEF Current, ChargedBy
    <3>2. evictions'[k] = evictions[k] + 1 \/ evictions'[k] = evictions[k]
      BY <1>3, <2>2
    <3>3. Within(spent[k], Current, k, rpm, clock, evictions[k] + 1, ticks)
      BY <2>1, <2>2, CurrentLimiter, MoreEvictions
    <3>. QED  BY <2>1, <3>1, <3>2, <3>3
  <2>. QED  BY <2>3, <2>4
<1>. QED  BY <1>2, <1>3, <1>4

-----------------------------------------------------------------------------
(* The steps.                                                               *)

\* The limit of the key, under the plan the request read.
LEMMA AdmitKeeps == GateInv /\ Admit => GateInv'
<1>. SUFFICES ASSUME GateInv, Admit PROVE GateInv'
  OBVIOUS
<1>0. TypeInv /\ WorldTypes /\ LimiterTypes /\ LoopTypes /\ BoundTypes /\ HistoryTypes
      /\ SpentRequested /\ StaleUnspent /\ AllowanceKept
  BY DEF GateInv, TypeInv
<1>. DEFINE used == IF loop.rpm = DefaultRpm
                    THEN [capacity |-> DefaultRpm, buckets |-> limiter]
                    ELSE CustomerLimiter(loop.rpm)
<1>1. PICK k, B, rate : k = loop.key /\ B = used.buckets /\ rate = loop.rpm
  OBVIOUS
<1>2. k \in Keys /\ rate \in PlanRpms \union {DefaultRpm} /\ rate # 0
  BY <1>0, <1>1, IdleLoop DEF Admit, LoopTypes
<1>3. used.capacity = rate /\ B = ChargedBy(rate, limiter, byCustomer)
  BY <1>1 DEF CustomerLimiter, ChargedBy
<1>4. /\ IsLimiter(B, Names(rate), rate) /\ rate \in Nat \ {0} /\ k \in Names(rate)
      /\ Keys \subseteq Names(rate) /\ clock \in 0 .. MaxClock /\ clock \in Nat
  BY <1>0, <1>2, <1>3, ChargedByLimiter, CurrentLimiter DEF LimiterTypes
<1>5. PICK after : after = AfterAllow(B, k, rate, clock)
  OBVIOUS
<1>6. IsLimiter(after, Names(rate), rate)
  BY <1>4, <1>5, AllowKeepsLimiter
<1>. DEFINE served == loop.rpm = rpm /\ Allowed(used.buckets, loop.key, used.capacity, clock)
<1>7. /\ IF loop.rpm = DefaultRpm
         THEN limiter' = AfterAllow(used.buckets, loop.key, used.capacity, clock)
              /\ UNCHANGED byCustomer
         ELSE byCustomer' = [capacity |-> used.capacity,
                             buckets |-> AfterAllow(used.buckets, loop.key, used.capacity, clock)]
              /\ UNCHANGED limiter
      /\ spent' = [spent EXCEPT ![loop.key] = @ + (IF served THEN 1 ELSE 0)]
      /\ CountEvictions(used.buckets, loop.key)
      /\ loop' = Idle
      /\ UNCHANGED <<clock, dbVars, preauth, boundVars, ticks>>
  BY DEF Admit
<1>8. served <=> rate = rpm /\ Allowed(B, k, rate, clock)
  BY <1>1, <1>3
<1>. HIDE DEF served
<1>9. /\ rate = DefaultRpm => limiter' = after /\ byCustomer' = byCustomer
      /\ rate # DefaultRpm => byCustomer' = [capacity |-> rate, buckets |-> after]
                              /\ limiter' = limiter
  BY <1>1, <1>3, <1>5, <1>7
<1>10. spent' = [spent EXCEPT ![k] = @ + (IF served THEN 1 ELSE 0)] /\ CountEvictions(B, k)
  BY <1>1, <1>7
<1>. HIDE DEF used
<1>11. /\ loop' = Idle /\ clock' = clock /\ revoked' = revoked /\ rpm' = rpm
       /\ preauth' = preauth /\ requests' = requests /\ anonymous' = anonymous
       /\ changes' = changes /\ ticks' = ticks
  BY <1>7 DEF dbVars, boundVars
<1>12. LimiterTypes'
  <2>1. CASE rate = DefaultRpm
    BY <1>0, <1>6, <1>9, <1>11, <2>1 DEF LimiterTypes, Names
  <2>2. CASE rate # DefaultRpm
    <3>1. IsLimiter(after, Keys, rate) /\ rate \in PlanRpms
      BY <1>2, <1>6, <2>2 DEF Names
    <3>2. byCustomer'.capacity = rate /\ byCustomer'.buckets = after
      BY <1>9, <2>2
    <3>. QED  BY <1>0, <1>9, <1>11, <2>2, <3>1, <3>2 DEF LimiterTypes
  <2>. QED  BY <2>1, <2>2
<1>13. evictions' \in [Keys -> Nat]
       /\ \A j \in Keys : evictions'[j] = evictions[j] + (IF j \in Evicted(B, k) THEN 1 ELSE 0)
  BY <1>0, <1>10, CountedEvictions
<1>14. /\ spent' \in [Keys -> Nat]
       /\ \A j \in Keys : spent'[j] = spent[j] + (IF j = k /\ served THEN 1 ELSE 0)
  <2>1. \A j \in Keys : spent[j] \in Nat /\ spent[j] + 0 = spent[j]
    BY <1>0 DEF HistoryTypes
  <2>. QED  BY <1>0, <1>2, <1>10, <2>1 DEF HistoryTypes
<1>15. TypeInv'
  <2>1. WorldTypes' /\ LoopTypes' /\ BoundTypes'
    BY <1>0, <1>11 DEF WorldTypes, LoopTypes, BoundTypes
  <2>2. HistoryTypes'
    BY <1>0, <1>11, <1>13, <1>14 DEF HistoryTypes
  <2>. QED  BY <1>12, <2>1, <2>2 DEF TypeInv
<1>16. SpentRequested' /\ StaleUnspent'
  <2>1. SpentRequested'
    <3>. SUFFICES ASSUME NEW j \in Keys
                  PROVE  spent'[j] + (IF loop'.key = j THEN 1 ELSE 0) <= requests'
      BY DEF SpentRequested
    <3>1. spent[j] + (IF k = j THEN 1 ELSE 0) <= requests /\ spent[j] \in Nat /\ requests \in Nat
      BY <1>0, <1>1, Constants DEF SpentRequested, HistoryTypes, BoundTypes
    <3>2. loop'.key # j
      BY <1>11, Constants, IdleLoop
    <3>. QED  BY <1>11, <1>14, <3>1, <3>2
  <2>2. StaleUnspent'
    BY <1>11, IdleLoop DEF StaleUnspent
  <2>. QED  BY <2>1, <2>2
<1>17. AllowanceKept'
  <2>. SUFFICES ASSUME NEW j \in Keys
                PROVE  Within(spent'[j], Current', j, rpm, clock, evictions'[j], ticks)
    BY <1>11 DEF AllowanceKept
  <2>1. spent[j] \in Nat /\ evictions[j] \in Nat /\ ticks \in Nat /\ spent[j] + 0 = spent[j]
    BY <1>0 DEF HistoryTypes
  <2>2. CASE rate = rpm
    <3>1. Current = B /\ Current' = after
      BY <1>3, <1>9, <1>11, <2>2 DEF Current, ChargedBy
    <3>2. PICK names : IsLimiter(B, names, rate) /\ k \in names /\ j \in names
      BY <1>4
    <3>3. Within(spent[j], B, j, rate, clock, evictions[j], ticks)
      BY <1>0, <2>2, <3>1 DEF AllowanceKept
    <3>4. Within(spent[j] + (IF j = k /\ Allowed(B, k, rate, clock) THEN 1 ELSE 0),
                 AfterAllow(B, k, rate, clock), j, rate, clock,
                 evictions[j] + (IF j \in Evicted(B, k) THEN 1 ELSE 0), ticks)
      BY <1>4, <2>1, <3>2, <3>3, CallStaysWithin
    <3>. QED  BY <1>5, <1>8, <1>13, <1>14, <2>2, <3>1, <3>4
  <2>3. CASE rate # rpm
    <3>1. spent'[j] = 0
      BY <1>0, <1>1, <1>2, <1>8, <1>14, <2>1, <2>3 DEF StaleUnspent
    <3>2. /\ IsLimiter(limiter', Keys \union Hosts, DefaultRpm)
          /\ IsLimiter(byCustomer'.buckets, Keys, byCustomer'.capacity)
      BY <1>12 DEF LimiterTypes
    <3>3. /\ IsLimiter(Current', Names(rpm), rpm) /\ rpm \in Nat /\ j \in Names(rpm)
      BY <1>0, <1>11, <3>2, ChargedByLimiter DEF Current, WorldTypes
    <3>4. evictions'[j] \in Nat
      BY <1>13
    <3>. QED  BY <1>4, <2>1, <3>1, <3>3, <3>4, UnspentIsWithin
  <2>. QED  BY <2>2, <2>3
<1>. QED  BY <1>15, <1>16, <1>17 DEF GateInv

LEMMA AnonymousKeeps ==
  ASSUME GateInv, NEW h \in Hosts, AnonymousRequest(h)
  PROVE  GateInv'
<1>1. TypeInv /\ WorldTypes /\ LimiterTypes /\ LoopTypes /\ BoundTypes /\ HistoryTypes
      /\ SpentRequested /\ StaleUnspent /\ AllowanceKept
  BY DEF GateInv, TypeInv
<1>2. /\ ChargeHost(h) /\ anonymous < MaxAnonymous /\ anonymous' = anonymous + 1
      /\ UNCHANGED <<clock, revoked, rpm, preauth, byCustomer, loop, requests, changes,
                     spent, ticks>>
  BY DEF AnonymousRequest, dbVars
<1>3. /\ IsLimiter(limiter', Keys \union Hosts, DefaultRpm)
      /\ evictions' \in [Keys -> Nat] /\ AllowanceKept'
  BY <1>1, <1>2, HostCharge
<1>4. WorldTypes' /\ LoopTypes' /\ HistoryTypes' /\ LimiterTypes'
  BY <1>1, <1>2, <1>3 DEF WorldTypes, LoopTypes, HistoryTypes, LimiterTypes
<1>5. BoundTypes'
  BY <1>1, <1>2, Constants DEF BoundTypes
<1>6. SpentRequested' /\ StaleUnspent'
  BY <1>1, <1>2 DEF SpentRequested, StaleUnspent
<1>. QED  BY <1>3, <1>4, <1>5, <1>6 DEF GateInv, TypeInv

LEMMA ResolveKeeps ==
  ASSUME GateInv, NEW h \in Hosts, NEW k \in Keys, ResolveKey(h, k)
  PROVE  GateInv'
<1>1. TypeInv /\ WorldTypes /\ LimiterTypes /\ LoopTypes /\ BoundTypes /\ HistoryTypes
      /\ SpentRequested /\ StaleUnspent /\ AllowanceKept
  BY DEF GateInv, TypeInv
<1>2. /\ loop = Idle /\ requests < MaxRequests /\ requests' = requests + 1
      /\ preauth' = AfterAllow(preauth, h, PreauthRpm, clock)
      /\ UNCHANGED <<clock, revoked, rpm, byCustomer, anonymous, changes, spent, ticks>>
  BY DEF ResolveKey, dbVars
<1>3. \/ UNCHANGED <<limiter, evictions, loop>>
      \/ ChargeHost(h) /\ UNCHANGED loop
      \/ loop' = [key |-> k, rpm |-> 0] /\ UNCHANGED <<limiter, evictions>>
  BY DEF ResolveKey
<1>4. IsLimiter(preauth', Hosts, PreauthRpm)
  BY <1>1, <1>2, AllowKeepsLimiter, CurrentLimiter, Constants DEF LimiterTypes
<1>5. WorldTypes' /\ BoundTypes'
  BY <1>1, <1>2, Constants DEF WorldTypes, BoundTypes
<1>6. loop' = Idle \/ loop' = [key |-> k, rpm |-> 0]
  BY <1>2, <1>3
<1>7. LoopTypes' /\ StaleUnspent'
  BY <1>6, IdleLoop DEF LoopTypes, StaleUnspent
<1>8. SpentRequested'
  <2>. SUFFICES ASSUME NEW j \in Keys
                PROVE  spent[j] + (IF loop'.key = j THEN 1 ELSE 0) <= requests + 1
    BY <1>2 DEF SpentRequested
  <2>1. spent[j] \in Nat /\ requests \in Nat /\ spent[j] + 0 <= requests
    BY <1>1, <1>2, IdleLoop, Constants DEF SpentRequested, HistoryTypes, BoundTypes
  <2>. QED  BY <2>1
<1>9. /\ IsLimiter(limiter', Keys \union Hosts, DefaultRpm)
      /\ evictions' \in [Keys -> Nat] /\ AllowanceKept'
  <2>1. CASE UNCHANGED <<limiter, evictions>>
    BY <1>1, <1>2, <2>1, SameAllowance DEF LimiterTypes, HistoryTypes
  <2>2. CASE ChargeHost(h)
    BY <1>1, <1>2, <2>2, HostCharge
  <2>. QED  BY <1>3, <2>1, <2>2
<1>10. LimiterTypes' /\ HistoryTypes'
  BY <1>1, <1>2, <1>4, <1>9 DEF LimiterTypes, HistoryTypes
<1>. QED  BY <1>5, <1>7, <1>8, <1>9, <1>10 DEF GateInv, TypeInv

LEMMA ReadPlanKeeps == GateInv /\ ReadPlan => GateInv'
<1>. SUFFICES ASSUME GateInv, ReadPlan PROVE GateInv'
  OBVIOUS
<1>1. WorldTypes /\ LimiterTypes /\ LoopTypes /\ BoundTypes /\ HistoryTypes
      /\ SpentRequested /\ AllowanceKept
  BY DEF GateInv, TypeInv
<1>2. /\ loop # Idle /\ loop' = [loop EXCEPT !.rpm = rpm]
      /\ UNCHANGED <<clock, revoked, rpm, limiter, preauth, byCustomer, requests, anonymous,
                     changes, spent, evictions, ticks>>
  BY DEF ReadPlan, dbVars, gateVars, boundVars, historyVars
<1>3. LoopTypes' /\ loop'.key = loop.key /\ loop'.rpm = rpm
  BY <1>1, <1>2 DEF LoopTypes, WorldTypes
<1>4. WorldTypes' /\ LimiterTypes' /\ BoundTypes' /\ HistoryTypes'
  BY <1>1, <1>2 DEF WorldTypes, LimiterTypes, BoundTypes, HistoryTypes
<1>5. SpentRequested' /\ StaleUnspent'
  BY <1>1, <1>2, <1>3 DEF SpentRequested, StaleUnspent
<1>6. AllowanceKept'
  BY <1>1, <1>2, SameAllowance
<1>. QED  BY <1>3, <1>4, <1>5, <1>6 DEF GateInv, TypeInv

LEMMA RevokeKeeps ==
  ASSUME GateInv, NEW k \in Keys, RevokeApiKey(k)
  PROVE  GateInv'
<1>1. WorldTypes /\ LimiterTypes /\ LoopTypes /\ BoundTypes /\ HistoryTypes
      /\ SpentRequested /\ StaleUnspent /\ AllowanceKept
  BY DEF GateInv, TypeInv
<1>2. /\ changes < MaxChanges /\ changes' = changes + 1 /\ revoked' = revoked \union {k}
      /\ UNCHANGED <<clock, rpm, limiter, preauth, byCustomer, loop, requests, anonymous,
                     spent, evictions, ticks>>
  BY DEF RevokeApiKey, gateVars, historyVars
<1>3. WorldTypes' /\ BoundTypes'
  BY <1>1, <1>2, Constants DEF WorldTypes, BoundTypes
<1>4. LimiterTypes' /\ LoopTypes' /\ HistoryTypes' /\ SpentRequested' /\ StaleUnspent'
  BY <1>1, <1>2 DEF LimiterTypes, LoopTypes, HistoryTypes, SpentRequested, StaleUnspent
<1>5. AllowanceKept'
  BY <1>1, <1>2, SameAllowance
<1>. QED  BY <1>3, <1>4, <1>5 DEF GateInv, TypeInv

\* A new plan: nothing is spent of it yet.
LEMMA UpsertKeeps ==
  ASSUME GateInv, NEW new \in PlanRpms \union {DefaultRpm}, UpsertPlan(new)
  PROVE  GateInv'
<1>1. WorldTypes /\ LimiterTypes /\ LoopTypes /\ BoundTypes /\ HistoryTypes /\ SpentRequested
  BY DEF GateInv, TypeInv
<1>2. /\ changes < MaxChanges /\ changes' = changes + 1 /\ rpm' = new
      /\ spent' = [k \in Keys |-> 0] /\ evictions' = [k \in Keys |-> 0] /\ ticks' = 0
      /\ UNCHANGED <<clock, revoked, limiter, preauth, byCustomer, loop, requests, anonymous>>
  BY DEF UpsertPlan, gateVars
<1>3. WorldTypes' /\ BoundTypes' /\ LimiterTypes' /\ LoopTypes' /\ HistoryTypes'
  BY <1>1, <1>2, Constants DEF WorldTypes, BoundTypes, LimiterTypes, LoopTypes, HistoryTypes
<1>4. SpentRequested' /\ StaleUnspent'
  <2>1. StaleUnspent'
    BY <1>2 DEF StaleUnspent
  <2>2. ASSUME NEW k \in Keys
        PROVE  spent'[k] + (IF loop'.key = k THEN 1 ELSE 0) <= requests'
    <3>1. spent[k] + (IF loop.key = k THEN 1 ELSE 0) <= requests /\ spent[k] \in Nat
          /\ requests \in Nat
      BY <1>1, Constants DEF SpentRequested, HistoryTypes, BoundTypes
    <3>. QED  BY <1>2, <3>1
  <2>. QED  BY <2>1, <2>2 DEF SpentRequested
<1>5. AllowanceKept'
  <2>. SUFFICES ASSUME NEW k \in Keys
                PROVE  Within(0, Current', k, new, clock, 0, 0)
    BY <1>2 DEF AllowanceKept
  <2>1. /\ IsLimiter(Current', Names(new), new) /\ new \in Nat /\ k \in Names(new)
    BY <1>1, <1>2, ChargedByLimiter DEF Current, LimiterTypes
  <2>2. clock \in Nat
    BY <1>1, Constants DEF WorldTypes
  <2>. QED  BY <2>1, <2>2, UnspentIsWithin
<1>. QED  BY <1>3, <1>4, <1>5 DEF GateInv, TypeInv

LEMMA TickKeeps == GateInv /\ ClockTick => GateInv'
<1>. SUFFICES ASSUME GateInv, ClockTick PROVE GateInv'
  OBVIOUS
<1>1. TypeInv /\ WorldTypes /\ LimiterTypes /\ LoopTypes /\ BoundTypes /\ HistoryTypes
      /\ SpentRequested /\ StaleUnspent /\ AllowanceKept
  BY DEF GateInv, TypeInv
<1>2. /\ clock < MaxClock /\ clock' = clock + 1 /\ ticks' = ticks + 1
      /\ UNCHANGED <<revoked, rpm, limiter, preauth, byCustomer, loop, requests, anonymous,
                     changes, spent, evictions>>
  BY DEF ClockTick, dbVars, gateVars, boundVars
<1>3. WorldTypes' /\ HistoryTypes'
  BY <1>1, <1>2, Constants DEF WorldTypes, HistoryTypes
<1>4. LimiterTypes' /\ LoopTypes' /\ BoundTypes' /\ SpentRequested' /\ StaleUnspent'
  BY <1>1, <1>2 DEF LimiterTypes, LoopTypes, BoundTypes, SpentRequested, StaleUnspent
<1>5. AllowanceKept'
  <2>. SUFFICES ASSUME NEW k \in Keys
                PROVE  Within(spent[k], Current, k, rpm, clock + 1, evictions[k], ticks + 1)
    BY <1>2 DEF AllowanceKept, Current
  <2>1. /\ spent[k] * Minute \in Nat /\ evictions[k] \in Nat /\ ticks \in Nat
        /\ IsLimiter(Current, Names(rpm), rpm) /\ rpm \in Nat /\ k \in Names(rpm)
        /\ clock \in Nat /\ clock + 1 \in Nat
    BY <1>1, CurrentLimiter, Constants, Products DEF HistoryTypes
  <2>2. PICK T, U : /\ T = BucketOf(Current, k, rpm, clock).tokens
                    /\ U = BucketOf(Current, k, rpm, clock + 1).tokens
    OBVIOUS
  <2>3. U <= T + rpm
    BY <2>1, <2>2, BucketTick
  <2>4. /\ Allowance(rpm, evictions[k], ticks + 1) = Allowance(rpm, evictions[k], ticks) + rpm
        /\ Allowance(rpm, evictions[k], ticks) \in Nat /\ Full(rpm) \in Nat
    <3>1. PICK e \in Nat : e = evictions[k]
      BY <2>1
    <3>2. Allowance(rpm, e, ticks + 1) = Allowance(rpm, e, ticks) + rpm
      BY <2>1, AllowanceGrows
    <3>3. Allowance(rpm, e, ticks) \in Nat /\ Full(rpm) \in Nat
      BY <2>1, AllowanceGrows
    <3>. QED  BY <3>1, <3>2, <3>3
  <2>5. T \in 0 .. Full(rpm) /\ U \in 0 .. Full(rpm)
    BY <2>1, <2>2, BucketTokens
  <2>6. spent[k] * Minute + T <= Allowance(rpm, evictions[k], ticks)
    BY <1>1, <2>2 DEF AllowanceKept, Within
  <2>7. spent[k] * Minute + U <= Allowance(rpm, evictions[k], ticks + 1)
    BY <2>1, <2>3, <2>4, <2>5, <2>6
  <2>. QED  BY <2>2, <2>7 DEF Within
<1>. QED  BY <1>3, <1>4, <1>5 DEF GateInv, TypeInv

\* A clock that steps back refills nothing, and forward again no more than before.
LEMMA StepBackKeeps == GateInv /\ ClockStepsBack => GateInv'
<1>. SUFFICES ASSUME GateInv, ClockStepsBack PROVE GateInv'
  OBVIOUS
<1>1. TypeInv /\ WorldTypes /\ LimiterTypes /\ LoopTypes /\ BoundTypes /\ HistoryTypes
      /\ SpentRequested /\ StaleUnspent /\ AllowanceKept
  BY DEF GateInv, TypeInv
<1>2. /\ clock > 0 /\ clock' = clock - 1 /\ changes < MaxChanges /\ changes' = changes + 1
      /\ UNCHANGED <<revoked, rpm, limiter, preauth, byCustomer, loop, requests, anonymous,
                     spent, evictions, ticks>>
  BY DEF ClockStepsBack, dbVars, gateVars, historyVars
<1>3. WorldTypes' /\ BoundTypes'
  BY <1>1, <1>2, Constants DEF WorldTypes, BoundTypes
<1>4. LimiterTypes' /\ LoopTypes' /\ HistoryTypes' /\ SpentRequested' /\ StaleUnspent'
  BY <1>1, <1>2 DEF LimiterTypes, LoopTypes, HistoryTypes, SpentRequested, StaleUnspent
<1>5. AllowanceKept'
  <2>. SUFFICES ASSUME NEW k \in Keys
                PROVE  Within(spent[k], Current, k, rpm, clock - 1, evictions[k], ticks)
    BY <1>2 DEF AllowanceKept, Current
  <2>. DEFINE earlier == clock - 1
  <2>1. /\ spent[k] * Minute \in Nat /\ evictions[k] \in Nat /\ ticks \in Nat
        /\ IsLimiter(Current, Names(rpm), rpm) /\ rpm \in Nat /\ k \in Names(rpm)
        /\ clock \in Nat /\ earlier \in Nat /\ clock = earlier + 1
    BY <1>1, <1>2, CurrentLimiter, Constants, Products DEF HistoryTypes
  <2>. HIDE DEF earlier
  <2>2. PICK T, U : /\ T = BucketOf(Current, k, rpm, clock).tokens
                    /\ U = BucketOf(Current, k, rpm, earlier).tokens
    OBVIOUS
  <2>3. U <= T
    BY <2>1, <2>2, BucketTick
  <2>4. Allowance(rpm, evictions[k], ticks) \in Nat /\ Full(rpm) \in Nat
    BY <2>1, AllowanceGrows
  <2>5. T \in 0 .. Full(rpm) /\ U \in 0 .. Full(rpm)
    BY <2>1, <2>2, BucketTokens
  <2>6. spent[k] * Minute + T <= Allowance(rpm, evictions[k], ticks)
    BY <1>1, <2>2 DEF AllowanceKept, Within
  <2>7. spent[k] * Minute + U <= Allowance(rpm, evictions[k], ticks)
    BY <2>1, <2>3, <2>4, <2>5, <2>6
  <2>. QED  BY <2>2, <2>7 DEF Within, earlier
<1>. QED  BY <1>3, <1>4, <1>5 DEF GateInv, TypeInv

-----------------------------------------------------------------------------
LEMMA GateInductive == GateInv /\ [Next]_vars => GateInv'
<1>. SUFFICES ASSUME GateInv, [Next]_vars PROVE GateInv'
  OBVIOUS
<1>1. CASE EventLoop
  BY <1>1, AnonymousKeeps, ResolveKeeps, ReadPlanKeeps, AdmitKeeps DEF EventLoop
<1>2. CASE Environment
  BY <1>2, RevokeKeeps, UpsertKeeps, TickKeeps, StepBackKeeps DEF Environment
<1>3. CASE UNCHANGED vars
  <2>1. UNCHANGED <<clock, revoked, rpm, limiter, preauth, byCustomer, loop, requests,
                    anonymous, changes, spent, evictions, ticks>>
    BY <1>3 DEF vars, dbVars, gateVars, boundVars, historyVars
  <2>2. TypeInv' /\ SpentRequested' /\ StaleUnspent'
    BY <2>1 DEF GateInv, TypeInv, WorldTypes, LimiterTypes, LoopTypes, BoundTypes,
                HistoryTypes, SpentRequested, StaleUnspent
  <2>3. AllowanceKept'
    BY <2>1, SameAllowance DEF GateInv
  <2>. QED  BY <2>2, <2>3 DEF GateInv
<1>. QED  BY <1>1, <1>2, <1>3 DEF Next

LEMMA TypesFromGate == GateInv => TypeOK
<1>. SUFFICES ASSUME GateInv PROVE TypeOK
  OBVIOUS
<1>1. TypeInv /\ SpentRequested
  BY DEF GateInv
<1>2. spent \in [Keys -> 0 .. MaxRequests]
  <2>. SUFFICES ASSUME NEW k \in Keys PROVE spent[k] \in 0 .. MaxRequests
    BY <1>1 DEF TypeInv, HistoryTypes
  <2>1. /\ spent[k] + (IF loop.key = k THEN 1 ELSE 0) <= requests
        /\ spent[k] \in Nat /\ requests \in 0 .. MaxRequests
    BY <1>1 DEF TypeInv, HistoryTypes, BoundTypes, SpentRequested
  <2>. QED  BY <2>1, Constants
<1>. QED  BY <1>1, <1>2 DEF TypeOK, TypeInv, WorldTypes, LimiterTypes, LoopTypes, BoundTypes,
                            HistoryTypes

LEMMA BoundFromGate == GateInv => RateBound
<1>. SUFFICES ASSUME GateInv, NEW k \in Keys
              PROVE  spent[k] * Minute <= rpm * (Minute * (1 + evictions[k]) + ticks)
  BY DEF RateBound
<1>1. TypeInv /\ HistoryTypes /\ AllowanceKept
  BY DEF GateInv, TypeInv
<1>2. /\ IsLimiter(Current, Names(rpm), rpm) /\ rpm \in Nat /\ k \in Names(rpm) /\ clock \in Nat
      /\ evictions[k] \in Nat /\ ticks \in Nat /\ spent[k] * Minute \in Nat
  BY <1>1, CurrentLimiter, Constants, Products DEF HistoryTypes
<1>3. PICK T : T = BucketOf(Current, k, rpm, clock).tokens
  OBVIOUS
<1>4. T \in 0 .. Full(rpm)
  BY <1>2, <1>3, BucketTokens
<1>5. Allowance(rpm, evictions[k], ticks) \in Nat /\ Full(rpm) \in Nat
  BY <1>2, AllowanceGrows
<1>6. spent[k] * Minute + T <= Allowance(rpm, evictions[k], ticks)
  BY <1>1, <1>3 DEF AllowanceKept, Within
<1>7. spent[k] * Minute <= Allowance(rpm, evictions[k], ticks)
  BY <1>2, <1>4, <1>5, <1>6
<1>. QED  BY <1>7 DEF Allowance

\* The variables keep their types: no limiter ever holds more than its buckets, two of
\* one key or one above its capacity (ratelimit.py).
THEOREM TypeCorrect == Spec => []TypeOK
<1>1. Spec => []GateInv
  BY InitGate, GateInductive, PTL DEF Spec
<1>. QED  BY <1>1, TypesFromGate, PTL

\* Under one plan a key is admitted no more than the plan's rpm at once and its rate
\* from then on, once more the burst per eviction of its bucket, whatever the plans,
\* the other callers and the clock do (middleware.py).
THEOREM RateBoundHolds == Spec => []RateBound
<1>1. Spec => []GateInv
  BY InitGate, GateInductive, PTL DEF Spec
<1>. QED  BY <1>1, BoundFromGate, PTL
=============================================================================
