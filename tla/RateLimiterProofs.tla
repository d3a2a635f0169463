------------------------- MODULE RateLimiterProofs -------------------------
(* The caps of RateLimiter for every configuration, number of handlers and *)
(* duration.                                                               *)
EXTENDS RateLimiter, TLAPS

(* Multiplication, as far as the proofs need it. *)
LEMMA ProductNat ==
  ASSUME NEW r \in Nat, NEW d \in Nat
  PROVE  r * d \in Nat
  OBVIOUS

LEMMA ProductSplits ==
  ASSUME NEW r \in Nat, NEW a \in Int, NEW b \in Int, NEW c \in Int
  PROVE  r * (c - b) + r * (b - a) = r * (c - a)
  OBVIOUS

LEMMA ProductNext ==
  ASSUME NEW r \in Nat, NEW k \in Nat
  PROVE  r * (k + 1) = r * k + r
  OBVIOUS

LEMMA ProductMonotone ==
  ASSUME NEW r \in Nat, NEW a \in Int, NEW b \in Int, a <= b
  PROVE  r * a <= r * b
<1>1. r * (b - a) \in Nat
  BY ProductNat
<1>2. r * b = r * a + r * (b - a)
  OBVIOUS
<1>. QED BY <1>1, <1>2

(* Rounding up by one covers the remainder. *)
LEMMA CeilingCovers ==
  ASSUME NEW a \in Nat, NEW r \in Nat \ {0}
  PROVE  /\ a \div r + 1 \in Nat \ {0}
         /\ r * (a \div r + 1) >= a
<1>1. a \div r \in Nat
  OBVIOUS
<1>2. r * (a \div r + 1) >= a
  BY Z3
<1>. QED BY <1>1, <1>2

(* Every consumer has limits in every configuration. *)
LEMMA LimitsType ==
  ASSUME NEW c \in LimitConfigs, NEW x \in Consumers
  PROVE  LimitsFor(Normalised(c), x) \in Limits
  BY LimitConfigsAssumption DEF LimitsFor, Normalised, OrElse, Limits

(* What is in a bucket at a moment not before its last refill. *)
LEMMA AvailableBounds ==
  ASSUME NEW b \in BucketType, NEW t \in Nat, b.last <= t
  PROVE  /\ Available(b, t) \in Nat
         /\ Available(b, t) <= b.max
         /\ Available(b, t) <= b.tokens + b.rate * (t - b.last)
         /\ Available(b, t) = b.max \/ Available(b, t) = b.tokens + b.rate * (t - b.last)
<1>1. b.rate * (t - b.last) \in Nat
  BY ProductNat DEF BucketType
<1>. QED BY <1>1 DEF Available, Least, BucketType

-----------------------------------------------------------------------------
(* The earliest promise of a bucket whose burst admits anything. *)
PromiseOK(b) ==
  b.retryAt # NoTime /\ b.max >= Unit =>
    b.last < b.retryAt /\ b.tokens + b.rate * (b.retryAt - b.last) >= Unit

BucketOK(b, t) == b \in BucketType /\ b.tokens <= b.max /\ b.last <= t /\ PromiseOK(b)

(* A bucket of consumer x in limiter g is the one bucket the limiter makes *)
(* for x, with the limits of the limiter's configuration.                  *)
Belongs(i, g, x) ==
  LET l == LimitsFor(limiters[g].limits, x) IN
  /\ i \in 1..Len(heap)
  /\ heap[i].owner = <<g, x>>
  /\ heap[i].max = Unit * l.burst /\ heap[i].rate = l.rpm

TablesOK ==
  \A g \in 1..Len(limiters) : \A x \in Consumers :
    limiters[g].table[x] # NoBucket => Belongs(limiters[g].table[x], g, x)

HandlerOK(h) ==
  LET g == handler[h].limiter
      x == handler[h].consumer IN
  handler[h].pc # "idle" =>
    /\ g \in 1..Len(limiters) /\ x \in Consumers
    /\ handler[h].pc = "create" => handler[h].limits = LimitsFor(limiters[g].limits, x)
    /\ handler[h].pc = "take" =>
         handler[h].bucket # NoBucket /\ handler[h].bucket = limiters[g].table[x]

(* What the chosen consumer was admitted since the window opened and what  *)
(* its bucket holds are paid for by the burst and the refills since.       *)
Paid(w, b) ==
  IF w.start <= b.last
  THEN Unit * w.admitted + b.tokens <= b.max + b.rate * (b.last - w.start)
  ELSE w.admitted = 0

WindowOK ==
  /\ window.start <= now
  /\ \A g \in LimiterIds, x \in Consumers : window.key = <<g, x>> =>
       /\ g > Len(limiters) => window.admitted = 0
       /\ g <= Len(limiters) /\ limiters[g].table[x] = NoBucket => window.admitted = 0
       /\ g <= Len(limiters) /\ limiters[g].table[x] # NoBucket =>
            Paid(window, heap[limiters[g].table[x]])

RateInv ==
  /\ TypeOK
  /\ \A i \in 1..Len(heap) : BucketOK(heap[i], now)
  /\ TablesOK
  /\ \A h \in Handlers : HandlerOK(h)
  /\ WindowOK

(* Facts about the table entries of one limiter. *)
LEMMA LimiterFacts ==
  ASSUME TypeOK, NEW g \in 1..Len(limiters)
  PROVE  /\ limiters[g] \in LimiterType
         /\ \A x \in Consumers : /\ limiters[g].table[x] \in 0..MaxBuckets
                                 /\ LimitsFor(limiters[g].limits, x) \in Limits
<1>1. limiters[g] \in LimiterType
  BY DEF TypeOK
<1>2. PICK c \in LimitConfigs : limiters[g].limits = Normalised(c)
  BY <1>1 DEF LimiterType
<1>. QED BY <1>1, <1>2, LimitsType DEF LimiterType

LEMMA InitRateInv == Init => RateInv
<1>. SUFFICES ASSUME Init PROVE RateInv
  OBVIOUS
<1>1. PICK c \in LimitConfigs : limiters = <<NewLimiter(c)>>
  BY DEF Init
<1>2. NewLimiter(c) \in LimiterType
  BY BoundsAssumption DEF NewLimiter, LimiterType, NoBucket
<1>3. limiters \in Seq(LimiterType) /\ Len(limiters) = 1 /\ limiters[1] = NewLimiter(c)
  BY <1>1, <1>2
<1>4. heap = <<>> /\ heap \in Seq(BucketType) /\ Len(heap) = 0
  BY DEF Init
<1>5. Idle \in HandlerType
  BY BoundsAssumption DEF Idle, HandlerType, NoLimits, Limits, NoBucket
<1>6. TypeOK
  BY <1>3, <1>4, <1>5, BoundsAssumption DEF Init, TypeOK, LimiterIds
<1>7. TablesOK
  BY <1>3 DEF TablesOK, NewLimiter
<1>8. \A h \in Handlers : HandlerOK(h)
  BY DEF Init, HandlerOK, Idle
<1>9. window.admitted = 0 /\ window.start = 0 /\ now = 0 /\ window.key \in LimiterIds \X Consumers
  BY DEF Init
<1>10. \A g \in 1..Len(limiters) : \A x \in Consumers : limiters[g].table[x] = NoBucket
  <2>1. \A g \in 1..Len(limiters) : g = 1
    BY <1>3
  <2>2. NewLimiter(c).table = [x \in Consumers |-> NoBucket]
    BY DEF NewLimiter
  <2>3. \A x \in Consumers : limiters[1].table[x] = NoBucket
    BY <1>3, <2>2
  <2>. QED BY <2>1, <2>3
<1>11. WindowOK
  BY <1>3, <1>9, <1>10 DEF WindowOK, LimiterIds
<1>. QED BY <1>4, <1>6, <1>7, <1>8, <1>11 DEF RateInv

(* Steps that touch a handler alone. *)
LEMMA HandlerOnly ==
  ASSUME RateInv, NEW h \in Handlers, NEW y \in HandlerType,
         handler' = [handler EXCEPT ![h] = y],
         UNCHANGED <<now, limiters, heap, window>>,
         HandlerOK(h)'
  PROVE  RateInv'
<1>1. TypeOK'
  BY DEF RateInv, TypeOK
<1>2. \A q \in Handlers : HandlerOK(q)'
  BY DEF RateInv, TypeOK, HandlerOK
<1>3. \A i \in 1..Len(heap') : BucketOK(heap'[i], now')
  BY DEF RateInv
<1>4. TablesOK' /\ WindowOK'
  BY DEF RateInv, TablesOK, Belongs, WindowOK, Paid
<1>. QED BY <1>1, <1>2, <1>3, <1>4 DEF RateInv

(* The handler records the steps write. *)
LEMMA HandlerIdle ==
  Idle \in HandlerType /\ NoLimits \in Limits
<1>1. NoLimits \in Limits
  BY DEF NoLimits, Limits
<1>. QED BY <1>1, BoundsAssumption DEF Idle, HandlerType, NoBucket

LEMMA ArriveInv ==
  ASSUME RateInv, NEW h \in Handlers, NEW x \in Consumers, Arrive(h, x)
  PROVE  RateInv'
<1>. DEFINE y == [Idle EXCEPT !.pc = "lookup", !.limiter = Len(limiters), !.consumer = x]
<1>0. Len(limiters) \in 0..MaxLimiters /\ Len(limiters) \in 1..Len(limiters)
  BY BoundsAssumption DEF RateInv, TypeOK, LimiterIds
<1>1. y \in HandlerType
  BY <1>0, HandlerIdle DEF HandlerType
<1>2. handler' = [handler EXCEPT ![h] = y] /\ UNCHANGED <<now, limiters, heap, window>>
  BY DEF Arrive
<1>3. handler'[h] = y
  BY <1>2 DEF RateInv, TypeOK
<1>4. handler'[h].pc = "lookup" /\ handler'[h].limiter = Len(limiters) /\ handler'[h].consumer = x
  BY <1>3 DEF Idle
<1>5. HandlerOK(h)'
  BY <1>0, <1>2, <1>4 DEF HandlerOK
<1>. QED BY <1>1, <1>2, <1>5, HandlerOnly

LEMMA LookupInv ==
  ASSUME RateInv, NEW h \in Handlers, Lookup(h)
  PROVE  RateInv'
<1>. DEFINE g == handler[h].limiter
            x == handler[h].consumer
<1>1. g \in 1..Len(limiters) /\ x \in Consumers /\ handler[h] \in HandlerType
  BY DEF RateInv, HandlerOK, Lookup, TypeOK
<1>2. limiters[g].table[x] \in 0..MaxBuckets /\ LimitsFor(limiters[g].limits, x) \in Limits
  BY <1>1, LimiterFacts DEF RateInv
<1>3. CASE limiters[g].table[x] # NoBucket
  <2>. DEFINE y == [handler[h] EXCEPT !.pc = "take", !.bucket = limiters[g].table[x]]
  <2>1. y \in HandlerType
    <3>1. limiters[g].table[x] \in Nat
      BY <1>2, BoundsAssumption
    <3>. QED BY <1>1, <3>1 DEF HandlerType
  <2>2. handler' = [handler EXCEPT ![h] = y] /\ UNCHANGED <<now, limiters, heap, window>>
    BY <1>3 DEF Lookup, TableOf
  <2>3. handler'[h] = y
    BY <2>2 DEF RateInv, TypeOK
  <2>4. /\ handler'[h].pc = "take" /\ handler'[h].limiter = g /\ handler'[h].consumer = x
        /\ handler'[h].bucket = limiters[g].table[x]
    BY <1>1, <2>3 DEF HandlerType
  <2>5. HandlerOK(h)'
    BY <1>1, <1>3, <2>2, <2>4 DEF HandlerOK
  <2>. QED BY <2>1, <2>2, <2>5, HandlerOnly
<1>4. CASE limiters[g].table[x] = NoBucket
  <2>. DEFINE y == [handler[h] EXCEPT !.pc = "create", !.limits = LimitsFor(limiters[g].limits, x)]
  <2>1. y \in HandlerType
    BY <1>1, <1>2 DEF HandlerType
  <2>2. handler' = [handler EXCEPT ![h] = y] /\ UNCHANGED <<now, limiters, heap, window>>
    BY <1>4 DEF Lookup, TableOf
  <2>3. handler'[h] = y
    BY <2>2 DEF RateInv, TypeOK
  <2>4. /\ handler'[h].pc = "create" /\ handler'[h].limiter = g /\ handler'[h].consumer = x
        /\ handler'[h].limits = LimitsFor(limiters[g].limits, x)
    BY <1>1, <2>3 DEF HandlerType
  <2>5. HandlerOK(h)'
    BY <1>1, <2>2, <2>4 DEF HandlerOK, LimitsFor
  <2>. QED BY <2>1, <2>2, <2>5, HandlerOnly
<1>. QED BY <1>3, <1>4

LEMMA CreateFindsInv ==
  ASSUME RateInv, NEW h \in Handlers, CreateFinds(h)
  PROVE  RateInv'
<1>. DEFINE g == handler[h].limiter
            x == handler[h].consumer
            y == [handler[h] EXCEPT !.pc = "take", !.bucket = limiters[g].table[x], !.limits = NoLimits]
<1>1. g \in 1..Len(limiters) /\ x \in Consumers /\ handler[h] \in HandlerType
  BY DEF RateInv, HandlerOK, CreateFinds, TypeOK
<1>2. limiters[g].table[x] \in 0..MaxBuckets
  BY <1>1, LimiterFacts DEF RateInv
<1>3. y \in HandlerType
  <2>1. limiters[g].table[x] \in Nat
    BY <1>2, BoundsAssumption
  <2>. QED BY <1>1, <2>1, HandlerIdle DEF HandlerType
<1>4. handler' = [handler EXCEPT ![h] = y] /\ UNCHANGED <<now, limiters, heap, window>>
  BY DEF CreateFinds, TableOf
<1>5. handler'[h] = y
  BY <1>4 DEF RateInv, TypeOK
<1>6. /\ handler'[h].pc = "take" /\ handler'[h].limiter = g /\ handler'[h].consumer = x
      /\ handler'[h].bucket = limiters[g].table[x]
  BY <1>1, <1>5 DEF HandlerType
<1>7. HandlerOK(h)'
  BY <1>1, <1>4, <1>6 DEF HandlerOK, CreateFinds, TableOf
<1>. QED BY <1>3, <1>4, <1>7, HandlerOnly

LEMMA CreateMakesInv ==
  ASSUME RateInv, NEW h \in Handlers, CreateMakes(h)
  PROVE  RateInv'
<1>. DEFINE g == handler[h].limiter
            x == handler[h].consumer
            l == handler[h].limits
            b == Len(heap) + 1
            new == NewBucket(l, g, x)
            y == [handler[h] EXCEPT !.pc = "take", !.bucket = b, !.limits = NoLimits]
<1>1. /\ g \in 1..Len(limiters) /\ x \in Consumers /\ handler[h] \in HandlerType
      /\ l = LimitsFor(limiters[g].limits, x) /\ limiters[g].table[x] = NoBucket
  BY DEF RateInv, HandlerOK, CreateMakes, TypeOK, TableOf
<1>2. /\ heap \in Seq(BucketType) /\ Len(heap) \in Nat /\ Len(heap) < MaxBuckets
      /\ limiters \in Seq(LimiterType) /\ Len(limiters) \in LimiterIds /\ now \in Nat
  BY DEF RateInv, TypeOK, CreateMakes
<1>3. l \in Limits /\ <<g, x>> \in LimiterIds \X Consumers
  BY <1>1, <1>2, LimiterFacts, BoundsAssumption DEF RateInv, LimiterIds
<1>4. /\ new \in BucketType /\ new.tokens = new.max /\ new.last = now /\ new.retryAt = NoTime
      /\ new.owner = <<g, x>> /\ new.max = Unit * l.burst /\ new.rate = l.rpm
  BY <1>2, <1>3 DEF NewBucket, BucketType, Limits, Unit, NoTime
<1>5. /\ heap' = Append(heap, new) /\ heap' \in Seq(BucketType) /\ Len(heap') = b
      /\ heap'[b] = new /\ \A i \in 1..Len(heap) : heap'[i] = heap[i]
  BY <1>2, <1>4 DEF CreateMakes
<1>6. /\ limiters' = [limiters EXCEPT ![g].table[x] = b] /\ Len(limiters') = Len(limiters)
      /\ \A q \in 1..Len(limiters) : limiters'[q].limits = limiters[q].limits
      /\ \A q \in 1..Len(limiters) : \A z \in Consumers :
           limiters'[q].table[z] = IF q = g /\ z = x THEN b ELSE limiters[q].table[z]
  <2>1. \A q \in 1..Len(limiters) : limiters[q] \in LimiterType
    BY <1>2
  <2>. QED BY <1>1, <1>2, <2>1 DEF CreateMakes, LimiterType
<1>7. b \in 1..MaxBuckets /\ b \in Nat /\ b # NoBucket
  BY <1>2, BoundsAssumption DEF NoBucket
<1>8. limiters' \in Seq(LimiterType)
  <2>1. limiters[g] \in LimiterType
    BY <1>1, <1>2
  <2>2. [limiters[g] EXCEPT !.table[x] = b] \in LimiterType
    <3>. DEFINE t == [limiters[g].table EXCEPT ![x] = b]
    <3>1. limiters[g].table \in [Consumers -> 0..MaxBuckets] /\ b \in 0..MaxBuckets
      BY <1>7, <2>1, BoundsAssumption DEF LimiterType
    <3>2. t \in [Consumers -> 0..MaxBuckets]
      BY <3>1
    <3>3. [limiters[g] EXCEPT !.table = t] \in LimiterType
      BY <2>1, <3>2 DEF LimiterType
    <3>. QED BY <3>3
  <2>3. limiters' = [limiters EXCEPT ![g] = [limiters[g] EXCEPT !.table[x] = b]]
    BY <1>6
  <2>. QED BY <1>1, <1>2, <2>2, <2>3
<1>9. y \in HandlerType /\ handler' = [handler EXCEPT ![h] = y] /\ handler'[h] = y
  BY <1>1, <1>7, HandlerIdle DEF HandlerType, CreateMakes, RateInv, TypeOK
<1>10. TypeOK'
  BY <1>2, <1>5, <1>6, <1>8, <1>9 DEF RateInv, TypeOK, CreateMakes
<1>11. ASSUME NEW i \in 1..Len(heap') PROVE BucketOK(heap[i], now)'
  <2>1. CASE i = b
    BY <1>4, <1>5, <1>2, <2>1 DEF BucketOK, PromiseOK, CreateMakes, BucketType
  <2>2. CASE i # b
    <3>1. i \in 1..Len(heap) /\ heap'[i] = heap[i]
      BY <1>2, <1>5, <1>11, <2>2
    <3>. QED BY <3>1 DEF RateInv, BucketOK, PromiseOK, CreateMakes
  <2>. QED BY <2>1, <2>2
<1>12. ASSUME NEW q \in 1..Len(limiters'), NEW z \in Consumers, limiters'[q].table[z] # NoBucket
       PROVE  Belongs(limiters[q].table[z], q, z)'
  <2>1. q \in 1..Len(limiters) /\ limiters'[q].limits = limiters[q].limits
    BY <1>6, <1>12
  <2>2. CASE q = g /\ z = x
    <3>1. limiters'[q].table[z] = b /\ b \in 1..Len(heap')
      BY <1>2, <1>5, <1>6, <2>1, <2>2
    <3>2. /\ heap'[b].owner = <<q, z>> /\ heap'[b].max = Unit * l.burst
          /\ heap'[b].rate = l.rpm
      BY <1>4, <1>5, <2>2
    <3>3. l = LimitsFor(limiters'[q].limits, z)
      BY <1>1, <2>1, <2>2
    <3>. QED BY <3>1, <3>2, <3>3 DEF Belongs
  <2>3. CASE ~(q = g /\ z = x)
    <3>1. limiters'[q].table[z] = limiters[q].table[z]
      BY <1>6, <2>1, <2>3
    <3>2. Belongs(limiters[q].table[z], q, z)
      BY <1>12, <2>1, <3>1 DEF RateInv, TablesOK
    <3>. QED BY <1>2, <1>5, <2>1, <3>1, <3>2 DEF Belongs
  <2>. QED BY <2>2, <2>3
<1>13. ASSUME NEW q \in Handlers PROVE HandlerOK(q)'
  <2>1. CASE q = h
    <3>1. /\ handler'[q].pc = "take" /\ handler'[q].limiter = g /\ handler'[q].consumer = x
          /\ handler'[q].bucket = b
      BY <1>1, <1>9, <2>1 DEF HandlerType
    <3>. QED BY <1>1, <1>6, <1>7, <3>1 DEF HandlerOK
  <2>2. CASE q # h
    <3>1. handler'[q] = handler[q] /\ HandlerOK(q)
      BY <1>9, <2>2 DEF RateInv, TypeOK
    <3>. QED BY <1>1, <1>6, <3>1 DEF HandlerOK
  <2>. QED BY <2>1, <2>2
<1>14. ASSUME NEW q \in LimiterIds, NEW z \in Consumers, window'.key = <<q, z>>
       PROVE  /\ q > Len(limiters') => window'.admitted = 0
              /\ q <= Len(limiters') /\ limiters'[q].table[z] = NoBucket => window'.admitted = 0
              /\ q <= Len(limiters') /\ limiters'[q].table[z] # NoBucket =>
                   Paid(window', heap'[limiters'[q].table[z]])
  <2>1. window' = window /\ q \in Nat \ {0} /\ Len(limiters') = Len(limiters)
    BY <1>6 DEF CreateMakes, LimiterIds
  <2>2. /\ q > Len(limiters) => window.admitted = 0
        /\ q <= Len(limiters) /\ limiters[q].table[z] = NoBucket => window.admitted = 0
        /\ q <= Len(limiters) /\ limiters[q].table[z] # NoBucket =>
             Paid(window, heap[limiters[q].table[z]])
    BY <1>14, <2>1 DEF RateInv, WindowOK
  <2>3. CASE q = g /\ z = x
    <3>1. window.admitted = 0 /\ limiters'[q].table[z] = b /\ heap'[b] = new /\ q <= Len(limiters)
      BY <1>1, <1>2, <1>5, <1>6, <2>2, <2>3
    <3>2. new.rate * (now - window.start) \in Nat
      <4>1. new.rate \in Nat
        BY <1>4 DEF BucketType
      <4>2. now - window.start \in Nat
        BY <1>2 DEF RateInv, TypeOK, WindowOK
      <4>. QED BY <4>1, <4>2, ProductNat
    <3>3. new.tokens \in Nat
      BY <1>4 DEF BucketType
    <3>4. Paid(window, new)
      BY <1>4, <3>1, <3>2, <3>3 DEF Paid, Unit
    <3>. QED BY <1>7, <2>1, <3>1, <3>4
  <2>4. CASE ~(q = g /\ z = x)
    <3>1. CASE q <= Len(limiters)
      <4>1. limiters'[q].table[z] = limiters[q].table[z]
        BY <1>2, <1>6, <2>1, <2>4, <3>1
      <4>2. limiters[q].table[z] # NoBucket => limiters[q].table[z] \in 1..Len(heap)
        BY <1>2, <2>1, <3>1 DEF RateInv, TablesOK, Belongs
      <4>. QED BY <1>5, <2>1, <2>2, <3>1, <4>1, <4>2
    <3>2. CASE q > Len(limiters)
      BY <1>2, <2>1, <2>2, <3>2
    <3>. QED BY <1>2, <2>1, <3>1, <3>2
  <2>. QED BY <2>3, <2>4
<1>15. WindowOK'
  <2>1. window'.start <= now'
    BY DEF CreateMakes, RateInv, WindowOK
  <2>. QED BY <1>14, <2>1 DEF WindowOK
<1>. QED BY <1>10, <1>11, <1>12, <1>13, <1>15 DEF RateInv, TablesOK

-----------------------------------------------------------------------------
(* What a bucket promises keeps holding as it fills. *)
LEMMA PromiseKept ==
  ASSUME NEW b \in BucketType, NEW t \in Nat, b.last <= t, PromiseOK(b),
         b.retryAt # NoTime, b.max >= Unit, Available(b, t) < Unit
  PROVE  /\ t < b.retryAt
         /\ Available(b, t) + b.rate * (b.retryAt - t) >= Unit
<1>1. /\ b.rate \in Nat /\ b.last \in Nat /\ b.tokens \in Nat /\ b.max \in Nat
      /\ b.retryAt \in Nat
  BY DEF BucketType
<1>2. b.last < b.retryAt /\ b.tokens + b.rate * (b.retryAt - b.last) >= Unit
  BY DEF PromiseOK
<1>3. Available(b, t) = b.tokens + b.rate * (t - b.last)
  <2>1. Available(b, t) # b.max
    BY <1>1, AvailableBounds DEF Unit
  <2>. QED BY <2>1, AvailableBounds
<1>4. t < b.retryAt
  <2>1. SUFFICES ASSUME b.retryAt <= t PROVE FALSE
    BY <1>1
  <2>2. b.rate * (b.retryAt - b.last) <= b.rate * (t - b.last)
    BY <1>1, <2>1, ProductMonotone
  <2>. QED
    <3>. DEFINE p == b.rate * (b.retryAt - b.last)
                q == b.rate * (t - b.last)
    <3>1. p \in Int /\ q \in Int /\ p <= q /\ b.tokens + p >= Unit
      BY <1>1, <1>2, <2>2
    <3>2. b.tokens + q < Unit
      BY <1>3
    <3>. HIDE DEF p, q
    <3>. QED BY <1>1, <3>1, <3>2 DEF Unit
<1>5. b.rate * (b.retryAt - t) + b.rate * (t - b.last) = b.rate * (b.retryAt - b.last)
  BY <1>1, ProductSplits
<1>6. /\ b.rate * (b.retryAt - t) \in Int /\ b.rate * (t - b.last) \in Int
      /\ b.rate * (b.retryAt - b.last) \in Int
  BY <1>1
<1>7. Available(b, t) + b.rate * (b.retryAt - t) >= Unit
  BY <1>1, <1>2, <1>3, <1>5, <1>6 DEF Unit
<1>. QED BY <1>4, <1>7

(* What take leaves in a bucket. *)
LEMMA TakenFacts ==
  ASSUME now \in Nat, NEW b, BucketOK(b, now)
  PROVE  /\ BucketOK(Taken(b), now)
         /\ Taken(b).max = b.max /\ Taken(b).rate = b.rate /\ Taken(b).owner = b.owner
         /\ Taken(b).last = now
         /\ Available(b, now) >= Unit => Taken(b).tokens = Available(b, now) - Unit
         /\ Available(b, now) < Unit => Taken(b).tokens = Available(b, now)
<1>. DEFINE t == Available(b, now)
            T == Taken(b)
<1>1. b \in BucketType /\ b.last <= now /\ b.tokens <= b.max /\ PromiseOK(b)
  BY DEF BucketOK
<1>2. t \in Nat /\ t <= b.max
  BY <1>1, AvailableBounds
<1>3. CASE t >= Unit
  <2>1. T = [b EXCEPT !.tokens = t - Unit, !.last = now, !.retryAt = NoTime]
    BY <1>3 DEF Taken
  <2>2. t - Unit \in Nat /\ t - Unit <= b.max
    BY <1>1, <1>2, <1>3 DEF Unit, BucketType
  <2>3. /\ T.tokens = t - Unit /\ T.last = now /\ T.retryAt = NoTime
        /\ T.max = b.max /\ T.rate = b.rate /\ T.owner = b.owner
    BY <1>1, <2>1 DEF BucketType
  <2>4. T \in BucketType
    BY <1>1, <2>1, <2>2 DEF BucketType
  <2>5. PromiseOK(T)
    BY <2>3 DEF PromiseOK
  <2>6. BucketOK(T, now)
    BY <2>2, <2>3, <2>4, <2>5 DEF BucketOK
  <2>. QED BY <1>2, <1>3, <2>3, <2>6 DEF Unit
<1>4. CASE t < Unit
  <2>. DEFINE at == RetryTime(b, t)
  <2>1. T = [b EXCEPT !.tokens = t, !.last = now, !.retryAt = at]
    BY <1>2, <1>4 DEF Taken, Unit
  <2>2. at \in Nat \cup {NoTime}
    <3>1. CASE b.retryAt # NoTime \/ b.rate = 0
      BY <1>1, <3>1 DEF RetryTime, BucketType
    <3>2. CASE ~(b.retryAt # NoTime \/ b.rate = 0)
      <4>1. b.rate \in Nat \ {0} /\ Unit - t \in Nat
        BY <1>1, <1>2, <1>4, <3>2 DEF BucketType, Unit
      <4>2. (Unit - t) \div b.rate + 1 \in Nat
        BY <4>1, CeilingCovers
      <4>. QED BY <3>2, <4>2 DEF RetryTime, RetryAfter
    <3>. QED BY <3>1, <3>2
  <2>3. /\ T.tokens = t /\ T.last = now /\ T.retryAt = at
        /\ T.max = b.max /\ T.rate = b.rate /\ T.owner = b.owner
    BY <1>1, <2>1 DEF BucketType
  <2>4. T \in BucketType
    BY <1>1, <1>2, <2>1, <2>2 DEF BucketType
  <2>5. ASSUME at # NoTime, b.max >= Unit
        PROVE  now < at /\ t + b.rate * (at - now) >= Unit
    <3>1. CASE b.retryAt # NoTime
      <4>1. at = b.retryAt
        BY <3>1 DEF RetryTime
      <4>. QED BY <1>1, <1>4, <2>5, <3>1, <4>1, PromiseKept
    <3>2. CASE b.retryAt = NoTime
      <4>1. b.rate # 0 /\ at = now + ((Unit - t) \div b.rate + 1)
        BY <2>5, <3>2 DEF RetryTime, RetryAfter
      <4>2. b.rate \in Nat \ {0} /\ Unit - t \in Nat
        BY <1>1, <1>2, <1>4, <4>1 DEF BucketType, Unit
      <4>. DEFINE k == (Unit - t) \div b.rate + 1
      <4>3. k \in Nat \ {0} /\ b.rate * k >= Unit - t
        BY <4>2, CeilingCovers
      <4>. HIDE DEF k
      <4>4. at = now + k
        BY <4>1 DEF k
      <4>5. at - now = k
        BY <4>3, <4>4
      <4>6. b.rate * k \in Nat
        BY <4>2, <4>3, ProductNat
      <4>7. t + b.rate * k >= Unit
        BY <1>2, <4>3, <4>6 DEF Unit
      <4>. QED BY <4>3, <4>4, <4>5, <4>7
    <3>. QED BY <3>1, <3>2
  <2>6. PromiseOK(T)
    BY <2>3, <2>5 DEF PromiseOK
  <2>7. BucketOK(T, now)
    BY <1>2, <2>3, <2>4, <2>6 DEF BucketOK
  <2>. QED BY <1>2, <1>4, <2>3, <2>7 DEF Unit
<1>. QED BY <1>2, <1>3, <1>4 DEF Unit

(* What was admitted and what is available are paid for by the refills. *)
LEMMA PaidSoFar ==
  ASSUME NEW b \in BucketType, NEW t \in Nat, b.last <= t,
         NEW w, w.start \in Nat, w.admitted \in Nat, w.start <= t, Paid(w, b)
  PROVE  Unit * w.admitted + Available(b, t) <= b.max + b.rate * (t - w.start)
<1>1. /\ b.rate \in Nat /\ b.last \in Nat /\ b.tokens \in Nat /\ b.max \in Nat
  BY DEF BucketType
<1>2. /\ Available(b, t) \in Nat /\ Available(b, t) <= b.max
      /\ Available(b, t) <= b.tokens + b.rate * (t - b.last)
  BY AvailableBounds
<1>3. b.rate * (t - w.start) \in Nat
  <2>1. t - w.start \in Nat
    OBVIOUS
  <2>. QED BY <1>1, <2>1, ProductNat
<1>4. CASE w.start <= b.last
  <2>1. Unit * w.admitted + b.tokens <= b.max + b.rate * (b.last - w.start)
    BY <1>4 DEF Paid
  <2>2. b.rate * (t - b.last) + b.rate * (b.last - w.start) = b.rate * (t - w.start)
    BY <1>1, ProductSplits
  <2>3. b.rate * (t - b.last) \in Int /\ b.rate * (b.last - w.start) \in Int
    BY <1>1
  <2>. QED BY <1>1, <1>2, <1>3, <2>1, <2>2, <2>3 DEF Unit
<1>5. CASE ~(w.start <= b.last)
  <2>1. w.admitted = 0
    BY <1>5 DEF Paid
  <2>. QED BY <1>1, <1>2, <1>3, <2>1 DEF Unit
<1>. QED BY <1>4, <1>5

LEMMA TakeInv ==
  ASSUME RateInv, NEW h \in Handlers, Take(h)
  PROVE  RateInv'
<1>. DEFINE g == handler[h].limiter
            x == handler[h].consumer
            i == handler[h].bucket
            ok == Available(heap[i], now) >= Unit
<1>1. /\ g \in 1..Len(limiters) /\ x \in Consumers /\ i # NoBucket /\ i = limiters[g].table[x]
  BY DEF RateInv, HandlerOK, Take
<1>2. Belongs(i, g, x) /\ i \in 1..Len(heap)
  BY <1>1 DEF RateInv, TablesOK, Belongs
<1>3. /\ heap \in Seq(BucketType) /\ now \in Nat /\ limiters \in Seq(LimiterType)
      /\ BucketOK(heap[i], now) /\ heap[i] \in BucketType /\ heap[i].last <= now
  BY <1>2 DEF RateInv, TypeOK, BucketOK
<1>4. /\ BucketOK(Taken(heap[i]), now) /\ Taken(heap[i]).max = heap[i].max
      /\ Taken(heap[i]).rate = heap[i].rate /\ Taken(heap[i]).owner = heap[i].owner
      /\ Taken(heap[i]).last = now
  BY <1>3, TakenFacts
<1>5. /\ heap' \in Seq(BucketType) /\ Len(heap') = Len(heap) /\ heap'[i] = Taken(heap[i])
      /\ \A j \in 1..Len(heap) : j # i => heap'[j] = heap[j]
  <2>1. heap' = [heap EXCEPT ![i] = Taken(heap[i])] /\ Taken(heap[i]) \in BucketType
    BY <1>4 DEF Take, BucketOK
  <2>. QED BY <1>2, <1>3, <2>1
<1>6. UNCHANGED <<now, limiters>> /\ handler' = [handler EXCEPT ![h] = Idle]
  BY DEF Take
<1>7. window \in [key : LimiterIds \X Consumers, start : Nat, admitted : Nat]
  BY DEF RateInv, TypeOK
<1>8. /\ window' \in [key : LimiterIds \X Consumers, start : Nat, admitted : Nat]
      /\ window'.key = window.key /\ window'.start = window.start
      /\ window'.admitted = IF ok /\ window.key = <<g, x>> THEN window.admitted + 1
                            ELSE window.admitted
  <2>1. CASE ok /\ window.key = <<g, x>>
    <3>1. window' = [window EXCEPT !.admitted = window.admitted + 1]
      BY <2>1 DEF Take
    <3>2. window.admitted + 1 \in Nat
      BY <1>7
    <3>. QED BY <1>7, <2>1, <3>1, <3>2
  <2>2. CASE ~(ok /\ window.key = <<g, x>>)
    <3>1. window' = window
      BY <2>2 DEF Take
    <3>. QED BY <1>7, <2>2, <3>1
  <2>. QED BY <2>1, <2>2
<1>9. TypeOK'
  BY <1>3, <1>5, <1>6, <1>8, HandlerIdle DEF RateInv, TypeOK
<1>10. ASSUME NEW j \in 1..Len(heap') PROVE BucketOK(heap'[j], now')
  BY <1>4, <1>5, <1>6 DEF RateInv
<1>11. TablesOK'
  <2>1. ASSUME NEW j \in 1..Len(heap)
        PROVE  /\ heap'[j].owner = heap[j].owner /\ heap'[j].max = heap[j].max
               /\ heap'[j].rate = heap[j].rate
    BY <1>4, <1>5
  <2>2. ASSUME NEW q \in 1..Len(limiters), NEW z \in Consumers, limiters[q].table[z] # NoBucket
        PROVE  Belongs(limiters[q].table[z], q, z)'
    <3>1. Belongs(limiters[q].table[z], q, z)
      BY <2>2 DEF RateInv, TablesOK
    <3>. QED BY <1>5, <1>6, <2>1, <3>1 DEF Belongs
  <2>. QED BY <1>6, <2>2 DEF TablesOK
<1>12. ASSUME NEW q \in Handlers PROVE HandlerOK(q)'
  <2>1. CASE q = h
    <3>1. handler'[q].pc = "idle"
      BY <1>6, <2>1 DEF Idle, RateInv, TypeOK
    <3>. QED BY <3>1 DEF HandlerOK
  <2>2. CASE q # h
    <3>1. handler'[q] = handler[q] /\ HandlerOK(q)
      BY <1>6, <2>2 DEF RateInv, TypeOK
    <3>. QED BY <1>6, <3>1 DEF HandlerOK
  <2>. QED BY <2>1, <2>2
<1>13. ASSUME NEW q \in LimiterIds, NEW z \in Consumers, window'.key = <<q, z>>
       PROVE  /\ q > Len(limiters') => window'.admitted = 0
              /\ q <= Len(limiters') /\ limiters'[q].table[z] = NoBucket => window'.admitted = 0
              /\ q <= Len(limiters') /\ limiters'[q].table[z] # NoBucket =>
                   Paid(window', heap'[limiters'[q].table[z]])
  <2>1. /\ q > Len(limiters) => window.admitted = 0
        /\ q <= Len(limiters) /\ limiters[q].table[z] = NoBucket => window.admitted = 0
        /\ q <= Len(limiters) /\ limiters[q].table[z] # NoBucket =>
             Paid(window, heap[limiters[q].table[z]])
    BY <1>8, <1>13 DEF RateInv, WindowOK
  <2>2. q \in Nat /\ Len(limiters) \in Nat /\ g <= Len(limiters) /\ ~(g > Len(limiters))
    <3>1. q \in Nat
      BY BoundsAssumption DEF LimiterIds
    <3>2. Len(limiters) \in Nat
      BY <1>3
    <3>. QED BY <1>1, <3>1, <3>2
  <2>3. CASE q = g /\ z = x
    <3>1. window.key = <<g, x>> /\ Paid(window, heap[i])
      BY <1>1, <1>8, <1>13, <2>1, <2>2, <2>3
    <3>2. window.start \in Nat /\ window.admitted \in Nat /\ window.start <= now
      BY <1>7 DEF RateInv, WindowOK
    <3>3. Unit * window.admitted + Available(heap[i], now)
            <= heap[i].max + heap[i].rate * (now - window.start)
      BY <1>3, <3>1, <3>2, PaidSoFar
    <3>. DEFINE t == Available(heap[i], now)
                budget == heap[i].max + heap[i].rate * (now - window.start)
    <3>4. t \in Nat
      BY <1>3, AvailableBounds
    <3>5. budget \in Int
      <4>1. heap[i].max \in Nat /\ heap[i].rate \in Nat
        BY <1>3 DEF BucketType
      <4>. QED BY <1>3, <3>2, <4>1
    <3>6. /\ ok => window'.admitted = window.admitted + 1 /\ Taken(heap[i]).tokens = t - Unit
          /\ ~ok => window'.admitted = window.admitted /\ Taken(heap[i]).tokens = t
      BY <1>3, <1>8, <3>1, <3>4, TakenFacts DEF Unit
    <3>7. Unit * window'.admitted + Taken(heap[i]).tokens <= budget
      <4>1. Unit * window.admitted + t <= budget
        BY <3>3
      <4>. HIDE DEF t, budget
      <4>2. CASE ok
        BY <3>2, <3>4, <3>5, <3>6, <4>1, <4>2 DEF Unit
      <4>3. CASE ~ok
        BY <3>2, <3>4, <3>5, <3>6, <4>1, <4>3 DEF Unit
      <4>. QED BY <4>2, <4>3
    <3>8. Paid(window', Taken(heap[i]))
      BY <1>4, <1>8, <3>2, <3>7 DEF Paid
    <3>. QED BY <1>1, <1>5, <1>6, <2>2, <2>3, <3>8
  <2>4. CASE ~(q = g /\ z = x)
    <3>1. window'.admitted = window.admitted /\ window'.start = window.start
      BY <1>8, <1>13, <2>4
    <3>2. ASSUME q <= Len(limiters), limiters[q].table[z] # NoBucket
          PROVE  heap'[limiters[q].table[z]] = heap[limiters[q].table[z]]
      <4>1. Belongs(limiters[q].table[z], q, z)
        BY <2>2, <3>2 DEF RateInv, TablesOK, LimiterIds
      <4>2. limiters[q].table[z] # i
        BY <1>2, <2>4, <4>1 DEF Belongs
      <4>. QED BY <1>5, <4>1, <4>2 DEF Belongs
    <3>. QED BY <1>6, <2>1, <3>1, <3>2 DEF Paid
  <2>. QED BY <2>3, <2>4
<1>14. WindowOK'
  <2>1. window'.start <= now'
    BY <1>6, <1>8 DEF RateInv, WindowOK
  <2>. QED BY <1>13, <2>1 DEF WindowOK
<1>. QED BY <1>9, <1>10, <1>11, <1>12, <1>14 DEF RateInv

LEMMA ReloadInv ==
  ASSUME RateInv, NEW c \in LimitConfigs, Reload(c)
  PROVE  RateInv'
<1>. DEFINE n == Len(limiters)
            new == NewLimiter(c)
<1>1. limiters \in Seq(LimiterType) /\ n \in Nat \ {0} /\ n < MaxLimiters
  BY BoundsAssumption DEF RateInv, TypeOK, LimiterIds, Reload
<1>2. new \in LimiterType /\ \A z \in Consumers : new.table[z] = NoBucket
  BY BoundsAssumption DEF NewLimiter, LimiterType, NoBucket
<1>3. UNCHANGED <<now, heap, handler, window>> /\ limiters' = Append(limiters, new)
  BY DEF Reload
<1>4. /\ limiters' \in Seq(LimiterType) /\ Len(limiters') = n + 1 /\ limiters'[n + 1] = new
      /\ \A q \in 1..n : limiters'[q] = limiters[q]
  BY <1>1, <1>2, <1>3
<1>5. TypeOK'
  BY <1>1, <1>3, <1>4, BoundsAssumption DEF RateInv, TypeOK, LimiterIds
<1>6. TablesOK'
  <2>1. ASSUME NEW q \in 1..Len(limiters'), NEW z \in Consumers, limiters'[q].table[z] # NoBucket
        PROVE  Belongs(limiters[q].table[z], q, z)'
    <3>1. q \in 1..n /\ limiters'[q] = limiters[q]
      BY <1>1, <1>2, <1>4, <2>1
    <3>2. Belongs(limiters[q].table[z], q, z)
      BY <2>1, <3>1 DEF RateInv, TablesOK
    <3>. QED BY <1>3, <3>1, <3>2 DEF Belongs
  <2>. QED BY <2>1 DEF TablesOK
<1>7. ASSUME NEW q \in Handlers PROVE HandlerOK(q)'
  <2>1. HandlerOK(q)
    BY DEF RateInv
  <2>2. handler[q].limiter \in 1..n => handler[q].limiter \in 1..Len(limiters')
    BY <1>1, <1>4
  <2>. QED BY <1>3, <1>4, <2>1, <2>2 DEF HandlerOK
<1>8. WindowOK'
  <2>1. ASSUME NEW q \in LimiterIds, NEW z \in Consumers, window.key = <<q, z>>
        PROVE  /\ q > n + 1 => window.admitted = 0
               /\ q <= n + 1 /\ limiters'[q].table[z] = NoBucket => window.admitted = 0
               /\ q <= n + 1 /\ limiters'[q].table[z] # NoBucket =>
                    Paid(window, heap[limiters'[q].table[z]])
    <3>1. /\ q > n => window.admitted = 0
          /\ q <= n /\ limiters[q].table[z] = NoBucket => window.admitted = 0
          /\ q <= n /\ limiters[q].table[z] # NoBucket =>
               Paid(window, heap[limiters[q].table[z]])
      BY <2>1 DEF RateInv, WindowOK
    <3>2. q \in Nat \ {0}
      BY DEF LimiterIds
    <3>3. CASE q <= n
      BY <1>1, <1>4, <3>1, <3>2, <3>3
    <3>4. CASE q > n
      BY <1>1, <1>2, <1>4, <3>1, <3>2, <3>4
    <3>. QED BY <1>1, <3>2, <3>3, <3>4
  <2>. QED BY <1>3, <1>4, <2>1 DEF RateInv, WindowOK
<1>. QED BY <1>3, <1>5, <1>6, <1>7, <1>8 DEF RateInv

LEMMA TickInv ==
  ASSUME RateInv, Tick
  PROVE  RateInv'
<1>1. now \in Nat /\ now' = now + 1 /\ UNCHANGED <<limiters, heap, handler, window>>
  BY DEF RateInv, TypeOK, Tick
<1>2. TypeOK'
  BY <1>1 DEF RateInv, TypeOK
<1>3. ASSUME NEW i \in 1..Len(heap) PROVE BucketOK(heap[i], now + 1)
  <2>1. BucketOK(heap[i], now) /\ heap[i].last \in Nat
    BY DEF RateInv, BucketOK, BucketType
  <2>. QED BY <1>1, <2>1 DEF BucketOK
<1>4. TablesOK' /\ \A q \in Handlers : HandlerOK(q)'
  BY <1>1 DEF RateInv, TablesOK, Belongs, HandlerOK
<1>5. WindowOK'
  <2>1. window.start \in Nat /\ window.start <= now
    BY DEF RateInv, TypeOK, WindowOK
  <2>2. window'.start <= now'
    BY <1>1, <2>1
  <2>. QED BY <1>1, <2>2 DEF RateInv, WindowOK
<1>. QED BY <1>1, <1>2, <1>3, <1>4, <1>5 DEF RateInv

LEMMA OpenWindowInv ==
  ASSUME RateInv, OpenWindow
  PROVE  RateInv'
<1>1. /\ UNCHANGED <<now, limiters, heap, handler>> /\ now \in Nat
      /\ window \in [key : LimiterIds \X Consumers, start : Nat, admitted : Nat]
      /\ window' = [window EXCEPT !.start = now, !.admitted = 0]
  BY DEF RateInv, TypeOK, OpenWindow
<1>2. /\ window'.start = now /\ window'.admitted = 0 /\ window'.key = window.key
      /\ window' \in [key : LimiterIds \X Consumers, start : Nat, admitted : Nat]
  BY <1>1
<1>3. TypeOK'
  BY <1>1, <1>2 DEF RateInv, TypeOK
<1>4. ASSUME NEW i \in 1..Len(heap) PROVE Paid(window', heap[i])
  <2>1. BucketOK(heap[i], now)
    BY DEF RateInv
  <2>2. /\ heap[i].last \in Nat /\ heap[i].tokens \in Nat /\ heap[i].max \in Nat
        /\ heap[i].rate \in Nat /\ heap[i].last <= now /\ heap[i].tokens <= heap[i].max
    BY <2>1 DEF BucketOK, BucketType
  <2>3. now <= heap[i].last => heap[i].last - now = 0
    BY <1>1, <2>2
  <2>4. heap[i].rate * 0 = 0
    BY <2>2
  <2>5. CASE now <= heap[i].last
    <3>1. heap[i].rate * (heap[i].last - now) = 0
      BY <2>3, <2>4, <2>5
    <3>2. Unit * 0 + heap[i].tokens <= heap[i].max + 0
      BY <2>2 DEF Unit
    <3>. QED BY <1>2, <2>5, <3>1, <3>2 DEF Paid
  <2>6. CASE ~(now <= heap[i].last)
    BY <1>2, <2>6 DEF Paid
  <2>. QED BY <2>5, <2>6
<1>5. WindowOK'
  <2>1. ASSUME NEW q \in LimiterIds, NEW z \in Consumers, q <= Len(limiters),
               limiters[q].table[z] # NoBucket
        PROVE  Paid(window', heap[limiters[q].table[z]])
    <3>1. limiters[q].table[z] \in 1..Len(heap)
      BY <2>1 DEF RateInv, TablesOK, Belongs, LimiterIds, TypeOK
    <3>. QED BY <1>4, <3>1
  <2>2. window'.start <= now'
    BY <1>1, <1>2
  <2>. QED BY <1>1, <1>2, <2>1, <2>2 DEF WindowOK
<1>6. TablesOK' /\ \A q \in Handlers : HandlerOK(q)'
  BY <1>1 DEF RateInv, TablesOK, Belongs, HandlerOK
<1>. QED BY <1>1, <1>3, <1>5, <1>6 DEF RateInv

-----------------------------------------------------------------------------
LEMMA StepRateInv == RateInv /\ [Next]_vars => RateInv'
<1>. SUFFICES ASSUME RateInv, [Next]_vars PROVE RateInv'
  OBVIOUS
<1>1. ASSUME UNCHANGED vars PROVE RateInv'
  <2>1. UNCHANGED <<now, limiters, heap, handler, window>>
    BY <1>1 DEF vars
  <2>. QED BY <2>1 DEF RateInv, TypeOK, TablesOK, Belongs, HandlerOK, WindowOK
<1>. QED BY <1>1, ArriveInv, LookupInv, CreateFindsInv, CreateMakesInv, TakeInv, ReloadInv,
            TickInv, OpenWindowInv DEF Next

THEOREM RateInvariant == Spec => []RateInv
BY InitRateInv, StepRateInv, PTL DEF Spec

(* The variables keep their types, for every set of consumers, number of   *)
(* handlers, of configuration loads and of buckets.                        *)
THEOREM RateTypeCorrect == Spec => []TypeOK
<1>1. RateInv => TypeOK
  BY DEF RateInv
<1>. QED BY <1>1, RateInvariant, PTL

(* A limiter admits a consumer no more than its burst and its rate allow   *)
(* from any moment on, however getBucket and take of its handlers mix.     *)
THEOREM WindowBoundTheorem == Spec => []WindowBound
<1>1. RateInv => WindowBound
  <2>. SUFFICES ASSUME RateInv PROVE WindowBound
    OBVIOUS
  <2>. DEFINE g == window.key[1]
              x == window.key[2]
              l == LimitsFor(limiters[g].limits, x)
  <2>1. /\ g \in LimiterIds /\ x \in Consumers /\ window.key = <<g, x>>
        /\ window.start \in Nat /\ window.admitted \in Nat /\ now \in Nat
        /\ window.start <= now /\ Len(limiters) \in Nat
    BY DEF RateInv, TypeOK, WindowOK
  <2>2. SUFFICES ASSUME g <= Len(limiters)
                 PROVE  Unit * window.admitted <= Unit * l.burst + l.rpm * (now - window.start)
    BY DEF WindowBound
  <2>3. g \in 1..Len(limiters)
    BY <2>1, <2>2, BoundsAssumption DEF LimiterIds
  <2>4. l \in Limits
    BY <2>1, <2>3, LimiterFacts DEF RateInv
  <2>5. l.rpm * (now - window.start) \in Nat
    <3>1. l.rpm \in Nat /\ now - window.start \in Nat
      BY <2>1, <2>4 DEF Limits
    <3>. QED BY <3>1, ProductNat
  <2>6. CASE limiters[g].table[x] = NoBucket
    <3>1. window.admitted = 0
      BY <2>1, <2>2, <2>6 DEF RateInv, WindowOK
    <3>2. Unit * l.burst \in Nat
      BY <2>4 DEF Limits, Unit
    <3>. QED BY <2>5, <3>1, <3>2 DEF Unit
  <2>7. CASE limiters[g].table[x] # NoBucket
    <3>. DEFINE b == heap[limiters[g].table[x]]
    <3>1. Paid(window, b)
      BY <2>1, <2>2, <2>7 DEF RateInv, WindowOK
    <3>2. Belongs(limiters[g].table[x], g, x)
      BY <2>1, <2>3, <2>7 DEF RateInv, TablesOK
    <3>3. BucketOK(b, now) /\ b.max = Unit * l.burst /\ b.rate = l.rpm
      BY <3>2 DEF RateInv, Belongs
    <3>4. b \in BucketType /\ b.last <= now
      BY <3>3 DEF BucketOK
    <3>5. Unit * window.admitted + Available(b, now) <= b.max + b.rate * (now - window.start)
      BY <2>1, <3>1, <3>4, PaidSoFar
    <3>6. Available(b, now) \in Nat
      BY <2>1, <3>4, AvailableBounds
    <3>7. Unit * l.burst \in Nat /\ Unit * window.admitted \in Nat
      BY <2>1, <2>4 DEF Limits, Unit
    <3>. DEFINE p == l.rpm * (now - window.start)
                m == Unit * l.burst
                a == Unit * window.admitted
                v == Available(b, now)
    <3>8. a + v <= m + p /\ a \in Nat /\ v \in Nat /\ m \in Nat /\ p \in Nat
      BY <2>5, <3>3, <3>5, <3>6, <3>7
    <3>. HIDE DEF p, m, a, v
    <3>9. a <= m + p
      BY <3>8
    <3>. QED BY <3>9 DEF p, m, a
  <2>. QED BY <2>6, <2>7
<1>. QED BY <1>1, RateInvariant, PTL

(* A handler about to take holds the one bucket its limiter keeps for its  *)
(* consumer, so concurrent first requests do not double the burst.         *)
THEOREM OneBucketTheorem == Spec => []OneBucket
<1>1. RateInv => OneBucket
  <2>. SUFFICES ASSUME RateInv, NEW h \in Handlers, handler[h].pc = "take"
                PROVE  /\ handler[h].bucket # NoBucket
                       /\ handler[h].bucket = TableOf(h)[handler[h].consumer]
                       /\ heap[handler[h].bucket].owner =
                            <<handler[h].limiter, handler[h].consumer>>
    BY DEF OneBucket
  <2>1. /\ handler[h].limiter \in 1..Len(limiters) /\ handler[h].consumer \in Consumers
        /\ handler[h].bucket # NoBucket
        /\ handler[h].bucket = limiters[handler[h].limiter].table[handler[h].consumer]
    BY DEF RateInv, HandlerOK
  <2>2. Belongs(handler[h].bucket, handler[h].limiter, handler[h].consumer)
    BY <2>1 DEF RateInv, TablesOK
  <2>. QED BY <2>1, <2>2 DEF Belongs, TableOf
<1>. QED BY <1>1, RateInvariant, PTL

(* The wait a refusal asks for is long enough. *)
THEOREM RetryAfterTheorem == Spec => []RetryAfterHonest
<1>1. RateInv => RetryAfterHonest
  <2>. SUFFICES ASSUME RateInv, NEW i \in 1..Len(heap), heap[i].retryAt # NoTime,
                       heap[i].max >= Unit
                PROVE  heap[i].last < heap[i].retryAt
                       /\ Available(heap[i], heap[i].retryAt) >= Unit
    BY DEF RetryAfterHonest
  <2>. DEFINE b == heap[i]
  <2>1. b \in BucketType /\ PromiseOK(b)
    BY DEF RateInv, BucketOK
  <2>2. b.last < b.retryAt /\ b.tokens + b.rate * (b.retryAt - b.last) >= Unit
    BY <2>1 DEF PromiseOK
  <2>3. b.retryAt \in Nat /\ b.last \in Nat
    BY <2>1 DEF BucketType
  <2>4. b.last <= b.retryAt
    BY <2>2, <2>3
  <2>5. \/ Available(b, b.retryAt) = b.max
        \/ Available(b, b.retryAt) = b.tokens + b.rate * (b.retryAt - b.last)
    BY <2>1, <2>3, <2>4, AvailableBounds
  <2>. QED BY <2>2, <2>5
<1>. QED BY <1>1, RateInvariant, PTL

LEMMA BucketsFill ==
  ASSUME NEW t \in Nat, NEW b, BucketOK(b, t), NEW u \in Nat, t <= u
  PROVE  b.tokens <= Available(b, u)
<1>1. /\ b \in BucketType /\ b.tokens \in Nat /\ b.max \in Nat /\ b.rate \in Nat
      /\ b.tokens <= b.max /\ u - b.last \in Nat /\ b.last <= u
  BY DEF BucketOK, BucketType
<1>2. b.rate * (u - b.last) \in Nat
  BY <1>1, ProductNat
<1>3. \/ Available(b, u) = b.max
      \/ Available(b, u) = b.tokens + b.rate * (u - b.last)
  BY <1>1, AvailableBounds
<1>. QED BY <1>1, <1>2, <1>3

(* No step turns a bucket back, refills it beyond its burst or changes the *)
(* limits it was made with.                                                *)
THEOREM BucketsTheorem == Spec => BucketsMonotone
<1>. DEFINE Grows(b, c, t) == /\ c.max = b.max /\ c.rate = b.rate /\ c.last >= b.last
                              /\ c.tokens <= Available(b, t)
            Step == \A i \in 1..Len(heap) : Grows(heap[i], heap'[i], now')
<1>1. ASSUME RateInv, Next PROVE Step
  <2>. SUFFICES ASSUME NEW i \in 1..Len(heap) PROVE Grows(heap[i], heap'[i], now')
    OBVIOUS
  <2>1. /\ BucketOK(heap[i], now) /\ now \in Nat /\ heap \in Seq(BucketType)
        /\ heap[i].last \in Nat /\ heap[i].last <= now /\ heap[i] \in BucketType
    BY <1>1 DEF RateInv, TypeOK, BucketOK, BucketType
  <2>2. ASSUME heap'[i] = heap[i], now' \in Nat, now <= now'
        PROVE  Grows(heap[i], heap'[i], now')
    BY <2>1, <2>2, BucketsFill
  <2>3. ASSUME NEW h \in Handlers, Take(h) PROVE Grows(heap[i], heap'[i], now')
    <3>1. heap' = [heap EXCEPT ![handler[h].bucket] = Taken(heap[handler[h].bucket])]
          /\ now' = now
      BY <2>3 DEF Take
    <3>2. CASE i = handler[h].bucket
      <4>1. heap'[i] = Taken(heap[i])
        BY <2>1, <3>1, <3>2
      <4>2. Available(heap[i], now) \in Nat
        BY <2>1, AvailableBounds
      <4>3. /\ Taken(heap[i]).max = heap[i].max /\ Taken(heap[i]).rate = heap[i].rate
            /\ Taken(heap[i]).last = now /\ Taken(heap[i]).tokens <= Available(heap[i], now)
        BY <2>1, <4>2, TakenFacts DEF Unit
      <4>. QED BY <2>1, <3>1, <4>1, <4>3
    <3>3. CASE i # handler[h].bucket
      BY <2>1, <2>2, <3>1, <3>3
    <3>. QED BY <3>2, <3>3
  <2>4. ASSUME NEW h \in Handlers, CreateMakes(h) PROVE Grows(heap[i], heap'[i], now')
    <3>1. heap' = Append(heap, NewBucket(handler[h].limits, handler[h].limiter,
                                         handler[h].consumer)) /\ now' = now
      BY <2>4 DEF CreateMakes
    <3>2. heap'[i] = heap[i]
      BY <2>1, <3>1
    <3>. QED BY <2>1, <2>2, <3>1, <3>2
  <2>5. ASSUME Tick PROVE Grows(heap[i], heap'[i], now')
    BY <2>1, <2>2, <2>5 DEF Tick
  <2>6. ASSUME UNCHANGED <<now, heap>> PROVE Grows(heap[i], heap'[i], now')
    BY <2>1, <2>2, <2>6
  <2>7. \/ \E h \in Handlers : Take(h)
        \/ \E h \in Handlers : CreateMakes(h)
        \/ Tick
        \/ UNCHANGED <<now, heap>>
    BY <1>1 DEF Next, Arrive, Lookup, CreateFinds, Reload, OpenWindow
  <2>. QED BY <2>3, <2>4, <2>5, <2>6, <2>7
<1>2. RateInv /\ [Next]_vars =>
        [\A i \in 1..Len(heap) :
           /\ heap'[i].max = heap[i].max /\ heap'[i].rate = heap[i].rate
           /\ heap'[i].last >= heap[i].last
           /\ heap'[i].tokens <= Available(heap[i], now')]_vars
  BY <1>1
<1>. QED BY <1>2, RateInvariant, PTL DEF Spec, BucketsMonotone

-----------------------------------------------------------------------------
(* The limiter implements RatePromise. *)
Serves == [h \in Handlers |-> Served(handler[h])]

(* A bucket refilled late holds what one refilled every second would. *)
LEMMA RefilledAlike ==
  ASSUME NEW b \in BucketType, NEW t \in Nat, b.last <= t
  PROVE  Available(b, t + 1) = Promise!Least(b.max, Available(b, t) + b.rate)
<1>. DEFINE d == b.rate * (t - b.last)
            e == b.rate * ((t + 1) - b.last)
<1>1. /\ b.max \in Nat /\ b.tokens \in Nat /\ b.rate \in Nat /\ b.last \in Nat
      /\ t - b.last \in Nat
  BY DEF BucketType
<1>2. d \in Nat
  BY <1>1, ProductNat
<1>3. e = d + b.rate
  <2>1. (t + 1) - b.last = (t - b.last) + 1
    BY <1>1
  <2>. QED BY <1>1, <2>1, ProductNext
<1>4. /\ Available(b, t) = Least(b.max, b.tokens + d)
      /\ Available(b, t + 1) = Least(b.max, b.tokens + e)
  BY DEF Available
<1>. HIDE DEF d, e
<1>. QED BY <1>1, <1>2, <1>3, <1>4 DEF Least, Promise!Least

(* A bucket at the moment of its last refill. *)
LEMMA AvailableAtOnce ==
  ASSUME NEW b \in BucketType, b.tokens <= b.max
  PROVE  Available(b, b.last) = b.tokens
<1>1. b.max \in Nat /\ b.tokens \in Nat /\ b.rate \in Nat /\ b.last \in Nat
  BY DEF BucketType
<1>2. b.rate * (b.last - b.last) = 0
  BY <1>1
<1>. QED BY <1>1, <1>2 DEF Available, Least

LEMMA LevelFacts ==
  ASSUME RateInv, NEW g \in 1..Len(limiters), NEW x \in Consumers
  PROVE  /\ Level(g, x) \in [level : Nat, burst : Nat, rate : Nat]
         /\ Level(g, x).level <= Level(g, x).burst
         /\ limiters[g].table[x] # NoBucket =>
              /\ limiters[g].table[x] \in 1..Len(heap)
              /\ heap[limiters[g].table[x]] \in BucketType
              /\ BucketOK(heap[limiters[g].table[x]], now)
              /\ heap[limiters[g].table[x]].owner = <<g, x>>
              /\ Level(g, x) = [level |-> Available(heap[limiters[g].table[x]], now),
                                burst |-> heap[limiters[g].table[x]].max,
                                rate |-> heap[limiters[g].table[x]].rate]
<1>. DEFINE l == LimitsFor(limiters[g].limits, x)
            i == limiters[g].table[x]
<1>1. l \in Limits /\ Unit * l.burst \in Nat /\ l.rpm \in Nat /\ now \in Nat
  BY LimiterFacts DEF RateInv, Limits, Unit, TypeOK
<1>2. CASE i = NoBucket
  <2>1. Level(g, x) = [level |-> Unit * l.burst, burst |-> Unit * l.burst, rate |-> l.rpm]
    BY <1>2 DEF Level
  <2>. QED BY <1>1, <1>2, <2>1
<1>3. CASE i # NoBucket
  <2>1. Belongs(i, g, x)
    BY <1>3 DEF RateInv, TablesOK
  <2>2. i \in 1..Len(heap) /\ BucketOK(heap[i], now) /\ heap[i] \in BucketType
    BY <2>1 DEF Belongs, RateInv, BucketOK
  <2>3. Available(heap[i], now) \in Nat /\ Available(heap[i], now) <= heap[i].max
    BY <1>1, <2>2, AvailableBounds DEF BucketOK
  <2>4. /\ heap[i].owner = <<g, x>> /\ heap[i].max = Unit * l.burst /\ heap[i].rate = l.rpm
    BY <2>1 DEF Belongs
  <2>5. Level(g, x) = [level |-> Available(heap[i], now), burst |-> heap[i].max, rate |-> heap[i].rate]
    BY <1>3, <2>4 DEF Level
  <2>. QED BY <1>1, <2>2, <2>3, <2>4, <2>5
<1>. QED BY <1>2, <1>3

(* Steps the promise does not see. *)
LEMMA LevelsKept ==
  ASSUME Len(limiters') = Len(limiters),
         \A g \in 1..Len(limiters), x \in Consumers : Level(g, x)' = Level(g, x)
  PROVE  Levels' = Levels
  BY DEF Levels

LEMMA LookupUnseen ==
  ASSUME RateInv, NEW h \in Handlers, Lookup(h) \/ CreateFinds(h)
  PROVE  UNCHANGED <<Levels, Serves>>
<1>1. UNCHANGED <<now, limiters, heap>>
  BY DEF Lookup, CreateFinds
<1>2. Levels' = Levels
  BY <1>1 DEF Levels, Level
<1>3. \A q \in Handlers : Served(handler'[q]) = Served(handler[q])
  <2>1. handler[h] \in HandlerType /\ handler \in [Handlers -> HandlerType]
    BY DEF RateInv, TypeOK
  <2>2. CASE Lookup(h)
    BY <2>1, <2>2 DEF Lookup, HandlerType, Served
  <2>3. CASE CreateFinds(h)
    BY <2>1, <2>3 DEF CreateFinds, HandlerType, Served
  <2>. QED BY <2>2, <2>3
<1>. QED BY <1>2, <1>3 DEF Serves

LEMMA CreateUnseen ==
  ASSUME RateInv, NEW h \in Handlers, CreateMakes(h)
  PROVE  UNCHANGED <<Levels, Serves>>
<1>. DEFINE g == handler[h].limiter
            x == handler[h].consumer
            l == handler[h].limits
            b == Len(heap) + 1
            new == NewBucket(l, g, x)
<1>1. /\ g \in 1..Len(limiters) /\ x \in Consumers
      /\ l = LimitsFor(limiters[g].limits, x) /\ limiters[g].table[x] = NoBucket
  BY DEF RateInv, HandlerOK, CreateMakes, TableOf
<1>2. /\ heap \in Seq(BucketType) /\ Len(heap) \in Nat /\ now \in Nat
      /\ limiters \in Seq(LimiterType) /\ Len(limiters) \in LimiterIds
  BY DEF RateInv, TypeOK
<1>3. l \in Limits /\ <<g, x>> \in LimiterIds \X Consumers
  BY <1>1, <1>2, LimiterFacts, BoundsAssumption DEF RateInv, LimiterIds
<1>4. /\ new \in BucketType /\ new.tokens = new.max /\ new.last = now
      /\ new.max = Unit * l.burst /\ new.rate = l.rpm
  BY <1>2, <1>3 DEF NewBucket, BucketType, Limits, Unit, NoTime
<1>5. heap'[b] = new /\ now' = now /\ \A i \in 1..Len(heap) : heap'[i] = heap[i]
  BY <1>2, <1>4 DEF CreateMakes
<1>6. /\ Len(limiters') = Len(limiters)
      /\ \A q \in 1..Len(limiters) : limiters'[q].limits = limiters[q].limits
      /\ \A q \in 1..Len(limiters) : \A z \in Consumers :
           limiters'[q].table[z] = IF q = g /\ z = x THEN b ELSE limiters[q].table[z]
  <2>1. \A q \in 1..Len(limiters) : limiters[q] \in LimiterType
    BY <1>2
  <2>. QED BY <1>1, <1>2, <2>1 DEF CreateMakes, LimiterType
<1>7. Available(new, now) = new.max
  BY <1>4, AvailableAtOnce DEF BucketType
<1>8. ASSUME NEW q \in 1..Len(limiters), NEW z \in Consumers PROVE Level(q, z)' = Level(q, z)
  <2>1. CASE q = g /\ z = x
    <3>1. b # NoBucket
      BY <1>2 DEF NoBucket
    <3>2. Level(q, z)' = [level |-> new.max, burst |-> Unit * l.burst, rate |-> l.rpm]
      BY <1>1, <1>5, <1>6, <1>7, <2>1, <3>1 DEF Level
    <3>3. Level(q, z) = [level |-> Unit * l.burst, burst |-> Unit * l.burst, rate |-> l.rpm]
      BY <1>1, <2>1 DEF Level
    <3>. QED BY <1>4, <3>2, <3>3
  <2>2. CASE ~(q = g /\ z = x)
    <3>1. limiters[q].table[z] # NoBucket => limiters[q].table[z] \in 1..Len(heap)
      BY LevelFacts
    <3>. QED BY <1>5, <1>6, <2>2, <3>1 DEF Level
  <2>. QED BY <2>1, <2>2
<1>9. \A q \in Handlers : Served(handler'[q]) = Served(handler[q])
  BY DEF CreateMakes, RateInv, TypeOK, HandlerType, Served
<1>. QED BY <1>6, <1>8, <1>9, LevelsKept DEF Serves

LEMMA TickRefills ==
  ASSUME RateInv, Tick
  PROVE  Promise!Second
<1>1. now' = now + 1 /\ now \in Nat /\ UNCHANGED <<limiters, heap, handler>>
  BY DEF RateInv, TypeOK, Tick
<1>2. ASSUME NEW g \in 1..Len(limiters), NEW x \in Consumers
      PROVE  Level(g, x)' = Promise!Refilled(Level(g, x))
  <2>. DEFINE i == limiters[g].table[x]
              l == LimitsFor(limiters[g].limits, x)
  <2>0. Level(g, x) \in [level : Nat, burst : Nat, rate : Nat] /\ Level(g, x).level <= Level(g, x).burst
    BY LevelFacts
  <2>1. CASE i = NoBucket
    <3>1. /\ Level(g, x)' = Level(g, x) /\ Level(g, x).level = Level(g, x).burst
      BY <1>1, <2>1 DEF Level
    <3>. QED BY <2>0, <3>1 DEF Promise!Refilled, Promise!Least
  <2>2. CASE i # NoBucket
    <3>1. /\ heap[i] \in BucketType /\ heap[i].last <= now
          /\ Level(g, x) = [level |-> Available(heap[i], now), burst |-> heap[i].max, rate |-> heap[i].rate]
      BY <2>2, LevelFacts DEF BucketOK
    <3>2. Level(g, x)' = [level |-> Available(heap[i], now + 1), burst |-> Level(g, x).burst, rate |-> Level(g, x).rate]
      BY <1>1, <2>2 DEF Level
    <3>3. Available(heap[i], now + 1) = Promise!Least(heap[i].max, Available(heap[i], now) + heap[i].rate)
      BY <1>1, <3>1, RefilledAlike
    <3>. QED BY <3>1, <3>2, <3>3 DEF Promise!Refilled
  <2>. QED BY <2>1, <2>2
<1>3. Serves' = Serves
  BY <1>1 DEF Serves
<1>4. DOMAIN Levels = 1..Len(limiters) /\ \A g \in 1..Len(limiters), x \in Consumers : Levels[g][x] = Level(g, x)
  BY DEF Levels
<1>5. Levels' = [g \in 1..Len(limiters) |-> [x \in Consumers |-> Promise!Refilled(Level(g, x))]]
  BY <1>1, <1>2 DEF Levels
<1>. QED BY <1>3, <1>4, <1>5 DEF Promise!Second, Serves

(* What a handler's request is called, in the promise's terms. *)
LEMMA ServesOf ==
  ASSUME NEW h \in Handlers, NEW y, handler \in [Handlers -> HandlerType], handler' = [handler EXCEPT ![h] = y]
  PROVE  Serves' = [Serves EXCEPT ![h] = Served(y)]
<1>1. \A q \in Handlers : handler'[q] = IF q = h THEN y ELSE handler[q]
  OBVIOUS
<1>. QED BY <1>1 DEF Serves

LEMMA ArriveAsks ==
  ASSUME RateInv, NEW h \in Handlers, NEW x \in Consumers, Arrive(h, x)
  PROVE  Promise!Ask(h)
<1>. DEFINE n == Len(limiters)
            y == [Idle EXCEPT !.pc = "lookup", !.limiter = n, !.consumer = x]
<1>1. /\ n \in 1..n /\ handler \in [Handlers -> HandlerType]
  BY BoundsAssumption DEF RateInv, TypeOK, LimiterIds
<1>2. handler' = [handler EXCEPT ![h] = y] /\ UNCHANGED <<now, limiters, heap>> /\ handler[h].pc = "idle"
  BY DEF Arrive
<1>3. Serves' = [Serves EXCEPT ![h] = <<n, x>>]
  <2>1. Served(y) = <<n, x>>
    BY DEF Served, Idle
  <2>. HIDE DEF y
  <2>. QED BY <1>1, <1>2, <2>1, ServesOf
<1>4. Serves[h] = NoConsumer
  BY <1>2 DEF Serves, Served
<1>5. UNCHANGED Levels
  BY <1>2 DEF Levels, Level
<1>6. DOMAIN Levels = 1..n
  BY DEF Levels
<1>7. \A f \in DOMAIN Levels : f <= n
  BY <1>1, <1>6
<1>. HIDE DEF n
<1>. QED BY <1>1, <1>3, <1>4, <1>5, <1>6, <1>7 DEF Promise!Ask, Serves

LEMMA NewIsFull ==
  ASSUME NEW c, NEW g, NEW x \in Consumers, limiters[g] = NewLimiter(c)
  PROVE  Level(g, x).level = Level(g, x).burst
<1>1. limiters[g].table[x] = NoBucket
  BY DEF NewLimiter
<1>. QED BY <1>1 DEF Level

LEMMA ReloadReplaces ==
  ASSUME RateInv, NEW c \in LimitConfigs, Reload(c)
  PROVE  Promise!Replace
<1>. DEFINE new == NewLimiter(c)
<1>1. PICK n \in Nat : n = Len(limiters) /\ n \in 1..n /\ limiters \in Seq(LimiterType)
  BY BoundsAssumption DEF RateInv, TypeOK, LimiterIds
<1>2. /\ limiters' = Append(limiters, new) /\ UNCHANGED <<now, heap, handler>>
  BY DEF Reload
<1>3. /\ Len(limiters') = n + 1 /\ limiters'[n + 1] = new
      /\ \A q \in 1..n : limiters'[q] = limiters[q]
  BY <1>1, <1>2
<1>4. DOMAIN Levels = 1..n /\ \A q \in 1..n : Levels[q] = [x \in Consumers |-> Level(q, x)]
  BY <1>1 DEF Levels
<1>5. DOMAIN Levels' = 1..(n+1) /\ \A q \in 1..(n+1) : Levels'[q] = [x \in Consumers |-> Level(q, x)']
  BY <1>3 DEF Levels
<1>6. ASSUME NEW q \in 1..n PROVE Levels'[q] = Levels[q]
  <2>1. q \in 1..(n+1) /\ limiters'[q] = limiters[q]
    BY <1>1, <1>3
  <2>2. \A x \in Consumers : Level(q, x)' = Level(q, x)
    BY <1>2, <2>1 DEF Level
  <2>. QED BY <1>4, <1>5, <2>1, <2>2
<1>7. ASSUME NEW x \in Consumers PROVE Promise!Full(Levels'[n+1][x])
  <2>1. Level(n + 1, x)'.level = Level(n + 1, x)'.burst
    <3>1. limiters'[n+1].table[x] = NoBucket
      BY <1>3 DEF NewLimiter
    <3>. QED BY <3>1 DEF Level
  <2>2. Levels'[n+1][x] = Level(n + 1, x)'
    BY <1>1, <1>5
  <2>. QED BY <2>1, <2>2 DEF Promise!Full
<1>8. DOMAIN Levels' = DOMAIN Levels \cup {n + 1}
  BY <1>1, <1>4, <1>5
<1>9. UNCHANGED Serves
  BY <1>2 DEF Serves
<1>10. n \in DOMAIN Levels /\ \A f \in DOMAIN Levels : f <= n
  BY <1>1, <1>4
<1>11. \A f \in DOMAIN Levels : Levels'[f] = Levels[f]
  BY <1>4, <1>6
<1>. QED BY <1>7, <1>8, <1>9, <1>10, <1>11 DEF Promise!Replace, Serves

LEMMA LoweredAt ==
  ASSUME NEW D, NEW S, NEW L, DOMAIN L = D, L = [q \in D |-> [z \in S |-> L[q][z]]],
         NEW g \in D, NEW x \in S, NEW M, M = [q \in D |-> [z \in S |-> M[q][z]]],
         M[g][x] = [L[g][x] EXCEPT !.level = L[g][x].level - Unit],
         \A q \in D, z \in S : ~(q = g /\ z = x) => M[q][z] = L[q][z]
  PROVE  M = [L EXCEPT ![g][x].level = @ - Unit]
<1>. DEFINE new == [L[g][x] EXCEPT !.level = L[g][x].level - Unit]
            row == [L[g] EXCEPT ![x] = new]
<1>1. M[g] = row
  <2>1. /\ M[g] = [z \in S |-> M[g][z]] /\ L[g] = [z \in S |-> L[g][z]]
        /\ \A z \in S : M[g][z] = IF z = x THEN new ELSE L[g][z]
    OBVIOUS
  <2>. HIDE DEF new
  <2>. QED BY <2>1
<1>2. \A q \in D : M[q] = IF q = g THEN row ELSE L[q]
  <2>1. ASSUME NEW q \in D, q # g PROVE M[q] = L[q]
    <3>1. \A z \in S : M[q][z] = L[q][z]
      BY <2>1
    <3>2. M[q] = [z \in S |-> M[q][z]] /\ L[q] = [z \in S |-> L[q][z]]
      OBVIOUS
    <3>. QED BY <3>1, <3>2
  <2>. HIDE DEF row
  <2>. QED BY <1>1, <2>1
<1>3. M = [L EXCEPT ![g] = row]
  <2>1. M = [q \in D |-> M[q]] /\ L = [q \in D |-> L[q]]
    OBVIOUS
  <2>. HIDE DEF row
  <2>. QED BY <1>2, <2>1
<1>. QED BY <1>3

LEMMA TakeServes ==
  ASSUME RateInv, NEW h \in Handlers, Take(h)
  PROVE  Promise!Admit(h) \/ Promise!Refuse(h)
<1>1. PICK g \in 1..Len(limiters), x \in Consumers, i \in 1..MaxBuckets :
        /\ handler[h].limiter = g /\ handler[h].consumer = x /\ handler[h].bucket = i
        /\ limiters[g].table[x] = i /\ i # NoBucket
  <2>1. /\ handler[h].limiter \in 1..Len(limiters) /\ handler[h].consumer \in Consumers
        /\ handler[h].bucket # NoBucket
        /\ handler[h].bucket = limiters[handler[h].limiter].table[handler[h].consumer]
    BY DEF RateInv, HandlerOK, Take
  <2>2. handler[h].bucket \in 0..MaxBuckets
    BY <2>1, LimiterFacts DEF RateInv
  <2>. QED BY <2>1, <2>2, BoundsAssumption DEF NoBucket
<1>. DEFINE b == heap[i]
            t == Available(b, now)
<1>0. now \in Nat
  BY DEF RateInv, TypeOK
<1>2. /\ i \in 1..Len(heap) /\ b \in BucketType /\ BucketOK(b, now) /\ b.owner = <<g, x>>
      /\ Level(g, x) = [level |-> t, burst |-> b.max, rate |-> b.rate]
  BY <1>1, LevelFacts
<1>3. /\ heap' = [heap EXCEPT ![i] = Taken(b)] /\ now' = now /\ limiters' = limiters
      /\ handler' = [handler EXCEPT ![h] = Idle] /\ heap \in Seq(BucketType)
      /\ handler \in [Handlers -> HandlerType]
  BY <1>1 DEF Take, RateInv, TypeOK
<1>4. heap'[i] = Taken(b) /\ \A j \in 1..Len(heap) : j # i => heap'[j] = heap[j]
  BY <1>2, <1>3
<1>5. t \in Nat
  BY <1>0, <1>2, AvailableBounds DEF BucketOK
<1>6. ASSUME NEW q \in 1..Len(limiters), NEW z \in Consumers, ~(q = g /\ z = x)
      PROVE  Level(q, z)' = Level(q, z)
  <2>1. CASE limiters[q].table[z] = NoBucket
    BY <1>3, <2>1 DEF Level
  <2>2. CASE limiters[q].table[z] # NoBucket
    <3>1. limiters[q].table[z] \in 1..Len(heap) /\ heap[limiters[q].table[z]].owner = <<q, z>>
      BY <2>2, LevelFacts
    <3>2. heap'[limiters[q].table[z]] = heap[limiters[q].table[z]]
      BY <1>2, <1>4, <1>6, <3>1
    <3>. QED BY <1>3, <3>2 DEF Level
  <2>. QED BY <2>1, <2>2
<1>7. Level(g, x)' = [level |-> IF t >= Unit THEN t - Unit ELSE t, burst |-> b.max, rate |-> b.rate]
  <2>1. /\ BucketOK(Taken(b), now) /\ Taken(b).last = now
        /\ Taken(b).max = b.max /\ Taken(b).rate = b.rate
        /\ Taken(b).tokens = IF t >= Unit THEN t - Unit ELSE t
    <3>1. /\ BucketOK(Taken(b), now) /\ Taken(b).last = now
          /\ Taken(b).max = b.max /\ Taken(b).rate = b.rate
          /\ t >= Unit => Taken(b).tokens = t - Unit
          /\ t < Unit => Taken(b).tokens = t
      BY <1>0, <1>2, TakenFacts
    <3>. HIDE DEF b, t
    <3>. QED BY <1>5, <3>1 DEF Unit
  <2>2. Available(Taken(b), now) = Taken(b).tokens
    BY <2>1, AvailableAtOnce DEF BucketOK
  <2>3. Level(g, x)' = [level |-> Available(heap'[i], now), burst |-> Level(g, x).burst, rate |-> Level(g, x).rate]
    <3>1. limiters'[g].table[x] = i /\ limiters'[g] = limiters[g]
      BY <1>1, <1>3
    <3>. QED BY <1>1, <1>3, <3>1 DEF Level
  <2>. QED BY <1>2, <1>4, <2>1, <2>2, <2>3
<1>8. /\ DOMAIN Levels = 1..Len(limiters)
      /\ \A q \in 1..Len(limiters), z \in Consumers : Levels[q][z] = Level(q, z)
  BY DEF Levels
<1>9. Serves[h] = <<g, x>> /\ Serves' = [Serves EXCEPT ![h] = NoConsumer]
  <2>1. Served(Idle) = NoConsumer /\ Served(handler[h]) = <<g, x>>
    BY <1>1 DEF Served, Idle, Take
  <2>. QED BY <1>3, <2>1, ServesOf DEF Serves
<1>. HIDE DEF b, t
<1>10. CASE t >= Unit
  <2>1. Level(g, x)' = [Level(g, x) EXCEPT !.level = @ - Unit]
    BY <1>2, <1>7, <1>10
  <2>2. Levels' = [Levels EXCEPT ![g][x].level = @ - Unit]
    <3>1. /\ Levels = [q \in 1..Len(limiters) |-> [z \in Consumers |-> Levels[q][z]]]
          /\ Levels' = [q \in 1..Len(limiters) |-> [z \in Consumers |-> Levels'[q][z]]]
          /\ \A q \in 1..Len(limiters), z \in Consumers : Levels'[q][z] = Level(q, z)'
      BY <1>3 DEF Levels
    <3>2. Levels'[g][x] = [Levels[g][x] EXCEPT !.level = Levels[g][x].level - Unit]
      BY <1>8, <2>1, <3>1
    <3>3. \A q \in 1..Len(limiters), z \in Consumers : ~(q = g /\ z = x) => Levels'[q][z] = Levels[q][z]
      BY <1>6, <1>8, <3>1
    <3>. QED BY <1>8, <3>1, <3>2, <3>3, LoweredAt
  <2>3. g \in DOMAIN Levels /\ Levels[g][x].level >= Unit
    BY <1>2, <1>8, <1>10
  <2>4. Serves[h] = <<g, x>> /\ Serves' = [Serves EXCEPT ![h] = NoConsumer]
    BY <1>9
  <2>. QED BY <2>2, <2>3, <2>4 DEF Promise!Admit, Serves
<1>11. CASE t < Unit
  <2>1. Level(g, x)' = Level(g, x)
    BY <1>2, <1>5, <1>7, <1>11 DEF Unit
  <2>2. UNCHANGED Levels
    <3>1. \A q \in 1..Len(limiters), z \in Consumers : Level(q, z)' = Level(q, z)
      BY <1>6, <2>1
    <3>. QED BY <1>3, <3>1, LevelsKept
  <2>. QED BY <1>1, <1>2, <1>8, <1>9, <1>11, <2>2 DEF Promise!Refuse, Serves
<1>. QED BY <1>5, <1>10, <1>11 DEF Unit

LEMMA InitKeepsPromise == Init => Promise!Init
<1>. SUFFICES ASSUME Init PROVE Promise!Init
  OBVIOUS
<1>1. PICK c \in LimitConfigs : limiters = <<NewLimiter(c)>>
  BY DEF Init
<1>2. Len(limiters) = 1 /\ limiters[1] = NewLimiter(c)
  BY <1>1
<1>3. DOMAIN Levels = {1} /\ Levels[1] = [x \in Consumers |-> Level(1, x)]
  BY <1>2 DEF Levels
<1>4. ASSUME NEW x \in Consumers PROVE Level(1, x).level = Level(1, x).burst
  BY <1>2, NewIsFull
<1>5. Serves = [h \in Handlers |-> NoConsumer]
  BY DEF Serves, Served, Init, Idle
<1>. QED BY <1>3, <1>4, <1>5 DEF Promise!Init, Promise!Full, Serves

LEMMA StepKeepsPromise == RateInv /\ [Next]_vars => [Promise!Next]_(Promise!promiseVars)
<1>. SUFFICES ASSUME RateInv, [Next]_vars PROVE Promise!Next \/ UNCHANGED <<Levels, Serves>>
  BY DEF Promise!promiseVars, Serves
<1>1. OpenWindow \/ UNCHANGED vars => UNCHANGED <<Levels, Serves>>
  BY DEF OpenWindow, vars, Levels, Level, Serves
<1>2. ASSUME NEW h \in Handlers PROVE Lookup(h) \/ CreateFinds(h) \/ CreateMakes(h) => UNCHANGED <<Levels, Serves>>
  BY LookupUnseen, CreateUnseen
<1>3. ASSUME NEW h \in Handlers, NEW x \in Consumers PROVE Arrive(h, x) => Promise!Next
  BY ArriveAsks DEF Promise!Next
<1>4. ASSUME NEW h \in Handlers PROVE Take(h) => Promise!Next
  BY TakeServes DEF Promise!Next
<1>5. ASSUME NEW c \in LimitConfigs PROVE Reload(c) => Promise!Next
  BY ReloadReplaces DEF Promise!Next
<1>6. Tick => Promise!Next
  BY TickRefills DEF Promise!Next
<1>. QED BY <1>1, <1>2, <1>3, <1>4, <1>5, <1>6 DEF Next

(* Buckets that are made late, refilled late and raced for admit and       *)
(* refuse as RatePromise says, for any limits, consumers, handlers and     *)
(* reloads.                                                                *)
THEOREM RateRefinement == Spec => KeepsPromise
  BY InitKeepsPromise, StepKeepsPromise, RateInvariant, PTL DEF Spec, KeepsPromise, Promise!Spec
=============================================================================
