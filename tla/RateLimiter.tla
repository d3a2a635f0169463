---------------------------- MODULE RateLimiter ----------------------------
(***************************************************************************)
(* Per-consumer token buckets (internal/gateway/ratelimit.go) under the    *)
(* request handlers that share them.                                       *)
(*                                                                         *)
(* Time is in seconds and tokens in sixtieths: a token is Unit = 60 parts  *)
(* and a bucket gains requestsPerMinute parts a second, which is the code's *)
(* float arithmetic without its rounding.  Buckets are objects: a handler  *)
(* holds a reference between getBucket and take, so `heap' is kept apart   *)
(* from the tables that lead to it.                                        *)
(***************************************************************************)
EXTENDS Integers, Sequences

CONSTANTS
  Consumers,     \* consumer identities, "__default__" among them
  LimitConfigs,  \* the [rate_limit] sections the gateway may be given
  Handlers,      \* the request handlers that run concurrently
  NoConsumer,    \* the identity of a handler that serves nobody
  MaxTime,       \* bound on the clock
  MaxLimiters,   \* bound on the limiters built, one per configuration load
  MaxBuckets     \* bound on the buckets created

Unit == 60
Limits == [rpm : Nat, burst : Nat]

ASSUME LimitConfigsAssumption ==
  \A c \in LimitConfigs :
    /\ c.default \in Limits
    /\ DOMAIN c.named \subseteq Consumers /\ c.named \in [DOMAIN c.named -> Limits]
ASSUME NoConsumerAssumption == NoConsumer \notin Consumers
ASSUME BoundsAssumption ==
  MaxTime \in Nat /\ MaxLimiters \in Nat \ {0} /\ MaxBuckets \in Nat

LimiterIds == 1..MaxLimiters

VARIABLES
  now,       \* the clock
  limiters,  \* the limiters in the order they were built: their limits and the
             \* bucket of each consumer, if it has one
  heap,      \* every bucket ever created
  handler,   \* the state of each request handler
  window     \* auxiliary: the requests one limiter admitted of one consumer,
             \* both arbitrary, since some moment

vars == <<now, limiters, heap, handler, window>>

NoBucket == 0
NoTime == -1

(* NewRateLimiter: only the default section has built-in values. *)
OrElse(x, d) == IF x = 0 THEN d ELSE x
Normalised(c) ==
  [c EXCEPT !.default = [rpm |-> OrElse(@.rpm, 60), burst |-> OrElse(@.burst, 10)]]

(* The limits getBucket looks up for a consumer. *)
LimitsFor(c, x) == IF x \in DOMAIN c.named THEN c.named[x] ELSE c.default

NewLimiter(c) == [limits |-> Normalised(c), table |-> [x \in Consumers |-> NoBucket]]

(* newBucket: full.  `retryAt' and `owner' are auxiliary: the earliest     *)
(* moment the bucket's last refusals told a client to retry at, and whose  *)
(* bucket it is.                                                           *)
NewBucket(l, g, x) ==
  [tokens |-> Unit * l.burst, max |-> Unit * l.burst, rate |-> l.rpm, last |-> now,
   retryAt |-> NoTime, owner |-> <<g, x>>]

BucketType ==
  [tokens : Nat, max : Nat, rate : Nat, last : Nat, retryAt : Nat \cup {NoTime},
   owner : LimiterIds \X Consumers]

LimiterType ==
  [limits : {Normalised(c) : c \in LimitConfigs}, table : [Consumers -> 0..MaxBuckets]]

HandlerType ==
  [pc : {"idle", "lookup", "create", "take"}, limiter : 0..MaxLimiters,
   consumer : Consumers \cup {NoConsumer}, limits : Limits, bucket : Nat]

NoLimits == [rpm |-> 0, burst |-> 0]
Idle == [pc |-> "idle", limiter |-> 0, consumer |-> NoConsumer, limits |-> NoLimits,
         bucket |-> NoBucket]

TypeOK ==
  /\ now \in Nat
  /\ heap \in Seq(BucketType)
  /\ limiters \in Seq(LimiterType) /\ Len(limiters) \in LimiterIds
  /\ handler \in [Handlers -> HandlerType]
  /\ window \in [key : LimiterIds \X Consumers, start : Nat, admitted : Nat]

(* buildProxyHandler builds one limiter for the configuration at startup. *)
Init ==
  /\ now = 0
  /\ \E c \in LimitConfigs : limiters = <<NewLimiter(c)>>
  /\ heap = <<>>
  /\ handler = [h \in Handlers |-> Idle]
  /\ \E k \in LimiterIds \X Consumers : window = [key |-> k, start |-> 0, admitted |-> 0]

-----------------------------------------------------------------------------
(* A request of consumer x enters the handler chain that is live now. *)
Arrive(h, x) ==
  /\ handler[h].pc = "idle"
  /\ handler' = [handler EXCEPT ![h] =
       [Idle EXCEPT !.pc = "lookup", !.limiter = Len(limiters), !.consumer = x]]
  /\ UNCHANGED <<now, limiters, heap, window>>

TableOf(h) == limiters[handler[h].limiter].table

(* getBucket under the read lock: the bucket, or the limits to build one. *)
Lookup(h) ==
  LET x == handler[h].consumer IN
  /\ handler[h].pc = "lookup"
  /\ handler' = [handler EXCEPT ![h] =
       IF TableOf(h)[x] # NoBucket
       THEN [@ EXCEPT !.pc = "take", !.bucket = TableOf(h)[x]]
       ELSE [@ EXCEPT !.pc = "create",
                      !.limits = LimitsFor(limiters[handler[h].limiter].limits, x)]]
  /\ UNCHANGED <<now, limiters, heap, window>>

(* getBucket under the write lock finds a bucket made meanwhile ... *)
CreateFinds(h) ==
  LET x == handler[h].consumer IN
  /\ handler[h].pc = "create"
  /\ TableOf(h)[x] # NoBucket
  /\ handler' = [handler EXCEPT ![h].pc = "take", ![h].bucket = TableOf(h)[x],
                                ![h].limits = NoLimits]
  /\ UNCHANGED <<now, limiters, heap, window>>

(* Mutant: without the second look under the write lock.                   *)
CreateMakesUnchecked(h) ==
  LET g == handler[h].limiter
      x == handler[h].consumer
      b == Len(heap) + 1 IN
  /\ handler[h].pc = "create"
  /\ Len(heap) < MaxBuckets
  /\ heap' = Append(heap, NewBucket(handler[h].limits, g, x))
  /\ limiters' = [limiters EXCEPT ![g].table[x] = b]
  /\ handler' = [handler EXCEPT ![h].pc = "take", ![h].bucket = b, ![h].limits = NoLimits]
  /\ UNCHANGED <<now, window>>

(* ... or makes one from the limits read before. *)
CreateMakes(h) ==
  LET g == handler[h].limiter
      x == handler[h].consumer
      b == Len(heap) + 1 IN
  /\ handler[h].pc = "create"
  /\ TableOf(h)[x] = NoBucket
  /\ Len(heap) < MaxBuckets
  /\ heap' = Append(heap, NewBucket(handler[h].limits, g, x))
  /\ limiters' = [limiters EXCEPT ![g].table[x] = b]
  /\ handler' = [handler EXCEPT ![h].pc = "take", ![h].bucket = b, ![h].limits = NoLimits]
  /\ UNCHANGED <<now, window>>

Least(m, n) == IF m <= n THEN m ELSE n

(* What take finds in a bucket at time t. *)
Available(b, t) == Least(b.max, b.tokens + b.rate * (t - b.last))

(* Mutant: rounded down. *)
RetryAfterDown(b, tokens) == (Unit - tokens) \div b.rate

(* Retry-After: whole seconds until a token is there, and one. *)
RetryAfter(b, tokens) == (Unit - tokens) \div b.rate + 1

(* The moment the client is told to come back at.  Without a rate the code *)
(* converts an infinite float, and the header says nothing useful.         *)
RetryTime(b, tokens) ==
  IF b.retryAt # NoTime \/ b.rate = 0 THEN b.retryAt ELSE now + RetryAfter(b, tokens)

(* Mutants: takes what is not there; a refusal does not note the refill's  *)
(* moment.                                                                 *)
TakenAlways(b) == [b EXCEPT !.tokens = Available(b, now) - Unit, !.last = now, !.retryAt = NoTime]
TakenUndated(b) ==
  LET t == Available(b, now) IN
    IF t >= Unit THEN [b EXCEPT !.tokens = t - Unit, !.last = now, !.retryAt = NoTime]
    ELSE [b EXCEPT !.tokens = t, !.retryAt = RetryTime(b, t)]
Taken(b) ==
  LET t == Available(b, now) IN
    IF t >= Unit THEN [b EXCEPT !.tokens = t - Unit, !.last = now, !.retryAt = NoTime]
    ELSE [b EXCEPT !.tokens = t, !.last = now, !.retryAt = RetryTime(b, t)]

(* take, then next.ServeHTTP or 429. *)
Take(h) ==
  LET i == handler[h].bucket
      ok == Available(heap[i], now) >= Unit IN
  /\ handler[h].pc = "take"
  /\ heap' = [heap EXCEPT ![i] = Taken(heap[i])]
  /\ handler' = [handler EXCEPT ![h] = Idle]
  /\ window' = IF ok /\ window.key = <<handler[h].limiter, handler[h].consumer>>
               THEN [window EXCEPT !.admitted = @ + 1] ELSE window
  /\ UNCHANGED <<now, limiters>>

(* Gateway.Reload builds a new chain with a new, empty limiter; requests   *)
(* already in the old chain finish there.                                  *)
Reload(c) ==
  /\ Len(limiters) < MaxLimiters
  /\ limiters' = Append(limiters, NewLimiter(c))
  /\ UNCHANGED <<now, heap, handler, window>>

Tick ==
  /\ now < MaxTime
  /\ now' = now + 1
  /\ UNCHANGED <<limiters, heap, handler, window>>

(* Auxiliary: start counting admissions afresh. *)
OpenWindow ==
  /\ window' = [window EXCEPT !.start = now, !.admitted = 0]
  /\ UNCHANGED <<now, limiters, heap, handler>>

Next ==
  \/ \E h \in Handlers, x \in Consumers : Arrive(h, x)
  \/ \E h \in Handlers : Lookup(h)
  \/ \E h \in Handlers : CreateFinds(h)
  \/ \E h \in Handlers : CreateMakes(h)
  \/ \E h \in Handlers : Take(h)
  \/ \E c \in LimitConfigs : Reload(c)
  \/ Tick
  \/ OpenWindow

Spec == Init /\ [][Next]_vars

-----------------------------------------------------------------------------
(* The cap a limiter puts on each consumer, the "per-consumer burst and    *)
(* sustained request caps" of the README: from any moment on, the requests *)
(* admitted fit the burst and what the rate has added since, whatever      *)
(* handlers look up, create and take in between.                           *)
WindowBound ==
  LET g == window.key[1]
      l == LimitsFor(limiters[g].limits, window.key[2])
  IN  g <= Len(limiters) =>
        Unit * window.admitted <= Unit * l.burst + l.rpm * (now - window.start)

(* A limiter keeps one bucket per consumer: two first requests that race   *)
(* in getBucket end up at the same bucket, the one the table keeps.        *)
OneBucket ==
  \A h \in Handlers : handler[h].pc = "take" =>
    /\ handler[h].bucket # NoBucket
    /\ handler[h].bucket = TableOf(h)[handler[h].consumer]
    /\ heap[handler[h].bucket].owner = <<handler[h].limiter, handler[h].consumer>>

(* Retry-After is long enough: at the earliest moment a refused client was *)
(* told to come back, its bucket holds a token again unless somebody took  *)
(* one since, in which case the promise was withdrawn.                     *)
RetryAfterHonest ==
  \A i \in 1..Len(heap) : heap[i].retryAt # NoTime /\ heap[i].max >= Unit =>
    heap[i].last < heap[i].retryAt /\ Available(heap[i], heap[i].retryAt) >= Unit

(* A request never moves a bucket back in time nor refills it beyond its   *)
(* burst, and a bucket keeps the limits it was made with.                  *)
BucketsMonotone ==
  [][\A i \in 1..Len(heap) :
       /\ heap'[i].max = heap[i].max /\ heap'[i].rate = heap[i].rate
       /\ heap'[i].last >= heap[i].last
       /\ heap'[i].tokens <= Available(heap[i], now')]_vars

(* What a consumer's bucket holds now, whether it was made or not.         *)
Level(g, x) ==
  LET i == limiters[g].table[x]
      l == LimitsFor(limiters[g].limits, x)
  IN [level |-> IF i = NoBucket THEN Unit * l.burst ELSE Available(heap[i], now),
      burst |-> Unit * l.burst, rate |-> l.rpm]

Levels == [g \in 1..Len(limiters) |-> [x \in Consumers |-> Level(g, x)]]
Served(y) == IF y.pc = "idle" THEN NoConsumer ELSE <<y.limiter, y.consumer>>
Promise == INSTANCE RatePromise WITH
  Token <- Unit, Nobody <- NoConsumer, bucket <- Levels,
  serves <- [h \in Handlers |-> Served(handler[h])]

(* Buckets made at the first request, refilled only when a request takes   *)
(* from them and shared by racing handlers admit and refuse as buckets     *)
(* there from the start and refilled every second would.                   *)
KeepsPromise == Promise!Spec

(* DEPLOY-CONTRACT.md:136 and MILESTONE_CONTRACT.md:75: openclaude, whose  *)
(* limits are configured as 0 and 0, is unlimited.                         *)
Refuses(h) ==
  /\ handler[h].pc = "take" /\ handler'[h].pc = "idle"
  /\ Available(heap[handler[h].bucket], now) < Unit

ZeroMeansUnlimited ==
  [][\A h \in Handlers : Refuses(h) =>
       LimitsFor(limiters[handler[h].limiter].limits, handler[h].consumer) # NoLimits]_vars
=============================================================================
