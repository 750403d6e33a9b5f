---------------------------- MODULE RateLimiter ----------------------------
(***************************************************************************)
(* The gateway's token buckets (gateway/src/auth.rs): one per caller, in   *)
(* memory, with the buckets of idle callers dropped when there are many.   *)
(*                                                                         *)
(* The code's f64 amounts are numbers of units here, Token of them to a    *)
(* request, so that a tick may refill a fraction of a token; their         *)
(* rounding is left out.  The clock is Instant::now, which never goes      *)
(* back; but a request reads it before it has the lock of the buckets, and *)
(* the one that reads it first may be the one that comes second.  The life *)
(* of the buckets is the life of the gateway process.                      *)
(***************************************************************************)
EXTENDS Integers, FiniteSets

CONSTANTS
  Callers,     \* bucket keys: API keys, or addresses if there are none
  Workers,     \* threads of the gateway's runtime
  Token,       \* units a request costs
  Burst,       \* capacity in requests
  PerTick,     \* units refilled per tick: per_second
  Floor,       \* the 0.001 per second that eviction assumes at least
  MaxBuckets,  \* 10 000
  NoBucket, NoRequest,
  MaxClock     \* bound: time

\* Below the floor an idle bucket would be judged full too early.
ASSUME LimiterAssumption ==
  /\ Token \in Nat \ {0} /\ Burst \in Nat /\ PerTick \in Nat /\ Floor \in Nat \ {0}
  /\ PerTick >= Floor
  /\ MaxClock \in Nat
  /\ NoBucket \notin [tokens : Int, last : Int]
  /\ NoRequest \notin [caller : Callers, now : Int]

VARIABLES
  buckets,  \* RateLimiter::buckets
  request,  \* per worker: the try_acquire that waits for the lock, and its reading
  clock,
  watched,  \* history: a caller, and when one begins to count its requests
  since,
  granted,  \* history: requests it was granted from then on
  waited    \* history: what its requests waited for the lock, from then on

limiter == <<buckets, request, clock, watched, since, granted, waited>>

Capacity == Burst * Token
Bucket == [tokens : 0..Capacity, last : Nat]
Request == [caller : Callers, now : Nat]

LimiterInit ==
  /\ buckets = [k \in Callers |-> NoBucket]
  /\ request = [w \in Workers |-> NoRequest]
  /\ clock = 0
  /\ watched \in Callers /\ since \in 0..MaxClock
  /\ granted = 0 /\ waited = 0

\* duration_since, which is zero for a bucket that is ahead of the reading.
Elapsed(b, now) == IF now > b.last THEN now - b.last ELSE 0

\* Its time is the reading, even if it was ahead.
Refilled(b, now) ==
  LET sum == b.tokens + Elapsed(b, now) * PerTick IN
  [tokens |-> IF sum < Capacity THEN sum ELSE Capacity, last |-> now]

\* Faulty variant: a bucket that is not empty any more is dropped.
IdleToToken(b, now) == Elapsed(b, now) * PerTick >= Token

\* Has not been used for long enough to be full by now.
IdleToFull(b, now) ==
  Elapsed(b, now) * (IF PerTick > Floor THEN PerTick ELSE Floor) >= Capacity

\* What eviction leaves, which only runs when there are many.
Retained(now) ==
  IF Cardinality({k \in Callers : buckets[k] # NoBucket}) > MaxBuckets
  THEN [k \in Callers |->
         IF buckets[k] # NoBucket /\ ~IdleToFull(buckets[k], now) THEN buckets[k] ELSE NoBucket]
  ELSE buckets

OrFull(b, now) == IF b = NoBucket THEN [tokens |-> Capacity, last |-> now] ELSE b

\* The clock is read; the lock may be taken already.
Arrive(w, k) ==
  /\ request[w] = NoRequest
  /\ request' = [request EXCEPT ![w] = [caller |-> k, now |-> clock]]
  /\ UNCHANGED <<buckets, clock, watched, since, granted, waited>>

\* With the lock.  A refused request has refilled the bucket and set its time
\* all the same.
TryAcquire(w, ok) ==
  /\ request[w] # NoRequest
  /\ LET k == request[w].caller
         now == request[w].now
         b == Refilled(OrFull(Retained(now)[k], now), now)
     IN  /\ ok = (b.tokens >= Token)
         /\ buckets' = [Retained(now) EXCEPT ![k] = IF ok THEN [b EXCEPT !.tokens = @ - Token] ELSE b]
         /\ IF k = watched /\ clock >= since
            THEN granted' = granted + (IF ok THEN 1 ELSE 0) /\ waited' = waited + (clock - now)
            ELSE UNCHANGED <<granted, waited>>
  /\ request' = [request EXCEPT ![w] = NoRequest]
  /\ UNCHANGED <<clock, watched, since>>

Tick ==
  /\ clock < MaxClock
  /\ clock' = clock + 1
  /\ UNCHANGED <<buckets, request, watched, since, granted, waited>>

\* Any middleware call, at any time: what the theorems are about.
LimiterNext ==
  \/ Tick
  \/ \E w \in Workers : (\E k \in Callers : Arrive(w, k)) \/ (\E ok \in BOOLEAN : TryAcquire(w, ok))

LimiterSpec == LimiterInit /\ [][LimiterNext]_limiter

----------------------------------------------------------------------------

LimiterTypeOK ==
  /\ buckets \in [Callers -> Bucket \cup {NoBucket}]
  /\ request \in [Workers -> Request \cup {NoRequest}]
  /\ clock \in Nat /\ since \in Nat /\ granted \in Nat /\ waited \in Nat
  /\ watched \in Callers

\* In any stretch of time no caller is granted more than a burst and what has
\* been refilled in it, although its bucket may be dropped, and come back full,
\* in the middle of it: unless its requests had to wait for the lock.  One that
\* did sets the bucket's time back to its reading, so that what others have
\* had refilled since then is refilled again; over a stretch this adds up to no
\* more than the time the caller's requests waited.
RateBound ==
  clock >= since => granted * Token <= Capacity + (clock - since + waited) * PerTick
=============================================================================
