--------------------------- MODULE Servers_proofs ---------------------------
(***************************************************************************)
(* Two servers a deployment has, each on its own: that eviction never      *)
(* costs the gateway its rate limit, and a request that was late for the   *)
(* lock no more of it than it was late, for any number of callers and of   *)
(* threads, any capacity and any refill from the floor up; and that the    *)
(* identity of a mix node outlives its processes, for any number of nodes, *)
(* of processes started for them and of starts.                            *)
(***************************************************************************)
EXTENDS RateLimiter, MixNode, TLAPS

----------------------------------------------------------------------------
(* The gateway's rate limiter *)

\* What the watched caller's bucket b, or its absence, says of what it was
\* granted: a bucket holds at most what its caller has not been granted yet,
\* up to the bucket's own time; while the caller has none, all it was granted
\* has been refilled since.
Fits(b) ==
  IF b = NoBucket
  THEN clock >= since => granted * Token <= (clock - since + waited) * PerTick
  ELSE \/ granted = 0 /\ waited = 0
       \/ granted * Token + b.tokens <= Capacity + (b.last - since + waited) * PerTick

\* Nothing is dated in the future.
Dated ==
  /\ \A k \in Callers : buckets[k] # NoBucket => buckets[k].last <= clock
  /\ \A w \in Workers : request[w] # NoRequest => request[w].now <= clock

\* The inductive invariant.
Budget ==
  /\ LimiterTypeOK
  /\ Dated
  /\ clock < since => granted = 0 /\ waited = 0
  /\ Fits(buckets[watched])

LEMMA CapacityNat == Capacity \in Nat /\ Token \in Nat /\ PerTick \in Nat
BY LimiterAssumption DEF Capacity

\* Time is refilled piece by piece, and longer times more.
LEMMA Refills ==
  ASSUME NEW a \in Int, NEW b \in Int
  PROVE  /\ a * PerTick \in Int
         /\ (a + b) * PerTick = a * PerTick + b * PerTick
         /\ a <= b => a * PerTick <= b * PerTick
BY LimiterAssumption

LEMMA ElapsedUpTo ==
  ASSUME NEW b \in Bucket, NEW now \in Nat, clock \in Nat, now <= clock, b.last <= clock
  PROVE  Elapsed(b, now) \in Nat /\ b.last \in Nat /\ b.last + Elapsed(b, now) <= clock
BY DEF Elapsed, Bucket

\* The refill a bucket is judged by is its own.
LEMMA JudgedByRefill ==
  ASSUME NEW b \in Bucket, NEW now \in Nat, IdleToFull(b, now)
  PROVE  Elapsed(b, now) * PerTick >= Capacity
BY LimiterAssumption DEF IdleToFull

\* What had been granted up to the bucket's time has been by now, and the
\* refill in between with it.
LEMMA CaughtUp ==
  ASSUME Budget, NEW b \in Bucket, b # NoBucket, Fits(b), b.last <= clock, clock >= since,
         NEW now \in Nat, now <= clock
  PROVE  \/ granted * Token = 0 /\ (clock - since + waited) * PerTick >= 0
         \/ /\ granted * Token + b.tokens + Elapsed(b, now) * PerTick
                  <= Capacity + (clock - since + waited) * PerTick
<1> DEFINE e == Elapsed(b, now)
<1>1. /\ clock \in Nat /\ since \in Nat /\ waited \in Nat /\ granted \in Nat
      /\ granted * Token \in Int /\ b.tokens \in Int
      /\ e \in Nat /\ b.last \in Nat /\ b.last + e <= clock
  BY ElapsedUpTo, CapacityNat DEF Budget, LimiterTypeOK, Bucket
<1>2. CASE granted = 0 /\ waited = 0
  <2>1. 0 * PerTick <= (clock - since + waited) * PerTick /\ 0 * PerTick = 0 /\ 0 * Token = 0
    BY <1>1, Refills, CapacityNat
  <2> QED
    BY <1>2, <2>1
<1>3. CASE granted * Token + b.tokens <= Capacity + (b.last - since + waited) * PerTick
  <2> DEFINE u == b.last - since + waited
             v == clock - since + waited
             p == u * PerTick
             q == e * PerTick
             t == v * PerTick
  <2>1. u \in Int /\ v \in Int /\ e \in Int /\ u + e <= v
    BY <1>1
  <2> HIDE DEF u, v, e
  <2>2. p \in Int /\ q \in Int /\ t \in Int /\ (u + e) * PerTick = p + q
    BY <2>1, Refills
  <2>3. (u + e) * PerTick <= t
    <3>1. u + e \in Int
      BY <2>1
    <3> QED
      BY <2>1, <3>1, Refills
  <2>4. p + q <= t
    BY <2>2, <2>3
  <2>5. granted * Token + b.tokens <= Capacity + p
    BY <1>3 DEF u
  <2> HIDE DEF p, q, t
  <2>6. granted * Token + b.tokens + q <= Capacity + t
    BY <1>1, <2>2, <2>4, <2>5, CapacityNat
  <2> QED
    BY <2>6 DEF q, t, e, v
<1> QED
  BY <1>2, <1>3 DEF Fits

\* A bucket that is dropped had the time to fill up, and eviction keeps the
\* invariant.
LEMMA RetainedFits ==
  ASSUME Budget, NEW now \in Nat, now <= clock
  PROVE  /\ Retained(now) \in [Callers -> Bucket \cup {NoBucket}]
         /\ \A k \in Callers : Retained(now)[k] # NoBucket => Retained(now)[k].last <= clock
         /\ Fits(Retained(now)[watched])
<1>1. Retained(now) \in [Callers -> Bucket \cup {NoBucket}]
  BY DEF Retained, Budget, LimiterTypeOK
<1>2. \A k \in Callers :
        \/ Retained(now)[k] = buckets[k]
        \/ Retained(now)[k] = NoBucket /\ buckets[k] # NoBucket /\ IdleToFull(buckets[k], now)
  BY DEF Retained
<1>3. \A k \in Callers : Retained(now)[k] # NoBucket => Retained(now)[k].last <= clock
  BY <1>2 DEF Budget, Dated
<1>4. watched \in Callers
  BY DEF Budget, LimiterTypeOK
<1>5. CASE Retained(now)[watched] = buckets[watched]
  BY <1>1, <1>3, <1>5 DEF Budget
<1>6. ASSUME Retained(now)[watched] = NoBucket, buckets[watched] # NoBucket,
             IdleToFull(buckets[watched], now)
      PROVE  Fits(Retained(now)[watched])
  <2> DEFINE b == buckets[watched]
             q == Elapsed(b, now) * PerTick
             t == (clock - since + waited) * PerTick
             g == granted * Token
  <2>1. b \in Bucket /\ b # NoBucket /\ b.last <= clock /\ Fits(b) /\ b.tokens \in Nat
    BY <1>4, <1>6, CapacityNat DEF Budget, LimiterTypeOK, Dated, Bucket
  <2>2. q >= Capacity
    BY <1>6, <2>1, JudgedByRefill
  <2>3. ASSUME clock >= since
        PROVE  g <= t
    <3>1. (g = 0 /\ t >= 0) \/ g + b.tokens + q <= Capacity + t
      BY <2>1, <2>3, CaughtUp
    <3>2. g \in Int /\ q \in Int /\ t \in Int
      <4>1. Elapsed(b, now) \in Int /\ clock - since + waited \in Int /\ granted \in Int
        BY <2>1, ElapsedUpTo DEF Budget, LimiterTypeOK
      <4> QED
        BY <4>1, Refills, CapacityNat
    <3> HIDE DEF b, q, t, g
    <3> QED
      BY <2>1, <2>2, <3>1, <3>2, CapacityNat
  <2> QED
    BY <1>6, <2>3 DEF Fits
<1> QED
  BY <1>1, <1>2, <1>3, <1>4, <1>5, <1>6

\* What a request finds in its caller's bucket, after the refill.
LEMMA RefilledBucket ==
  ASSUME NEW r \in Bucket \cup {NoBucket}, NEW now \in Nat, NEW b, b = Refilled(OrFull(r, now), now)
  PROVE  /\ b \in Bucket /\ b.last = now /\ b.tokens \in Nat /\ b.tokens <= Capacity
         /\ r # NoBucket => b.tokens <= r.tokens + Elapsed(r, now) * PerTick
<1>1. CASE r = NoBucket
  <2>1. OrFull(r, now) = [tokens |-> Capacity, last |-> now]
    BY <1>1 DEF OrFull
  <2>2. Elapsed([tokens |-> Capacity, last |-> now], now) * PerTick = 0
    BY LimiterAssumption DEF Elapsed
  <2>3. b = [tokens |-> Capacity, last |-> now]
    BY <2>1, <2>2, CapacityNat DEF Refilled
  <2> QED
    BY <1>1, <2>3, CapacityNat DEF Bucket
<1>2. CASE r # NoBucket
  <2>1. OrFull(r, now) = r /\ r \in Bucket /\ r.tokens \in 0..Capacity /\ r.last \in Nat
    BY <1>2 DEF OrFull, Bucket
  <2> DEFINE d == Elapsed(r, now) * PerTick
  <2>2. d \in Nat
    BY <2>1, LimiterAssumption DEF Elapsed
  <2>3. b = [tokens |-> IF r.tokens + d < Capacity THEN r.tokens + d ELSE Capacity, last |-> now]
    BY <2>1 DEF Refilled
  <2> HIDE DEF d
  <2>4. /\ b \in Bucket /\ b.last = now /\ b.tokens \in Nat /\ b.tokens <= Capacity
        /\ b.tokens <= r.tokens + d
    BY <2>1, <2>2, <2>3, CapacityNat DEF Bucket
  <2> QED
    BY <2>4 DEF d
<1> QED
  BY <1>1, <1>2

\* It fits, too, if the caller is the watched one.
LEMMA RefilledFits ==
  ASSUME Budget, NEW now \in Nat, now <= clock, clock >= since,
         NEW b, b = Refilled(OrFull(Retained(now)[watched], now), now)
  PROVE  granted * Token + b.tokens <= Capacity + (clock - since + waited) * PerTick
<1> DEFINE r == Retained(now)[watched]
           t == (clock - since + waited) * PerTick
           g == granted * Token
<1>1. /\ r \in Bucket \cup {NoBucket} /\ Fits(r) /\ (r # NoBucket => r.last <= clock)
      /\ g \in Int /\ t \in Int
  <2>1. watched \in Callers /\ clock - since + waited \in Int /\ granted \in Int
    BY DEF Budget, LimiterTypeOK
  <2> QED
    BY <2>1, RetainedFits, Refills, CapacityNat
<1>2. /\ b.tokens \in Nat /\ b.tokens <= Capacity
      /\ r # NoBucket => b.tokens <= r.tokens + Elapsed(r, now) * PerTick
  BY <1>1, RefilledBucket
<1>3. CASE r = NoBucket
  <2>1. g <= t
    BY <1>1, <1>3 DEF Fits
  <2> HIDE DEF r, t, g
  <2>2. g + b.tokens <= Capacity + t
    BY <1>1, <1>2, <2>1, CapacityNat
  <2> QED
    BY <2>2 DEF g, t
<1>4. CASE r # NoBucket
  <2> DEFINE q == Elapsed(r, now) * PerTick
  <2>1. (g = 0 /\ t >= 0) \/ g + r.tokens + q <= Capacity + t
    BY <1>1, <1>4, CaughtUp
  <2>2. q \in Int /\ r.tokens \in Int
    <3>1. Elapsed(r, now) \in Int
      BY <1>1, <1>4, ElapsedUpTo DEF Budget, LimiterTypeOK
    <3>2. q \in Int
      BY <3>1, Refills
    <3>3. r.tokens \in 0..Capacity
      BY <1>1, <1>4 DEF Bucket
    <3> QED
      BY <3>2, <3>3, CapacityNat
  <2>3. b.tokens <= r.tokens + q
    BY <1>2, <1>4
  <2> HIDE DEF r, t, g, q
  <2>4. g + b.tokens <= Capacity + t
    BY <1>1, <1>2, <2>1, <2>2, <2>3, CapacityNat
  <2> QED
    BY <2>4 DEF g, t
<1> QED
  BY <1>3, <1>4

\* A request that gets the lock, whenever it read the clock, keeps the
\* invariant: what it sets the bucket's time back by, it has waited.
LEMMA TryAcquireBudget ==
  ASSUME Budget, NEW w \in Workers, NEW ok \in BOOLEAN, TryAcquire(w, ok)
  PROVE  Budget'
<1> DEFINE k == request[w].caller
           now == request[w].now
           b == Refilled(OrFull(Retained(now)[k], now), now)
           c == IF ok THEN [b EXCEPT !.tokens = @ - Token] ELSE b
<1>1. /\ request[w] \in Request /\ k \in Callers /\ now \in Nat /\ now <= clock
      /\ clock \in Nat /\ since \in Nat /\ granted \in Nat /\ waited \in Nat /\ watched \in Callers
      /\ clock' = clock /\ watched' = watched /\ since' = since
      /\ request' = [request EXCEPT ![w] = NoRequest] /\ request \in [Workers -> Request \cup {NoRequest}]
  BY DEF Budget, Dated, LimiterTypeOK, TryAcquire, Request
<1>2. /\ buckets' = [Retained(now) EXCEPT ![k] = c]
      /\ ok => b.tokens >= Token
      /\ IF k = watched /\ clock >= since
         THEN granted' = granted + (IF ok THEN 1 ELSE 0) /\ waited' = waited + (clock - now)
         ELSE UNCHANGED <<granted, waited>>
  BY DEF TryAcquire
<1>3. /\ Retained(now) \in [Callers -> Bucket \cup {NoBucket}]
      /\ \A j \in Callers : Retained(now)[j] # NoBucket => Retained(now)[j].last <= clock
      /\ Fits(Retained(now)[watched])
  BY <1>1, RetainedFits
<1>4. b \in Bucket /\ b.last = now /\ b.tokens \in Nat /\ b.tokens <= Capacity
  <2>1. Retained(now)[k] \in Bucket \cup {NoBucket} /\ now \in Nat
    BY <1>1, <1>3
  <2>2. b = Refilled(OrFull(Retained(now)[k], now), now)
    OBVIOUS
  <2> DEFINE r == Retained(now)[k]
  <2>3. r \in Bucket \cup {NoBucket} /\ now \in Nat /\ b = Refilled(OrFull(r, now), now)
    BY <2>1, <2>2
  <2> HIDE DEF now, k, b, r
  <2> QED
    BY <2>3, RefilledBucket
<1>5. k = watched /\ clock >= since =>
        granted * Token + b.tokens <= Capacity + (clock - since + waited) * PerTick
  BY <1>1, RefilledFits
<1>6. /\ c \in Bucket /\ c # NoBucket /\ c.last = now /\ c.tokens \in Nat
      /\ c.tokens = b.tokens - (IF ok THEN Token ELSE 0)
  <2> HIDE DEF b
  <2> QED BY <1>1, <1>2, <1>4, LimiterAssumption, CapacityNat DEF Bucket
<1> HIDE DEF k, now, b, c
<1>7. granted' \in Nat /\ waited' \in Nat
  BY <1>1, <1>2
<1>8. LimiterTypeOK'
  BY <1>1, <1>2, <1>3, <1>6, <1>7 DEF LimiterTypeOK, Bucket, Capacity, Request
<1>9. Dated'
  <2>1. \A j \in Callers : buckets'[j] = (IF j = k THEN c ELSE Retained(now)[j])
    BY <1>2, <1>3
  <2>2. \A j \in Callers : buckets'[j] # NoBucket => buckets'[j].last <= clock
    BY <1>1, <1>3, <1>6, <2>1
  <2>3. \A v \in Workers : request'[v] # NoRequest => request'[v].now <= clock
    BY <1>1 DEF Budget, Dated
  <2> QED
    BY <1>1, <2>2, <2>3 DEF Dated
<1>10. (clock < since => granted = 0 /\ waited = 0)'
  BY <1>1, <1>2 DEF Budget
<1>11. ASSUME k = watched, clock >= since
       PROVE  Fits(buckets[watched])'
  <2> DEFINE t == (clock - since + waited) * PerTick
             g == granted * Token
             h == granted' * Token
  <2>1. buckets'[watched] = c /\ waited' = waited + (clock - now) /\ granted' = granted + (IF ok THEN 1 ELSE 0)
    BY <1>1, <1>2, <1>3, <1>11
  <2>2. now - since + waited' = clock - since + waited
    BY <1>1, <2>1
  <2>3. g + b.tokens <= Capacity + t
    BY <1>5, <1>11
  <2>4. h = g + (IF ok THEN Token ELSE 0) /\ g \in Int /\ h \in Int
    BY <1>1, <2>1, CapacityNat
  <2>5. t \in Int
    <3>1. clock - since + waited \in Int
      BY <1>1
    <3> QED
      BY <3>1, Refills
  <2>6. h + c.tokens <= Capacity + t
    <3> HIDE DEF t, g, h
    <3> QED BY <1>4, <1>6, <2>3, <2>4, <2>5, CapacityNat
  <2>7. granted' * Token + c.tokens <= Capacity + (c.last - since + waited') * PerTick
    BY <1>6, <2>2, <2>6
  <2> QED
    BY <1>1, <1>6, <2>1, <2>7 DEF Fits, Capacity
<1>12. ASSUME k = watched, clock < since
       PROVE  Fits(buckets[watched])'
  <2>1. buckets'[watched] = c /\ granted' = 0 /\ waited' = 0
    BY <1>1, <1>2, <1>3, <1>12 DEF Budget
  <2> QED
    BY <1>1, <1>6, <2>1 DEF Fits
<1>13. ASSUME k # watched
       PROVE  Fits(buckets[watched])'
  <2>1. buckets'[watched] = Retained(now)[watched] /\ granted' = granted /\ waited' = waited
    BY <1>1, <1>2, <1>3, <1>13
  <2> QED
    BY <1>1, <1>3, <2>1 DEF Fits, Capacity
<1> QED
  BY <1>1, <1>8, <1>9, <1>10, <1>11, <1>12, <1>13 DEF Budget

LEMMA ArriveBudget ==
  ASSUME Budget, NEW w \in Workers, NEW k \in Callers, Arrive(w, k)
  PROVE  Budget'
<1>1. /\ UNCHANGED <<buckets, clock, watched, since, granted, waited>> /\ clock \in Nat
      /\ request' = [request EXCEPT ![w] = [caller |-> k, now |-> clock]]
      /\ [caller |-> k, now |-> clock] \in Request
  BY DEF Arrive, Budget, LimiterTypeOK, Request
<1>2. LimiterTypeOK' /\ Fits(buckets[watched])'
  BY <1>1 DEF Budget, LimiterTypeOK, Fits, Bucket, Capacity, Request
<1>3. Dated'
  BY <1>1 DEF Budget, LimiterTypeOK, Dated
<1> QED
  BY <1>1, <1>2, <1>3 DEF Budget

LEMMA TickBudget ==
  ASSUME Budget, Tick
  PROVE  Budget'
<1>1. /\ clock \in Nat /\ since \in Nat /\ waited \in Nat /\ granted \in Nat /\ clock' = clock + 1
      /\ UNCHANGED <<buckets, request, watched, since, granted, waited>> /\ watched \in Callers
  BY DEF Tick, Budget, LimiterTypeOK
<1>2. LimiterTypeOK'
  BY <1>1 DEF Budget, LimiterTypeOK, Bucket, Capacity, Request
<1>3. Dated'
  <2>1. \A k \in Callers : buckets[k] # NoBucket => buckets[k].last <= clock + 1
    BY <1>1 DEF Budget, Dated, LimiterTypeOK, Bucket
  <2>2. \A w \in Workers : request[w] # NoRequest => request[w].now <= clock + 1
    BY <1>1 DEF Budget, Dated, LimiterTypeOK, Request
  <2> QED
    BY <1>1, <2>1, <2>2 DEF Dated
<1>4. Fits(buckets[watched])'
  <2>1. CASE buckets[watched] # NoBucket
    BY <1>1, <2>1 DEF Budget, Fits, Capacity
  <2>2. ASSUME buckets[watched] = NoBucket, clock + 1 >= since
        PROVE  granted * Token <= (clock + 1 - since + waited) * PerTick
    <3>1. CASE clock < since
      <4>1. granted = 0 /\ waited = 0 /\ 0 * Token = 0 /\ 0 * PerTick = 0
        BY <3>1, CapacityNat DEF Budget
      <4>2. 0 * PerTick <= (clock + 1 - since + waited) * PerTick
        BY <1>1, <2>2, Refills
      <4> QED
        BY <4>1, <4>2
    <3>2. CASE clock >= since
      <4>1. granted * Token <= (clock - since + waited) * PerTick
        BY <2>2, <3>2 DEF Budget, Fits
      <4>2. /\ clock - since + waited \in Int /\ clock + 1 - since + waited \in Int
            /\ clock - since + waited <= clock + 1 - since + waited
        BY <1>1
      <4>3. /\ (clock - since + waited) * PerTick <= (clock + 1 - since + waited) * PerTick
            /\ (clock - since + waited) * PerTick \in Int /\ (clock + 1 - since + waited) * PerTick \in Int
        BY <4>2, Refills
      <4>4. granted * Token \in Int
        BY <1>1, CapacityNat
      <4> QED
        BY <4>1, <4>3, <4>4
    <3> QED
      BY <1>1, <3>1, <3>2
  <2> QED
    BY <1>1, <2>1, <2>2 DEF Fits
<1>5. (clock < since => granted = 0 /\ waited = 0)'
  BY <1>1 DEF Budget
<1> QED
  BY <1>2, <1>3, <1>4, <1>5 DEF Budget

LEMMA InitBudget == LimiterInit => Budget
<1> SUFFICES ASSUME LimiterInit
             PROVE  Budget
  OBVIOUS
<1>1. LimiterTypeOK
  BY LimiterAssumption DEF LimiterInit, LimiterTypeOK
<1>2. Dated
  BY DEF LimiterInit, Dated
<1>3. Fits(buckets[watched])
  BY LimiterAssumption DEF LimiterInit, Fits
<1> QED
  BY <1>1, <1>2, <1>3 DEF LimiterInit, Budget

LEMMA StepBudget == Budget /\ [LimiterNext]_limiter => Budget'
<1>1. ASSUME Budget, UNCHANGED limiter
      PROVE  Budget'
  BY <1>1 DEF limiter, Budget, LimiterTypeOK, Dated, Fits, Capacity, Bucket, Request
<1> QED
  BY <1>1, TryAcquireBudget, ArriveBudget, TickBudget DEF LimiterNext

LEMMA BudgetBounds == Budget => RateBound
<1> SUFFICES ASSUME Budget, clock >= since
             PROVE  granted * Token <= Capacity + (clock - since + waited) * PerTick
  BY DEF RateBound
<1> DEFINE b == Refilled(OrFull(Retained(clock)[watched], clock), clock)
           t == (clock - since + waited) * PerTick
           g == granted * Token
<1>1. /\ clock \in Nat /\ clock - since + waited \in Int /\ granted \in Int /\ clock <= clock
      /\ watched \in Callers
  BY DEF Budget, LimiterTypeOK
<1>2. g + b.tokens <= Capacity + t
  BY <1>1, RefilledFits
<1>3. b.tokens \in Nat
  BY <1>1, RetainedFits, RefilledBucket
<1>4. g \in Int /\ t \in Int
  BY <1>1, Refills, CapacityNat
<1>5. g <= Capacity + t
  <2> HIDE DEF b, t, g
  <2> QED BY <1>2, <1>3, <1>4, CapacityNat
<1> QED
  BY <1>5

\* Whatever stretch of time one looks at, whichever caller, and whenever
\* buckets were dropped in it: what was granted is no more than a burst and
\* what was refilled, counting the time the caller's requests waited for the
\* lock twice.  Reading the clock and taking the lock are two steps here.
THEOREM RateIsBounded == LimiterSpec => []RateBound
BY InitBudget, StepBudget, BudgetBounds, PTL DEF LimiterSpec

----------------------------------------------------------------------------
(* The identity of a mix node *)

Fixed(n) == KeySource[n] \in {"env", "file"}
Has(p) == proc[p].at \in {"loaded", "up"}

\* The identity a node's processes and the clients have to agree on.
Identity(n) == IF KeySource[n] = "env" THEN EnvKey ELSE file[n]

Types ==
  /\ file \in [Nodes -> Keys \cup {Absent, Partial}]
  /\ proc \in [Procs -> [at : {"down", "create", "write", "loaded", "up"}, key : Keys \cup {NoKey}]]
  /\ starts \in 0..MaxStarts
  /\ known \in [Nodes -> Keys \cup {NoKey}]

\* A process that creates or writes its node's key file, the only one to write
\* it, has a key, and the file is not whole before it is done.
WritersOK ==
  /\ \A p \in Procs : proc[p].at \in {"create", "write"} =>
       proc[p].key \in Keys /\ KeySource[NodeOf[p]] = "file"
  /\ \A p \in Procs : proc[p].at = "write" => file[NodeOf[p]] = Partial
  /\ \A p, q \in Procs :
       proc[p].at = "write" /\ proc[q].at = "write" /\ NodeOf[p] = NodeOf[q] => p = q

\* Whoever has a node's key has the one identity.
AgreedOn ==
  /\ \A p \in Procs : Fixed(NodeOf[p]) /\ Has(p) =>
       proc[p].key = Identity(NodeOf[p]) /\ proc[p].key \in Keys
  /\ \A n \in Nodes : Fixed(n) /\ known[n] # NoKey => known[n] = Identity(n)

\* The inductive invariant.
Agreed == Types /\ WritersOK /\ AgreedOn

LEMMA KeyFacts ==
  /\ Absent \notin Keys /\ Partial \notin Keys /\ Absent # Partial
  /\ EnvKey \in Keys /\ NoKey \notin Keys
  /\ starts \in 0..MaxStarts /\ starts < MaxStarts => NewKey \in Keys
BY NodesAssumption DEF Absent, Partial, EnvKey, NoKey, Keys, NewKey

LEMMA InitAgreed == MixNodeInit => Agreed
BY NodesAssumption DEF MixNodeInit, Agreed, Types, WritersOK, AgreedOn, Has, Down, NoKey

\* A process that ends, wherever it was.
LEMMA EndAgreed ==
  ASSUME Agreed, NEW p \in Procs, proc' = [proc EXCEPT ![p] = Down],
         UNCHANGED <<file, starts, known>>
  PROVE  Agreed'
<1> USE KeyFacts, NodesAssumption DEF Agreed, Down
<1>1. Types'
  BY DEF Types
<1>2. WritersOK'
  BY DEF Types, WritersOK
<1>3. AgreedOn'
  BY DEF Types, AgreedOn, Has, Identity, Fixed
<1> QED
  BY <1>1, <1>2, <1>3

\* Starting reads the file, and leaves it alone.
LEMMA StartAgreed ==
  ASSUME Agreed, NEW p \in Procs, LoadOrGenerate(p)
  PROVE  Agreed'
<1> USE KeyFacts, NodesAssumption DEF Agreed
<1> DEFINE n == NodeOf[p]
<1>1. n \in Nodes /\ UNCHANGED <<file, known>> /\ proc[p].at = "down" /\ starts' = starts + 1 /\ starts < MaxStarts
  BY DEF LoadOrGenerate
<1>2. \/ UNCHANGED proc
      \/ KeySource[n] = "env" /\ At(p, "loaded", EnvKey)
      \/ KeySource[n] = "none" /\ At(p, "loaded", NewKey)
      \/ KeySource[n] = "file" /\ At(p, "create", NewKey)
      \/ KeySource[n] = "file" /\ file[n] \in Keys /\ At(p, "loaded", file[n])
  BY DEF LoadOrGenerate, LoadOrCreateKeyFile
<1>3. NewKey \in Keys /\ starts' \in 0..MaxStarts
  BY <1>1 DEF Types
<1>4. Types'
  <2> HIDE DEF n
  <2> QED BY <1>1, <1>2, <1>3 DEF Types, At
<1>5. ASSUME NEW q \in Procs
      PROVE  /\ q # p => proc'[q] = proc[q]
             /\ proc'[q].at # "write" \/ (q # p /\ proc[q].at = "write")
             /\ proc'[p].at = "create" => proc'[p].key \in Keys /\ KeySource[n] = "file"
  <2> HIDE DEF n
  <2> QED BY <1>1, <1>2, <1>3 DEF Types, At
<1>6. WritersOK'
  <2>1. \A q \in Procs : proc'[q].at \in {"create", "write"} =>
          proc'[q].key \in Keys /\ KeySource[NodeOf[q]] = "file"
    BY <1>5 DEF WritersOK
  <2>2. \A q \in Procs : proc'[q].at = "write" => file'[NodeOf[q]] = Partial
    BY <1>1, <1>5 DEF WritersOK
  <2>3. \A q, r \in Procs :
          proc'[q].at = "write" /\ proc'[r].at = "write" /\ NodeOf[q] = NodeOf[r] => q = r
    BY <1>5 DEF WritersOK
  <2> QED
    BY <2>1, <2>2, <2>3 DEF WritersOK
<1>7. AgreedOn'
  BY <1>1, <1>2, <1>3 DEF Types, AgreedOn, Has, Identity, Fixed, At
<1> QED
  BY <1>4, <1>6, <1>7

LEMMA CreateAgreed ==
  ASSUME Agreed, NEW p \in Procs, CreateNew(p)
  PROVE  Agreed'
<1> USE KeyFacts, NodesAssumption DEF Agreed
<1> DEFINE n == NodeOf[p]
<1>1. n \in Nodes /\ UNCHANGED <<starts, known>> /\ proc[p].at = "create" /\ proc[p].key \in Keys
      /\ KeySource[n] = "file"
  BY DEF CreateNew, WritersOK
<1>2. CASE file[n] = Absent
  <2>1. file' = [file EXCEPT ![n] = Partial] /\ proc' = [proc EXCEPT ![p] = [at |-> "write", key |-> proc[p].key]]
    BY <1>2 DEF CreateNew, At
  <2>2. \A q \in Procs : NodeOf[q] = n => proc[q].at # "write" /\ ~Has(q)
    BY <1>1, <1>2 DEF WritersOK, AgreedOn, Identity, Fixed
  <2>3. known[n] = NoKey
    BY <1>1, <1>2 DEF Types, AgreedOn, Identity, Fixed
  <2>4. Types'
    BY <1>1, <2>1 DEF Types
  <2>5. WritersOK'
    BY <1>1, <2>1, <2>2 DEF Types, WritersOK
  <2>6. AgreedOn'
    BY <1>1, <2>1, <2>2, <2>3 DEF Types, AgreedOn, Has, Identity, Fixed
  <2> QED
    BY <2>4, <2>5, <2>6
<1>3. CASE file[n] # Absent
  <2>1. UNCHANGED file /\ proc' = [proc EXCEPT ![p] = Down]
    BY <1>3 DEF CreateNew
  <2> QED
    BY <1>1, <2>1, EndAgreed
<1> QED
  BY <1>2, <1>3

\* The file becomes whole while nobody has a key of the node.
LEMMA WriteAgreed ==
  ASSUME Agreed, NEW p \in Procs, WriteAll(p)
  PROVE  Agreed'
<1> USE KeyFacts, NodesAssumption DEF Agreed
<1> DEFINE n == NodeOf[p]
<1>1. n \in Nodes /\ UNCHANGED <<starts, known>> /\ proc[p].at = "write" /\ proc[p].key \in Keys
      /\ KeySource[n] = "file" /\ file[n] = Partial
  BY DEF WriteAll, WritersOK
<1>2. file' = [file EXCEPT ![n] = proc[p].key] /\ proc' = [proc EXCEPT ![p] = [at |-> "loaded", key |-> proc[p].key]]
  BY DEF WriteAll, At
<1>3. \A q \in Procs : NodeOf[q] = n => ~Has(q) /\ (proc[q].at = "write" => q = p)
  BY <1>1 DEF WritersOK, AgreedOn, Identity, Fixed
<1>4. known[n] = NoKey
  BY <1>1 DEF Types, AgreedOn, Identity, Fixed
<1>5. Types'
  BY <1>1, <1>2 DEF Types
<1>6. WritersOK'
  BY <1>1, <1>2, <1>3 DEF Types, WritersOK
<1>7. AgreedOn'
  <2>1. ASSUME NEW q \in Procs, Fixed(NodeOf[q]), Has(q)'
        PROVE  proc'[q].key = Identity(NodeOf[q])' /\ proc'[q].key \in Keys
    BY <1>1, <1>2, <1>3, <2>1 DEF Types, AgreedOn, Has, Identity, Fixed
  <2>2. ASSUME NEW k \in Nodes, Fixed(k), known[k] # NoKey
        PROVE  known[k] = Identity(k)'
    BY <1>1, <1>2, <1>4, <2>2 DEF Types, AgreedOn, Identity, Fixed
  <2> QED
    BY <1>1, <2>1, <2>2 DEF AgreedOn, Fixed
<1> QED
  BY <1>5, <1>6, <1>7

LEMMA ServeStopAgreed ==
  ASSUME Agreed, NEW p \in Procs, Serve(p) \/ Stop(p)
  PROVE  Agreed'
<1>1. UNCHANGED <<file, starts, known>>
  BY DEF Serve, Stop
<1>2. CASE proc' = [proc EXCEPT ![p] = Down]
  BY <1>1, <1>2, EndAgreed
<1>3. CASE proc[p].at = "loaded" /\ At(p, "up", proc[p].key)
  <2> USE KeyFacts, NodesAssumption, <1>1, <1>3 DEF Agreed, At
  <2>1. Types'
    BY DEF Types
  <2>2. WritersOK'
    BY DEF Types, WritersOK
  <2>3. AgreedOn'
    BY DEF Types, AgreedOn, Has, Identity, Fixed
  <2> QED
    BY <2>1, <2>2, <2>3
<1> QED
  BY <1>2, <1>3 DEF Serve, Stop

LEMMA EnrollAgreed ==
  ASSUME Agreed, NEW n \in Nodes, Enroll(n)
  PROVE  Agreed'
<1> USE KeyFacts, NodesAssumption DEF Agreed, Enroll, Serving
<1>1. Types'
  BY DEF Types
<1>2. WritersOK'
  BY DEF WritersOK
<1>3. AgreedOn'
  BY DEF Types, AgreedOn, Has, Identity, Fixed
<1> QED
  BY <1>1, <1>2, <1>3

LEMMA StepAgreed == Agreed /\ [MixNodeNext]_mixnodes => Agreed'
<1>1. ASSUME Agreed, UNCHANGED mixnodes
      PROVE  Agreed'
  BY <1>1 DEF mixnodes, Agreed, Types, WritersOK, AgreedOn, Has, Identity, Fixed
<1> QED
  BY <1>1, StartAgreed, CreateAgreed, WriteAgreed, ServeStopAgreed, EnrollAgreed DEF MixNodeNext

LEMMA AgreedStays == Agreed => IdentityStays
BY NodesAssumption DEF Agreed, AgreedOn, Has, Fixed, IdentityStays

\* Once clients have the key of a node that keeps its identity, every process
\* that serves for the node has that key: after restarts, after a process that
\* stopped in the middle of writing the file, with two of them racing for it.
THEOREM IdentityOutlives == MixNodeSpec => []IdentityStays
BY InitAgreed, StepAgreed, AgreedStays, PTL DEF MixNodeSpec
=============================================================================
