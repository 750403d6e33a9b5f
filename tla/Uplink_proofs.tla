--------------------------- MODULE Uplink_proofs ---------------------------
(***************************************************************************)
(* The hybrid transport's promises, and those of the gateway and of the    *)
(* mix nodes carried over to the deployment, for any numbers of messages,  *)
(* callers, nodes and processes and paths of any length.                   *)
(***************************************************************************)
EXTENDS Uplink, Servers_proofs, FiniteSetTheorems

----------------------------------------------------------------------------
(* The components in the deployment *)

LEMMA MiddlewareLimits ==
  ASSUME NEW k \in Callers, NEW ok \in BOOLEAN, Call(k, ok) \/ Middleware(k, ok)
  PROVE  [LimiterNext]_limiter
BY DEF Call, Middleware, LimiterNext

\* A deployment step is a step of the rate limiter, or leaves it alone.
LEMMA LimiterSteps == [Next]_vars => [LimiterNext]_limiter
<1> SUFFICES ASSUME Next
             PROVE  [LimiterNext]_limiter
  BY DEF vars
<1>1. ASSUME Time \/ Arrival
      PROVE  [LimiterNext]_limiter
  BY <1>1 DEF Time, Arrival, LimiterNext
<1>2. ASSUME ReceivePrimary
      PROVE  [LimiterNext]_limiter
  BY <1>2, MiddlewareLimits, UplinkAssumption DEF ReceivePrimary
<1>3. ASSUME NEW k \in Callers, OtherRequest(k)
      PROVE  [LimiterNext]_limiter
  BY <1>3, MiddlewareLimits DEF OtherRequest
<1>4. ASSUME NEW m \in Msgs, DirectSend(m)
      PROVE  [LimiterNext]_limiter
  BY <1>4, MiddlewareLimits, UplinkAssumption DEF DirectSend
<1>5. ASSUME ProcessStep \/ ReceiveMesh
      PROVE  UNCHANGED limiter
  BY <1>5 DEF ProcessStep, ReceiveMesh
<1>6. ASSUME NEW m \in Msgs, SubmitMessage(m) \/ RelayError(m) \/ ConnectionBreaks(m) \/ MixSend(m) \/ Fallback(m)
      PROVE  UNCHANGED limiter
  BY <1>6 DEF SubmitMessage, RelayError, ConnectionBreaks, MixSend, Fallback
<1>7. ASSUME NEW q \in packets, Forward(q) \/ Deliver(q) \/ HopFails(q)
      PROVE  UNCHANGED limiter
  BY <1>7 DEF Forward, Deliver, HopFails
<1> QED
  BY <1>1, <1>2, <1>3, <1>4, <1>5, <1>6, <1>7 DEF Next

\* Likewise for the mix nodes.
LEMMA MixNodeSteps == [Next]_vars => [MixNodeNext]_mixnodes
<1>1. ASSUME ProcessStep
      PROVE  MixNodeNext
  BY <1>1 DEF ProcessStep
<1>2. ASSUME Time \/ Arrival \/ ReceivePrimary \/ ReceiveMesh \/ UNCHANGED vars
      PROVE  UNCHANGED mixnodes
  BY <1>2 DEF Time, Arrival, ReceivePrimary, ReceiveMesh, vars
<1>3. ASSUME NEW k \in Callers, OtherRequest(k)
      PROVE  UNCHANGED mixnodes
  BY <1>3 DEF OtherRequest
<1>4. ASSUME NEW m \in Msgs,
             \/ DirectSend(m) \/ SubmitMessage(m) \/ RelayError(m) \/ ConnectionBreaks(m)
             \/ MixSend(m) \/ Fallback(m)
      PROVE  UNCHANGED mixnodes
  BY <1>4 DEF DirectSend, SubmitMessage, RelayError, ConnectionBreaks, MixSend, Fallback
<1>5. ASSUME NEW q \in packets, Forward(q) \/ Deliver(q) \/ HopFails(q)
      PROVE  UNCHANGED mixnodes
  BY <1>5 DEF Forward, Deliver, HopFails
<1> QED
  BY <1>1, <1>2, <1>3, <1>4, <1>5 DEF Next

\* The gateway's rate limit holds for all the requests of the deployment:
\* sends, receives and others.
THEOREM DeploymentRateIsBounded == Spec => []RateBound
<1>1. Init => Budget
  BY InitBudget DEF Init
<1>2. Budget /\ [Next]_vars => Budget'
  BY LimiterSteps, StepBudget
<1> QED
  BY <1>1, <1>2, BudgetBounds, PTL DEF Spec

\* The mix nodes' identities outlive their processes in the deployment.
THEOREM DeploymentIdentityOutlives == Spec => []IdentityStays
<1>1. Init => Agreed
  BY InitAgreed DEF Init
<1>2. Agreed /\ [Next]_vars => Agreed'
  BY MixNodeSteps, StepAgreed
<1> QED
  BY <1>1, <1>2, AgreedStays, PTL DEF Spec

----------------------------------------------------------------------------
(* The messages *)

PacketsOf(m) == {q \in packets : q.msg = m}

Shape ==
  /\ call \in [Msgs -> {"idle", "waiting", "error", "ok", "failed"}]
  /\ got \in [Msgs -> Nat]
  /\ IsFiniteSet(packets)
  /\ packets \subseteq [msg : Msgs, hops : Seq(Nodes)]
  /\ fetch \in [at : {"idle", "mesh"}, held : SUBSET Msgs]
  /\ fetch.at = "idle" => fetch.held = {}
  /\ asked \subseteq Msgs /\ relay \subseteq Msgs /\ mesh \subseteq Msgs

\* Where a message that was sent successfully is, until it is received or lost.
Kept ==
  \A m \in Msgs :
    call[m] = "ok" /\ got[m] = 0 /\ m \notin lost =>
      m \in relay \cup mesh \cup fetch.held \/ PacketsOf(m) # {}

LEMMA TailHops ==
  ASSUME NEW p \in Paths
  PROVE  p \in Seq(Nodes) /\ (p # <<>> => Tail(p) \in Seq(Nodes))
BY UplinkAssumption DEF Paths

LEMMA InitKept == Init => Shape /\ Kept
BY FS_EmptySet DEF Init, Shape, Kept, NoFetch

\* Packets come and go one at a time.
LEMMA ShapeStep == Shape /\ [Next]_vars => Shape'
<1> SUFFICES ASSUME Shape, [Next]_vars
             PROVE  Shape'
  OBVIOUS
<1>1. CASE Time \/ Arrival \/ ProcessStep \/ (\E k \in Callers : OtherRequest(k)) \/ UNCHANGED vars
  BY <1>1 DEF Time, Arrival, ProcessStep, OtherRequest, Shape, path, vars
<1>2. CASE ReceivePrimary
  BY <1>2 DEF ReceivePrimary, Held, Shape
<1>3. CASE ReceiveMesh
  BY <1>3 DEF ReceiveMesh, NoFetch, In, Shape
<1>4. ASSUME NEW m \in Msgs,
             DirectSend(m) \/ SubmitMessage(m) \/ RelayError(m) \/ ConnectionBreaks(m) \/ Fallback(m)
      PROVE  Shape'
  BY <1>4 DEF DirectSend, SubmitMessage, RelayError, ConnectionBreaks, Fallback, Answered, Returns,
              Shape, path
<1>5. ASSUME NEW m \in Msgs, MixSend(m)
      PROVE  Shape'
  <2>1. UNCHANGED <<asked, relay, mesh, fetch, got>> /\ call' \in [Msgs -> {"idle", "waiting", "error", "ok", "failed"}]
    BY <1>5 DEF MixSend, Returns, Shape
  <2>2. UNCHANGED packets
        \/ \E p \in ChoosePath : packets' = packets \cup {[msg |-> m, hops |-> Tail(p)]}
    BY <1>5 DEF MixSend
  <2>3. \A p \in ChoosePath : Tail(p) \in Seq(Nodes)
    BY TailHops, UplinkAssumption DEF ChoosePath, Paths
  <2>4. IsFiniteSet(packets') /\ packets' \subseteq [msg : Msgs, hops : Seq(Nodes)]
    <3>1. CASE UNCHANGED packets
      BY <3>1 DEF Shape
    <3>2. ASSUME NEW p \in ChoosePath, packets' = packets \cup {[msg |-> m, hops |-> Tail(p)]}
          PROVE  IsFiniteSet(packets') /\ packets' \subseteq [msg : Msgs, hops : Seq(Nodes)]
      <4> DEFINE x == [msg |-> m, hops |-> Tail(p)]
      <4>1. x \in [msg : Msgs, hops : Seq(Nodes)]
        BY <2>3
      <4> HIDE DEF x
      <4>2. packets' = packets \cup {x}
        BY <3>2 DEF x
      <4> QED
        BY <4>1, <4>2, FS_AddElement DEF Shape
    <3> QED
      BY <2>2, <3>1, <3>2
  <2> QED
    BY <2>1, <2>4 DEF Shape
<1>6. ASSUME NEW q \in packets, Forward(q)
      PROVE  Shape'
  <2> DEFINE r == [q EXCEPT !.hops = Tail(@)]
  <2>1. r \in [msg : Msgs, hops : Seq(Nodes)]
    <3>1. q \in [msg : Msgs, hops : Seq(Nodes)] /\ q.hops \in Seq(Nodes) /\ q.hops # <<>>
      BY <1>6 DEF Forward, Shape
    <3>2. Tail(q.hops) \in Seq(Nodes)
      BY <3>1
    <3> QED BY <3>1, <3>2
  <2>2. packets' = (packets \ {q}) \cup {r} /\ UNCHANGED <<call, asked, relay, mesh, fetch, got>>
    BY <1>6 DEF Forward
  <2>3. IsFiniteSet(packets')
    BY <2>2, FS_AddElement, FS_RemoveElement DEF Shape
  <2> HIDE DEF r
  <2> QED
    BY <2>1, <2>2, <2>3 DEF Shape
<1>7. ASSUME NEW q \in packets, Deliver(q) \/ HopFails(q)
      PROVE  Shape'
  <2>1. packets' = packets \ {q} /\ IsFiniteSet(packets')
    BY <1>7, FS_RemoveElement DEF Deliver, HopFails, Shape
  <2> QED
    BY <1>7, <2>1 DEF Deliver, HopFails, Shape
<1> QED
  BY <1>1, <1>2, <1>3, <1>4, <1>5, <1>6, <1>7 DEF Next

LEMMA KeptStep == Shape /\ Kept /\ [Next]_vars => Kept'
<1> SUFFICES ASSUME Shape, Kept, [Next]_vars
             PROVE  Kept'
  OBVIOUS
<1>1. ASSUME Time \/ Arrival \/ ProcessStep \/ (\E k \in Callers : OtherRequest(k)) \/ UNCHANGED vars
      PROVE  Kept'
  BY <1>1 DEF Time, Arrival, ProcessStep, OtherRequest, Kept, PacketsOf, path, vars
<1>2. ASSUME ReceivePrimary
      PROVE  Kept'
  BY <1>2 DEF ReceivePrimary, Held, Shape, Kept, PacketsOf
<1>3. ASSUME ReceiveMesh
      PROVE  Kept'
  BY <1>3 DEF ReceiveMesh, NoFetch, In, Shape, Kept, PacketsOf
<1>4. ASSUME NEW m \in Msgs, DirectSend(m)
      PROVE  Kept'
  BY <1>4 DEF DirectSend, Returns, Shape, Kept, PacketsOf
<1>5. ASSUME NEW m \in Msgs, SubmitMessage(m)
      PROVE  Kept'
  BY <1>5 DEF SubmitMessage, Answered, Returns, Shape, Kept, PacketsOf
<1>6. ASSUME NEW m \in Msgs, RelayError(m) \/ ConnectionBreaks(m)
      PROVE  Kept'
  BY <1>6 DEF RelayError, ConnectionBreaks, Answered, Returns, Shape, Kept, PacketsOf, path
<1>7. ASSUME NEW m \in Msgs, MixSend(m)
      PROVE  Kept'
  <2>1. PacketsOf(m)' # {} \/ call'[m] = "error"
    <3>1. \/ call' = [call EXCEPT ![m] = "error"]
          \/ \E p \in ChoosePath : packets' = packets \cup {[msg |-> m, hops |-> Tail(p)]}
      BY <1>7 DEF MixSend, Returns
    <3>2. ASSUME NEW p \in ChoosePath, packets' = packets \cup {[msg |-> m, hops |-> Tail(p)]}
          PROVE  PacketsOf(m)' # {}
      <4>1. [msg |-> m, hops |-> Tail(p)] \in PacketsOf(m)'
        BY <3>2 DEF PacketsOf
      <4> QED
        BY <4>1
    <3> QED
      BY <3>1, <3>2 DEF Shape
  <2>2. \A k \in Msgs \ {m} : call'[k] = call[k] /\ PacketsOf(k) \subseteq PacketsOf(k)'
    <3>1. packets \subseteq packets'
      BY <1>7 DEF MixSend
    <3>2. \A k \in Msgs \ {m} : call'[k] = call[k]
      BY <1>7 DEF MixSend, Returns, Shape
    <3> QED BY <3>1, <3>2 DEF PacketsOf
  <2>3. UNCHANGED <<relay, mesh, fetch, got, lost>>
    BY <1>7 DEF MixSend
  <2> QED
    BY <2>1, <2>2, <2>3 DEF Kept
<1>8. ASSUME NEW m \in Msgs, Fallback(m)
      PROVE  Kept'
  BY <1>8 DEF Fallback, Returns, Shape, Kept, PacketsOf
<1>9. ASSUME NEW q \in packets, Forward(q)
      PROVE  Kept'
  <2> DEFINE r == [q EXCEPT !.hops = Tail(@)]
  <2>1. r.msg = q.msg /\ packets' = (packets \ {q}) \cup {r}
    BY <1>9 DEF Forward, Shape
  <2>2. \A m \in Msgs : PacketsOf(m) # {} => PacketsOf(m)' # {}
    <3> HIDE DEF r
    <3> QED BY <2>1 DEF PacketsOf
  <2>3. UNCHANGED <<call, relay, mesh, fetch, got, lost>>
    BY <1>9 DEF Forward
  <2> QED
    BY <2>2, <2>3 DEF Kept
<1>10. ASSUME NEW q \in packets, Deliver(q) \/ HopFails(q)
      PROVE  Kept'
  BY <1>10 DEF Deliver, HopFails, Shape, Kept, PacketsOf
<1> QED
  BY <1>1, <1>2, <1>3, <1>4, <1>5, <1>6, <1>7, <1>8, <1>9, <1>10 DEF Next

\* A message that is somewhere has a copy.
LEMMA CopiesCount ==
  ASSUME Shape, NEW m \in Msgs
  PROVE  /\ Cardinality(PacketsOf(m)) \in Nat
         /\ PacketsOf(m) # {} <=> Cardinality(PacketsOf(m)) > 0
<1>1. IsFiniteSet(PacketsOf(m))
  BY FS_Subset DEF Shape, PacketsOf
<1> QED
  BY <1>1, FS_CardinalityType, FS_EmptySet DEF PacketsOf

\* A message whose sender was told that it was sent is returned by a later
\* receive, or lost for one of the reasons named; never by the fallback.
THEOREM NothingLost == Spec => []LossForCause
<1>1. Shape /\ Kept => LossForCause
  <2> SUFFICES ASSUME Shape, Kept, NEW m \in Msgs, call[m] = "ok", got[m] = 0, m \notin lost
               PROVE  Copies(m) > 0
    BY DEF LossForCause
  <2>1. m \in relay \cup mesh \cup fetch.held \/ PacketsOf(m) # {}
    BY DEF Kept
  <2> QED
    BY <2>1, CopiesCount DEF Copies, In, PacketsOf
<1> QED
  BY <1>1, InitKept, ShapeStep, KeptStep, PTL DEF Spec

----------------------------------------------------------------------------
(* Copies *)

Nowhere(m) == m \notin asked \cup relay \cup mesh \cup fetch.held /\ PacketsOf(m) = {}

\* At most one copy, returned or under way.
OnePlace(m) ==
  /\ m \in asked => m \notin relay \cup mesh \cup fetch.held /\ PacketsOf(m) = {}
  /\ m \in relay => m \notin mesh \cup fetch.held /\ PacketsOf(m) = {}
  /\ m \in mesh => m \notin fetch.held /\ PacketsOf(m) = {}
  /\ m \in fetch.held => PacketsOf(m) = {}
  /\ \A q, r \in PacketsOf(m) : q = r
  /\ got[m] = 0 \/ (got[m] = 1 /\ Nowhere(m))

\* The fallback is only used for a message that is nowhere, unless its sender
\* was told of a failure that was none.
Single ==
  \A m \in Msgs : m \notin unsure =>
    /\ OnePlace(m)
    /\ m \in asked <=> call[m] = "waiting"
    /\ call[m] \in {"idle", "error", "failed"} => Nowhere(m) /\ got[m] = 0

LEMMA InitSingle == Init => Single
BY DEF Init, Single, OnePlace, Nowhere, PacketsOf, NoFetch

\* A step that leaves a message where it is.
LEMMA Untouched ==
  ASSUME NEW m \in Msgs, Single, unsure \subseteq unsure',
         PacketsOf(m)' = PacketsOf(m), got'[m] = got[m], call'[m] = call[m],
         m \in asked' <=> m \in asked, m \in relay' <=> m \in relay, m \in mesh' <=> m \in mesh,
         m \in fetch'.held <=> m \in fetch.held, m \notin unsure'
  PROVE  /\ OnePlace(m)'
         /\ (m \in asked <=> call[m] = "waiting")'
         /\ (call[m] \in {"idle", "error", "failed"} => Nowhere(m) /\ got[m] = 0)'
BY DEF Single, OnePlace, Nowhere

LEMMA SingleStep == Shape /\ Single /\ [Next]_vars => Single'
<1> SUFFICES ASSUME Shape, Single, [Next]_vars
             PROVE  Single'
  OBVIOUS
<1>1. ASSUME Time \/ Arrival \/ ProcessStep \/ (\E k \in Callers : OtherRequest(k)) \/ UNCHANGED vars
      PROVE  Single'
  BY <1>1 DEF Time, Arrival, ProcessStep, OtherRequest, Single, OnePlace, Nowhere, PacketsOf, path, vars
<1>2. ASSUME ReceivePrimary
      PROVE  Single'
  <2>1. UNCHANGED <<call, asked, packets, mesh, got, unsure>> /\ fetch.held = {}
    BY <1>2 DEF ReceivePrimary, Shape
  <2>2. \/ relay' = {} /\ fetch'.held = relay
        \/ relay' = {} /\ fetch'.held = {}
        \/ relay' = relay /\ fetch'.held = {}
    BY <1>2 DEF ReceivePrimary, Held
  <2> QED
    BY <2>1, <2>2 DEF Single, OnePlace, Nowhere, PacketsOf
<1>3. ASSUME ReceiveMesh
      PROVE  Single'
  <2>1. UNCHANGED <<call, asked, packets, relay, unsure>> /\ fetch'.held = {}
    BY <1>3 DEF ReceiveMesh, NoFetch
  <2>2. PICK found \in {{}, mesh} :
          /\ mesh' = mesh \ found
          /\ got' = [m \in Msgs |-> got[m] + In(m, fetch.held) + In(m, found)]
    BY <1>3 DEF ReceiveMesh
  <2>3. SUFFICES ASSUME NEW m \in Msgs, m \notin unsure
                 PROVE  /\ OnePlace(m)'
                        /\ (m \in asked <=> call[m] = "waiting")'
                        /\ (call[m] \in {"idle", "error", "failed"} => Nowhere(m) /\ got[m] = 0)'
    BY <2>1 DEF Single
  <2>4. got'[m] = got[m] + In(m, fetch.held) + In(m, found) /\ PacketsOf(m)' = PacketsOf(m) /\ got[m] \in Nat
    BY <2>1, <2>2 DEF PacketsOf, Shape
  <2> QED
    BY <2>1, <2>2, <2>3, <2>4 DEF Single, OnePlace, Nowhere, In
<1>4. ASSUME NEW m \in Msgs,
             \/ DirectSend(m) \/ SubmitMessage(m) \/ RelayError(m) \/ ConnectionBreaks(m) \/ Fallback(m)
      PROVE  Single'
  <2>1. /\ UNCHANGED <<packets, fetch, got>> /\ unsure \subseteq unsure'
        /\ \A k \in Msgs : PacketsOf(k)' = PacketsOf(k)
        /\ \A k \in Msgs \ {m} : call'[k] = call[k]
        /\ \A k \in Msgs \ {m} : k \in asked' <=> k \in asked
        /\ \A k \in Msgs \ {m} : k \in relay' <=> k \in relay
        /\ \A k \in Msgs \ {m} : k \in mesh' <=> k \in mesh
    BY <1>4 DEF DirectSend, SubmitMessage, RelayError, ConnectionBreaks, Fallback, Answered, Returns,
                Shape, PacketsOf, path
  <2>2. ASSUME NEW k \in Msgs \ {m}, k \notin unsure'
        PROVE  /\ OnePlace(k)'
               /\ (k \in asked <=> call[k] = "waiting")'
               /\ (call[k] \in {"idle", "error", "failed"} => Nowhere(k) /\ got[k] = 0)'
    BY <2>1, <2>2, Untouched
  <2>3. ASSUME m \notin unsure'
        PROVE  /\ OnePlace(m)'
               /\ (m \in asked <=> call[m] = "waiting")'
               /\ (call[m] \in {"idle", "error", "failed"} => Nowhere(m) /\ got[m] = 0)'
    <3> USE <2>1, <2>3 DEF Shape, Single, OnePlace, Nowhere, Returns, Answered
    <3>1. CASE DirectSend(m)
      BY <3>1 DEF DirectSend
    <3>2. CASE SubmitMessage(m)
      BY <3>2 DEF SubmitMessage
    <3>3. CASE RelayError(m)
      BY <3>3 DEF RelayError
    <3>4. CASE ConnectionBreaks(m)
      BY <3>4 DEF ConnectionBreaks
    <3>5. CASE Fallback(m)
      BY <3>5 DEF Fallback
    <3> QED
      BY <1>4, <3>1, <3>2, <3>3, <3>4, <3>5
  <2> QED
    BY <2>2, <2>3 DEF Single
<1>5. ASSUME NEW m \in Msgs, MixSend(m)
      PROVE  Single'
  <2>1. /\ UNCHANGED <<asked, relay, mesh, fetch, got>> /\ unsure \subseteq unsure'
        /\ call[m] = "idle" /\ \A k \in Msgs \ {m} : call'[k] = call[k]
    BY <1>5 DEF MixSend, Returns, Shape
  <2>2. \/ call'[m] = "error" /\ UNCHANGED packets
        \/ /\ \E p \in ChoosePath : packets' = packets \cup {[msg |-> m, hops |-> Tail(p)]}
           /\ call'[m] = "ok" \/ m \in unsure'
    BY <1>5 DEF MixSend, Returns, Shape
  <2>3. ASSUME NEW k \in Msgs \ {m}, k \notin unsure'
        PROVE  /\ OnePlace(k)'
               /\ (k \in asked <=> call[k] = "waiting")'
               /\ (call[k] \in {"idle", "error", "failed"} => Nowhere(k) /\ got[k] = 0)'
    <3>1. PacketsOf(k)' = PacketsOf(k)
      BY <2>2 DEF PacketsOf
    <3> QED
      BY <2>1, <2>3, <3>1, Untouched
  <2>4. ASSUME m \notin unsure'
        PROVE  /\ OnePlace(m)'
               /\ (m \in asked <=> call[m] = "waiting")'
               /\ (call[m] \in {"idle", "error", "failed"} => Nowhere(m) /\ got[m] = 0)'
    <3>1. Nowhere(m) /\ got[m] = 0
      BY <2>1, <2>4 DEF Single
    <3>2. \/ call'[m] = "error" /\ PacketsOf(m)' = {}
          \/ call'[m] = "ok" /\ \E x : PacketsOf(m)' = {x}
      <4>1. CASE call'[m] = "error" /\ UNCHANGED packets
        BY <2>2, <2>4, <3>1, <4>1 DEF Nowhere, PacketsOf
      <4>2. ASSUME NEW p \in ChoosePath, packets' = packets \cup {[msg |-> m, hops |-> Tail(p)]}
            PROVE  \E x : PacketsOf(m)' = {x}
        <5>1. PacketsOf(m)' = {[msg |-> m, hops |-> Tail(p)]}
          BY <3>1, <4>2 DEF Nowhere, PacketsOf
        <5> QED
          BY <5>1
      <4> QED
        BY <2>2, <2>4, <4>1, <4>2, <3>1 DEF Nowhere, PacketsOf
    <3> QED
      BY <2>1, <3>1, <3>2 DEF OnePlace, Nowhere
  <2> QED
    BY <2>3, <2>4 DEF Single
<1>6. ASSUME NEW q \in packets, Forward(q) \/ Deliver(q) \/ HopFails(q)
      PROVE  Single'
  <2> DEFINE m == q.msg
             r == [q EXCEPT !.hops = Tail(@)]
  <2>1. m \in Msgs /\ r.msg = m /\ q \in PacketsOf(m)
    BY DEF Shape, PacketsOf
  <2>2. /\ UNCHANGED <<call, asked, mesh, fetch, got, unsure>>
        /\ \/ packets' = (packets \ {q}) \cup {r} /\ relay' = relay
           \/ packets' = packets \ {q} /\ relay' = relay \cup {m}
           \/ packets' = packets \ {q} /\ relay' = relay
    BY <1>6 DEF Forward, Deliver, HopFails
  <2> HIDE DEF r
  <2>3. ASSUME NEW k \in Msgs \ {m}, k \notin unsure'
        PROVE  /\ OnePlace(k)'
               /\ (k \in asked <=> call[k] = "waiting")'
               /\ (call[k] \in {"idle", "error", "failed"} => Nowhere(k) /\ got[k] = 0)'
    <3>1. PacketsOf(k)' = PacketsOf(k)
      BY <2>1, <2>2 DEF PacketsOf
    <3> QED
      BY <2>2, <2>3, <3>1, Untouched
  <2>4. ASSUME m \notin unsure'
        PROVE  /\ OnePlace(m)'
               /\ (m \in asked <=> call[m] = "waiting")'
               /\ (call[m] \in {"idle", "error", "failed"} => Nowhere(m) /\ got[m] = 0)'
    <3>1. OnePlace(m) /\ PacketsOf(m) = {q} /\ ~Nowhere(m) /\ got[m] = 0
      BY <2>1, <2>2, <2>4 DEF Single, OnePlace, Nowhere
    <3>2. \/ PacketsOf(m)' = {r} /\ relay' = relay
          \/ PacketsOf(m)' = {} /\ relay' \in {relay, relay \cup {m}}
      BY <2>1, <2>2, <3>1 DEF PacketsOf
    <3> QED
      BY <2>1, <2>2, <2>4, <3>1, <3>2 DEF Single, OnePlace, Nowhere
  <2> QED
    BY <2>1, <2>3, <2>4 DEF Single
<1> QED
  BY <1>1, <1>2, <1>3, <1>4, <1>5, <1>6 DEF Next

\* A message of which receive returns two copies, or may yet, is one whose
\* sender was told that it had not been sent although it had.
THEOREM NothingDoubled == Spec => []DuplicateForCause
<1>1. Shape /\ Single => DuplicateForCause
  <2> SUFFICES ASSUME Shape, Single, NEW m \in Msgs, m \notin unsure
               PROVE  ~(got[m] + Copies(m) > 1)
    BY DEF DuplicateForCause
  <2>1. OnePlace(m) /\ got[m] \in Nat
    BY DEF Single, Shape
  <2>2. Cardinality(PacketsOf(m)) \in {0, 1} /\ (PacketsOf(m) = {} => Cardinality(PacketsOf(m)) = 0)
    <3>1. CASE PacketsOf(m) = {}
      BY <3>1, FS_EmptySet
    <3>2. CASE PacketsOf(m) # {}
      <4>1. PICK q \in PacketsOf(m) : TRUE
        BY <3>2
      <4>2. PacketsOf(m) = {q}
        BY <2>1, <4>1 DEF OnePlace
      <4> QED
        BY <3>2, <4>2, FS_Singleton
    <3> QED
      BY <3>1, <3>2
  <2> QED
    BY <2>1, <2>2 DEF Copies, In, OnePlace, Nowhere, PacketsOf
<1> QED
  BY <1>1, InitKept, InitSingle, ShapeStep, SingleStep, PTL DEF Spec

----------------------------------------------------------------------------
(* Types *)

\* On the way of the primary, up to the receive that has asked it.
OnPrimary(m) == m \in asked \cup relay \cup fetch.held \/ PacketsOf(m) # {}

\* The primary has a message once, whatever its sender was told.
OnePrimary(m) ==
  /\ m \in asked => m \notin relay \cup fetch.held /\ PacketsOf(m) = {}
  /\ m \in relay => m \notin fetch.held /\ PacketsOf(m) = {}
  /\ m \in fetch.held => PacketsOf(m) = {}
  /\ \A q, r \in PacketsOf(m) : q = r

\* The mesh has a message only after its send has returned, so that receive
\* returns at most one from each.
AtMostTwice(m) ==
  /\ got[m] \in 0..2
  /\ got[m] = 2 => ~OnPrimary(m) /\ m \notin mesh
  /\ got[m] = 1 => ~OnPrimary(m) \/ m \notin mesh
  /\ call[m] \in {"waiting", "error"} => m \notin mesh /\ got[m] # 2 /\ (got[m] = 1 => ~OnPrimary(m))
  /\ call[m] = "idle" => ~OnPrimary(m) /\ m \notin mesh /\ got[m] = 0

TwoPaths == \A m \in Msgs : OnePrimary(m) /\ AtMostTwice(m)

LEMMA InitTwoPaths == Init => TwoPaths
BY DEF Init, TwoPaths, OnePrimary, AtMostTwice, OnPrimary, PacketsOf, NoFetch

LEMMA OthersTwoPaths ==
  ASSUME NEW m \in Msgs, TwoPaths,
         PacketsOf(m)' = PacketsOf(m), got'[m] = got[m], call'[m] = call[m],
         m \in asked' <=> m \in asked, m \in relay' <=> m \in relay, m \in mesh' <=> m \in mesh,
         m \in fetch'.held <=> m \in fetch.held
  PROVE  OnePrimary(m)' /\ AtMostTwice(m)'
BY DEF TwoPaths, OnePrimary, AtMostTwice, OnPrimary

LEMMA TwoPathsStep == Shape /\ TwoPaths /\ [Next]_vars => TwoPaths'
<1> SUFFICES ASSUME Shape, TwoPaths, [Next]_vars
             PROVE  TwoPaths'
  OBVIOUS
<1>1. ASSUME Time \/ Arrival \/ ProcessStep \/ (\E k \in Callers : OtherRequest(k)) \/ UNCHANGED vars
      PROVE  TwoPaths'
  <2>1. UNCHANGED <<call, asked, packets, relay, mesh, fetch, got>>
    BY <1>1 DEF Time, Arrival, ProcessStep, OtherRequest, path, vars
  <2> QED
    BY <2>1 DEF TwoPaths, OnePrimary, AtMostTwice, OnPrimary, PacketsOf
<1>2. ASSUME ReceivePrimary
      PROVE  TwoPaths'
  <2>1. UNCHANGED <<call, asked, packets, mesh, got>> /\ fetch.held = {}
    BY <1>2 DEF ReceivePrimary, Shape
  <2>2. \/ relay' = {} /\ fetch'.held = relay
        \/ relay' = {} /\ fetch'.held = {}
        \/ relay' = relay /\ fetch'.held = {}
    BY <1>2 DEF ReceivePrimary, Held
  <2> SUFFICES ASSUME NEW m \in Msgs
               PROVE  OnePrimary(m)' /\ AtMostTwice(m)'
    BY DEF TwoPaths
  <2>3. OnePrimary(m) /\ AtMostTwice(m) /\ PacketsOf(m)' = PacketsOf(m)
    BY <2>1 DEF TwoPaths, PacketsOf
  <2>4. OnPrimary(m)' => OnPrimary(m)
    BY <2>1, <2>2, <2>3 DEF OnPrimary
  <2>5. OnePrimary(m)'
    BY <2>1, <2>2, <2>3 DEF OnePrimary
  <2> QED
    BY <2>1, <2>3, <2>4, <2>5 DEF AtMostTwice
<1>3. ASSUME ReceiveMesh
      PROVE  TwoPaths'
  <2>1. UNCHANGED <<call, asked, packets, relay>> /\ fetch'.held = {}
    BY <1>3 DEF ReceiveMesh, NoFetch
  <2>2. PICK found \in {{}, mesh} :
          /\ mesh' = mesh \ found
          /\ got' = [m \in Msgs |-> got[m] + In(m, fetch.held) + In(m, found)]
    BY <1>3 DEF ReceiveMesh
  <2> SUFFICES ASSUME NEW m \in Msgs
               PROVE  OnePrimary(m)' /\ AtMostTwice(m)'
    BY DEF TwoPaths
  <2>3. OnePrimary(m) /\ AtMostTwice(m) /\ PacketsOf(m)' = PacketsOf(m)
    BY <2>1 DEF TwoPaths, PacketsOf
  <2>4. got'[m] = got[m] + In(m, fetch.held) + In(m, found)
    BY <2>2
  <2>5. OnePrimary(m)'
    BY <2>1, <2>3 DEF OnePrimary
  <2>6. CASE m \in fetch.held
    <3>1. OnPrimary(m) /\ ~OnPrimary(m)'
      BY <2>1, <2>3, <2>6 DEF OnPrimary, OnePrimary
    <3> QED
      BY <2>1, <2>2, <2>3, <2>4, <2>5, <2>6, <3>1 DEF AtMostTwice, In
  <2>7. CASE m \notin fetch.held
    <3>1. OnPrimary(m)' <=> OnPrimary(m)
      BY <2>1, <2>3, <2>7 DEF OnPrimary
    <3> QED
      BY <2>1, <2>2, <2>3, <2>4, <2>5, <2>7, <3>1 DEF AtMostTwice, In
  <2> QED
    BY <2>6, <2>7
<1>4. ASSUME NEW m \in Msgs,
             \/ DirectSend(m) \/ SubmitMessage(m) \/ RelayError(m) \/ ConnectionBreaks(m) \/ Fallback(m)
      PROVE  TwoPaths'
  <2>1. /\ UNCHANGED <<packets, fetch, got>>
        /\ \A k \in Msgs : PacketsOf(k)' = PacketsOf(k)
        /\ \A k \in Msgs \ {m} : call'[k] = call[k]
        /\ \A k \in Msgs \ {m} : k \in asked' <=> k \in asked
        /\ \A k \in Msgs \ {m} : k \in relay' <=> k \in relay
        /\ \A k \in Msgs \ {m} : k \in mesh' <=> k \in mesh
    BY <1>4 DEF DirectSend, SubmitMessage, RelayError, ConnectionBreaks, Fallback, Answered, Returns,
                Shape, PacketsOf, path
  <2>2. \A k \in Msgs \ {m} : OnePrimary(k)' /\ AtMostTwice(k)'
    BY <2>1, OthersTwoPaths
  <2>3. OnePrimary(m)' /\ AtMostTwice(m)'
    <3> USE <2>1 DEF Shape, TwoPaths, OnePrimary, AtMostTwice, OnPrimary, Returns, Answered
    <3>1. CASE DirectSend(m)
      BY <3>1 DEF DirectSend
    <3>2. CASE SubmitMessage(m)
      BY <3>2 DEF SubmitMessage
    <3>3. CASE RelayError(m)
      BY <3>3 DEF RelayError
    <3>4. CASE ConnectionBreaks(m)
      BY <3>4 DEF ConnectionBreaks, path
    <3>5. CASE Fallback(m)
      BY <3>5 DEF Fallback
    <3> QED
      BY <1>4, <3>1, <3>2, <3>3, <3>4, <3>5
  <2> QED
    BY <2>2, <2>3 DEF TwoPaths
<1>5. ASSUME NEW m \in Msgs, MixSend(m)
      PROVE  TwoPaths'
  <2>1. /\ UNCHANGED <<asked, relay, mesh, fetch, got>>
        /\ call[m] = "idle" /\ call'[m] \in {"ok", "error"}
        /\ \A k \in Msgs \ {m} : call'[k] = call[k]
    BY <1>5 DEF MixSend, Returns, Shape
  <2>2. UNCHANGED packets \/ \E p \in ChoosePath : packets' = packets \cup {[msg |-> m, hops |-> Tail(p)]}
    BY <1>5 DEF MixSend
  <2>3. ASSUME NEW k \in Msgs \ {m}
        PROVE  OnePrimary(k)' /\ AtMostTwice(k)'
    <3>1. PacketsOf(k)' = PacketsOf(k)
      BY <2>2 DEF PacketsOf
    <3> QED
      BY <2>1, <3>1, OthersTwoPaths
  <2>4. ~OnPrimary(m) /\ m \notin mesh /\ got[m] = 0
    BY <2>1 DEF TwoPaths, AtMostTwice
  <2>5. \A q, r \in PacketsOf(m)' : q = r
    BY <2>2, <2>4 DEF OnPrimary, PacketsOf
  <2>6. OnePrimary(m)' /\ AtMostTwice(m)'
    BY <2>1, <2>4, <2>5 DEF OnePrimary, AtMostTwice, OnPrimary
  <2> QED
    BY <2>3, <2>6 DEF TwoPaths
<1>6. ASSUME NEW q \in packets, Forward(q) \/ Deliver(q) \/ HopFails(q)
      PROVE  TwoPaths'
  <2> DEFINE m == q.msg
             r == [q EXCEPT !.hops = Tail(@)]
  <2>1. m \in Msgs /\ r.msg = m /\ q \in PacketsOf(m)
    BY DEF Shape, PacketsOf
  <2>2. /\ UNCHANGED <<call, asked, mesh, fetch, got>>
        /\ \/ packets' = (packets \ {q}) \cup {r} /\ relay' = relay
           \/ packets' = packets \ {q} /\ relay' \in {relay, relay \cup {m}}
    BY <1>6 DEF Forward, Deliver, HopFails
  <2> HIDE DEF r
  <2>3. ASSUME NEW k \in Msgs \ {m}
        PROVE  OnePrimary(k)' /\ AtMostTwice(k)'
    <3>1. PacketsOf(k)' = PacketsOf(k)
      BY <2>1, <2>2 DEF PacketsOf
    <3> QED
      BY <2>2, <3>1, OthersTwoPaths
  <2>4. OnPrimary(m) /\ PacketsOf(m) = {q} /\ m \notin asked \cup relay \cup fetch.held
    BY <2>1 DEF TwoPaths, OnePrimary, OnPrimary
  <2>5. \/ PacketsOf(m)' = {r} /\ relay' = relay
        \/ PacketsOf(m)' = {} /\ relay' \in {relay, relay \cup {m}}
    BY <2>1, <2>2, <2>4 DEF PacketsOf
  <2>6. OnePrimary(m)' /\ AtMostTwice(m)'
    BY <2>1, <2>2, <2>4, <2>5 DEF TwoPaths, OnePrimary, AtMostTwice, OnPrimary
  <2> QED
    BY <2>3, <2>6 DEF TwoPaths
<1> QED
  BY <1>1, <1>2, <1>3, <1>4, <1>5, <1>6 DEF Next

\* No hop of a packet comes twice.
Distinct(hops) == \A i, j \in DOMAIN hops : hops[i] = hops[j] => i = j

LEMMA DistinctCount ==
  ASSUME NEW hops \in Seq(Nodes), Distinct(hops)
  PROVE  Cardinality({hops[i] : i \in DOMAIN hops}) = Len(hops)
<1> DEFINE T == {hops[i] : i \in DOMAIN hops}
<1>1. DOMAIN hops = 1 .. Len(hops) /\ Len(hops) \in Nat
  OBVIOUS
<1>2. IsFiniteSet(1 .. Len(hops)) /\ Cardinality(1 .. Len(hops)) = Len(hops)
  <2>1. ASSUME NEW k \in Nat
        PROVE  IsFiniteSet(1 .. k) /\ Cardinality(1 .. k) = k
    BY FS_Interval
  <2> QED
    BY <1>1, <2>1
<1>3. hops \in Bijection(1 .. Len(hops), T)
  BY <1>1 DEF Distinct, Bijection, Injection, Surjection, IsInjective
<1>4. ExistsBijection(1 .. Len(hops), T)
  BY <1>3 DEF ExistsBijection
<1> QED
  BY <1>2, <1>4, FS_Bijection

LEMMA DistinctTail ==
  ASSUME NEW hops \in Seq(Nodes), hops # <<>>, Distinct(hops)
  PROVE  Distinct(Tail(hops))
<1>1. /\ DOMAIN Tail(hops) = 1 .. (Len(hops) - 1)
      /\ \A i \in 1 .. (Len(hops) - 1) : Tail(hops)[i] = hops[i + 1] /\ i + 1 \in DOMAIN hops
  OBVIOUS
<1> QED
  BY <1>1 DEF Distinct

Routed ==
  /\ \A q \in packets : Distinct(q.hops)
  /\ lost \cup unsure \subseteq Msgs

LEMMA RoutedStep == Shape /\ Routed /\ [Next]_vars => Routed'
<1> SUFFICES ASSUME Shape, Routed, [Next]_vars
             PROVE  Routed'
  OBVIOUS
<1>1. ASSUME UNCHANGED packets, lost' \cup unsure' \subseteq Msgs
      PROVE  Routed'
  BY <1>1 DEF Routed
<1>2. ASSUME Time \/ Arrival \/ ProcessStep \/ ReceivePrimary \/ ReceiveMesh \/ (\E k \in Callers : OtherRequest(k)) \/ UNCHANGED vars
      PROVE  Routed'
  <2>1. UNCHANGED packets /\ lost' \subseteq lost \cup relay /\ unsure' = unsure
    BY <1>2 DEF Time, Arrival, ProcessStep, ReceivePrimary, ReceiveMesh, OtherRequest, path, vars
  <2> QED
    BY <1>1, <2>1 DEF Routed, Shape
<1>3. ASSUME NEW m \in Msgs,
             \/ DirectSend(m) \/ SubmitMessage(m) \/ RelayError(m) \/ ConnectionBreaks(m) \/ Fallback(m)
      PROVE  Routed'
  <2>1. UNCHANGED packets /\ lost' = lost /\ unsure' \subseteq unsure \cup {m}
    BY <1>3 DEF DirectSend, SubmitMessage, RelayError, ConnectionBreaks, Fallback, path
  <2> QED
    BY <1>1, <2>1 DEF Routed
<1>4. ASSUME NEW m \in Msgs, MixSend(m)
      PROVE  Routed'
  <2>1. lost' = lost /\ unsure' \subseteq unsure \cup {m}
    BY <1>4 DEF MixSend
  <2>2. CASE UNCHANGED packets
    BY <1>1, <2>1, <2>2 DEF Routed
  <2>3. ASSUME NEW p \in ChoosePath, packets' = packets \cup {[msg |-> m, hops |-> Tail(p)]}
        PROVE  Routed'
    <3>1. /\ p \in Seq(Nodes) /\ p # <<>> /\ Distinct(p)
      <4>1. p \in Paths /\ PathLength \in Nat \ {0} /\ \A i, j \in 1 .. PathLength : p[i] = p[j] => i = j
        BY UplinkAssumption DEF ChoosePath
      <4> QED
        BY <4>1 DEF Paths, Distinct
    <3> DEFINE x == [msg |-> m, hops |-> Tail(p)]
    <3>2. Distinct(x.hops)
      BY <3>1, DistinctTail
    <3>3. packets' = packets \cup {x}
      BY <2>3
    <3>4. lost' \cup unsure' \subseteq Msgs
      BY <2>1 DEF Routed
    <3> HIDE DEF x
    <3>5. \A q \in packets' : Distinct(q.hops)
      BY <3>2, <3>3 DEF Routed
    <3> QED
      BY <3>4, <3>5 DEF Routed
  <2> QED
    BY <1>4, <2>2, <2>3 DEF MixSend
<1>5. ASSUME NEW q \in packets, Forward(q) \/ Deliver(q) \/ HopFails(q)
      PROVE  Routed'
  <2>1. q \in [msg : Msgs, hops : Seq(Nodes)] /\ Distinct(q.hops)
    BY DEF Shape, Routed
  <2>2. lost' \subseteq lost \cup {q.msg} /\ unsure' = unsure
    BY <1>5 DEF Forward, Deliver, HopFails
  <2>3. CASE Forward(q)
    <3> DEFINE r == [q EXCEPT !.hops = Tail(@)]
    <3>1. q.hops # <<>> /\ packets' = (packets \ {q}) \cup {r} /\ r.hops = Tail(q.hops)
      BY <2>1, <2>3 DEF Forward
    <3>2. Distinct(r.hops)
      BY <2>1, <3>1, DistinctTail
    <3> HIDE DEF r
    <3> QED
      BY <2>1, <2>2, <3>1, <3>2 DEF Routed
  <2>4. CASE Deliver(q) \/ HopFails(q)
    BY <2>1, <2>2, <2>4 DEF Deliver, HopFails, Routed
  <2> QED
    BY <1>5, <2>3, <2>4
<1> QED
  BY <1>2, <1>3, <1>4, <1>5 DEF Next

\* Types; receive returns a message at most twice, once from each transport,
\* and a packet never comes to a hop again.
THEOREM TypeCorrect == Spec => []TypeOK
<1>1. Budget /\ Agreed /\ Shape /\ TwoPaths /\ Routed => TypeOK
  <2> SUFFICES ASSUME Budget, Agreed, Shape, TwoPaths, Routed
               PROVE  TypeOK
    OBVIOUS
  <2>1. LimiterTypeOK
    BY DEF Budget
  <2>2. MixNodeTypeOK
    BY NodesAssumption DEF Agreed, Types, MixNodeTypeOK, Keys, NoKey
  <2>3. got \in [Msgs -> 0..2]
    BY DEF Shape, TwoPaths, AtMostTwice
  <2>4. ASSUME NEW q \in packets
        PROVE  Cardinality({q.hops[i] : i \in DOMAIN q.hops}) = Len(q.hops)
    BY DistinctCount DEF Shape, Routed
  <2>5. asked \cup relay \cup mesh \cup fetch.held \cup unsure \cup lost \subseteq Msgs
    BY DEF Shape, Routed
  <2> QED
    BY <2>1, <2>2, <2>3, <2>4, <2>5 DEF Shape, TypeOK
<1>2. Init => Budget /\ Agreed /\ Shape /\ TwoPaths /\ Routed
  BY InitBudget, InitAgreed, InitKept, InitTwoPaths DEF Init, Routed
<1>3. Budget /\ Agreed /\ Shape /\ TwoPaths /\ Routed /\ [Next]_vars
      => (Budget /\ Agreed /\ Shape /\ TwoPaths /\ Routed)'
  BY LimiterSteps, StepBudget, MixNodeSteps, StepAgreed, ShapeStep, TwoPathsStep, RoutedStep
<1> QED
  BY <1>1, <1>2, <1>3, PTL DEF Spec
=============================================================================
