------------------------------- MODULE Uplink -------------------------------
(***************************************************************************)
(* Messages on their way through a HybridTransport (mesh/src/hybrid.rs):   *)
(* its primary is the direct transport, through the gateway and its rate   *)
(* limiter, or the mix network; its fallback is the mesh.                  *)
(*                                                                         *)
(* Which primary a deployment has is settled at the start, and the servers *)
(* of the other one stand still.  Relay and mesh are the sets of what they *)
(* hold: RelayPull and MeshTransport look inside them.                     *)
(***************************************************************************)
EXTENDS RateLimiter, MixNode, Sequences

CONSTANTS
  Msgs,
  Deployments, \* which primary there is; as bounds the messages that are sent, and the time
  Sender,      \* who sends a message, a caller of the gateway
  Recipient,   \* a caller of the gateway too
  Sealed,      \* messages the mesh takes: sealed, with a dead-drop address
  ApiKeys,     \* callers with a valid key; none: authentication is disabled
  PathLength,
  MinPathLength

ASSUME UplinkAssumption ==
  /\ Deployments \subseteq [primary : {"direct", "mix"}, sent : SUBSET Msgs, time : Nat]
  /\ Sender \in [Msgs -> Callers] /\ Recipient \in Callers
  /\ Sealed \subseteq Msgs /\ ApiKeys \subseteq Callers
  /\ PathLength \in Nat /\ MinPathLength \in Nat \ {0}

VARIABLES
  deployment,
  call,     \* per message: the state of HybridTransport::send
  asked,    \* messages the gateway is passing on to the relay
  packets,  \* the mix packets under way: message and hops still to come
  relay,    \* messages in the relay's queue
  mesh,     \* messages the mesh carries
  fetch,    \* HybridTransport::receive: whether it has asked the primary, and what it got
  got,      \* per message: how often receive has returned it
  unsure,   \* history: messages taken whose sender was told otherwise
  lost      \* history: messages lost by a hop, or with an answer of the relay

path == <<asked, packets, relay, mesh>>
vars == <<limiter, mixnodes, deployment, call, path, fetch, got, unsure, lost>>

Primary == deployment.primary

Paths == [1..PathLength -> Nodes]
NoFetch == [at |-> "idle", held |-> {}]

Init ==
  /\ LimiterInit /\ MixNodeInit
  /\ deployment \in Deployments /\ since <= deployment.time
  /\ call = [m \in Msgs |-> "idle"]
  /\ asked = {} /\ packets = {} /\ relay = {} /\ mesh = {}
  /\ fetch = NoFetch
  /\ got = [m \in Msgs |-> 0]
  /\ unsure = {} /\ lost = {}

Returns(m, result) == call' = [call EXCEPT ![m] = result]

----------------------------------------------------------------------------
(* The gateway *)

AuthEnabled == ApiKeys # {}

\* Authentication comes first: a refused key never gets to the limiter.
Refused(k) == AuthEnabled /\ k \notin ApiKeys

Arrival ==
  /\ Primary = "direct"
  /\ \E w \in Workers, k \in Callers : ~Refused(k) /\ Arrive(w, k)
  /\ UNCHANGED <<mixnodes, deployment, call, path, fetch, got, unsure, lost>>

\* One of k's requests gets its answer from the limiter; which of them it is
\* makes no difference before that.
Middleware(k, ok) ==
  \/ Refused(k) /\ ~ok /\ UNCHANGED limiter
  \/ \E w \in Workers : request[w] # NoRequest /\ request[w].caller = k /\ TryAcquire(w, ok)

\* What a client sees of it: a request that cannot get there fails as well.
Call(k, ok) == Middleware(k, ok) \/ (~ok /\ UNCHANGED limiter)

\* Any other route of the gateway.
OtherRequest(k) ==
  /\ Primary = "direct"
  /\ \E ok \in BOOLEAN : Middleware(k, ok)
  /\ UNCHANGED <<mixnodes, deployment, call, path, fetch, got, unsure, lost>>

Time == Primary = "direct" /\ clock < deployment.time /\ Tick /\ UNCHANGED <<mixnodes, deployment, call, path, fetch, got, unsure, lost>>

\* DirectTransport::send, up to the gateway's answer to it, if it has one yet.
DirectSend(m) ==
  /\ Primary = "direct" /\ m \in deployment.sent /\ call[m] = "idle"
  /\ \E ok \in BOOLEAN :
       /\ Call(Sender[m], ok)
       /\ Returns(m, IF ok THEN "waiting" ELSE "error")
       /\ asked' = IF ok THEN asked \cup {m} ELSE asked
  /\ UNCHANGED <<mixnodes, deployment, packets, relay, mesh, fetch, got, unsure, lost>>

\* What the sender hears, unless it has stopped listening.
Answered(m, result) == Returns(m, IF call[m] = "waiting" THEN result ELSE call[m])

\* The relay has taken it and the gateway passes the status on, or the
\* relay's answer did not come and the gateway says 502.
SubmitMessage(m) ==
  /\ m \in asked
  /\ asked' = asked \ {m}
  /\ relay' = relay \cup {m}
  /\ \/ Answered(m, "ok") /\ UNCHANGED unsure
     \/ Answered(m, "error") /\ unsure' = unsure \cup {m}
  /\ UNCHANGED <<limiter, mixnodes, deployment, packets, mesh, fetch, got, lost>>

\* The relay cannot be reached: 502.
RelayError(m) ==
  /\ m \in asked
  /\ asked' = asked \ {m}
  /\ Answered(m, "error")
  /\ UNCHANGED <<limiter, mixnodes, deployment, packets, relay, mesh, fetch, got, unsure, lost>>

\* The sender's connection breaks while the gateway is at work.
ConnectionBreaks(m) ==
  /\ call[m] = "waiting"
  /\ Returns(m, "error")
  /\ unsure' = unsure \cup {m}
  /\ UNCHANGED <<limiter, mixnodes, deployment, path, fetch, got, lost>>

----------------------------------------------------------------------------
(* The mix network *)

ProcessStep ==
  /\ Primary = "mix"
  /\ MixNodeNext
  /\ UNCHANGED <<limiter, deployment, call, path, fetch, got, unsure, lost>>

\* Faulty variant: a node may be drawn again.
ChooseWithRepeats ==
  IF PathLength < MinPathLength THEN {}
  ELSE {p \in Paths : \A i \in 1..PathLength : known[p[i]] # NoKey}

\* None when the path is too short or the topology too small: an error.
ChoosePath ==
  IF PathLength < MinPathLength THEN {}
  ELSE {p \in Paths : /\ \A i \in 1..PathLength : known[p[i]] # NoKey
                      /\ \A i, j \in 1..PathLength : p[i] = p[j] => i = j}

\* Whether the first hop can unwrap the packet decides its answer.
MixSend(m) ==
  /\ Primary = "mix" /\ m \in deployment.sent /\ call[m] = "idle"
  /\ \/ ChoosePath = {} /\ Returns(m, "error") /\ UNCHANGED <<packets, unsure>>
     \/ \E p \in ChoosePath :
          \/ ~ProcessPacket(p[1]) /\ Returns(m, "error") /\ UNCHANGED <<packets, unsure>>
          \/ /\ ProcessPacket(p[1])
             /\ packets' = packets \cup {[msg |-> m, hops |-> Tail(p)]}
             /\ \/ Returns(m, "ok") /\ UNCHANGED unsure
                \/ Returns(m, "error") /\ unsure' = unsure \cup {m}
  /\ UNCHANGED <<limiter, mixnodes, deployment, asked, relay, mesh, fetch, got, lost>>

\* The delay is over; the next hop takes the packet, which this one forgets.
Forward(q) ==
  /\ q.hops # <<>> /\ ProcessPacket(Head(q.hops))
  /\ packets' = (packets \ {q}) \cup {[q EXCEPT !.hops = Tail(@)]}
  /\ UNCHANGED <<limiter, mixnodes, deployment, call, asked, relay, mesh, fetch, got, unsure, lost>>

Deliver(q) ==
  /\ q.hops = <<>>
  /\ packets' = packets \ {q}
  /\ relay' = relay \cup {q.msg}
  /\ UNCHANGED <<limiter, mixnodes, deployment, call, asked, mesh, fetch, got, unsure, lost>>

\* A hop that cannot reach the next one, or the relay, logs it; so does one
\* that is refused, and one that stops during the delay does not even that.
HopFails(q) ==
  /\ packets' = packets \ {q}
  /\ lost' = lost \cup {q.msg}
  /\ UNCHANGED <<limiter, mixnodes, deployment, call, asked, relay, mesh, fetch, got, unsure>>

----------------------------------------------------------------------------
(* The hybrid transport *)

\* Faulty variant: the fallback is taken when the primary is slow to answer.
FallbackOnDelay(m) ==
  /\ call[m] \in {"waiting", "error"}
  /\ \/ m \in Sealed /\ mesh' = mesh \cup {m} /\ Returns(m, "ok")
     \/ Returns(m, "failed") /\ UNCHANGED mesh
  /\ UNCHANGED <<limiter, mixnodes, deployment, asked, packets, relay, fetch, got, unsure, lost>>

\* After an error of the primary, whatever it means: a copy for the mesh,
\* which refuses it when it is not sealed or its store has no room for it.
Fallback(m) ==
  /\ call[m] = "error"
  /\ \/ m \in Sealed /\ mesh' = mesh \cup {m} /\ Returns(m, "ok")
     \/ Returns(m, "failed") /\ UNCHANGED mesh
  /\ UNCHANGED <<limiter, mixnodes, deployment, asked, packets, relay, fetch, got, unsure, lost>>

In(m, ms) == IF m \in ms THEN 1 ELSE 0

Held(ms) == fetch' = [at |-> "mesh", held |-> ms]

\* The primary's receive; an error (refused, unreachable, or its answer lost
\* with what was in it) counts as nothing there.
ReceivePrimary ==
  /\ fetch.at = "idle"
  /\ \E ok \in BOOLEAN :
       /\ IF Primary = "direct" THEN Call(Recipient, ok) ELSE UNCHANGED limiter
       /\ \/ ok /\ relay' = {} /\ Held(relay) /\ UNCHANGED lost
          \/ ok /\ relay' = {} /\ Held({}) /\ lost' = lost \cup relay
          \/ Held({}) /\ UNCHANGED <<relay, lost>>
  /\ UNCHANGED <<mixnodes, deployment, call, asked, packets, mesh, got, unsure>>

\* Faulty variant: an error of the mesh is an error of receive.
ReceiveMeshOrFail ==
  /\ fetch.at = "mesh"
  /\ \/ mesh' = {} /\ got' = [m \in Msgs |->
          got[m] + In(m, fetch.held) + In(m, mesh)]
     \/ UNCHANGED <<mesh, got>>
  /\ fetch' = NoFetch
  /\ UNCHANGED <<limiter, mixnodes, deployment, call, asked, packets, relay, unsure, lost>>

\* Then the mesh's, which may fail as well; both parts are returned.
ReceiveMesh ==
  /\ fetch.at = "mesh"
  /\ \E found \in {{}, mesh} :
       /\ mesh' = mesh \ found
       /\ got' = [m \in Msgs |->
            got[m] + In(m, fetch.held) + In(m, found)]
  /\ fetch' = NoFetch
  /\ UNCHANGED <<limiter, mixnodes, deployment, call, asked, packets, relay, unsure, lost>>

----------------------------------------------------------------------------

Next ==
  \/ Time \/ Arrival \/ ProcessStep \/ ReceivePrimary \/ ReceiveMesh
  \/ \E k \in Callers : OtherRequest(k)
  \/ \E m \in Msgs :
       \/ DirectSend(m) \/ SubmitMessage(m) \/ RelayError(m) \/ ConnectionBreaks(m)
       \/ MixSend(m) \/ Fallback(m)
  \/ \E q \in packets : Forward(q) \/ Deliver(q) \/ HopFails(q)

Spec == Init /\ [][Next]_vars

----------------------------------------------------------------------------
(* Properties *)

\* The copies of m on the two paths, and in a receive that is under way.
Copies(m) ==
  Cardinality({q \in packets : q.msg = m}) + In(m, asked) + In(m, relay) + In(m, mesh)
  + In(m, fetch.held)

\* Types; a bucket never holds more than the capacity, and a packet's
\* remaining hops are different nodes.
TypeOK ==
  /\ LimiterTypeOK /\ MixNodeTypeOK
  /\ call \in [Msgs -> {"idle", "waiting", "error", "ok", "failed"}]
  /\ asked \cup relay \cup mesh \cup fetch.held \cup unsure \cup lost \subseteq Msgs
  /\ got \in [Msgs -> 0..2]
  /\ \A q \in packets : Cardinality({q.hops[i] : i \in DOMAIN q.hops}) = Len(q.hops)

\* receive concatenates what the two paths return, each message only ever
\* existing where it was sent: so unless a sender was told of a failure that
\* was none, no message is in two places, or returned twice.
DuplicateForCause ==
  \A m \in Msgs : got[m] + Copies(m) > 1 => m \in unsure

\* A send that succeeds has put the message where a later receive finds it,
\* unless a hop of the mix network lost it afterwards, or the answer to a
\* receive was lost on the way; an error of one of the two transports never
\* loses what the other one has returned.
LossForCause ==
  \A m \in Msgs :
    call[m] = "ok" /\ got[m] = 0 /\ m \notin lost => Copies(m) > 0
=============================================================================
