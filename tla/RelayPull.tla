----------------------------- MODULE RelayPull -----------------------------
(***************************************************************************)
(* The relay server and its clients: messages posted directly or through   *)
(* the mix network, fetched directly or by the two-leg pull.               *)
(*                                                                         *)
(*   server/src/store.rs, routes.rs   the tables messages and pull_stages  *)
(*   protocol/src/transport.rs        DirectTransport and MixTransport     *)
(*   mixnode/src/mixing.rs            delayed, fire-and-forget forwarding  *)
(*   gateway/src/routes.rs            passes a direct request through      *)
(*                                                                         *)
(* A receive call is identified with its rendezvous token.  Leg 1 of a     *)
(* pull travels through the mix network, where nothing bounds its delay    *)
(* against the client's own sleep, and ends in a handler of the relay; leg *)
(* 2 is the client's GET.  The two progress independently, so a call has   *)
(* two program counters.  A token is random and used once: here it is used *)
(* again when nothing of its former call is left.                          *)
(*                                                                         *)
(* Every table operation of the relay is one critical section.  Prekey     *)
(* bundles, certificates and the order within a batch are not modelled.    *)
(***************************************************************************)
EXTENDS Integers, FiniteSets

CONSTANTS
  Users, Msgs, To,  \* as in Mailbox
  Tokens,           \* rendezvous tokens, one for each receive call
  TTL,              \* PULL_STAGE_TTL_MS
  Faulty            \* bound: whether processes stop and messages get lost

ASSUME ToAssumption == To \in [Msgs -> Users]
ASSUME TTLAssumption == TTL \in Nat /\ Faulty \in BOOLEAN

VARIABLES
  mixing,   \* envelopes on their way through the mix network
  queue,    \* table messages
  call,     \* per token: the receive call, and its row of pull_stages
  sent,     \* history: messages a transport has accepted
  got,      \* history, per user: messages a receive call returned
  lost      \* history: messages no call will return any more, and why

vars == <<mixing, queue, call, sent, got, lost>>

\* client: "waiting" from the end of leg 1 to the GET, "answered" when the
\* relay has replied.  leg1: "mixing" on its way, "drained" between the two
\* critical sections of stage_pull, "staged" while the row is there.
NoCall(u) == [user |-> u, client |-> "idle", leg1 |-> "none",
              batch |-> {}, age |-> 0, reply |-> {}]

\* What becomes of a message that is not delivered.
Causes == {"orphaned", "dropped", "deleted"}
Lose(batch, cause) ==
  lost' = [m \in DOMAIN lost \cup batch |-> IF m \in batch THEN cause ELSE lost[m]]

Init ==
  /\ mixing = {}
  /\ queue = {}
  /\ call \in [Tokens -> {NoCall(u) : u \in Users}]
  /\ sent = {}
  /\ got = [u \in Users |-> {}]
  /\ lost = [m \in {} |-> "dropped"]

\* Faulty variant: the query does not look at recipient_id.
QueueOfAll(u) == {m \in queue : u \in Users}

QueueOf(u) == {m \in queue : To[m] = u}

\* A fresh token, never used before as far as anyone can tell.
Fresh(t) == call[t].client = "idle" /\ call[t].leg1 = "none"

----------------------------------------------------------------------------
(* Sending *)

\* DirectTransport::send, the mobile client and the gateway: enqueue.
Submit(m) ==
  /\ m \notin sent
  /\ sent' = sent \cup {m}
  /\ queue' = queue \cup {m}
  /\ UNCHANGED <<mixing, call, got, lost>>

\* MixTransport::send succeeds as soon as the first hop has the packet.
MixSend(m) ==
  /\ m \notin sent
  /\ sent' = sent \cup {m}
  /\ mixing' = mixing \cup {m}
  /\ UNCHANGED <<queue, call, got, lost>>

\* The last hop posts the envelope to the relay.
MixDeliver(m) ==
  /\ m \in mixing
  /\ mixing' = mixing \ {m}
  /\ queue' = queue \cup {m}
  /\ UNCHANGED <<call, sent, got, lost>>

\* A hop fails, and only logs it.
MixDrop(m) ==
  /\ Faulty
  /\ m \in mixing
  /\ mixing' = mixing \ {m}
  /\ Lose({m}, "dropped")
  /\ UNCHANGED <<queue, call, sent, got>>

DeleteMessage(m) ==
  /\ m \in queue
  /\ queue' = queue \ {m}
  /\ Lose({m}, "deleted")
  /\ UNCHANGED <<mixing, call, sent, got>>

----------------------------------------------------------------------------
(* Receiving *)

\* Faulty variant: the rows are returned and kept.
DrainedAndKept(u) == QueueOf(u) \subseteq queue /\ UNCHANGED queue

\* drain: what is queued for u leaves the table.
Drained(u) == queue' = queue \ QueueOf(u)

\* DirectTransport::receive: the relay drains the queue into its response.
DirectReceive(t, u) ==
  /\ Fresh(t)
  /\ call' = [call EXCEPT ![t] = [NoCall(u) EXCEPT !.client = "answered", !.reply = QueueOf(u)]]
  /\ Drained(u)
  /\ UNCHANGED <<mixing, sent, got, lost>>

\* MixTransport::receive, leg 1: the first hop has taken the pull request.
Ask(t, u) ==
  /\ Fresh(t)
  /\ call' = [call EXCEPT ![t] = [NoCall(u) EXCEPT !.client = "waiting", !.leg1 = "mixing"]]
  /\ UNCHANGED <<mixing, queue, sent, got, lost>>

\* The first hop took it, but the client never learns and returns an error.
AskFails(t, u) ==
  /\ Faulty
  /\ Fresh(t)
  /\ call' = [call EXCEPT ![t] = [NoCall(u) EXCEPT !.leg1 = "mixing"]]
  /\ UNCHANGED <<mixing, queue, sent, got, lost>>

PullDropped(t) ==
  /\ Faulty
  /\ call[t].leg1 = "mixing"
  /\ call' = [call EXCEPT ![t].leg1 = "none"]
  /\ UNCHANGED <<mixing, queue, sent, got, lost>>

\* stage_pull, first critical section: drain.
DrainToStage(t) ==
  /\ call[t].leg1 = "mixing"
  /\ call' = [call EXCEPT ![t].leg1 = "drained", ![t].batch = QueueOf(call[t].user)]
  /\ Drained(call[t].user)
  /\ UNCHANGED <<mixing, sent, got, lost>>

\* Faulty variants: the sweep compares the wrong way round; there is none.
SweptFresh(t) == call[t].leg1 = "staged" /\ call[t].age <= TTL
NeverSwept(t) == FALSE

\* The rows that are older than the TTL.
Swept(t) == call[t].leg1 = "staged" /\ call[t].age > TTL

AfterSweep(t) ==
  IF Swept(t) THEN [call[t] EXCEPT !.leg1 = "none", !.batch = {}, !.age = 0] ELSE call[t]

\* stage_pull, second critical section: sweep, then insert the row.  Nobody
\* fetches it if the client has asked for it already, or has given up.
Stage(t) ==
  /\ call[t].leg1 = "drained"
  /\ call' = [s \in Tokens |->
       IF s = t THEN [call[t] EXCEPT !.leg1 = "staged"] ELSE AfterSweep(s)]
  /\ IF call[t].client = "waiting" THEN UNCHANGED lost ELSE Lose(call[t].batch, "orphaned")
  /\ UNCHANGED <<mixing, queue, sent, got>>

\* The pulls of other users and the mix nodes' cover pulls, whose recipients
\* do not exist, sweep as well.
OtherPull ==
  /\ \E t \in Tokens : Swept(t)
  /\ call' = [t \in Tokens |-> AfterSweep(t)]
  /\ UNCHANGED <<mixing, queue, sent, got, lost>>

\* MixTransport::receive, leg 2: one GET, whether the row is there or not.
Fetch(t) ==
  /\ call[t].client = "waiting"
  /\ call' = [call EXCEPT ![t] =
       IF call[t].leg1 = "staged"
       THEN [NoCall(@.user) EXCEPT !.client = "answered", !.reply = call[t].batch]
       ELSE [@ EXCEPT !.client = "answered"]]
  /\ UNCHANGED <<mixing, queue, sent, got, lost>>

\* The client stops before its GET has reached the relay.
GiveUp(t) ==
  /\ Faulty
  /\ call[t].client = "waiting"
  /\ call' = [call EXCEPT ![t].client = "idle"]
  /\ IF call[t].leg1 = "staged" THEN Lose(call[t].batch, "orphaned") ELSE UNCHANGED lost
  /\ UNCHANGED <<mixing, queue, sent, got>>

\* Faulty variant: the call returns and keeps its response.
ReturnAndKeep(t) ==
  /\ call[t].client = "answered"
  /\ got' = [got EXCEPT ![call[t].user] = @ \cup call[t].reply]
  /\ call' = [call EXCEPT ![t].client = "idle"]
  /\ UNCHANGED <<mixing, queue, sent, lost>>

\* The response arrives, and receive returns it.
Return(t) ==
  /\ call[t].client = "answered"
  /\ got' = [got EXCEPT ![call[t].user] = @ \cup call[t].reply]
  /\ call' = [call EXCEPT ![t].client = "idle", ![t].reply = {}]
  /\ UNCHANGED <<mixing, queue, sent, lost>>

\* It does not, or the client stops before it has.
ReplyLost(t) ==
  /\ Faulty
  /\ call[t].client = "answered"
  /\ Lose(call[t].reply, "dropped")
  /\ call' = [call EXCEPT ![t].client = "idle", ![t].reply = {}]
  /\ UNCHANGED <<mixing, queue, sent, got>>

----------------------------------------------------------------------------
(* The relay process *)

\* A row grows old.  A call that is waiting sleeps for at most 300 ms before
\* its GET, which is far from the TTL: time waits for it here.
Tick ==
  /\ \E t \in Tokens : call[t].leg1 = "staged" /\ call[t].age <= TTL
  /\ \A t \in Tokens :
       call[t].client = "waiting" /\ call[t].leg1 = "staged" => call[t].age < TTL
  /\ call' = [t \in Tokens |->
       IF call[t].leg1 = "staged" /\ call[t].age <= TTL
       THEN [call[t] EXCEPT !.age = @ + 1] ELSE call[t]]
  /\ UNCHANGED <<mixing, queue, sent, got, lost>>

\* The tables are on disk.  Handlers between their two critical sections and
\* responses are not.
RelayRestarts ==
  /\ Faulty
  /\ Lose((UNION {IF call[t].leg1 = "drained" THEN call[t].batch ELSE {} : t \in Tokens})
          \cup (UNION {call[t].reply : t \in Tokens}), "dropped")
  /\ call' = [t \in Tokens |->
       [call[t] EXCEPT !.client = IF @ = "answered" THEN "idle" ELSE @,
                       !.reply = {},
                       !.leg1 = IF @ = "drained" THEN "none" ELSE @,
                       !.batch = IF call[t].leg1 = "drained" THEN {} ELSE @]]
  /\ UNCHANGED <<mixing, queue, sent, got>>

Next ==
  \/ \E m \in Msgs : Submit(m) \/ MixSend(m) \/ MixDeliver(m) \/ MixDrop(m) \/ DeleteMessage(m)
  \/ \E t \in Tokens, u \in Users : DirectReceive(t, u) \/ Ask(t, u) \/ AskFails(t, u)
  \/ \E t \in Tokens :
       \/ PullDropped(t) \/ DrainToStage(t) \/ Stage(t)
       \/ Fetch(t) \/ GiveUp(t) \/ Return(t) \/ ReplyLost(t)
  \/ OtherPull
  \/ Tick
  \/ RelayRestarts

Spec == Init /\ [][Next]_vars

\* Every user keeps pulling, through the mix network only if it likes; the mix
\* network delivers some of the requests of each user; handlers, clients and
\* time go on.
FairSpec ==
  /\ Spec
  /\ WF_vars(Tick) /\ WF_vars(OtherPull)
  /\ \A m \in Msgs : WF_vars(MixDeliver(m))
  /\ \A u \in Users : SF_vars(\E t \in Tokens : Ask(t, u))
  /\ \A t \in Tokens :
       /\ WF_vars(Stage(t))
       /\ WF_vars(Fetch(t))
       /\ WF_vars(Return(t))
       /\ \A u \in Users : SF_vars(call[t].user = u /\ DrainToStage(t))

----------------------------------------------------------------------------
(* Correctness *)

CallRecords == [user : Users, client : {"idle", "waiting", "answered"},
                leg1 : {"none", "mixing", "drained", "staged"},
                batch : SUBSET Msgs, age : 0 .. TTL + 1, reply : SUBSET Msgs]

TypeOK ==
  /\ mixing \subseteq Msgs
  /\ queue \subseteq Msgs
  /\ call \in [Tokens -> CallRecords]
  /\ \A t \in Tokens :
       /\ call[t].client # "answered" => call[t].reply = {}
       /\ call[t].leg1 \in {"none", "mixing"} => call[t].batch = {}
       /\ call[t].leg1 # "staged" => call[t].age = 0
  /\ sent \subseteq Msgs
  /\ got \in [Users -> SUBSET Msgs]
  /\ DOMAIN lost \subseteq Msgs
  /\ \A m \in DOMAIN lost : lost[m] \in Causes

\* The places from which a message can still reach its recipient.
OnItsWay ==
  mixing \cup queue
    \cup (UNION {call[t].reply : t \in Tokens})
    \cup (UNION {call[t].batch : t \in {s \in Tokens :
                   call[s].leg1 = "drained" \/ call[s].client = "waiting"}})

\* Nothing is forgotten: a message that was accepted has been returned by a
\* receive call of its recipient, or is still on its way, or was lost to a
\* known cause, whatever the order of drains, stages, sweeps, fetches and
\* restarts.  In particular no stage that a client is about to fetch is swept.
NoneForgotten == sent = OnItsWay \cup (UNION {got[u] : u \in Users}) \cup DOMAIN lost

\* At most once: no two tables, handlers, responses or users have the same
\* message, so no two receive calls, direct or mix-routed, return it.
Holdings ==
  {<<"mix", "mixing", mixing>>, <<"relay", "queue", queue>>}
    \cup {<<t, "batch", call[t].batch>> : t \in Tokens}
    \cup {<<t, "reply", call[t].reply>> : t \in Tokens}
    \cup {<<u, "got", got[u]>> : u \in Users}
OneCustodian == \A p, q \in Holdings : p # q => p[3] \cap q[3] = {}

\* "Fetch and remove all pending envelopes for recipient_id": as long as no
\* process fails and no message is lost, what a receive call has removed from
\* the queue, a receive call returns.
RemovedIsFetched == \A m \in DOMAIN lost : lost[m] # "orphaned"

\* An accepted message reaches its recipient, who keeps pulling, unless its own
\* pull is staged for nobody or a fault hits it on the way: no sweep, no other
\* user's pull, and no queue that is drained too early or too late holds it back.
Fetched == \A m \in Msgs : m \in sent ~> m \in got[To[m]] \cup DOMAIN lost

\* The relay, its handlers and its clients implement an at-most-once mailbox.
MB == INSTANCE Mailbox WITH
        posted <- sent,
        waiting <- OnItsWay \ DOMAIN lost,
        delivered <- got

ImplementsMailbox == MB!MailboxSpec
=============================================================================
