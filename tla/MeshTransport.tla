--------------------------- MODULE MeshTransport ---------------------------
(***************************************************************************)
(* One conversation over the mesh: dead-drop addresses, the sender's       *)
(* counter and the receiver's sliding window.                              *)
(*                                                                         *)
(*   mesh/src/transport.rs       MeshTransport: send, receive              *)
(*   protocol/src/dead_drop.rs   TagKey: address_for, address_window       *)
(*                                                                         *)
(* Every end of the conversation is a device with a MeshTransport; both    *)
(* derive the same TagKey, so address_for(n) is one address for both and   *)
(* is represented by n.  Bundles of other conversations and decoys match   *)
(* nothing and are left out.  The network below is Gossip.  Tasks of the   *)
(* client call send and receive; what they do under one lock is one step.  *)
(***************************************************************************)
EXTENDS Gossip

CONSTANTS
  Ends,        \* the two devices in conversation
  Senders,     \* ends that send
  Pollers,     \* ends that call receive
  Tasks,       \* tasks that compose and send
  Polls,       \* tasks that call receive
  Routes,      \* who spreads bundles to whom
  WindowSize,  \* DEFAULT_ADDRESS_WINDOW
  MaxRestarts, \* bound: devices restarted
  NoEnd        \* no device

ASSUME EndsAssumption ==
  /\ Ends \subseteq Nodes /\ Senders \subseteq Ends /\ Pollers \subseteq Ends
  /\ NoEnd \notin Nodes
ASSUME RoutesAssumption == Routes \subseteq Nodes \X Nodes
ASSUME WindowAssumption ==
  WindowSize \in Nat \ {0} /\ MaxRestarts \in Nat /\ IsFiniteSet(Bundles)

VARIABLES
  author,    \* per bundle: who sent it, NoEnd before
  index,     \* per bundle: the n of its address
  counter,   \* per end: send_counter
  low,       \* per end: low_watermark
  ahead,     \* per end: claimed_ahead
  task,      \* per task: what it is doing
  got,       \* history, per end: bundles whose envelope receive returned
  restarts   \* how many devices were restarted

mail == <<author, index>>
vars == <<now, expiry, store, flight, author, index, counter, low, ahead, task, got, restarts>>

\* A sender that has composed an envelope for index n, or a receiver that has
\* read its window from n on, and then claimed bundles.
Idle == [op |-> "idle", end |-> NoEnd, n |-> 0, claims |-> {}]

Init ==
  /\ GossipInit
  /\ author = [b \in Bundles |-> NoEnd]
  /\ index = [b \in Bundles |-> 0]
  /\ counter = [e \in Ends |-> 0]
  /\ low = [e \in Ends |-> 0]
  /\ ahead = [e \in Ends |-> {}]
  /\ task = [t \in Tasks \cup Polls |-> Idle]
  /\ got = [e \in Ends |-> {}]
  /\ restarts = 0

----------------------------------------------------------------------------
(* Sending *)

\* A client composes an envelope with next_send_address.
ComposeEnvelope(t, e) ==
  /\ task[t].op = "idle"
  /\ task' = [task EXCEPT ![t] = [Idle EXCEPT !.op = "send", !.end = e, !.n = counter[e]]]
  /\ UNCHANGED <<gossip, mail, counter, low, ahead, got, restarts>>

\* Faulty variant: the counter moves when composing and when sending.
AdvanceTwice(e) == counter' = [counter EXCEPT ![e] = @ + 2]

\* advance_send_counter
AdvanceSendCounter(e) == counter' = [counter EXCEPT ![e] = @ + 1]

\* Any bundle not yet composed would do.
Fresh == CHOOSE b \in Bundles : ~Born(b)

\* send: the local relay admits the bundle, and only then the counter moves.
Send(t, life) ==
  LET e == task[t].end
      b == Fresh
  IN
  /\ task[t].op = "send"
  /\ \E c \in Bundles : ~Born(c)
  /\ Compose(e, b, life)
  /\ author' = [author EXCEPT ![b] = e]
  /\ index' = [index EXCEPT ![b] = task[t].n]
  /\ AdvanceSendCounter(e)
  /\ task' = [task EXCEPT ![t] = Idle]
  /\ UNCHANGED <<low, ahead, got, restarts>>

\* send fails when the local store is full.
SendRefused(t) ==
  /\ task[t].op = "send"
  /\ ~HasRoom(task[t].end)
  /\ task' = [task EXCEPT ![t] = Idle]
  /\ UNCHANGED <<gossip, mail, counter, low, ahead, got, restarts>>

----------------------------------------------------------------------------
(* Receiving *)

\* receive, first lock: the watermark that starts the window.
ReadWindow(t, e) ==
  /\ task[t].op = "idle"
  /\ task' = [task EXCEPT ![t] = [Idle EXCEPT !.op = "poll", !.end = e, !.n = low[e]]]
  /\ UNCHANGED <<gossip, mail, counter, low, ahead, got, restarts>>

\* Faulty variants: the window is one address too long, or starts one too early.
WindowTooLong(start) == start .. (start + WindowSize)
WindowTooEarly(start) == (start - 1) .. (start + WindowSize - 1)

\* address_window
AddressWindow(start) == start .. (start + WindowSize - 1)

\* Second lock, of the relay: every bundle at an address of the window is
\* taken out of the store of this device, expired or not.
TakeWindow(t) ==
  LET e == task[t].end
      taken == {b \in store[e] : index[b] \in AddressWindow(task[t].n)}
  IN
  /\ task[t].op = "poll"
  /\ Leave(e, taken)
  /\ task' = [task EXCEPT ![t] = [@ EXCEPT !.op = "claimed", !.claims = taken]]
  /\ UNCHANGED <<mail, counter, low, ahead, got, restarts>>

\* Faulty variants: the watermark jumps past what was claimed last, or never moves.
PastLastClaimed(start, claimed) ==
  CHOOSE n \in start .. (start + Cardinality(Bundles) + WindowSize) :
    \/ claimed = {} /\ n = start
    \/ n - 1 \in claimed /\ \A k \in claimed : k < n
NeverPast(start, claimed) == start

\* The first index, from the watermark on, that is not claimed.
PastContiguous(start, claimed) ==
  CHOOSE n \in start .. (start + Cardinality(claimed)) :
    n \notin claimed /\ start .. (n - 1) \subseteq claimed

\* Third lock: remember what was claimed, move the watermark past a contiguous
\* run, and return the envelopes.
Advance(t) ==
  LET e == task[t].end
      claimed == ahead[e] \cup {index[b] : b \in task[t].claims}
      next == PastContiguous(low[e], claimed)
  IN
  /\ task[t].op = "claimed"
  /\ low' = [low EXCEPT ![e] = next]
  /\ ahead' = [ahead EXCEPT ![e] = claimed \ (low[e] .. (next - 1))]
  /\ got' = [got EXCEPT ![e] = @ \cup task[t].claims]
  /\ task' = [task EXCEPT ![t] = Idle]
  /\ UNCHANGED <<gossip, mail, counter, restarts>>

----------------------------------------------------------------------------
(* The devices and the network *)

\* The app restarts: the relay's store, both counters and running calls were
\* only in memory.
Restart(n) ==
  /\ restarts < MaxRestarts
  /\ restarts' = restarts + 1
  /\ Crash(n)
  /\ counter' = [e \in Ends |-> IF e = n THEN 0 ELSE counter[e]]
  /\ low' = [e \in Ends |-> IF e = n THEN 0 ELSE low[e]]
  /\ ahead' = [e \in Ends |-> IF e = n THEN {} ELSE ahead[e]]
  /\ task' = [t \in DOMAIN task |-> IF task[t].end = n THEN Idle ELSE task[t]]
  /\ UNCHANGED <<mail, got>>

TransportStep ==
  \/ \E t \in Tasks, e \in Senders : ComposeEnvelope(t, e)
  \/ \E t \in Tasks, life \in Lifetimes : Send(t, life)
  \/ \E t \in Tasks : SendRefused(t)
  \/ \E t \in Polls, e \in Pollers : ReadWindow(t, e)
  \/ \E t \in Polls : TakeWindow(t) \/ Advance(t)
  \/ \E n \in Nodes : Restart(n)

above == <<author, index, counter, low, ahead, task, got, restarts>>
NetworkStep ==
  /\ \/ Tick
     \/ \E r \in Routes, b \in Bundles : Offer(r[1], r[2], {b})
     \/ \E n \in Nodes, b \in Bundles : Arrive(n, b)
     \/ \E n \in Nodes, b \in Bundles : Lost(n, {b})
     \/ \E n \in Nodes, then \in Readings : Sweep(n, then)
  /\ UNCHANGED above

Next == TransportStep \/ NetworkStep

Spec == Init /\ [][Next]_vars

\* The clients keep polling, and devices in range of each other keep syncing:
\* a bundle offered again and again arrives in the end.
FairSpec ==
  /\ Spec
  /\ \A t \in Polls :
       /\ WF_vars(\E e \in Pollers : ReadWindow(t, e))
       /\ WF_vars(TakeWindow(t) \/ Advance(t))
  /\ \A r \in Routes, b \in Bundles :
       /\ WF_vars(Offer(r[1], r[2], {b}) /\ UNCHANGED above)
       /\ SF_vars(Arrive(r[2], b) /\ UNCHANGED above)

----------------------------------------------------------------------------
(* Correctness *)

TypeOK ==
  /\ store \in [Nodes -> SUBSET Bundles]
  /\ \A n \in Nodes : Cardinality(store[n]) <= MaxTotal
  /\ author \in [Bundles -> Ends \cup {NoEnd}]
  /\ index \in [Bundles -> Nat]
  /\ counter \in [Ends -> 0..Cardinality(Bundles)]
  /\ low \in [Ends -> Nat]
  /\ ahead \in [Ends -> SUBSET Nat]
  /\ got \in [Ends -> SUBSET Bundles]

\* "A still-missing lower index keeps being polled for rather than silently
\* skipped": whatever the order of arrival, every index below the watermark was
\* delivered here.
NoSilentSkip ==
  \A e \in Pollers : \A n \in 0 .. (low[e] - 1) : \E b \in got[e] : index[b] = n

\* What is remembered out of order is above the watermark and inside the window
\* polled from it, so claimed_ahead neither grows nor keeps anything for good.
AheadInWindow ==
  \A e \in Pollers : ahead[e] \subseteq (low[e] + 1) .. (low[e] + WindowSize - 1)

\* An index the watermark has passed is not delivered a second time, however
\* often the network brings its bundle back.
NeverBehind ==
  \A t \in Polls : \A b \in task[t].claims : index[b] >= low[task[t].end]

\* A message of this conversation is only ever claimed by the end it is for.
ClaimedByRecipient == \A e \in Ends : \A b \in got[e] : author[b] # e

\* Sent while nothing of the conversation is lost: no bundle expires before it
\* is delivered, no device restarts, no two envelopes share an address.
Recipients(b) == Pollers \ {author[b]}
Delivered(b) == \E e \in Recipients(b) : b \in got[e]
Lossy ==
  \/ restarts > 0
  \/ \E b \in Bundles : Born(b) /\ Expired(b) /\ ~Delivered(b)
  \/ \E b, c \in Bundles : b # c /\ Born(b) /\ Born(c) /\ author[b] = author[c] /\ index[b] = index[c]

\* Only a loss can keep a message from its recipient.
OnlyLossBlocks == \A b \in Bundles : Born(b) ~> Delivered(b) \/ Lossy

\* The window "tolerates reordering and loss": as long as fewer messages than
\* it is wide are lost, one that does not expire is delivered.
Undying(b) == Born(b) /\ expiry[b] > MaxNow
LostForGood == {b \in Bundles : Born(b) /\ Expired(b) /\ ~Delivered(b)}
LossTolerated ==
  \A b \in Bundles :
    Undying(b) ~> Delivered(b) \/ Cardinality(LostForGood) >= WindowSize
=============================================================================
