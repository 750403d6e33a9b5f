----------------------------- MODULE MeshRelay -----------------------------
(***************************************************************************)
(* The store-and-forward relay of the mesh: the bounded store of every     *)
(* device and the sync sessions that exchange bundles between two stores.  *)
(*                                                                         *)
(*   mesh/src/relay.rs      MeshRelayAgent: admit, take, sweep, sync       *)
(*   mesh/src/transport.rs  MeshNode: the scan and accept loops            *)
(*                                                                         *)
(* A session runs sync_with_peer at both ends of a link.  Each end is one  *)
(* task, and a device runs several at once (its scan loop and one task per *)
(* accepted link), all on the same store.  A step is what an end does      *)
(* between two waits for a message.  A link delivers in order and can      *)
(* break at any moment, at either end first; messages in transit are then  *)
(* lost.  Contents, addresses and codecs are not modelled.                 *)
(***************************************************************************)
EXTENDS Integers, Sequences, FiniteSets, SequencesExt, FiniteSetsExt

CONSTANTS
  Nodes, Bundles, MaxTotal, Lifetimes, MaxNow, MaxWait,   \* as in Gossip
  None,           \* no device
  Sessions,       \* the sessions of a behaviour, overlapping or not
  Links,          \* pairs of devices in radio range of each other
  MaxFaults,      \* bound: broken links and stopped devices
  Size,           \* per bundle: its bytes
  MaxBytes,       \* max_total_bytes
  MaxPerSession   \* max_bundles_per_session

ASSUME StoreAssumption == MaxTotal \in Nat \ {0} /\ Lifetimes \subseteq Nat /\ MaxNow \in Nat /\ MaxWait \in Nat
ASSUME SizeAssumption == Size \in [Bundles -> Nat \ {0}]
ASSUME CapAssumption == MaxBytes \in Nat /\ MaxPerSession \in Nat \ {0}
ASSUME LinkAssumption ==
  /\ Links \subseteq Nodes \X Nodes
  /\ \A l \in Links : l[1] # l[2]
  /\ MaxFaults \in Nat

VARIABLES
  now,          \* wall clock
  expiry,       \* per bundle: its expiry, Unborn until it is composed
  store,        \* per device: by_hash
  total_bytes,  \* per device
  end,          \* per session and side: the task running sync_with_peer
  inbox,        \* per session and side: messages on their way to it
  claimed,      \* history: bundles taken from a store by take_for_addresses
  faults        \* how many times a link broke or a device stopped

stores == <<store, total_bytes>>
vars == <<now, expiry, store, total_bytes, end, inbox, claimed, faults>>

Sides == {1, 2}
Peer(i) == 3 - i

\* "start" before the first message, then what the end waits for.
Waiting == {"have", "want", "bundles"}
Running == Waiting \cup {"start"}

NoEnd == [node |-> None, pc |-> "closed", have |-> {}, want |-> {}, budget |-> 0, got |-> {}]

Have(hashes) == [type |-> "Have", hashes |-> hashes]
Want(hashes) == [type |-> "Want", hashes |-> hashes]
Bundle(b) == [type |-> "Bundle", hashes |-> {b}]
Done == [type |-> "Done", hashes |-> {}]

\* now, expiry and the state of no bundle
Unborn == -1
Expired(b) == expiry[b] <= now
Readings == {then \in 0..now : now - then <= MaxWait}
Bytes(S) == SumFunctionOnSet(Size, S)

Init ==
  /\ now = 0
  /\ expiry = [b \in Bundles |-> Unborn]
  /\ store = [n \in Nodes |-> {}]
  /\ total_bytes = [n \in Nodes |-> 0]
  /\ end = [s \in Sessions |-> [i \in Sides |-> NoEnd]]
  /\ inbox = [s \in Sessions |-> [i \in Sides |-> <<>>]]
  /\ claimed = {}
  /\ faults = 0

Tick ==
  /\ now < MaxNow
  /\ now' = now + 1
  /\ UNCHANGED <<expiry, stores, end, inbox, claimed, faults>>

----------------------------------------------------------------------------
(* The store *)

\* The two global caps.
HasRoom(n, b) ==
  /\ Cardinality(store[n]) < MaxTotal
  /\ total_bytes[n] + Size[b] <= MaxBytes

Insert(n, b) ==
  /\ store' = [store EXCEPT ![n] = @ \cup {b}]
  /\ total_bytes' = [total_bytes EXCEPT ![n] = @ + Size[b]]

\* Faulty variants: removal subtracts nothing, or twice.
DiscardUncounted(n, gone) ==
  /\ store' = [store EXCEPT ![n] = @ \ gone]
  /\ UNCHANGED total_bytes
DiscardTwice(n, gone) ==
  /\ store' = [store EXCEPT ![n] = @ \ gone]
  /\ total_bytes' = [total_bytes EXCEPT ![n] = @ - 2 * Bytes(gone)]

Discard(n, gone) ==
  /\ store' = [store EXCEPT ![n] = @ \ gone]
  /\ total_bytes' = [total_bytes EXCEPT ![n] = @ - Bytes(gone)]

\* MeshTransport::send: wrap stamps the bundle and admit stores it, unless it
\* is already expired or the store is full.  The stamp is older than the lock.
Admit(n, b, life) ==
  /\ expiry[b] = Unborn
  /\ life > 0
  /\ HasRoom(n, b)
  /\ \E then \in Readings : expiry' = [expiry EXCEPT ![b] = then + life]
  /\ Insert(n, b)
  /\ UNCHANGED <<now, end, inbox, claimed, faults>>

\* take_for_addresses with a poll set that matches these bundles.
TakeForAddresses(n, matching) ==
  /\ matching # {}
  /\ Discard(n, matching)
  /\ claimed' = claimed \cup matching
  /\ UNCHANGED <<now, expiry, end, inbox, faults>>

Swept(n, then) == {b \in store[n] : expiry[b] <= then}

SweepExpired(n, then) == Discard(n, Swept(n, then))

----------------------------------------------------------------------------
(* A session *)

\* A scan finds a peer and connects; the peer's accept loop starts its end.
\* From then on the two ends do the same, so it does not matter who connected.
Connect(s, link) ==
  /\ end[s][1].pc = "closed"
  /\ end' = [end EXCEPT ![s] = [i \in Sides |-> [NoEnd EXCEPT !.node = link[i], !.pc = "start"]]]
  /\ UNCHANGED <<now, expiry, stores, inbox, claimed, faults>>

\* Messages to a peer that is gone go nowhere.
Post(s, i, messages) ==
  IF end[s][Peer(i)].pc = "failed" THEN inbox[s]
  ELSE [inbox[s] EXCEPT ![Peer(i)] = @ \o messages]

\* The first step: sweep, snapshot, Have.
Start(s, i, then) ==
  LET n == end[s][i].node IN
  /\ end[s][i].pc = "start"
  /\ SweepExpired(n, then)
  /\ end' = [end EXCEPT ![s][i] = [@ EXCEPT !.pc = "have", !.have = store'[n]]]
  /\ inbox' = [inbox EXCEPT ![s] = Post(s, i, <<Have(store'[n])>>)]
  /\ UNCHANGED <<now, expiry, claimed, faults>>

Receives(s, i, pc, type) ==
  /\ end[s][i].pc = pc
  /\ inbox[s][i] # <<>>
  /\ Head(inbox[s][i]).type = type

\* The inboxes after end i has consumed one message and posted others.
Replied(s, i, messages) ==
  [inbox EXCEPT ![s] = [Post(s, i, messages) EXCEPT ![i] = Tail(@)]]

\* Faulty variant: nothing is cut off.
Untruncated(hashes) == {hashes}

\* truncate and take(max_bundles_per_session): hashes come in no fixed order.
Truncated(hashes) ==
  {W \in SUBSET hashes : Cardinality(W) = Min({MaxPerSession, Cardinality(hashes)})}

\* Faulty variant: an end that misses nothing does not say so.
RecvHaveSilently(s, i) ==
  /\ Receives(s, i, "have", "Have")
  /\ \E W \in Truncated(Head(inbox[s][i]).hashes \ end[s][i].have) :
       /\ end' = [end EXCEPT ![s][i] = [@ EXCEPT !.pc = "want", !.have = {}, !.want = W]]
       /\ inbox' = Replied(s, i, IF W = {} THEN <<>> ELSE <<Want(W)>>)
  /\ UNCHANGED <<now, expiry, stores, claimed, faults>>

RecvHave(s, i) ==
  /\ Receives(s, i, "have", "Have")
  /\ \E W \in Truncated(Head(inbox[s][i]).hashes \ end[s][i].have) :
       /\ end' = [end EXCEPT ![s][i] = [@ EXCEPT !.pc = "want", !.have = {}, !.want = W]]
       /\ inbox' = Replied(s, i, <<Want(W)>>)
  /\ UNCHANGED <<now, expiry, stores, claimed, faults>>

Serve(bundles) == [k \in DOMAIN bundles |-> Bundle(bundles[k])]

\* Faulty variants: no Done when there is nothing to send; only one bundle is
\* sent, however many the peer wants.
RecvWantNoDone(s, i) ==
  /\ Receives(s, i, "want", "Want")
  /\ \E W \in Truncated(Head(inbox[s][i]).hashes) :
     \E bundles \in SetToSeqs(W \cap store[end[s][i].node]) :
       inbox' = Replied(s, i, IF bundles = <<>> THEN <<>>
                              ELSE Append(Serve(bundles), Done))
  /\ end' = [end EXCEPT ![s][i] = [@ EXCEPT !.pc = "bundles", !.budget = MaxPerSession]]
  /\ UNCHANGED <<now, expiry, stores, claimed, faults>>

RecvWantShort(s, i) ==
  /\ Receives(s, i, "want", "Want")
  /\ \E b \in Head(inbox[s][i]).hashes \cap store[end[s][i].node] :
       inbox' = Replied(s, i, <<Bundle(b), Done>>)
  /\ end' = [end EXCEPT ![s][i] = [@ EXCEPT !.pc = "bundles", !.budget = MaxPerSession]]
  /\ UNCHANGED <<now, expiry, stores, claimed, faults>>

\* Whatever the store still holds of what the peer wants, then Done.
RecvWant(s, i) ==
  /\ Receives(s, i, "want", "Want")
  /\ \E W \in Truncated(Head(inbox[s][i]).hashes) :
     \E bundles \in SetToSeqs(W \cap store[end[s][i].node]) :
       inbox' = Replied(s, i, Append(Serve(bundles), Done))
  /\ end' = [end EXCEPT ![s][i] = [@ EXCEPT !.pc = "bundles", !.budget = MaxPerSession]]
  /\ UNCHANGED <<now, expiry, stores, claimed, faults>>

\* Faulty variant: admission does not look at the expiry.
AdmitsExpired(n, b, budget, then) ==
  b \in store[n] \/ (budget > 0 /\ HasRoom(n, b))

\* admit_checked, which read the clock before it had the lock: a bundle already
\* held is accepted without looking at the caps.
Admits(n, b, budget, then) ==
  /\ expiry[b] > then
  /\ b \in store[n] \/ (budget > 0 /\ HasRoom(n, b))

\* Every accepted bundle takes one off the budget, stored before or not.
RecvBundle(s, i, then) ==
  LET b == CHOOSE x \in Head(inbox[s][i]).hashes : TRUE
      n == end[s][i].node
      ok == Admits(n, b, end[s][i].budget, then)
  IN
  /\ Receives(s, i, "bundles", "Bundle")
  /\ IF ok /\ b \notin store[n] THEN Insert(n, b) ELSE UNCHANGED stores
  /\ end' = [end EXCEPT ![s][i].budget = IF ok THEN Max({@ - 1, 0}) ELSE @,
                        ![s][i].got = @ \cup {b}]
  /\ inbox' = Replied(s, i, <<>>)
  /\ UNCHANGED <<now, expiry, claimed, faults>>

RecvDone(s, i) ==
  /\ Receives(s, i, "bundles", "Done")
  /\ end' = [end EXCEPT ![s][i] = [@ EXCEPT !.pc = "done", !.budget = 0]]
  /\ inbox' = Replied(s, i, <<>>)
  /\ UNCHANGED <<now, expiry, stores, claimed, faults>>

Fail(ends) ==
  /\ end' = [s \in Sessions |-> [i \in Sides |->
       IF <<s, i>> \in ends THEN [NoEnd EXCEPT !.pc = "failed"] ELSE end[s][i]]]
  /\ inbox' = [s \in Sessions |-> [i \in Sides |->
       IF <<s, i>> \in ends THEN <<>> ELSE inbox[s][i]]]

\* An end finds its link broken, or notices that its peer is gone.
LinkLost(s, i) ==
  /\ end[s][i].pc \in Running
  /\ faults < MaxFaults
  /\ faults' = faults + 1
  /\ Fail({<<s, i>>})
  /\ UNCHANGED <<now, expiry, stores, claimed>>

PeerGone(s, i) ==
  /\ end[s][i].pc \in Running
  /\ end[s][Peer(i)].pc = "failed"
  /\ Fail({<<s, i>>})
  /\ UNCHANGED <<now, expiry, stores, claimed, faults>>

\* The app is killed: the store is only in memory.
NodeStops(n) ==
  /\ faults < MaxFaults
  /\ faults' = faults + 1
  /\ store' = [store EXCEPT ![n] = {}]
  /\ total_bytes' = [total_bytes EXCEPT ![n] = 0]
  /\ Fail({x \in Sessions \X Sides : end[x[1]][x[2]].node = n /\ end[x[1]][x[2]].pc \in Running})
  /\ UNCHANGED <<now, expiry, claimed>>

SyncStep(s, i) ==
  \/ RecvHave(s, i)
  \/ RecvWant(s, i)
  \/ \E then \in Readings : Start(s, i, then) \/ RecvBundle(s, i, then)
  \/ RecvDone(s, i)
  \/ PeerGone(s, i)

Next ==
  \/ Tick
  \/ \E n \in Nodes :
       \/ \E b \in Bundles, life \in Lifetimes : Admit(n, b, life)
       \/ \E matching \in SUBSET store[n] : TakeForAddresses(n, matching)
       \/ NodeStops(n)
  \/ \E s \in Sessions :
       \/ \E link \in Links : Connect(s, link)
       \/ \E i \in Sides : SyncStep(s, i) \/ LinkLost(s, i)

Spec == Init /\ [][Next]_vars

\* The runtime polls every session's task.
FairSpec == Spec /\ \A s \in Sessions, i \in Sides : WF_vars(SyncStep(s, i))

----------------------------------------------------------------------------
(* Correctness *)

TypeOK ==
  /\ now \in Nat
  /\ expiry \in [Bundles -> Nat \cup {Unborn}]
  /\ store \in [Nodes -> SUBSET Bundles]
  /\ total_bytes \in [Nodes -> Nat]
  /\ \A s \in Sessions, i \in Sides :
       /\ end[s][i].pc \in Running \cup {"closed", "done", "failed"}
       /\ end[s][i].budget \in 0..MaxPerSession
       /\ \A k \in DOMAIN inbox[s][i] : inbox[s][i][k].hashes \subseteq Bundles

\* Both global caps hold whether bundles are composed here or pushed by a peer,
\* and the running count of bytes stays that of what is held.
StoreBounded ==
  \A n \in Nodes :
    /\ Cardinality(store[n]) <= MaxTotal
    /\ total_bytes[n] = Bytes(store[n])
    /\ total_bytes[n] <= MaxBytes

\* Both ends run the same sequence with no roles, and no end ever finds a
\* message it does not expect at that point: the error "message out of order"
\* of sync_with_peer is not seen between two honest peers.
Expects(pc) == CASE pc = "have" -> {"Have"}
                 [] pc = "want" -> {"Want"}
                 [] pc = "bundles" -> {"Bundle", "Done"}
                 [] OTHER -> {"Have"}
InStep ==
  \A s \in Sessions, i \in Sides :
    end[s][i].pc \in Running /\ inbox[s][i] # <<>> => Head(inbox[s][i]).type \in Expects(end[s][i].pc)

\* The admission cap of a session never turns away an honest peer's bundle,
\* although bundles that arrived meanwhile by another session count as well.
Coming(s, i) == {k \in DOMAIN inbox[s][i] : inbox[s][i][k].type = "Bundle"}
BudgetSuffices ==
  \A s \in Sessions, i \in Sides :
    end[s][i].pc = "bundles" => Cardinality(Coming(s, i)) <= end[s][i].budget

\* A session that ran to its end has brought every bundle that was asked for
\* and neither expired nor was claimed nor was lost with its carrier meanwhile.
SyncComplete ==
  \A s \in Sessions, i \in Sides :
    end[s][i].pc = "done" /\ end[s][Peer(i)].pc # "failed" =>
      \A b \in end[s][i].want : b \in end[s][i].got \/ Expired(b) \/ b \in claimed

\* Deadlock freedom: with neither a role split nor a timeout, both ends of
\* every session come to an end.
SessionsEnd ==
  \A s \in Sessions, i \in Sides : end[s][i].pc \in Running ~> end[s][i].pc \notin Running

\* The copies of bundles on their way to n.
Flight(n) == {b \in Bundles : \E s \in Sessions, i \in Sides :
                end[s][i].node = n /\ \E k \in Coming(s, i) : b \in inbox[s][i][k].hashes}
G == INSTANCE Gossip WITH flight <- [n \in Nodes |-> Flight(n)]

\* The sync protocol, with its concurrent sessions, broken links and restarts,
\* is one way of spreading bundles as the transport above expects.
ImplementsGossip == G!GossipSpec
=============================================================================
