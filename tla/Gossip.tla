------------------------------- MODULE Gossip -------------------------------
(***************************************************************************)
(* What the mesh promises to the transport above it: bundles spread from   *)
(* store to store, as copies that can be in flight, arrive late, arrive    *)
(* twice or be lost, but a store only ever admits a bundle that a device   *)
(* composed and that had not expired when it was looked at, which may be a *)
(* while before, and never holds more than its cap.                        *)
(* Whom a device talks to, and which bundles a sync session chooses, is    *)
(* left open here.  MeshRelay, the sync protocol of mesh/src/relay.rs,     *)
(* implements this module; MeshTransport is built on it.                   *)
(*                                                                         *)
(* A bundle is identified by its content hash, so it is in a store or not. *)
(* All devices read the same time: creation stamps and deadlines are wall- *)
(* clock values that the code compares as they are.                        *)
(***************************************************************************)
EXTENDS Integers, FiniteSets

CONSTANTS
  Nodes,     \* devices, each with a MeshRelayAgent
  Bundles,   \* bundles that can be composed
  MaxTotal,  \* max_total_bundles
  Lifetimes, \* lifetimes bundles are wrapped with
  MaxNow,    \* bound: time stops there
  MaxWait    \* bound: how long a task waits for the lock of a store

Unborn == -1  \* expiry of a bundle not composed yet

ASSUME GossipAssumption ==
  /\ MaxTotal \in Nat \ {0}
  /\ Lifetimes \subseteq Nat
  /\ MaxNow \in Nat
  /\ MaxWait \in Nat

VARIABLES
  now,     \* wall clock
  expiry,  \* per bundle: creation_timestamp + lifetime, Unborn before
  store,   \* per device: the bundles of its RelayStore
  flight   \* per device: bundles sent to it and not yet received

gossip == <<now, expiry, store, flight>>

GossipInit ==
  /\ now = 0
  /\ expiry = [b \in Bundles |-> Unborn]
  /\ store = [n \in Nodes |-> {}]
  /\ flight = [n \in Nodes |-> {}]

Born(b) == expiry[b] # Unborn
Expired(b) == expiry[b] <= now

\* now_ms as a task may have read it that has got the lock of a store.
Readings == {then \in 0..now : now - then <= MaxWait}

Tick ==
  /\ now < MaxNow
  /\ now' = now + 1
  /\ UNCHANGED <<expiry, store, flight>>

\* The global cap of admit_checked.
HasRoom(n) == Cardinality(store[n]) < MaxTotal

\* A device composes a bundle and its own store admits it.
Compose(n, b, life) ==
  /\ ~Born(b)
  /\ life > 0
  /\ HasRoom(n)
  /\ \E then \in Readings : expiry' = [expiry EXCEPT ![b] = then + life]
  /\ store' = [store EXCEPT ![n] = @ \cup {b}]
  /\ UNCHANGED <<now, flight>>

\* Copies of some bundles of one store leave for another device.
Offer(from, to, copies) ==
  /\ from # to
  /\ copies \subseteq store[from]
  /\ flight' = [flight EXCEPT ![to] = @ \cup copies]
  /\ UNCHANGED <<now, expiry, store>>

\* Another copy of the same bundle may still be on its way.
Landed(n, b) == flight' \in {flight, [flight EXCEPT ![n] = @ \ {b}]}

\* A copy arrives and is admitted, or is refused, for whatever reason, or lost.
Arrive(n, b) ==
  /\ b \in flight[n]
  /\ \E then \in Readings : expiry[b] > then
  /\ b \in store[n] \/ HasRoom(n)
  /\ store' = [store EXCEPT ![n] = @ \cup {b}]
  /\ Landed(n, b)
  /\ UNCHANGED <<now, expiry>>

Lost(n, lost) ==
  /\ lost \subseteq flight[n]
  /\ flight' = [flight EXCEPT ![n] = @ \ lost]
  /\ UNCHANGED <<now, expiry, store>>

\* Bundles leave a store, claimed or swept.
Leave(n, gone) ==
  /\ store' = [store EXCEPT ![n] = @ \ gone]
  /\ UNCHANGED <<now, expiry, flight>>

Swept(n, then) == {b \in store[n] : expiry[b] <= then}
Sweep(n, then) == Leave(n, Swept(n, then))

\* A store lives in memory only.
Crash(n) ==
  /\ store' = [store EXCEPT ![n] = {}]
  /\ flight' = [flight EXCEPT ![n] = {}]
  /\ UNCHANGED <<now, expiry>>

GossipNext ==
  \/ Tick
  \/ \E n \in Nodes, b \in Bundles, life \in Lifetimes : Compose(n, b, life)
  \/ \E m, n \in Nodes : \E copies \in SUBSET store[m] : Offer(m, n, copies)
  \/ \E n \in Nodes, b \in Bundles : Arrive(n, b)
  \/ \E n \in Nodes : \E lost \in SUBSET flight[n] : Lost(n, lost)
  \/ \E n \in Nodes : \E gone \in SUBSET store[n] : Leave(n, gone)
  \/ \E n \in Nodes : Crash(n)

GossipSpec == GossipInit /\ [][GossipNext]_gossip
=============================================================================
