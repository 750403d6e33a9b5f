------------------------------ MODULE MixNode ------------------------------
(***************************************************************************)
(* The processes of the mix nodes and the identity each loads at its start *)
(* (mixnode/src/identity.rs, main.rs): from the environment, from a key    *)
(* file it may have to write first, or a new one every time.               *)
(*                                                                         *)
(* Several processes may be started for one node, a restart before the old *)
(* one is gone: they share the key file and the address.  Any of them may  *)
(* stop between any two of its steps.  The build is the Unix one, which    *)
(* creates the file exclusively.                                           *)
(***************************************************************************)
EXTENDS Integers, FiniteSets

CONSTANTS
  Nodes,
  Procs,
  NodeOf,     \* the node a process is started for
  KeySource,  \* per node: "env", "file" or "none"
  MaxStarts   \* bound: process starts

ASSUME NodesAssumption ==
  /\ NodeOf \in [Procs -> Nodes]
  /\ KeySource \in [Nodes -> {"env", "file", "none"}]
  /\ MaxStarts \in Nat

VARIABLES
  file,    \* per node: its key file
  proc,    \* per process: where it is and the key it has
  starts,  \* number of starts so far
  known    \* per node: its key in the clients' topology

mixnodes == <<file, proc, starts, known>>

NoKey == 0
EnvKey == 1
Absent == -1   \* no file
Partial == -2  \* a file without a whole key in it
Keys == 1..(MaxStarts + 1)

Down == [at |-> "down", key |-> NoKey]

MixNodeInit ==
  /\ file = [n \in Nodes |-> Absent]
  /\ proc = [p \in Procs |-> Down]
  /\ starts = 0
  /\ known = [n \in Nodes |-> NoKey]

\* generate_node_keypair: one that nobody else has.
NewKey == starts + 2

At(p, at, key) == proc' = [proc EXCEPT ![p] = [at |-> at, key |-> key]]

\* Reads the file; a malformed one ends the process.
LoadOrCreateKeyFile(p) ==
  LET content == file[NodeOf[p]] IN
  \/ content = Absent /\ At(p, "create", NewKey)
  \/ content \in Keys /\ At(p, "loaded", content)
  \/ content = Partial /\ UNCHANGED proc

LoadOrGenerate(p) ==
  /\ proc[p].at = "down" /\ starts < MaxStarts
  /\ starts' = starts + 1
  /\ \/ KeySource[NodeOf[p]] = "env" /\ At(p, "loaded", EnvKey)
     \/ KeySource[NodeOf[p]] = "none" /\ At(p, "loaded", NewKey)
     \/ KeySource[NodeOf[p]] = "file" /\ LoadOrCreateKeyFile(p)
  /\ UNCHANGED <<file, known>>

\* Faulty variant: File::create, which truncates.
CreateOver(p) ==
  /\ proc[p].at = "create"
  /\ file' = [file EXCEPT ![NodeOf[p]] = Partial]
  /\ At(p, "write", proc[p].key)
  /\ UNCHANGED <<starts, known>>

\* create_new: the process ends if there is a file by now.
CreateNew(p) ==
  /\ proc[p].at = "create"
  /\ IF file[NodeOf[p]] = Absent
     THEN file' = [file EXCEPT ![NodeOf[p]] = Partial] /\ At(p, "write", proc[p].key)
     ELSE proc' = [proc EXCEPT ![p] = Down] /\ UNCHANGED file
  /\ UNCHANGED <<starts, known>>

WriteAll(p) ==
  /\ proc[p].at = "write"
  /\ file' = [file EXCEPT ![NodeOf[p]] = proc[p].key]
  /\ At(p, "loaded", proc[p].key)
  /\ UNCHANGED <<starts, known>>

Serving(n) == {p \in Procs : NodeOf[p] = n /\ proc[p].at = "up"}

\* Binds the node's address, or ends.
Serve(p) ==
  /\ proc[p].at = "loaded"
  /\ IF Serving(NodeOf[p]) = {} THEN At(p, "up", proc[p].key)
     ELSE proc' = [proc EXCEPT ![p] = Down]
  /\ UNCHANGED <<file, starts, known>>

Stop(p) ==
  /\ proc[p].at # "down"
  /\ proc' = [proc EXCEPT ![p] = Down]
  /\ UNCHANGED <<file, starts, known>>

\* The operator copies the key a node serves with (/mix/pubkey, or its log)
\* into the peers' configuration, once.
Enroll(n) ==
  /\ known[n] = NoKey
  /\ \E p \in Serving(n) : known' = [known EXCEPT ![n] = proc[p].key]
  /\ UNCHANGED <<file, proc, starts>>

\* A packet made for the key in the topology can be unwrapped at n.
ProcessPacket(n) == \E p \in Serving(n) : proc[p].key = known[n]

MixNodeNext ==
  \/ \E p \in Procs : LoadOrGenerate(p) \/ CreateNew(p) \/ WriteAll(p) \/ Serve(p) \/ Stop(p)
  \/ \E n \in Nodes : Enroll(n)

MixNodeSpec == MixNodeInit /\ [][MixNodeNext]_mixnodes

----------------------------------------------------------------------------

MixNodeTypeOK ==
  /\ file \in [Nodes -> Keys \cup {Absent, Partial}]
  /\ proc \in [Procs -> [at : {"down", "create", "write", "loaded", "up"}, key : Nat]]
  /\ starts \in 0..MaxStarts
  /\ known \in [Nodes -> Keys \cup {NoKey}]

\* The key of a node with a key file, once clients have it, is the key of
\* every process that serves for the node from then on: neither a restart,
\* nor a process that stops while it writes the file, nor two processes that
\* both find no file replace the identity that clients route to.
IdentityStays ==
  \A p \in Procs : LET n == NodeOf[p] IN
    /\ KeySource[n] # "none" /\ known[n] # NoKey /\ proc[p].at = "up"
    => proc[p].key = known[n]
=============================================================================
