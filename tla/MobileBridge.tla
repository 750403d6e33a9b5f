---------------------------- MODULE MobileBridge ----------------------------
(***************************************************************************)
(* The bridge between the Android app and the mesh (mobile-bridge/src):    *)
(* Rust tasks that call into Kotlin and wait for a callback to answer,     *)
(* registries that map the numbers both sides know the calls by, the start *)
(* and stop of the runtime the tasks live in, and the plaintexts the app   *)
(* refers to by such numbers too.                                          *)
(*                                                                         *)
(* Kotlin's side is the set of calls it may answer: at any time, twice, or *)
(* never, from any thread.  What the messages of a link say is MeshRelay's *)
(* matter: here a link is a number of calls, each of which may fail.       *)
(***************************************************************************)
EXTENDS Integers, Sequences, FiniteSets

CONSTANTS
  Inbound,   \* tasks that serve accepted links: bound on how many at once
  StreamCap, \* capacity of the channels sightings go through, 64
  Threads,   \* threads of the app that copy a plaintext
  None,
  MaxIds,    \* bound: numbers handed out; past it a call fails
  MaxRuns,   \* bound: starts of the mesh
  MaxTexts   \* bound: plaintexts

ASSUME BridgeAssumption ==
  /\ StreamCap \in Nat \ {0} /\ {MaxIds, MaxRuns, MaxTexts} \subseteq Nat
  /\ None \notin [ok : BOOLEAN, to : Nat]

VARIABLES
  next,      \* NEXT_ID
  serial,    \* history: number of registrations
  mesh,      \* RUNNING: whether there is a runtime
  runs,      \* number of starts
  task,      \* per task: what it is doing
  oneshots,  \* per id: the sender of a call's channel
  streams,   \* per id: what is in a scan's channel
  scan,      \* the task that collects a scan: its id, and the channel it fills
  calls,     \* Kotlin: calls it may answer, by id
  scanning,  \* Kotlin: scanCallbacks, by id
  unstopped, \* history: scans that Kotlin was not told to stop, or could not be
  orphans,   \* history: ids whose entries their call has left behind
  texts,     \* per id: the plaintext
  copying,   \* per thread: the copy it is making
  copied     \* history: for whom a copy was made, and of what

registry == <<next, serial, oneshots>>
radio == <<streams, scan, scanning, unstopped>>
plain == <<texts, copying, copied>>
vars == <<registry, mesh, runs, task, radio, calls, orphans, plain>>

Ids == 1..MaxIds
Loops == {"sync", "accept", "start", "rotate"}
Tasks == Loops \cup Inbound
Channels == [task : Tasks, serial : Nat]

Quiet == [at |-> "idle", op |-> None, id |-> 0, serial |-> 0, answer |-> None]
NoScan == [id |-> 0, out |-> 0, held |-> FALSE]
NoCopy == [id |-> 0, len |-> 0, owner |-> 0]

Init ==
  /\ next = 1 /\ serial = 0
  /\ mesh = FALSE /\ runs = 0
  /\ task = [t \in Tasks |-> Quiet]
  /\ oneshots = [i \in Ids |-> None]
  /\ streams = [i \in Ids |-> None]
  /\ scan = NoScan
  /\ calls = {} /\ scanning = {} /\ unstopped = {} /\ orphans = {}
  /\ texts = [i \in Ids |-> None]
  /\ copying = [w \in Threads |-> NoCopy]
  /\ copied = {}

----------------------------------------------------------------------------
(* The registries *)

\* Faulty variant: the first number that is free.
FreeId ==
  IF \A i \in Ids : oneshots[i] # None \/ texts[i] # None \/ streams[i] # None THEN next
  ELSE CHOOSE i \in Ids :
    /\ oneshots[i] = None /\ texts[i] = None /\ streams[i] = None
    /\ \A j \in 1..(i - 1) : oneshots[j] # None \/ texts[j] # None \/ streams[j] # None

\* next_id: never the same one again.
NextId == next

TakeId == next' = next + 1 /\ serial' = serial + 1

\* register_oneshot: the receiver stays with the task.
RegisterOneshot(t, op) ==
  /\ TakeId
  /\ oneshots' = [oneshots EXCEPT ![NextId] = [task |-> t, serial |-> serial + 1]]
  /\ task' = [task EXCEPT ![t] =
       [at |-> "registered", op |-> op, id |-> NextId, serial |-> serial + 1, answer |-> None]]

\* Faulty variant: the sender is looked up, not taken out.
KeepOneshot(i) == i \in Ids /\ UNCHANGED oneshots

RemoveOneshot(i) == oneshots' = [oneshots EXCEPT ![i] = None]

\* resolve_oneshot: dropped if nobody is registered, or waits any more.
ResolveOneshot(i, a) ==
  LET c == oneshots[i] IN
  IF c = None THEN UNCHANGED <<oneshots, task>>
  ELSE /\ RemoveOneshot(i)
       /\ task' = IF /\ task[c.task].serial = c.serial
                     /\ task[c.task].at \in {"registered", "waiting"}
                  THEN [task EXCEPT ![c.task].answer = a] ELSE task

----------------------------------------------------------------------------
(* A call of a task: AndroidMeshRadio and AndroidMeshLink *)

\* The first advertisement is a task of its own, beside the rotation loop.
Advertises(t) == t \in {"start", "rotate"} /\ task[t].at = "idle"

AcceptLoop(t) == t = "accept" /\ task[t].at = "idle"

\* sync_once, for a peer it has sighted.
Connects(t) == t = "sync" /\ task[t].at = "sighted"

\* AndroidMeshLink's send and recv.
UsesLink(t) == task[t].at = "linked"

MayCall(t, op) ==
  \/ op = "advertise" /\ Advertises(t)
  \/ op = "accept" /\ AcceptLoop(t)
  \/ op = "connect" /\ Connects(t)
  \/ op = "link" /\ UsesLink(t)

Call(t, op) ==
  /\ mesh /\ next <= MaxIds
  /\ MayCall(t, op)
  /\ RegisterOneshot(t, op)
  /\ UNCHANGED <<mesh, runs, radio, calls, orphans, plain>>

\* The call into Kotlin, which may answer before it returns.
CallKotlin(t) ==
  /\ task[t].at = "registered"
  /\ task' = [task EXCEPT ![t].at = "waiting"]
  /\ calls' = calls \cup {[id |-> task[t].id, serial |-> task[t].serial]}
  /\ UNCHANGED <<registry, mesh, runs, radio, orphans, plain>>

\* A callback: nativeOnAdvertiseResult, ...ConnectResult and so on.  Kotlin
\* may come back to the same request.
Callback(c, answer) ==
  /\ ResolveOneshot(c.id, [ok |-> answer, to |-> c.serial])
  /\ calls' \in {calls, calls \ {c}}
  /\ UNCHANGED <<next, serial, mesh, runs, radio, orphans, plain>>

\* Where an error leaves the task: the accept loop ends, and the task of the
\* first advertisement does not try again; the others go on.
Failed(t) ==
  [Quiet EXCEPT !.at =
     IF t = "sync" THEN "draining" ELSE IF t \in {"accept", "start"} THEN "ended" ELSE "idle"]

Advertised(t) == [Quiet EXCEPT !.at = IF t = "start" THEN "ended" ELSE "idle"]

\* The JNI call fails and `?` returns, without the entry being removed.
JniFails(t) ==
  /\ task[t].at = "registered"
  /\ task' = [task EXCEPT ![t] = Failed(t)]
  /\ orphans' = orphans \cup {task[t].id}
  /\ UNCHANGED <<registry, mesh, runs, radio, calls, plain>>

\* Past the bound on numbers.
NoMoreIds(t) ==
  /\ next > MaxIds /\ task[t].at \in {"sighted", "linked"}
  /\ task' = [task EXCEPT ![t] = Failed(t)]
  /\ UNCHANGED <<registry, mesh, runs, radio, calls, orphans, plain>>

\* The answer is in the channel.  A link goes on or is over; an accepted one
\* is served by a task of its own.
Resume(t) ==
  LET r == task[t]  linked == [Quiet EXCEPT !.at = "linked"] IN
  /\ r.at = "waiting" /\ r.answer # None
  /\ \/ ~r.answer.ok /\ task' = [task EXCEPT ![t] = Failed(t)]
     \/ r.answer.ok /\ r.op = "advertise" /\ task' = [task EXCEPT ![t] = Advertised(t)]
     \/ r.answer.ok /\ r.op \in {"connect", "link"} /\ task' = [task EXCEPT ![t] = linked]
     \/ r.answer.ok /\ r.op = "link" /\ task' = [task EXCEPT ![t] = Failed(t)]
     \/ /\ r.answer.ok /\ r.op = "accept"
        /\ \E i \in Inbound : /\ task[i].at = "idle"
                              /\ task' = [task EXCEPT ![t] = Quiet, ![i] = linked]
  /\ UNCHANGED <<registry, mesh, runs, radio, calls, orphans, plain>>

----------------------------------------------------------------------------
(* Scanning *)

\* register_stream, then start_scan; without a scanner Kotlin does nothing,
\* and does not say so.
Scan ==
  /\ mesh /\ task["sync"].at = "idle" /\ next <= MaxIds
  /\ TakeId
  /\ streams' = [streams EXCEPT ![NextId] = <<>>]
  /\ \/ /\ scan' = [NoScan EXCEPT !.id = NextId]
        /\ scanning' \in {scanning, scanning \cup {NextId}}
        /\ task' = [task EXCEPT !["sync"].at = "draining"]
        /\ UNCHANGED orphans
     \/ /\ orphans' = orphans \cup {NextId}
        /\ UNCHANGED <<scan, scanning, task>>
  /\ UNCHANGED <<mesh, runs, oneshots, unstopped, calls, plain>>

\* Faulty variant: an unbounded channel.
SendStream(i, sighting) == streams' = [streams EXCEPT ![i] = Append(@, sighting)]

\* push_stream: dropped when the channel is full.
PushStream(i, sighting) ==
  /\ streams[i] # None /\ Len(streams[i]) < StreamCap
  /\ streams' = [streams EXCEPT ![i] = Append(@, sighting)]

\* nativeOnScanResult: the token of a Linux peer is of the length expected,
\* an Android peer's has the protocol tag in front.
ScanResult(i, sighting) ==
  /\ i \in scanning /\ streams[i] # None /\ Len(streams[i]) <= StreamCap
  /\ PushStream(i, sighting)
  /\ UNCHANGED <<registry, mesh, runs, task, scan, scanning, unstopped, calls, orphans, plain>>

Collecting == scan.id # 0

\* One that is malformed is skipped; the others go to the sync loop, whose
\* channel may be full.
Collect ==
  /\ Collecting /\ ~scan.held /\ streams[scan.id] # <<>>
  /\ streams' = [streams EXCEPT ![scan.id] = Tail(@)]
  /\ scan' = [scan EXCEPT !.held = Head(streams[scan.id])]
  /\ UNCHANGED <<registry, mesh, runs, task, scanning, unstopped, calls, orphans, plain>>

SendSighting ==
  /\ scan.held /\ scan.out < StreamCap
  /\ scan' = [scan EXCEPT !.held = FALSE, !.out = @ + 1]
  /\ UNCHANGED <<registry, mesh, runs, task, streams, scanning, unstopped, calls, orphans, plain>>

\* Faulty variant: only a channel that is closed ends the scan.
NeverDeadline == Collecting /\ streams[scan.id] = None /\ UNCHANGED vars

\* After four seconds, unless a sighting is still to be sent on: what is in
\* the channel of the sync loop stays there.  Whether Kotlin could be told to
\* stop is not looked at.
Deadline ==
  /\ Collecting /\ ~scan.held
  /\ streams' = [streams EXCEPT ![scan.id] = None]
  /\ \/ scanning' = scanning \ {scan.id} /\ UNCHANGED unstopped
     \/ unstopped' = unstopped \cup {scan.id} /\ UNCHANGED scanning
  /\ scan' = [scan EXCEPT !.id = 0]
  /\ UNCHANGED <<registry, mesh, runs, task, calls, orphans, plain>>

\* sync_once: the next sighting, or the end of the stream.
NextSighting ==
  /\ task["sync"].at = "draining"
  /\ \/ /\ scan.out > 0
        /\ scan' = [scan EXCEPT !.out = @ - 1]
        /\ task' = [task EXCEPT !["sync"].at = "sighted"]
     \/ /\ scan.out = 0 /\ ~Collecting
        /\ task' = [task EXCEPT !["sync"].at = "idle"]
        /\ UNCHANGED scan
  /\ UNCHANGED <<registry, mesh, runs, streams, scanning, unstopped, calls, orphans, plain>>

----------------------------------------------------------------------------
(* Start and stop *)

StartMesh ==
  /\ ~mesh /\ runs < MaxRuns
  /\ mesh' = TRUE /\ runs' = runs + 1
  /\ UNCHANGED <<registry, task, radio, calls, orphans, plain>>

Entries(t) == IF task[t].at \in {"registered", "waiting"} THEN {task[t].id} ELSE {}

\* The runtime is dropped and its tasks with it, wherever they wait: nothing
\* after that point runs, and nothing tells Kotlin or the registries: nothing
\* is done when the radio is dropped, and only the collector calls stop_scan.
StopMesh ==
  /\ mesh
  /\ mesh' = FALSE
  /\ task' = [t \in Tasks |-> Quiet]
  /\ scan' = NoScan
  /\ orphans' = orphans \cup (UNION {Entries(t) : t \in Tasks}) \cup ({scan.id} \ {0})
  /\ unstopped' = unstopped \cup ({scan.id} \ {0})
  /\ UNCHANGED <<registry, runs, streams, scanning, calls, plain>>

----------------------------------------------------------------------------
(* Plaintexts *)

Length(owner) == 1 + (owner % 2)

\* nativePlaintextNew: owner stands for who was given the number.
PlaintextNew ==
  /\ next <= MaxIds /\ Cardinality({i \in Ids : texts[i] # None}) < MaxTexts
  /\ TakeId
  /\ texts' = [texts EXCEPT ![NextId] = serial + 1]
  /\ copied' = copied \cup {[id |-> NextId, owner |-> serial + 1, of |-> None]}
  /\ UNCHANGED <<oneshots, mesh, runs, task, radio, calls, orphans, copying>>

\* nativePlaintextCopyInto, up to the unlock; null if there is none.
CopyLen(w, h) ==
  /\ copying[w] = NoCopy /\ texts[h.id] # None
  /\ copying' = [copying EXCEPT ![w] =
       [id |-> h.id, len |-> Length(texts[h.id]), owner |-> h.owner]]
  /\ UNCHANGED <<registry, mesh, runs, task, radio, calls, orphans, texts, copied>>

\* After the second lock: null if it is gone by now, or has grown too long.
CopyInto(w) ==
  LET c == copying[w]  text == texts[c.id] IN
  /\ c # NoCopy
  /\ copied' = IF text # None /\ Length(text) <= c.len
               THEN copied \cup {[id |-> c.id, owner |-> c.owner, of |-> text]} ELSE copied
  /\ copying' = [copying EXCEPT ![w] = NoCopy]
  /\ UNCHANGED <<registry, mesh, runs, task, radio, calls, orphans, texts>>

\* nativePlaintextRelease: zeroed, unlocked and gone; again, nothing.
Release(h) ==
  /\ texts' = [texts EXCEPT ![h.id] = None]
  /\ UNCHANGED <<registry, mesh, runs, task, radio, calls, orphans, copying, copied>>

Plaintexts ==
  \/ PlaintextNew
  \/ \E w \in Threads : CopyInto(w) \/ \E h \in copied : CopyLen(w, h)
  \/ \E h \in copied : Release(h)

----------------------------------------------------------------------------

Ops == {"advertise", "accept", "connect", "link"}

TaskStep(t) ==
  \/ CallKotlin(t) \/ JniFails(t) \/ NoMoreIds(t) \/ Resume(t)
  \/ \E op \in Ops : Call(t, op)

Kotlin ==
  \/ \E c \in calls, answer \in BOOLEAN : Callback(c, answer)
  \/ \E i \in scanning, sighting \in BOOLEAN : ScanResult(i, sighting)

Next ==
  \/ StartMesh \/ StopMesh \/ Kotlin \/ Plaintexts
  \/ Scan \/ Collect \/ SendSighting \/ Deadline \/ NextSighting
  \/ \E t \in Tasks : TaskStep(t)

Spec == Init /\ [][Next]_vars

\* The runtime polls its tasks; select! takes one of the branches that are
\* ready at random, so the deadline is not passed over for ever by sightings.
\* Kotlin owes nothing.
FairSpec ==
  /\ Spec
  /\ WF_vars(SendSighting) /\ SF_vars(Deadline) /\ WF_vars(NextSighting)
  /\ WF_vars(TaskStep("sync"))

----------------------------------------------------------------------------
(* Properties *)

\* Types; no channel of a scan holds more than its capacity.
TypeOK ==
  /\ next \in 1..(MaxIds + 1)
  /\ oneshots \in [Ids -> Channels \cup {None}]
  /\ \A i \in Ids : streams[i] # None => Len(streams[i]) <= StreamCap
  /\ scan.out <= StreamCap
  /\ texts \in [Ids -> Nat \cup {None}]

\* A task that waits has its sender in the registry until the answer is in
\* its channel, so that only Kotlin can keep it waiting; and an entry that
\* nobody waits for is one whose call failed to reach Kotlin, or was under
\* way when the mesh was stopped.
EntriesAccounted ==
  /\ \A t \in Tasks : task[t].at \in {"registered", "waiting"} /\ task[t].answer = None
       => oneshots[task[t].id] = [task |-> t, serial |-> task[t].serial]
  /\ \A i \in Ids : oneshots[i] # None =>
       i \in orphans \/ \E t \in Tasks : task[t].id = i /\ task[t].answer = None
  /\ \A i \in Ids : streams[i] # None => i \in orphans \/ scan.id = i

\* Whoever is known by a number gets what belongs to it: a call is answered
\* by a callback for that call, though Kotlin answers late, twice, or after
\* the mesh was stopped and started again, and a plaintext is copied for the
\* one it was handed to, although others are made and released in between.
OwnAnswer ==
  /\ \A t \in Tasks : task[t].answer # None => task[t].answer.to = task[t].serial
  /\ \A h \in copied : h.of \in {None, h.owner}

\* No scan of Kotlin's goes on for ever, but for one of three causes: a peer is
\* connected to or a link is used by a call that Kotlin never answers, which
\* keeps the collector from its deadline; the call that stops the scan fails;
\* or the mesh is stopped in the middle of it.
ScansEnd ==
  \/ \A i \in Ids : i \in scanning ~> (i \notin scanning \/ i \in unstopped)
  \/ <>[](task["sync"].at = "waiting" /\ task["sync"].answer = None)
=============================================================================
