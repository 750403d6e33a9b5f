------------------------ MODULE MobileBridge_proofs ------------------------
(***************************************************************************)
(* The registries of the bridge, for any numbers of tasks, threads, calls, *)
(* sightings and starts of the mesh, and whatever Kotlin answers and when. *)
(*                                                                         *)
(* All three properties rest on NEXT_ID never giving a number twice: then  *)
(* a number tells the registration it was made for (a history of the       *)
(* model), which a callback that comes late cannot know.                   *)
(***************************************************************************)
EXTENDS MobileBridge, TLAPS

----------------------------------------------------------------------------
(* Numbers and plaintexts *)

Numbered ==
  /\ next \in 1..(MaxIds + 1)
  /\ serial = next - 1

\* A plaintext, and every copy of its number, is the one the number was made for.
Owned ==
  /\ texts \in [Ids -> Nat \cup {None}]
  /\ \A i \in Ids : texts[i] # None => texts[i] = i
  /\ copying = [w \in Threads |-> copying[w]]
  /\ \A w \in Threads : copying[w] # NoCopy => copying[w].id \in Ids /\ copying[w].owner = copying[w].id
  /\ \A h \in copied : h.id \in Ids /\ h.owner = h.id /\ h.of \in {None, h.owner}

LEMMA NumberedStep == Numbered /\ [Next]_vars => Numbered'
<1> SUFFICES ASSUME Numbered, [Next]_vars
             PROVE  Numbered'
  OBVIOUS
<1>1. MaxIds \in Nat
  BY BridgeAssumption
<1>2. ASSUME UNCHANGED <<next, serial>>
      PROVE  Numbered'
  BY <1>2 DEF Numbered
<1>3. ASSUME TakeId, next <= MaxIds
      PROVE  Numbered'
  BY <1>1, <1>3 DEF TakeId, Numbered
<1>4. ASSUME Kotlin
      PROVE  Numbered'
  BY <1>2, <1>4 DEF Kotlin, Callback, ScanResult, registry
<1>5. ASSUME Plaintexts
      PROVE  Numbered'
  BY <1>2, <1>3, <1>5 DEF Plaintexts, PlaintextNew, CopyInto, CopyLen, Release, registry
<1>6. ASSUME Scan \/ Collect \/ SendSighting \/ Deadline \/ NextSighting
      PROVE  Numbered'
  BY <1>2, <1>3, <1>6 DEF Scan, Collect, SendSighting, Deadline, NextSighting, registry
<1>7. ASSUME NEW t \in Tasks, TaskStep(t)
      PROVE  Numbered'
  BY <1>2, <1>3, <1>7 DEF TaskStep, CallKotlin, JniFails, NoMoreIds, Resume, Call, RegisterOneshot, registry
<1>8. ASSUME StartMesh \/ StopMesh \/ UNCHANGED vars
      PROVE  Numbered'
  BY <1>2, <1>8 DEF StartMesh, StopMesh, registry, vars
<1> QED
  BY <1>4, <1>5, <1>6, <1>7, <1>8 DEF Next

LEMMA OwnedStep == Numbered /\ Owned /\ [Next]_vars => Owned'
<1> SUFFICES ASSUME Numbered, Owned, [Next]_vars
             PROVE  Owned'
  OBVIOUS
<1>1. ASSUME UNCHANGED plain
      PROVE  Owned'
  BY <1>1 DEF plain, Owned
<1>2. ASSUME PlaintextNew
      PROVE  Owned'
  <2>1. /\ next \in Ids /\ next \in Nat /\ serial + 1 = next
        /\ texts' = [texts EXCEPT ![next] = next]
        /\ copied' = copied \cup {[id |-> next, owner |-> next, of |-> None]}
        /\ copying' = copying
    BY <1>2, BridgeAssumption DEF PlaintextNew, Numbered, Ids, NextId
  <2> QED
    BY <2>1 DEF Owned
<1>3. ASSUME NEW w \in Threads, NEW h \in copied, CopyLen(w, h)
      PROVE  Owned'
  <2>1. PICK len : copying' = [copying EXCEPT ![w] = [id |-> h.id, len |-> len, owner |-> h.owner]]
    BY <1>3 DEF CopyLen
  <2>2. UNCHANGED <<texts, copied>>
    BY <1>3 DEF CopyLen
  <2> QED
    BY <2>1, <2>2 DEF Owned
<1>4. ASSUME NEW w \in Threads, CopyInto(w)
      PROVE  Owned'
  <2> DEFINE c == copying[w]
  <2>1. /\ c # NoCopy /\ UNCHANGED texts
        /\ copying' = [copying EXCEPT ![w] = NoCopy]
        /\ \/ copied' = copied
           \/ /\ texts[c.id] # None
              /\ copied' = copied \cup {[id |-> c.id, owner |-> c.owner, of |-> texts[c.id]]}
    BY <1>4 DEF CopyInto
  <2>2. c.id \in Ids /\ c.owner = c.id /\ texts[c.id] \in {None, c.id}
    BY <2>1 DEF Owned
  <2> QED
    BY <2>1, <2>2 DEF Owned
<1>5. ASSUME NEW h \in copied, Release(h)
      PROVE  Owned'
  <2>1. texts' = [texts EXCEPT ![h.id] = None] /\ UNCHANGED <<copying, copied>>
    BY <1>5 DEF Release
  <2> QED
    BY <2>1 DEF Owned
<1>6. ASSUME Kotlin
      PROVE  Owned'
  BY <1>1, <1>6 DEF Kotlin, Callback, ScanResult
<1>7. ASSUME Scan \/ Collect \/ SendSighting \/ Deadline \/ NextSighting
      PROVE  Owned'
  BY <1>1, <1>7 DEF Scan, Collect, SendSighting, Deadline, NextSighting
<1>8. ASSUME NEW t \in Tasks, TaskStep(t)
      PROVE  Owned'
  BY <1>1, <1>8 DEF TaskStep, CallKotlin, JniFails, NoMoreIds, Resume, Call
<1>9. ASSUME StartMesh \/ StopMesh \/ UNCHANGED vars
      PROVE  Owned'
  BY <1>1, <1>9 DEF StartMesh, StopMesh, vars
<1> QED
  BY <1>2, <1>3, <1>4, <1>5, <1>6, <1>7, <1>8, <1>9 DEF Next, Plaintexts

----------------------------------------------------------------------------
(* Calls *)

InCall == {"registered", "waiting"}
Answers == [ok : BOOLEAN, to : Nat]
CallRecords ==
  [at : InCall \cup {"idle", "draining", "sighted", "linked", "ended"},
   op : Ops \cup {None}, id : Nat, serial : Nat, answer : Answers \cup {None}]

\* A task has a number as long as it is in a call, which is its registration's.
\* An answer is one to that registration.
Waits ==
  /\ task \in [Tasks -> CallRecords]
  /\ \A t \in Tasks :
       \/ /\ task[t].at \in InCall
          /\ task[t].id \in Ids /\ task[t].id < next
          /\ task[t].serial = task[t].id
          /\ task[t].answer # None => task[t].answer.to = task[t].serial
       \/ /\ task[t].at \notin InCall
          /\ task[t].id = 0 /\ task[t].answer = None

\* Kotlin knows registrations by their numbers.
Known ==
  /\ oneshots \in [Ids -> Channels \cup {None}]
  /\ \A i \in Ids : oneshots[i] # None => oneshots[i].serial = i
  /\ \A c \in calls : c.id \in Ids /\ c.serial = c.id

Registered(t) ==
  task[t].at \in InCall /\ task[t].answer = None
  => oneshots[task[t].id] = [task |-> t, serial |-> task[t].serial]

Explained(i) ==
  oneshots[i] # None => i \in orphans \/ \E t \in Tasks : task[t].id = i /\ task[t].answer = None

Entered ==
  /\ \A t \in Tasks : Registered(t)
  /\ \A i \in Ids : Explained(i)

Awaited == Waits /\ Known /\ Entered

calling == <<next, task, oneshots, calls>>

\* Steps that leave the calls alone may only add orphans.
LEMMA OthersAwait ==
  ASSUME Awaited, UNCHANGED calling, orphans \subseteq orphans'
  PROVE  Awaited'
BY DEF Awaited, Waits, Known, Entered, Registered, Explained, calling, InCall, CallRecords, Answers

\* A task that is in no call, before or after, changes its place.
LEMMA MoveAwaits ==
  ASSUME Awaited, NEW t \in Tasks, NEW r \in CallRecords,
         task[t].at \notin InCall, r.at \notin InCall, r.id = 0, r.answer = None,
         task' = [task EXCEPT ![t] = r],
         next' = next \/ next' = next + 1, next \in Nat,
         UNCHANGED <<oneshots, calls>>, orphans \subseteq orphans'
  PROVE  Awaited'
<1>1. /\ task'[t] = r /\ \A u \in Tasks : u # t => task'[u] = task[u]
      /\ task' \in [Tasks -> CallRecords]
  BY DEF Awaited, Waits
<1>2. \A u \in Tasks : task[u].id \in Nat
  BY DEF Awaited, Waits, CallRecords
<1>3. Waits'
  BY <1>1, <1>2 DEF Awaited, Waits
<1>4. Known'
  BY DEF Awaited, Known
<1>5. ASSUME NEW u \in Tasks
      PROVE  Registered(u)'
  BY <1>1 DEF Awaited, Entered, Registered
<1>6. ASSUME NEW i \in Ids
      PROVE  Explained(i)'
  <2>1. task[t].id = 0 /\ i # 0
    BY DEF Awaited, Waits, Ids
  <2> QED
    BY <1>1, <2>1 DEF Awaited, Entered, Explained
<1> QED
  BY <1>3, <1>4, <1>5, <1>6 DEF Awaited, Entered

\* A task leaves its call, which was answered or leaves its entry behind.
LEMMA LeaveAwaits ==
  ASSUME Awaited, NEW t \in Tasks, NEW r \in CallRecords,
         task[t].at \in InCall, r.at \notin InCall, r.id = 0, r.answer = None,
         task' = [task EXCEPT ![t] = r],
         task[t].answer # None \/ task[t].id \in orphans',
         UNCHANGED <<next, oneshots, calls>>, orphans \subseteq orphans'
  PROVE  Awaited'
<1>1. /\ task'[t] = r /\ \A u \in Tasks : u # t => task'[u] = task[u]
      /\ task' \in [Tasks -> CallRecords]
  BY DEF Awaited, Waits
<1>2. Waits'
  BY <1>1 DEF Awaited, Waits
<1>3. Known'
  BY DEF Awaited, Known
<1>4. ASSUME NEW u \in Tasks
      PROVE  Registered(u)'
  BY <1>1 DEF Awaited, Entered, Registered
<1>5. ASSUME NEW i \in Ids
      PROVE  Explained(i)'
  BY <1>1 DEF Awaited, Entered, Explained
<1> QED
  BY <1>2, <1>3, <1>4, <1>5 DEF Awaited, Entered

LEMMA CallAwaits ==
  ASSUME Numbered, Awaited, NEW t \in Tasks, NEW op \in Ops, Call(t, op)
  PROVE  Awaited'
<1> DEFINE r == [at |-> "registered", op |-> op, id |-> next, serial |-> next, answer |-> None]
<1>1. /\ next \in Ids /\ next \in Nat /\ serial + 1 = next /\ next' = next + 1
      /\ oneshots' = [oneshots EXCEPT ![next] = [task |-> t, serial |-> next]]
      /\ task' = [task EXCEPT ![t] = r]
      /\ UNCHANGED <<calls, orphans>>
  BY BridgeAssumption DEF Call, RegisterOneshot, TakeId, Numbered, Ids, NextId
<1>2. r \in CallRecords /\ [task |-> t, serial |-> next] \in Channels
  BY <1>1 DEF CallRecords, Channels, InCall
<1>3. task[t].at \notin InCall
  BY DEF Call, MayCall, Advertises, AcceptLoop, Connects, UsesLink, InCall
<1>4. /\ task'[t] = r /\ \A u \in Tasks : u # t => task'[u] = task[u]
      /\ task' \in [Tasks -> CallRecords]
  BY <1>1, <1>2 DEF Awaited, Waits
<1>5. /\ oneshots'[next] = [task |-> t, serial |-> next]
      /\ \A i \in Ids : i # next => oneshots'[i] = oneshots[i]
      /\ oneshots' \in [Ids -> Channels \cup {None}]
  BY <1>1, <1>2 DEF Awaited, Known
<1>6. \A u \in Tasks : task[u].id \in Nat /\ task[u].id < next
  BY <1>1 DEF Awaited, Waits, CallRecords, Ids
<1>7. Waits'
  BY <1>1, <1>4, <1>6 DEF Awaited, Waits, InCall
<1>8. Known'
  BY <1>1, <1>5 DEF Awaited, Known
<1>9. ASSUME NEW u \in Tasks
      PROVE  Registered(u)'
  <2>1. CASE u = t
    BY <1>4, <1>5, <2>1 DEF Registered
  <2>2. CASE u # t
    <3>1. task[u].at \in InCall => task[u].id \in Ids /\ task[u].id # next
      BY <1>1, <1>6 DEF Awaited, Waits
    <3> QED
      BY <1>4, <1>5, <2>2, <3>1 DEF Awaited, Entered, Registered
  <2> QED
    BY <2>1, <2>2
<1>10. ASSUME NEW i \in Ids
       PROVE  Explained(i)'
  <2>1. CASE i = next
    BY <1>4, <2>1 DEF Explained
  <2>2. CASE i # next
    <3>1. i # 0 /\ task[t].id = 0
      BY <1>3 DEF Awaited, Waits, Ids
    <3> QED
      BY <1>1, <1>4, <1>5, <2>2, <3>1 DEF Awaited, Entered, Explained
  <2> QED
    BY <2>1, <2>2
<1> QED
  BY <1>7, <1>8, <1>9, <1>10 DEF Awaited, Entered

LEMMA CallKotlinAwaits ==
  ASSUME Awaited, NEW t \in Tasks, CallKotlin(t)
  PROVE  Awaited'
<1>1. /\ task[t].at = "registered"
      /\ task' = [task EXCEPT ![t].at = "waiting"]
      /\ calls' = calls \cup {[id |-> task[t].id, serial |-> task[t].serial]}
      /\ UNCHANGED <<next, oneshots, orphans>>
  BY DEF CallKotlin, registry
<1>2. /\ task'[t] = [task[t] EXCEPT !.at = "waiting"]
      /\ \A u \in Tasks : u # t => task'[u] = task[u]
      /\ task' \in [Tasks -> CallRecords]
  BY <1>1 DEF Awaited, Waits, CallRecords, InCall
<1>3. /\ task'[t].at = "waiting" /\ task'[t].id = task[t].id
      /\ task'[t].serial = task[t].serial /\ task'[t].answer = task[t].answer
  BY <1>2 DEF Awaited, Waits, CallRecords
<1>4. task[t].id \in Ids /\ task[t].serial = task[t].id
  BY <1>1 DEF Awaited, Waits, InCall
<1>5. Waits'
  BY <1>1, <1>2, <1>3 DEF Awaited, Waits, InCall
<1>6. Known'
  BY <1>1, <1>4 DEF Awaited, Known
<1>7. ASSUME NEW u \in Tasks
      PROVE  Registered(u)'
  BY <1>1, <1>2, <1>3 DEF Awaited, Entered, Registered, InCall
<1>8. ASSUME NEW i \in Ids
      PROVE  Explained(i)'
  BY <1>1, <1>2, <1>3 DEF Awaited, Entered, Explained
<1> QED
  BY <1>5, <1>6, <1>7, <1>8 DEF Awaited, Entered

LEMMA CallbackAwaits ==
  ASSUME Awaited, NEW c \in calls, NEW answer \in BOOLEAN, Callback(c, answer)
  PROVE  Awaited'
<1> DEFINE a == [ok |-> answer, to |-> c.serial]
<1>1. /\ calls' \subseteq calls /\ UNCHANGED <<next, orphans>>
      /\ ResolveOneshot(c.id, a)
      /\ c.id \in Ids /\ c.serial = c.id
  BY DEF Callback, Awaited, Known
<1>2. a \in Answers /\ a # None /\ a.to = c.id
  BY <1>1, BridgeAssumption DEF Answers, Ids
<1> HIDE DEF a
<1>3. CASE oneshots[c.id] = None
  <2>1. UNCHANGED <<oneshots, task>>
    BY <1>1, <1>3 DEF ResolveOneshot
  <2> QED
    BY <1>1, <2>1 DEF Awaited, Waits, Known, Entered, Registered, Explained
<1>4. CASE oneshots[c.id] # None
  <2>1. PICK u \in Tasks : oneshots[c.id] = [task |-> u, serial |-> c.id]
    BY <1>1, <1>4 DEF Awaited, Known, Channels
  <2>2. oneshots' = [oneshots EXCEPT ![c.id] = None]
    BY <1>1, <1>4 DEF ResolveOneshot, RemoveOneshot
  <2>3. /\ oneshots'[c.id] = None /\ \A i \in Ids : i # c.id => oneshots'[i] = oneshots[i]
        /\ oneshots' \in [Ids -> Channels \cup {None}]
    BY <1>1, <2>2 DEF Awaited, Known
  <2>4. Known'
    BY <1>1, <2>3 DEF Awaited, Known
  <2>5. CASE task[u].serial = c.id /\ task[u].at \in InCall
    <3>1. task' = [task EXCEPT ![u].answer = a]
      BY <1>1, <1>4, <2>1, <2>5 DEF ResolveOneshot, InCall
    <3>2. /\ task'[u] = [task[u] EXCEPT !.answer = a]
          /\ \A t \in Tasks : t # u => task'[t] = task[t]
          /\ task' \in [Tasks -> CallRecords]
      BY <1>2, <3>1 DEF Awaited, Waits, CallRecords
    <3>3. /\ task'[u].at = task[u].at /\ task'[u].id = task[u].id
          /\ task'[u].serial = task[u].serial /\ task'[u].answer = a
      BY <3>2 DEF Awaited, Waits, CallRecords
    <3>4. task[u].id = c.id
      BY <2>5 DEF Awaited, Waits
    <3>5. Waits'
      <4>1. c.id \in Ids /\ c.id < next
        BY <1>1, <2>5, <3>4 DEF Awaited, Waits
      <4>2. /\ task'[u].at \in InCall /\ task'[u].id = c.id
            /\ task'[u].serial = c.id /\ task'[u].answer.to = c.id
        BY <1>2, <2>5, <3>3, <3>4
      <4> SUFFICES ASSUME NEW t \in Tasks
                   PROVE  \/ /\ task'[t].at \in InCall
                             /\ task'[t].id \in Ids /\ task'[t].id < next
                             /\ task'[t].serial = task'[t].id
                             /\ task'[t].answer # None => task'[t].answer.to = task'[t].serial
                          \/ /\ task'[t].at \notin InCall
                             /\ task'[t].id = 0 /\ task'[t].answer = None
        BY <1>1, <3>2 DEF Waits
      <4>3. CASE t = u
        BY <4>1, <4>2, <4>3
      <4>4. CASE t # u
        BY <3>2, <4>4 DEF Awaited, Waits
      <4> QED
        BY <4>3, <4>4
    <3>6. ASSUME NEW t \in Tasks
          PROVE  Registered(t)'
      <4>1. CASE t = u
        BY <1>2, <3>3, <4>1 DEF Registered
      <4>2. CASE t # u
        <5>1. Registered(t) /\ (task[t].at \in InCall => task[t].id \in Ids)
          BY DEF Awaited, Entered, Waits
        <5> QED
          BY <2>1, <2>3, <3>2, <4>2, <5>1 DEF Registered
      <4> QED
        BY <4>1, <4>2
    <3>7. ASSUME NEW i \in Ids
          PROVE  Explained(i)'
      BY <1>1, <2>3, <3>2, <3>4 DEF Awaited, Entered, Explained
    <3> QED
      BY <2>4, <3>5, <3>6, <3>7 DEF Awaited, Entered
  <2>6. CASE ~(task[u].serial = c.id /\ task[u].at \in InCall)
    <3>1. task' = task
      BY <1>1, <1>4, <2>1, <2>6 DEF ResolveOneshot, InCall
    <3>2. ASSUME NEW t \in Tasks
          PROVE  Registered(t)'
      <4>1. Registered(t) /\ (task[t].at \in InCall => task[t].id \in Ids /\ task[t].serial = task[t].id)
        BY DEF Awaited, Entered, Waits
      <4> QED
        BY <2>1, <2>3, <2>6, <3>1, <4>1 DEF Registered
    <3>3. ASSUME NEW i \in Ids
          PROVE  Explained(i)'
      BY <1>1, <2>3, <3>1 DEF Awaited, Entered, Explained
    <3> QED
      BY <1>1, <2>4, <3>1, <3>2, <3>3 DEF Awaited, Entered, Waits
  <2> QED
    BY <2>5, <2>6
<1> QED
  BY <1>3, <1>4

\* Where an error leaves a task.
LEMMA FailedIs ==
  ASSUME NEW t \in Tasks
  PROVE  /\ Failed(t) \in CallRecords /\ Failed(t).id = 0 /\ Failed(t).answer = None
         /\ Failed(t).at \in {"draining", "ended", "idle"} /\ Failed(t).at \notin InCall
         /\ t = "sync" => Failed(t).at = "draining"
BY DEF Failed, Quiet, CallRecords, InCall

LEMMA AdvertisedIs ==
  ASSUME NEW t \in Tasks
  PROVE  /\ Advertised(t) \in CallRecords /\ Advertised(t).id = 0 /\ Advertised(t).answer = None
         /\ Advertised(t).at \notin InCall
BY DEF Advertised, Quiet, CallRecords, InCall

LEMMA LinkedIs ==
  LET linked == [Quiet EXCEPT !.at = "linked"] IN
  linked \in CallRecords /\ linked.id = 0 /\ linked.answer = None /\ linked.at = "linked"
BY DEF Quiet, CallRecords

LEMMA QuietIs ==
  /\ Quiet \in CallRecords /\ Quiet.id = 0 /\ Quiet.answer = None
  /\ Quiet.at = "idle" /\ Quiet.at \notin InCall
BY DEF Quiet, CallRecords, InCall

LEMMA ResumeAwaits ==
  ASSUME Numbered, Awaited, NEW t \in Tasks, Resume(t)
  PROVE  Awaited'
<1> DEFINE linked == [Quiet EXCEPT !.at = "linked"]
<1>1. /\ task[t].at = "waiting" /\ task[t].at \in InCall /\ task[t].answer # None
      /\ UNCHANGED <<next, oneshots, calls, orphans>>
      /\ \/ task' = [task EXCEPT ![t] = Failed(t)]
         \/ task' = [task EXCEPT ![t] = Advertised(t)]
         \/ task' = [task EXCEPT ![t] = linked]
         \/ \E i \in Inbound : /\ task[i].at = "idle"
                               /\ task' = [task EXCEPT ![t] = Quiet, ![i] = linked]
  BY DEF Resume, registry, InCall
<1>2. linked \in CallRecords /\ linked.id = 0 /\ linked.answer = None /\ linked.at \notin InCall
  BY LinkedIs DEF InCall
<1> HIDE DEF linked
<1>3. CASE task' = [task EXCEPT ![t] = Failed(t)]
  BY <1>1, <1>3, FailedIs, LeaveAwaits
<1>4. CASE task' = [task EXCEPT ![t] = Advertised(t)]
  BY <1>1, <1>4, AdvertisedIs, LeaveAwaits
<1>5. CASE task' = [task EXCEPT ![t] = linked]
  BY <1>1, <1>2, <1>5, LeaveAwaits
<1>6. ASSUME NEW i \in Inbound, task[i].at = "idle",
             task' = [task EXCEPT ![t] = Quiet, ![i] = linked]
      PROVE  Awaited'
  <2>1. /\ i \in Tasks /\ i # t /\ task[i].at \notin InCall
        /\ task'[t] = Quiet /\ task'[i] = linked
        /\ \A u \in Tasks : u \notin {t, i} => task'[u] = task[u]
        /\ task' \in [Tasks -> CallRecords]
    BY <1>1, <1>2, <1>6, QuietIs DEF Awaited, Waits, Tasks, InCall
  <2>2. Waits'
    BY <1>1, <1>2, <2>1, QuietIs DEF Awaited, Waits
  <2>3. Known'
    BY <1>1 DEF Awaited, Known
  <2>4. ASSUME NEW u \in Tasks
        PROVE  Registered(u)'
    BY <1>1, <1>2, <2>1, QuietIs DEF Awaited, Entered, Registered
  <2>5. ASSUME NEW j \in Ids
        PROVE  Explained(j)'
    <3>1. j # 0 /\ task[i].id = 0
      BY <2>1 DEF Awaited, Waits, Ids
    <3> QED
      BY <1>1, <2>1, <3>1 DEF Awaited, Entered, Explained
  <2> QED
    BY <2>2, <2>3, <2>4, <2>5 DEF Awaited, Entered
<1> QED
  BY <1>1, <1>3, <1>4, <1>5, <1>6

\* The task of the sync loop changes its place when it looks for peers.
LEMMA SearchAwaits ==
  ASSUME Numbered, Awaited, Scan \/ NextSighting
  PROVE  Awaited'
<1> DEFINE to(at) == [task["sync"] EXCEPT !.at = at]
<1>1. "sync" \in Tasks /\ next \in Nat
  BY BridgeAssumption DEF Tasks, Loops, Numbered
<1>2. PICK at \in {"idle", "draining", "sighted", task["sync"].at} :
        /\ task["sync"].at \notin InCall /\ at \notin InCall
        /\ task' = [task EXCEPT !["sync"] = to(at)]
        /\ next' = next \/ next' = next + 1
        /\ UNCHANGED <<oneshots, calls>> /\ orphans \subseteq orphans'
  <2>1. task = [task EXCEPT !["sync"] = to(task["sync"].at)]
    BY <1>1 DEF Awaited, Waits, CallRecords
  <2>2. CASE Scan
    BY <2>1, <2>2 DEF Scan, TakeId, InCall
  <2>3. CASE NextSighting
    BY <2>3 DEF NextSighting, registry, InCall
  <2> QED
    BY <2>2, <2>3
<1>3. task["sync"].id = 0 /\ task["sync"].answer = None /\ task["sync"] \in CallRecords
  BY <1>1, <1>2 DEF Awaited, Waits
<1>4. to(at) \in CallRecords /\ to(at).at = at /\ to(at).id = 0 /\ to(at).answer = None
  BY <1>3 DEF CallRecords
<1> HIDE DEF to
<1> QED
  BY <1>1, <1>2, <1>4, MoveAwaits

LEMMA StopAwaits ==
  ASSUME Awaited, StopMesh
  PROVE  Awaited'
<1>1. /\ task' = [t \in Tasks |-> Quiet] /\ UNCHANGED <<next, oneshots, calls>>
      /\ orphans \subseteq orphans'
      /\ \A t \in Tasks : Entries(t) \subseteq orphans'
  BY DEF StopMesh, registry
<1>2. Waits'
  BY <1>1, QuietIs DEF Waits
<1>3. Known'
  BY <1>1 DEF Awaited, Known
<1>4. ASSUME NEW u \in Tasks
      PROVE  Registered(u)'
  BY <1>1, QuietIs DEF Registered
<1>5. ASSUME NEW i \in Ids
      PROVE  Explained(i)'
  <2>1. ASSUME NEW t \in Tasks, task[t].id = i
        PROVE  i \in orphans'
    <3>1. task[t].at \in InCall
      BY <2>1 DEF Awaited, Waits, Ids
    <3>2. i \in Entries(t)
      BY <2>1, <3>1 DEF Entries, InCall
    <3> QED
      BY <1>1, <3>2
  <2> QED
    BY <1>1, <2>1 DEF Awaited, Entered, Explained
<1> QED
  BY <1>2, <1>3, <1>4, <1>5 DEF Awaited, Entered

LEMMA AwaitedStep == Numbered /\ Awaited /\ [Next]_vars => Awaited'
<1> SUFFICES ASSUME Numbered, Awaited, [Next]_vars
             PROVE  Awaited'
  OBVIOUS
<1>1. ASSUME UNCHANGED calling, UNCHANGED orphans
      PROVE  Awaited'
  BY <1>1, OthersAwait
<1>2. ASSUME PlaintextNew
      PROVE  Awaited'
  <2>1. next' = next + 1 /\ UNCHANGED <<task, oneshots, calls, orphans>>
    BY <1>2 DEF PlaintextNew, TakeId
  <2>2. \A t \in Tasks : task[t].id \in Nat
    BY DEF Awaited, Waits, CallRecords
  <2>3. Waits'
    BY <2>1, <2>2, BridgeAssumption DEF Awaited, Waits, Numbered
  <2> QED
    BY <2>1, <2>3 DEF Awaited, Known, Entered, Registered, Explained
<1>3. ASSUME Kotlin
      PROVE  Awaited'
  <2>1. ASSUME NEW i, NEW sighting, ScanResult(i, sighting)
        PROVE  Awaited'
    BY <1>1, <2>1 DEF ScanResult, calling, registry
  <2> QED
    BY <1>3, <2>1, CallbackAwaits DEF Kotlin
<1>4. ASSUME Plaintexts
      PROVE  Awaited'
  <2>1. PlaintextNew \/ UNCHANGED <<calling, orphans>>
    BY <1>4 DEF Plaintexts, CopyInto, CopyLen, Release, calling, registry
  <2> QED
    BY <1>1, <1>2, <2>1
<1>5. ASSUME Collect \/ SendSighting \/ Deadline
      PROVE  Awaited'
  BY <1>1, <1>5 DEF Collect, SendSighting, Deadline, calling, registry
<1>6. ASSUME NEW t \in Tasks, TaskStep(t)
      PROVE  Awaited'
  <2>1. ASSUME JniFails(t)
        PROVE  Awaited'
    BY <2>1, FailedIs, LeaveAwaits DEF JniFails, registry, InCall
  <2>2. ASSUME NoMoreIds(t)
        PROVE  Awaited'
    <3>1. /\ task[t].at \notin InCall /\ task' = [task EXCEPT ![t] = Failed(t)]
          /\ UNCHANGED <<next, oneshots, calls, orphans>> /\ next \in Nat
      BY <2>2, BridgeAssumption DEF NoMoreIds, registry, InCall, Numbered
    <3> QED
      BY <3>1, FailedIs, MoveAwaits
  <2> QED
    BY <1>6, <2>1, <2>2, CallAwaits, CallKotlinAwaits, ResumeAwaits DEF TaskStep
<1>7. ASSUME StartMesh \/ UNCHANGED vars
      PROVE  Awaited'
  BY <1>1, <1>7 DEF StartMesh, vars, calling, registry
<1> QED
  BY <1>3, <1>4, <1>5, <1>6, <1>7, SearchAwaits, StopAwaits DEF Next

----------------------------------------------------------------------------
(* Scans *)

Channel == {q \in Seq(BOOLEAN) : Len(q) <= StreamCap}

\* The sync loop is not back at its start while a scan is collected, and is in
\* no call but those that connect to a peer or use its link.
Busy ==
  /\ scan.id # 0 => task["sync"].at # "idle"
  /\ task["sync"].at \in InCall => task["sync"].op \notin {"advertise", "accept"}

Collected ==
  /\ streams \in [Ids -> Channel \cup {None}]
  /\ scan \in [id : Ids \cup {0}, out : 0..StreamCap, held : BOOLEAN]
  /\ scan.id # 0 => streams[scan.id] \in Channel
  /\ \A i \in Ids : streams[i] # None => i \in orphans \/ scan.id = i

LEMMA BusyStep == Awaited /\ Busy /\ Collected /\ [Next]_vars => Busy'
<1> SUFFICES ASSUME Awaited, Busy, Collected, [Next]_vars
             PROVE  Busy'
  OBVIOUS
<1>1. "sync" \in Tasks /\ task \in [Tasks -> CallRecords]
  BY DEF Tasks, Loops, Awaited, Waits
<1>2. ASSUME UNCHANGED <<scan, task>>
      PROVE  Busy'
  BY <1>2 DEF Busy
<1>3. ASSUME Scan \/ NextSighting \/ StopMesh
      PROVE  Busy'
  BY <1>1, <1>3 DEF Scan, NextSighting, StopMesh, Busy, InCall, CallRecords, Collecting, NoScan, Quiet
<1>4. ASSUME Collect \/ SendSighting \/ Deadline
      PROVE  Busy'
  <2>1. UNCHANGED task /\ scan'.id \in {scan.id, 0}
    BY <1>4 DEF Collect, SendSighting, Deadline, Collected
  <2> QED
    BY <2>1 DEF Busy
<1>5. ASSUME NEW c \in calls, NEW answer \in BOOLEAN, Callback(c, answer)
      PROVE  Busy'
  <2>1. UNCHANGED scan /\ ResolveOneshot(c.id, [ok |-> answer, to |-> c.serial])
    BY <1>5 DEF Callback, radio
  <2>2. task'["sync"].at = task["sync"].at /\ task'["sync"].op = task["sync"].op
    BY <1>1, <2>1 DEF ResolveOneshot, CallRecords
  <2> QED
    BY <2>1, <2>2 DEF Busy
<1>6. ASSUME NEW t \in Tasks, TaskStep(t)
      PROVE  Busy'
  <2>1. UNCHANGED scan
    BY <1>6 DEF TaskStep, CallKotlin, JniFails, NoMoreIds, Resume, Call, radio
  <2>2. ASSUME CallKotlin(t)
        PROVE  Busy'
    BY <1>1, <2>1, <2>2 DEF CallKotlin, Busy, InCall, CallRecords
  <2>3. ASSUME JniFails(t) \/ NoMoreIds(t)
        PROVE  Busy'
    <3>1. task' = [task EXCEPT ![t] = Failed(t)]
      BY <2>3 DEF JniFails, NoMoreIds
    <3> QED
      BY <1>1, <2>1, <3>1, FailedIs DEF Busy
  <2>4. ASSUME Resume(t)
        PROVE  Busy'
    <3> DEFINE linked == [Quiet EXCEPT !.at = "linked"]
    <3>1. CASE t = "sync"
      <4>1. task' \in {[task EXCEPT ![t] = Failed(t)], [task EXCEPT ![t] = linked]}
        BY <2>4, <3>1 DEF Resume, Busy, InCall
      <4>2. task'["sync"].at \in {"draining", "linked"}
        BY <1>1, <3>1, <4>1, FailedIs, LinkedIs
      <4> QED
        BY <2>1, <4>2 DEF Busy, InCall
    <3>2. CASE t # "sync"
      <4>1. task'["sync"] \in {task["sync"], linked}
        BY <1>1, <2>4, <3>2 DEF Resume
      <4> QED
        BY <2>1, <4>1, LinkedIs DEF Busy, InCall
    <3> QED
      BY <3>1, <3>2
  <2>5. ASSUME NEW op \in Ops, Call(t, op)
        PROVE  Busy'
    <3>1. PICK n, k : task' = [task EXCEPT ![t] =
                        [at |-> "registered", op |-> op, id |-> n, serial |-> k, answer |-> None]]
      BY <2>5 DEF Call, RegisterOneshot
    <3>2. t = "sync" => op \notin {"advertise", "accept"}
      BY <2>5 DEF Call, MayCall, Advertises, AcceptLoop
    <3> QED
      BY <1>1, <2>1, <3>1, <3>2 DEF Busy
  <2> QED
    BY <1>6, <2>2, <2>3, <2>4, <2>5 DEF TaskStep
<1>7. ASSUME Plaintexts
      PROVE  Busy'
  BY <1>2, <1>7 DEF Plaintexts, PlaintextNew, CopyInto, CopyLen, Release, radio
<1>8. ASSUME StartMesh \/ UNCHANGED vars
      PROVE  Busy'
  BY <1>2, <1>8 DEF StartMesh, vars, radio
<1>9. ASSUME NEW i, NEW sighting, ScanResult(i, sighting)
      PROVE  Busy'
  BY <1>2, <1>9 DEF ScanResult
<1> QED
  BY <1>3, <1>4, <1>5, <1>6, <1>7, <1>8, <1>9 DEF Next, Kotlin

LEMMA CollectedStep == Numbered /\ Busy /\ Collected /\ [Next]_vars => Collected'
<1> SUFFICES ASSUME Numbered, Busy, Collected, [Next]_vars
             PROVE  Collected'
  OBVIOUS
<1>1. StreamCap \in Nat /\ StreamCap >= 1
  BY BridgeAssumption
<1>2. ASSUME UNCHANGED <<streams, scan>>, orphans \subseteq orphans'
      PROVE  Collected'
  BY <1>2 DEF Collected
<1>3. ASSUME Scan
      PROVE  Collected'
  <2>1. scan.id = 0 /\ next \in Ids /\ streams' = [streams EXCEPT ![next] = <<>>]
    BY <1>3, BridgeAssumption DEF Scan, Busy, Numbered, Ids, NextId
  <2>2. <<>> \in Channel
    BY <1>1 DEF Channel
  <2>3. \/ scan' = [NoScan EXCEPT !.id = next] /\ orphans' = orphans
        \/ scan' = scan /\ orphans' = orphans \cup {next}
    BY <1>3 DEF Scan, NextId
  <2>4. scan' \in [id : Ids \cup {0}, out : 0..StreamCap, held : BOOLEAN]
    <3>1. 0 \in 0..StreamCap
      BY <1>1
    <3>2. NoScan \in [id : Ids \cup {0}, out : 0..StreamCap, held : BOOLEAN]
      BY <3>1 DEF NoScan
    <3>3. [NoScan EXCEPT !.id = next] \in [id : Ids \cup {0}, out : 0..StreamCap, held : BOOLEAN]
      BY <2>1, <3>2
    <3> QED
      BY <2>3, <3>3 DEF Collected
  <2>5. scan'.id # 0 => scan'.id = next
    BY <2>1, <2>3 DEF NoScan
  <2>6. next \in orphans' \/ scan'.id = next
    BY <2>3 DEF NoScan
  <2> QED
    BY <2>1, <2>2, <2>3, <2>4, <2>5, <2>6 DEF Collected
<1>4. ASSUME Collect
      PROVE  Collected'
  <2> DEFINE q == streams[scan.id]
  <2>1. scan.id \in Ids /\ q \in Channel /\ q # <<>>
    BY <1>4 DEF Collect, Collecting, Collected
  <2>2. Tail(q) \in Channel /\ Head(q) \in BOOLEAN
    BY <1>1, <2>1 DEF Channel
  <2>3. /\ streams' = [streams EXCEPT ![scan.id] = Tail(q)]
        /\ scan' = [scan EXCEPT !.held = Head(q)] /\ UNCHANGED orphans
    BY <1>4 DEF Collect
  <2> HIDE DEF q
  <2>4. scan' \in [id : Ids \cup {0}, out : 0..StreamCap, held : BOOLEAN] /\ scan'.id = scan.id
    BY <2>2, <2>3 DEF Collected
  <2> QED
    BY <2>1, <2>2, <2>3, <2>4 DEF Collected
<1>5. ASSUME SendSighting
      PROVE  Collected'
  <2>1. scan' \in [id : Ids \cup {0}, out : 0..StreamCap, held : BOOLEAN] /\ scan'.id = scan.id
    <3>1. scan.out + 1 \in 0..StreamCap
      BY <1>1, <1>5 DEF SendSighting, Collected
    <3> QED
      BY <1>5, <3>1 DEF SendSighting, Collected
  <2> QED
    BY <1>5, <2>1 DEF SendSighting, Collected
<1>6. ASSUME Deadline
      PROVE  Collected'
  <2>1. scan' \in [id : Ids \cup {0}, out : 0..StreamCap, held : BOOLEAN] /\ scan'.id = 0
    BY <1>6 DEF Deadline, Collected
  <2>2. scan.id \in Ids
    BY <1>6 DEF Deadline, Collecting, Collected
  <2> QED
    BY <1>6, <2>1, <2>2 DEF Deadline, Collected
<1>7. ASSUME NextSighting
      PROVE  Collected'
  <2>1. scan' \in [id : Ids \cup {0}, out : 0..StreamCap, held : BOOLEAN] /\ scan'.id = scan.id
    BY <1>1, <1>7 DEF NextSighting, Collected
  <2> QED
    BY <1>7, <2>1 DEF NextSighting, Collected
<1>8. ASSUME NEW i \in scanning, NEW sighting \in BOOLEAN, ScanResult(i, sighting)
      PROVE  Collected'
  <2>1. /\ streams[i] # None /\ Len(streams[i]) < StreamCap
        /\ streams' = [streams EXCEPT ![i] = Append(@, sighting)]
        /\ UNCHANGED <<scan, orphans>>
    BY <1>8 DEF ScanResult, PushStream
  <2>2. CASE i \in Ids
    <3>1. streams[i] \in Channel
      BY <2>1, <2>2 DEF Collected
    <3>2. Append(streams[i], sighting) \in Channel
      BY <1>1, <2>1, <3>1 DEF Channel
    <3> QED
      BY <2>1, <2>2, <3>2 DEF Collected
  <2>3. CASE i \notin Ids
    BY <1>2, <2>1, <2>3 DEF Collected
  <2> QED
    BY <2>2, <2>3
<1>9. ASSUME StopMesh
      PROVE  Collected'
  <2>1. scan' \in [id : Ids \cup {0}, out : 0..StreamCap, held : BOOLEAN] /\ scan'.id = 0
    BY <1>1, <1>9 DEF StopMesh, NoScan
  <2>2. streams' = streams /\ orphans \subseteq orphans' /\ {scan.id} \ {0} \subseteq orphans'
    BY <1>9 DEF StopMesh
  <2>3. \A i \in Ids : i # 0
    BY DEF Ids
  <2> QED
    BY <2>1, <2>2, <2>3 DEF Collected
<1>10. ASSUME NEW c \in calls, NEW answer \in BOOLEAN, Callback(c, answer)
       PROVE  Collected'
  BY <1>2, <1>10 DEF Callback, radio
<1>11. ASSUME Plaintexts
       PROVE  Collected'
  BY <1>2, <1>11 DEF Plaintexts, PlaintextNew, CopyInto, CopyLen, Release, radio
<1>12. ASSUME NEW t \in Tasks, TaskStep(t)
       PROVE  Collected'
  BY <1>2, <1>12 DEF TaskStep, CallKotlin, JniFails, NoMoreIds, Resume, Call, radio
<1>13. ASSUME StartMesh \/ UNCHANGED vars
       PROVE  Collected'
  BY <1>2, <1>13 DEF StartMesh, vars, radio
<1> QED
  BY <1>3, <1>4, <1>5, <1>6, <1>7, <1>8, <1>9, <1>10, <1>11, <1>12, <1>13 DEF Next, Kotlin

----------------------------------------------------------------------------
(* The theorems *)

Bridged == Numbered /\ Owned /\ Awaited /\ Busy /\ Collected

LEMMA Bridging == Spec => []Bridged
<1>1. Init => Bridged
  <2> SUFFICES ASSUME Init PROVE Bridged
    OBVIOUS
  <2>1. Numbered
    BY BridgeAssumption DEF Init, Numbered
  <2>2. Owned
    BY DEF Init, Owned
  <2>3. Awaited
    BY QuietIs DEF Init, Awaited, Waits, Known, Entered, Registered, Explained
  <2>4. Busy
    BY QuietIs DEF Init, Busy, NoScan, Tasks, Loops
  <2>5. Collected
    <3>1. 0 \in 0..StreamCap
      BY BridgeAssumption
    <3> QED
      BY <3>1 DEF Init, Collected, NoScan
  <2> QED
    BY <2>1, <2>2, <2>3, <2>4, <2>5 DEF Bridged
<1>2. Bridged /\ [Next]_vars => Bridged'
  BY NumberedStep, OwnedStep, AwaitedStep, BusyStep, CollectedStep DEF Bridged
<1> QED
  BY <1>1, <1>2, PTL DEF Spec

\* Types, and the channels of a scan hold no more than their capacity, however
\* fast Kotlin reports sightings.
THEOREM TypeCorrect == Spec => []TypeOK
<1>1. Bridged => TypeOK
  <2> SUFFICES ASSUME Bridged PROVE TypeOK
    OBVIOUS
  <2>1. \A i \in Ids : streams[i] # None => Len(streams[i]) <= StreamCap
    BY DEF Bridged, Collected, Channel
  <2>2. scan.out <= StreamCap
    BY BridgeAssumption DEF Bridged, Collected
  <2> QED
    BY <2>1, <2>2 DEF Bridged, Numbered, Awaited, Known, Owned, TypeOK
<1> QED
  BY <1>1, Bridging, PTL

\* A call that waits can be answered: its entry is in the registry until its
\* answer is in its channel.  Every other entry has a cause: the call into
\* Kotlin failed, or the mesh was stopped.
THEOREM NoEntryUnexplained == Spec => []EntriesAccounted
<1>1. Bridged => EntriesAccounted
  BY DEF Bridged, Awaited, Entered, Registered, Explained, InCall, Collected, EntriesAccounted
<1> QED
  BY <1>1, Bridging, PTL

\* No callback reaches another call than the one it is for, and no number
\* another plaintext, however late, often or across restarts it is used.
THEOREM NumbersAreNotMistaken == Spec => []OwnAnswer
<1>1. Bridged => OwnAnswer
  BY DEF Bridged, Awaited, Waits, Owned, OwnAnswer
<1> QED
  BY <1>1, Bridging, PTL
=============================================================================
