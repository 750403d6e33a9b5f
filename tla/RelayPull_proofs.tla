-------------------------- MODULE RelayPull_proofs --------------------------
(***************************************************************************)
(* The relay, its handlers and its clients lose nothing without a cause,   *)
(* keep every message in one place, and implement Mailbox: for any users,  *)
(* messages, tokens and lifetime of a staged row, with and without faults. *)
(***************************************************************************)
EXTENDS RelayPull, TLAPS

\* The shape of one call; no sweep takes a row that a client is about to
\* fetch; what a call holds was sent, and is for the user who asks.
CallOK(r) ==
  /\ r \in CallRecords
  /\ r.client # "answered" => r.reply = {}
  /\ r.leg1 \in {"none", "mixing"} => r.batch = {}
  /\ r.leg1 # "staged" => r.age = 0
  /\ r.client = "waiting" /\ r.leg1 = "staged" => r.age <= TTL
OwnMail(r) ==
  r.batch \cup r.reply \subseteq {m \in sent : To[m] = r.user}

CallsOK == call \in [Tokens -> CallRecords] /\ \A t \in Tokens : CallOK(call[t]) /\ OwnMail(call[t])

\* The inductive invariant behind the types.
Shape ==
  /\ mixing \subseteq sent /\ queue \subseteq sent /\ sent \subseteq Msgs
  /\ CallsOK
  /\ got \in [Users -> SUBSET sent]
  /\ DOMAIN lost \subseteq sent /\ \A m \in DOMAIN lost : lost[m] \in Causes

LEMMA NoCallOK ==
  ASSUME NEW u \in Users
  PROVE  CallOK(NoCall(u)) /\ OwnMail(NoCall(u))
BY TTLAssumption DEF NoCall, CallRecords, CallOK, OwnMail

\* A call that the relay has answered, with mail of its user.
LEMMA AnsweredOK ==
  ASSUME NEW u \in Users, NEW b, b \subseteq {m \in sent : To[m] = u}, b \subseteq Msgs
  PROVE  LET r == [NoCall(u) EXCEPT !.client = "answered", !.reply = b] IN CallOK(r) /\ OwnMail(r)
BY NoCallOK DEF NoCall, CallOK, OwnMail, CallRecords

LEMMA LostBy ==
  ASSUME NEW batch, NEW cause, Lose(batch, cause)
  PROVE  /\ DOMAIN lost' = DOMAIN lost \cup batch
         /\ \A m \in DOMAIN lost' : lost'[m] = cause \/ (m \in DOMAIN lost /\ lost'[m] = lost[m])
<1>1. lost' = [m \in DOMAIN lost \cup batch |-> IF m \in batch THEN cause ELSE lost[m]]
  BY DEF Lose
<1>2. DOMAIN lost' = DOMAIN lost \cup batch
  BY <1>1
<1>3. ASSUME NEW m \in DOMAIN lost'
      PROVE  lost'[m] = cause \/ (m \in DOMAIN lost /\ lost'[m] = lost[m])
  <2>1. lost'[m] = IF m \in batch THEN cause ELSE lost[m]
    BY <1>1, <1>2, <1>3
  <2> QED
    BY <1>2, <1>3, <2>1
<1> QED
  BY <1>2, <1>3

LEMMA LostOK ==
  ASSUME Shape, sent' = sent, NEW batch \in SUBSET sent, NEW cause \in Causes, Lose(batch, cause)
  PROVE  DOMAIN lost' \subseteq sent' /\ \A m \in DOMAIN lost' : lost'[m] \in Causes
<1>1. /\ DOMAIN lost' = DOMAIN lost \cup batch
      /\ \A m \in DOMAIN lost' : lost'[m] = cause \/ (m \in DOMAIN lost /\ lost'[m] = lost[m])
  BY LostBy
<1> QED
  BY <1>1 DEF Shape

\* A step that changes one call, to another good one.
LEMMA NewCall ==
  ASSUME CallsOK, UNCHANGED sent, NEW t \in Tokens, NEW r, CallOK(r), OwnMail(r),
         call' = [call EXCEPT ![t] = r]
  PROVE  CallsOK'
BY DEF CallsOK, CallOK, OwnMail

\* A step that changes many.
LEMMA NewCalls ==
  ASSUME UNCHANGED sent, call' = [t \in Tokens |-> call'[t]],
         \A t \in Tokens : CallOK(call'[t]) /\ OwnMail(call'[t])
  PROVE  CallsOK'
BY DEF CallsOK, CallOK, OwnMail

LEMMA InitShape == Init => Shape
<1> SUFFICES ASSUME Init PROVE Shape
  OBVIOUS
<1>1. ASSUME NEW t \in Tokens
      PROVE  CallOK(call[t]) /\ OwnMail(call[t])
  BY NoCallOK DEF Init
<1>2. CallsOK
  BY <1>1 DEF Init, CallsOK, CallOK
<1> QED
  BY <1>2 DEF Init, Shape

\* Sending, and what happens to a packet and to a queued message.
LEMMA MessageShape ==
  ASSUME Shape, NEW m \in Msgs,
         Submit(m) \/ MixSend(m) \/ MixDeliver(m) \/ MixDrop(m) \/ DeleteMessage(m)
  PROVE  Shape'
<1>1. call' = call /\ sent \subseteq sent' /\ got' = got
  BY DEF Submit, MixSend, MixDeliver, MixDrop, DeleteMessage
<1>2. CallsOK' /\ got' \in [Users -> SUBSET sent']
  BY <1>1 DEF Shape, CallsOK, OwnMail, CallOK
<1>3. mixing' \subseteq sent' /\ queue' \subseteq sent' /\ sent' \subseteq Msgs
  BY DEF Shape, Submit, MixSend, MixDeliver, MixDrop, DeleteMessage
<1>4. DOMAIN lost' \subseteq sent' /\ \A n \in DOMAIN lost' : lost'[n] \in Causes
  <2>1. CASE lost' = lost
    BY <1>1, <2>1 DEF Shape
  <2>2. CASE MixDrop(m) \/ DeleteMessage(m)
    <3>1. PICK cause \in Causes : Lose({m}, cause)
      BY <2>2 DEF Causes, MixDrop, DeleteMessage
    <3>2. m \in sent
      BY <2>2 DEF Shape, MixDrop, DeleteMessage
    <3>3. sent' = sent
      BY <2>2 DEF MixDrop, DeleteMessage
    <3> QED
      BY <3>3, <3>1, <3>2, LostOK
  <2> QED
    BY <2>1, <2>2 DEF Submit, MixSend, MixDeliver
<1> QED
  BY <1>2, <1>3, <1>4 DEF Shape

\* Nothing but the calls, the queue and what is lost changes.
LEMMA CallShape ==
  ASSUME Shape, CallsOK', UNCHANGED <<mixing, sent>>, queue' \subseteq queue,
         got' \in [Users -> SUBSET sent],
         DOMAIN lost' \subseteq sent, \A m \in DOMAIN lost' : lost'[m] \in Causes
  PROVE  Shape'
BY DEF Shape

LEMMA DirectReceiveShape ==
  ASSUME Shape, NEW t \in Tokens, NEW u \in Users, DirectReceive(t, u)
  PROVE  Shape'
<1> DEFINE r == [NoCall(u) EXCEPT !.client = "answered", !.reply = QueueOf(u)]
<1>1. QueueOf(u) \subseteq {m \in sent : To[m] = u} /\ QueueOf(u) \subseteq Msgs
  BY DEF Shape, QueueOf
<1>2. CallOK(r) /\ OwnMail(r)
  BY <1>1, AnsweredOK
<1>3. CallsOK'
  <2> HIDE DEF r
  <2>1. call' = [call EXCEPT ![t] = r] /\ UNCHANGED sent
    BY DEF DirectReceive, r
  <2> QED
    BY <1>2, <2>1, NewCall DEF Shape
<1> QED
  BY <1>3 DEF DirectReceive, Drained, Shape

LEMMA AskShape ==
  ASSUME Shape, NEW t \in Tokens, NEW u \in Users, Ask(t, u) \/ AskFails(t, u)
  PROVE  Shape'
<1> DEFINE r == [NoCall(u) EXCEPT !.client = "waiting", !.leg1 = "mixing"]
           q == [NoCall(u) EXCEPT !.leg1 = "mixing"]
<1>1. CallOK(r) /\ OwnMail(r) /\ CallOK(q) /\ OwnMail(q)
  BY NoCallOK DEF NoCall, CallOK, OwnMail, CallRecords
<1>2. UNCHANGED <<mixing, queue, sent, got, lost>>
  BY DEF Ask, AskFails
<1>3. call' = [call EXCEPT ![t] = r] \/ call' = [call EXCEPT ![t] = q]
  BY DEF Ask, AskFails
<1>4. CallsOK'
  <2> HIDE DEF r, q
  <2> QED
    BY <1>1, <1>2, <1>3, NewCall DEF Shape
<1> QED
  BY <1>2, <1>4 DEF Shape

LEMMA PullDroppedShape ==
  ASSUME Shape, NEW t \in Tokens, PullDropped(t)
  PROVE  Shape'
<1> DEFINE r == [call[t] EXCEPT !.leg1 = "none"]
<1>1. CallOK(r) /\ OwnMail(r)
  BY DEF PullDropped, Shape, CallsOK, CallOK, OwnMail, CallRecords
<1>2. UNCHANGED <<mixing, queue, sent, got, lost>> /\ call' = [call EXCEPT ![t] = r]
  BY DEF PullDropped
<1>3. CallsOK'
  <2> HIDE DEF r
  <2> QED
    BY <1>1, <1>2, NewCall DEF Shape
<1> QED
  BY <1>2, <1>3 DEF Shape

LEMMA DrainShape ==
  ASSUME Shape, NEW t \in Tokens, DrainToStage(t)
  PROVE  Shape'
<1> DEFINE b == QueueOf(call[t].user)
           r == [call[t] EXCEPT !.leg1 = "drained", !.batch = b]
<1>1. b \subseteq {m \in sent : To[m] = call[t].user} /\ b \subseteq Msgs
  BY DEF Shape, QueueOf
<1>2. CallOK(r) /\ OwnMail(r)
  <2> HIDE DEF b
  <2>1. call[t] \in CallRecords /\ CallOK(call[t]) /\ OwnMail(call[t]) /\ call[t].leg1 = "mixing"
    BY DEF DrainToStage, Shape, CallsOK
  <2>2. r \in CallRecords
    BY <1>1, <2>1 DEF CallRecords
  <2>3. /\ r.user = call[t].user /\ r.client = call[t].client /\ r.reply = call[t].reply
        /\ r.leg1 = "drained" /\ r.batch = b /\ r.age = call[t].age
    BY <2>1 DEF CallRecords
  <2> HIDE DEF r
  <2> QED
    BY <1>1, <2>1, <2>2, <2>3 DEF CallOK, OwnMail
<1>3. UNCHANGED <<mixing, sent, got, lost>> /\ call' = [call EXCEPT ![t] = r] /\ queue' \subseteq queue
  BY DEF DrainToStage, Drained
<1>4. CallsOK'
  <2> HIDE DEF r
  <2> QED
    BY <1>2, <1>3, NewCall DEF Shape
<1> QED
  BY <1>3, <1>4 DEF Shape

\* Sweeping leaves a call in order, and leaves the rows alone that are waited for.
LEMMA AfterSweepOK ==
  ASSUME CallsOK, NEW t \in Tokens
  PROVE  /\ CallOK(AfterSweep(t)) /\ OwnMail(AfterSweep(t))
         /\ call[t].client = "waiting" => AfterSweep(t) = call[t]
<1> DEFINE r == [call[t] EXCEPT !.leg1 = "none", !.batch = {}, !.age = 0]
<1>1. CASE Swept(t)
  <2>1. CallOK(r) /\ OwnMail(r)
    <3>1. call[t] \in CallRecords /\ CallOK(call[t]) /\ OwnMail(call[t]) /\ 0 \in 0 .. TTL + 1
      BY TTLAssumption DEF CallsOK
    <3>2. r \in CallRecords
      BY <3>1 DEF CallRecords
    <3>3. /\ r.user = call[t].user /\ r.client = call[t].client /\ r.reply = call[t].reply
          /\ r.leg1 = "none" /\ r.batch = {} /\ r.age = 0
      BY <3>1 DEF CallRecords
    <3> HIDE DEF r
    <3> QED
      BY <3>1, <3>2, <3>3 DEF CallOK, OwnMail
  <2>2. AfterSweep(t) = r
    BY <1>1 DEF AfterSweep
  <2>3. call[t].client # "waiting"
    BY <1>1, TTLAssumption DEF Swept, CallsOK, CallOK, CallRecords
  <2> QED
    BY <2>1, <2>2, <2>3
<1>2. CASE ~Swept(t)
  BY <1>2 DEF AfterSweep, CallsOK
<1> QED
  BY <1>1, <1>2

LEMMA StageShape ==
  ASSUME Shape, NEW t \in Tokens, Stage(t)
  PROVE  Shape'
<1> DEFINE f(s) == IF s = t THEN [call[t] EXCEPT !.leg1 = "staged"] ELSE AfterSweep(s)
<1>1. UNCHANGED <<mixing, queue, sent, got>> /\ call' = [s \in Tokens |-> f(s)]
  BY DEF Stage
<1>2. \A s \in Tokens : CallOK(f(s)) /\ OwnMail(f(s))
  <2>1. CallOK([call[t] EXCEPT !.leg1 = "staged"]) /\ OwnMail([call[t] EXCEPT !.leg1 = "staged"])
    BY TTLAssumption DEF Stage, Shape, CallsOK, CallOK, OwnMail, CallRecords
  <2> QED
    BY <2>1, AfterSweepOK DEF Shape
<1>3. CallsOK'
  <2> HIDE DEF f
  <2>1. \A s \in Tokens : call'[s] = f(s)
    BY <1>1
  <2> QED
    BY <1>1, <1>2, <2>1, NewCalls
<1>4. DOMAIN lost' \subseteq sent' /\ \A m \in DOMAIN lost' : lost'[m] \in Causes
  <2>1. call[t].batch \in SUBSET sent /\ "orphaned" \in Causes
    BY DEF Shape, CallsOK, OwnMail, Causes
  <2>2. CASE Lose(call[t].batch, "orphaned")
    BY <1>1, <2>1, <2>2, LostOK
  <2>3. CASE lost' = lost
    BY <1>1, <2>3 DEF Shape
  <2> QED
    BY <2>2, <2>3 DEF Stage
<1> QED
  BY <1>1, <1>3, <1>4 DEF Shape

LEMMA SweepShape ==
  ASSUME Shape, OtherPull
  PROVE  Shape'
<1>1. UNCHANGED <<mixing, queue, sent, got, lost>> /\ call' = [t \in Tokens |-> AfterSweep(t)]
  BY DEF OtherPull
<1>2. CallsOK'
  <2>1. \A t \in Tokens : call'[t] = AfterSweep(t)
    BY <1>1
  <2> QED
    BY <1>1, <2>1, AfterSweepOK, NewCalls DEF Shape
<1> QED
  BY <1>1, <1>2 DEF Shape

LEMMA TickShape ==
  ASSUME Shape, Tick
  PROVE  Shape'
<1> DEFINE f(t) == IF call[t].leg1 = "staged" /\ call[t].age <= TTL
                   THEN [call[t] EXCEPT !.age = @ + 1] ELSE call[t]
<1>1. UNCHANGED <<mixing, queue, sent, got, lost>> /\ call' = [t \in Tokens |-> f(t)]
  BY DEF Tick
<1>2. \A t \in Tokens : CallOK(f(t)) /\ OwnMail(f(t))
  BY TTLAssumption DEF Tick, Shape, CallsOK, CallOK, OwnMail, CallRecords
<1>3. CallsOK'
  <2> HIDE DEF f
  <2>1. \A s \in Tokens : call'[s] = f(s)
    BY <1>1
  <2> QED
    BY <1>1, <1>2, <2>1, NewCalls
<1> QED
  BY <1>1, <1>3 DEF Shape

LEMMA FetchShape ==
  ASSUME Shape, NEW t \in Tokens, Fetch(t)
  PROVE  Shape'
<1> DEFINE r == [NoCall(call[t].user) EXCEPT !.client = "answered", !.reply = call[t].batch]
           q == [call[t] EXCEPT !.client = "answered"]
<1>1. call[t] \in CallRecords /\ CallOK(call[t]) /\ OwnMail(call[t]) /\ call[t].user \in Users
  BY DEF Shape, CallsOK, CallRecords
<1>2. CallOK(r) /\ OwnMail(r)
  <2>1. call[t].batch \subseteq {m \in sent : To[m] = call[t].user} /\ call[t].batch \subseteq Msgs
    BY <1>1 DEF OwnMail, CallRecords
  <2> QED
    BY <1>1, <2>1, AnsweredOK
<1>3. CallOK(q) /\ OwnMail(q)
  BY <1>1 DEF CallOK, OwnMail, CallRecords
<1>4. UNCHANGED <<mixing, queue, sent, got, lost>>
      /\ (call' = [call EXCEPT ![t] = r] \/ call' = [call EXCEPT ![t] = q])
  BY DEF Fetch
<1>5. CallsOK'
  <2> HIDE DEF r, q
  <2> QED
    BY <1>2, <1>3, <1>4, NewCall DEF Shape
<1> QED
  BY <1>4, <1>5 DEF Shape

LEMMA GiveUpShape ==
  ASSUME Shape, NEW t \in Tokens, GiveUp(t)
  PROVE  Shape'
<1> DEFINE r == [call[t] EXCEPT !.client = "idle"]
<1>1. call[t] \in CallRecords /\ CallOK(call[t]) /\ OwnMail(call[t]) /\ call[t].client = "waiting"
  BY DEF Shape, CallsOK, GiveUp
<1>2. CallOK(r) /\ OwnMail(r)
  BY <1>1 DEF CallOK, OwnMail, CallRecords
<1>3. UNCHANGED <<mixing, queue, sent, got>> /\ call' = [call EXCEPT ![t] = r]
  BY DEF GiveUp
<1>4. CallsOK'
  <2> HIDE DEF r
  <2> QED
    BY <1>2, <1>3, NewCall DEF Shape
<1>5. DOMAIN lost' \subseteq sent' /\ \A m \in DOMAIN lost' : lost'[m] \in Causes
  <2>1. call[t].batch \in SUBSET sent /\ "orphaned" \in Causes
    BY <1>1 DEF OwnMail, Causes
  <2>2. CASE Lose(call[t].batch, "orphaned")
    BY <1>3, <2>1, <2>2, LostOK
  <2>3. CASE lost' = lost
    BY <1>3, <2>3 DEF Shape
  <2> QED
    BY <2>2, <2>3 DEF GiveUp
<1> QED
  BY <1>3, <1>4, <1>5 DEF Shape

LEMMA ReplyShape ==
  ASSUME Shape, NEW t \in Tokens, Return(t) \/ ReplyLost(t)
  PROVE  Shape'
<1> DEFINE r == [call[t] EXCEPT !.client = "idle", !.reply = {}]
<1>1. call[t] \in CallRecords /\ CallOK(call[t]) /\ OwnMail(call[t]) /\ call[t].user \in Users
  BY DEF Shape, CallsOK, CallRecords
<1>2. CallOK(r) /\ OwnMail(r)
  BY <1>1 DEF CallOK, OwnMail, CallRecords
<1>3. UNCHANGED <<mixing, queue, sent>> /\ call' = [call EXCEPT ![t] = r]
  BY DEF Return, ReplyLost
<1>4. CallsOK'
  <2> HIDE DEF r
  <2> QED
    BY <1>2, <1>3, NewCall DEF Shape
<1>5. call[t].reply \in SUBSET sent
  BY <1>1 DEF OwnMail
<1>6. got' \in [Users -> SUBSET sent']
  BY <1>1, <1>3, <1>5 DEF Shape, Return, ReplyLost
<1>7. DOMAIN lost' \subseteq sent' /\ \A m \in DOMAIN lost' : lost'[m] \in Causes
  <2>1. CASE Lose(call[t].reply, "dropped")
    BY <1>3, <1>5, <2>1, LostOK DEF Causes
  <2>2. CASE lost' = lost
    BY <1>3, <2>2 DEF Shape
  <2> QED
    BY <2>1, <2>2 DEF Return, ReplyLost
<1> QED
  BY <1>3, <1>4, <1>6, <1>7 DEF Shape

\* What a restart of the relay takes with it.
InMemory ==
  (UNION {IF call[t].leg1 = "drained" THEN call[t].batch ELSE {} : t \in Tokens})
    \cup (UNION {call[t].reply : t \in Tokens})

LEMMA InMemoryIs ==
  ASSUME NEW m
  PROVE  m \in InMemory <=> \E t \in Tokens :
           (m \in call[t].batch /\ call[t].leg1 = "drained") \/ m \in call[t].reply
<1> DEFINE Handled == {IF call[t].leg1 = "drained" THEN call[t].batch ELSE {} : t \in Tokens}
           Replies == {call[t].reply : t \in Tokens}
<1>1. m \in UNION Handled <=> \E t \in Tokens : m \in call[t].batch /\ call[t].leg1 = "drained"
  OBVIOUS
<1>2. m \in UNION Replies <=> \E t \in Tokens : m \in call[t].reply
  OBVIOUS
<1>3. InMemory = (UNION Handled) \cup (UNION Replies)
  BY DEF InMemory
<1> HIDE DEF Handled, Replies
<1>4. m \in InMemory <=> m \in UNION Handled \/ m \in UNION Replies
  BY <1>3
<1> QED
  BY <1>1, <1>2, <1>4

\* What it makes of a call.
AfterRestart(t) ==
  [call[t] EXCEPT !.client = IF @ = "answered" THEN "idle" ELSE @,
                  !.reply = {},
                  !.leg1 = IF @ = "drained" THEN "none" ELSE @,
                  !.batch = IF call[t].leg1 = "drained" THEN {} ELSE @]

LEMMA RestartFields ==
  ASSUME CallsOK, NEW t \in Tokens
  PROVE  LET s == AfterRestart(t)  c == call[t] IN
         /\ s \in CallRecords /\ s.user = c.user /\ s.age = c.age /\ s.reply = {}
         /\ s.client = IF c.client = "answered" THEN "idle" ELSE c.client
         /\ s.leg1 = IF c.leg1 = "drained" THEN "none" ELSE c.leg1
         /\ s.batch = IF c.leg1 = "drained" THEN {} ELSE c.batch
<1>1. call[t] \in CallRecords
  BY DEF CallsOK
<1> QED
  BY <1>1 DEF AfterRestart, CallRecords

LEMMA RestartShape ==
  ASSUME Shape, RelayRestarts
  PROVE  Shape'
<1>1. UNCHANGED <<mixing, queue, sent, got>> /\ call' = [t \in Tokens |-> AfterRestart(t)]
      /\ Lose(InMemory, "dropped")
  BY DEF RelayRestarts, InMemory, AfterRestart
<1>2. ASSUME NEW t \in Tokens
      PROVE  CallOK(AfterRestart(t)) /\ OwnMail(AfterRestart(t))
  <2>1. CallOK(call[t]) /\ OwnMail(call[t])
    BY DEF Shape, CallsOK
  <2> QED
    BY <2>1, RestartFields DEF Shape, CallOK, OwnMail
<1>3. CallsOK'
  <2>1. \A t \in Tokens : call'[t] = AfterRestart(t)
    BY <1>1
  <2> QED
    BY <1>1, <1>2, <2>1, NewCalls
<1>4. InMemory \in SUBSET sent /\ "dropped" \in Causes
  <2>1. \A t \in Tokens : call[t].batch \subseteq sent /\ call[t].reply \subseteq sent
    BY DEF Shape, CallsOK, OwnMail
  <2> QED
    <3>1. ASSUME NEW m \in InMemory
          PROVE  m \in sent
      <4>1. \E t \in Tokens : m \in call[t].batch \/ m \in call[t].reply
        BY <3>1, InMemoryIs
      <4> QED
        BY <2>1, <4>1
    <3> QED
      BY <3>1 DEF Causes
<1>5. DOMAIN lost' \subseteq sent' /\ \A m \in DOMAIN lost' : lost'[m] \in Causes
  BY <1>1, <1>4, LostOK
<1> QED
  BY <1>1, <1>3, <1>5 DEF Shape

LEMMA ShapeStep == Shape /\ [Next]_vars => Shape'
<1>1. ASSUME Shape, UNCHANGED vars
      PROVE  Shape'
  BY <1>1 DEF vars, Shape, CallsOK, CallOK, OwnMail
<1> QED
  BY <1>1, MessageShape, DirectReceiveShape, AskShape, PullDroppedShape, DrainShape, StageShape,
     SweepShape, TickShape, FetchShape, GiveUpShape, ReplyShape, RestartShape DEF Next

\* Types, and what a call may hold at each of its program counters.
THEOREM TypeCorrect == Spec => []TypeOK
<1>1. Shape => TypeOK
  BY DEF Shape, CallsOK, CallOK, TypeOK
<1> QED
  BY <1>1, InitShape, ShapeStep, PTL DEF Spec

----------------------------------------------------------------------------
(* Where a message is *)

\* OnItsWay, for one message.
OnWay(m) ==
  \/ m \in mixing \/ m \in queue
  \/ \E t \in Tokens : m \in call[t].reply
  \/ \E t \in Tokens : m \in call[t].batch /\ (call[t].leg1 = "drained" \/ call[t].client = "waiting")
Got(m) == \E u \in Users : m \in got[u]

LEMMA OnWayIs ==
  ASSUME NEW m
  PROVE  (m \in OnItsWay <=> OnWay(m)) /\ (m \in OnItsWay' <=> OnWay(m)')
<1> DEFINE Replies == {call[t].reply : t \in Tokens}
           Held == {s \in Tokens : call[s].leg1 = "drained" \/ call[s].client = "waiting"}
           Batches == {call[t].batch : t \in Held}
<1>1. m \in UNION Replies <=> \E t \in Tokens : m \in call[t].reply
  OBVIOUS
<1>2. m \in UNION Batches <=>
        \E t \in Tokens : m \in call[t].batch /\ (call[t].leg1 = "drained" \/ call[t].client = "waiting")
  OBVIOUS
<1>3. m \in UNION Replies' <=> \E t \in Tokens : m \in call'[t].reply
  OBVIOUS
<1>4. m \in UNION Batches' <=>
        \E t \in Tokens : m \in call'[t].batch /\ (call'[t].leg1 = "drained" \/ call'[t].client = "waiting")
  OBVIOUS
<1>5. OnItsWay = mixing \cup queue \cup (UNION Replies) \cup (UNION Batches)
  BY DEF OnItsWay
<1>6. OnItsWay' = mixing' \cup queue' \cup (UNION Replies') \cup (UNION Batches')
  BY DEF OnItsWay
<1> HIDE DEF Replies, Batches
<1> QED
  BY <1>1, <1>2, <1>3, <1>4, <1>5, <1>6 DEF OnWay

\* Nothing is forgotten, and nothing given up is still on its way.
Kept == \A m \in sent : OnWay(m) \/ Got(m) \/ m \in DOMAIN lost
NotLost == \A m \in DOMAIN lost : ~OnWay(m)

\* No two places have the same message.
Apart ==
  /\ mixing \cap queue = {}
  /\ \A t \in Tokens :
       /\ call[t].batch \cap mixing = {} /\ call[t].batch \cap queue = {}
       /\ call[t].reply \cap mixing = {} /\ call[t].reply \cap queue = {}
  /\ \A t, s \in Tokens : call[t].batch \cap call[s].reply = {}
  /\ \A t, s \in Tokens : t # s => /\ call[t].batch \cap call[s].batch = {}
                                   /\ call[t].reply \cap call[s].reply = {}
  /\ \A u \in Users : got[u] \cap mixing = {} /\ got[u] \cap queue = {}
  /\ \A u \in Users, t \in Tokens : got[u] \cap call[t].batch = {} /\ got[u] \cap call[t].reply = {}
  /\ \A u, v \in Users : u # v => got[u] \cap got[v] = {}

\* The inductive invariant.
Custody == Shape /\ Kept /\ NotLost /\ Apart

\* What a step does to the messages: one is posted, those of a reply are
\* handed over, or some are given up.
Posts(n) ==
  /\ n \notin sent /\ sent' = sent \cup {n} /\ UNCHANGED <<got, lost>>
  /\ \A m \in Msgs : OnWay(m)' <=> OnWay(m) \/ m = n
HandsOver(t) ==
  /\ sent' = sent /\ UNCHANGED lost
  /\ got' = [got EXCEPT ![call[t].user] = @ \cup call[t].reply]
  /\ \A m \in Msgs : OnWay(m)' <=> OnWay(m) /\ m \notin call[t].reply
GivesUp ==
  /\ UNCHANGED <<sent, got>> /\ DOMAIN lost \subseteq DOMAIN lost'
  /\ \A m \in Msgs : OnWay(m)' <=> OnWay(m) /\ m \notin DOMAIN lost'
Moves ==
  \/ \E n \in Msgs : Posts(n)
  \/ \E t \in Tokens : HandsOver(t)
  \/ GivesUp

LEMMA MovesKeep ==
  ASSUME Custody, Moves, Shape'
  PROVE  Kept' /\ NotLost'
<1>1. sent \subseteq Msgs /\ DOMAIN lost \subseteq sent /\ DOMAIN lost' \subseteq sent'
  BY DEF Custody, Shape
<1>2. ASSUME NEW n \in Msgs, Posts(n)
      PROVE  Kept' /\ NotLost'
  BY <1>1, <1>2 DEF Custody, Kept, NotLost, Posts, Got
<1>3. ASSUME NEW t \in Tokens, HandsOver(t)
      PROVE  Kept' /\ NotLost'
  <2>1. call[t].user \in Users /\ got \in [Users -> SUBSET sent]
    BY DEF Custody, Shape, CallsOK, CallRecords
  <2>2. \A m : m \in call[t].reply => Got(m)'
    BY <1>3, <2>1 DEF HandsOver, Got
  <2>3. \A m : Got(m) => Got(m)'
    BY <1>3, <2>1 DEF HandsOver, Got
  <2> QED
    BY <1>1, <1>3, <2>2, <2>3 DEF Custody, Kept, NotLost, HandsOver
<1>4. CASE GivesUp
  BY <1>1, <1>4 DEF Custody, Kept, NotLost, GivesUp, Got
<1> QED
  BY <1>2, <1>3, <1>4 DEF Moves

\* Nothing gains a message.
Shrinks(p) ==
  /\ p # "mixing" => mixing' \subseteq mixing
  /\ p # "queue" => queue' \subseteq queue
  /\ p # "got" => got' = got
Fewer(t) == call'[t].batch \subseteq call[t].batch /\ call'[t].reply \subseteq call[t].reply

LEMMA ApartShrinks ==
  ASSUME Apart, Shrinks("none"), \A t \in Tokens : Fewer(t)
  PROVE  Apart'
BY DEF Apart, Shrinks, Fewer

\* One message arrives in a place it was not in, nor is anywhere else.
LEMMA ApartMixing ==
  ASSUME Apart, NEW m, mixing' \subseteq mixing \cup {m}, Shrinks("mixing"), \A t \in Tokens : Fewer(t),
         m \notin queue', \A t \in Tokens : m \notin call[t].batch /\ m \notin call[t].reply, ~Got(m)
  PROVE  Apart'
BY DEF Apart, Shrinks, Fewer, Got

LEMMA ApartQueue ==
  ASSUME Apart, NEW m, queue' \subseteq queue \cup {m}, Shrinks("queue"), \A t \in Tokens : Fewer(t),
         m \notin mixing', \A t \in Tokens : m \notin call[t].batch /\ m \notin call[t].reply, ~Got(m)
  PROVE  Apart'
BY DEF Apart, Shrinks, Fewer, Got

\* A handler has drained what is in no other place any more.
LEMMA ApartBatch ==
  ASSUME Apart, NEW t \in Tokens, Shrinks("none"), \A s \in Tokens \ {t} : Fewer(s),
         call'[t].reply \subseteq call[t].reply, call'[t].batch \subseteq queue \ queue'
  PROVE  Apart'
BY DEF Apart, Shrinks, Fewer

\* A response has what was in the queue, or in the row.
LEMMA ApartReply ==
  ASSUME Apart, NEW t \in Tokens, Shrinks("none"), \A s \in Tokens \ {t} : Fewer(s),
         call'[t].batch = {},
         call'[t].reply \subseteq queue \ queue' \/ call'[t].reply \subseteq call[t].batch
  PROVE  Apart'
BY DEF Apart, Shrinks, Fewer

\* A user has what was in a response.
LEMMA ApartGot ==
  ASSUME Apart, NEW t \in Tokens, NEW u \in Users, Shrinks("got"), \A s \in Tokens : Fewer(s),
         got \in [Users -> SUBSET sent], got' = [got EXCEPT ![u] = @ \cup call[t].reply],
         call'[t].reply = {}
  PROVE  Apart'
<1>1. \A v \in Users : got'[v] = IF v = u THEN got[u] \cup call[t].reply ELSE got[v]
  OBVIOUS
<1>2. \A s \in Tokens : call'[s].reply \cap call[t].reply = {}
  BY DEF Apart, Fewer
<1> QED
  BY <1>1, <1>2 DEF Apart, Shrinks, Fewer

LEMMA PostMoves ==
  ASSUME Custody, NEW n \in Msgs, Submit(n) \/ MixSend(n)
  PROVE  Moves /\ Apart'
<1>1. /\ n \notin sent /\ sent' = sent \cup {n} /\ UNCHANGED <<call, got, lost>>
      /\ \/ mixing' = mixing /\ queue' = queue \cup {n}
         \/ mixing' = mixing \cup {n} /\ queue' = queue
  BY DEF Submit, MixSend
<1>2. Posts(n)
  BY <1>1 DEF Posts, OnWay
<1>3. /\ n \notin mixing /\ n \notin queue /\ ~Got(n)
      /\ \A t \in Tokens : n \notin call[t].batch /\ n \notin call[t].reply
  BY <1>1 DEF Custody, Shape, CallsOK, OwnMail, Got
<1>4. Apart'
  <2>1. \A t \in Tokens : Fewer(t)
    BY <1>1 DEF Fewer
  <2>2. CASE mixing' = mixing /\ queue' = queue \cup {n}
    BY <1>1, <1>3, <2>1, <2>2, ApartQueue DEF Custody, Shrinks
  <2>3. CASE mixing' = mixing \cup {n} /\ queue' = queue
    BY <1>1, <1>3, <2>1, <2>3, ApartMixing DEF Custody, Shrinks
  <2> QED
    BY <1>1, <2>2, <2>3
<1> QED
  BY <1>2, <1>4 DEF Moves

LEMMA DeliverMoves ==
  ASSUME Custody, NEW n \in Msgs, MixDeliver(n)
  PROVE  Moves /\ Apart'
<1>1. /\ n \in mixing /\ mixing' = mixing \ {n} /\ queue' = queue \cup {n}
      /\ UNCHANGED <<call, sent, got, lost>>
  BY DEF MixDeliver
<1>2. GivesUp
  BY <1>1 DEF GivesUp, OnWay, Custody, NotLost
<1>3. /\ \A t \in Tokens : Fewer(t) /\ n \notin call[t].batch /\ n \notin call[t].reply
      /\ ~Got(n)
  BY <1>1 DEF Fewer, Custody, Apart, Got
<1>4. Apart'
  BY <1>1, <1>3, ApartQueue DEF Custody, Shrinks
<1> QED
  BY <1>2, <1>4 DEF Moves

LEMMA DropMoves ==
  ASSUME Custody, NEW n \in Msgs, MixDrop(n) \/ DeleteMessage(n)
  PROVE  Moves /\ Apart'
<1>1. /\ n \in mixing \cup queue /\ mixing' = mixing \ {n} /\ queue' = queue \ {n}
      /\ UNCHANGED <<call, sent, got>>
  BY DEF MixDrop, DeleteMessage, Custody, Apart
<1>2. DOMAIN lost' = DOMAIN lost \cup {n}
  BY LostBy DEF MixDrop, DeleteMessage
<1>3. \A t \in Tokens : Fewer(t) /\ n \notin call[t].batch /\ n \notin call[t].reply
  BY <1>1 DEF Fewer, Custody, Apart
<1>4. GivesUp
  BY <1>1, <1>2, <1>3 DEF GivesUp, OnWay, Custody, NotLost
<1>5. Apart'
  BY <1>1, <1>3, ApartShrinks DEF Custody, Shrinks
<1> QED
  BY <1>4, <1>5 DEF Moves

\* A call that is not in use, or that is being sent, holds nothing.
LEMMA Empty ==
  ASSUME Custody, NEW t \in Tokens
  PROVE  /\ call \in [Tokens -> CallRecords]
         /\ Fresh(t) => call[t].batch = {} /\ call[t].reply = {}
         /\ call[t].leg1 \in {"none", "mixing"} => call[t].batch = {}
         /\ call[t].client = "waiting" => call[t].reply = {}
BY DEF Custody, Shape, CallsOK, CallOK, Fresh

LEMMA DirectReceiveMoves ==
  ASSUME Custody, NEW t \in Tokens, NEW u \in Users, DirectReceive(t, u)
  PROVE  Moves /\ Apart'
<1>1. /\ UNCHANGED <<mixing, sent, got, lost>> /\ queue' = queue \ QueueOf(u) /\ QueueOf(u) \subseteq queue
      /\ call[t].batch = {} /\ call[t].reply = {}
  BY Empty DEF DirectReceive, Drained, QueueOf
<1>2. /\ \A s \in Tokens \ {t} : call'[s] = call[s]
      /\ call'[t].batch = {} /\ call'[t].reply = QueueOf(u)
  BY Empty DEF DirectReceive, NoCall
<1>3. GivesUp
  BY <1>1, <1>2 DEF GivesUp, OnWay, Custody, NotLost
<1>4. Apart'
  BY <1>1, <1>2, ApartReply DEF Custody, Shrinks, Fewer
<1> QED
  BY <1>3, <1>4 DEF Moves

LEMMA AskMoves ==
  ASSUME Custody, NEW t \in Tokens, NEW u \in Users, Ask(t, u) \/ AskFails(t, u)
  PROVE  Moves /\ Apart'
<1>1. UNCHANGED <<mixing, queue, sent, got, lost>> /\ call[t].batch = {} /\ call[t].reply = {}
  BY Empty DEF Ask, AskFails
<1>2. /\ \A s \in Tokens \ {t} : call'[s] = call[s]
      /\ call'[t].batch = {} /\ call'[t].reply = {}
  BY Empty DEF Ask, AskFails, NoCall
<1>3. GivesUp
  BY <1>1, <1>2 DEF GivesUp, OnWay, Custody, NotLost
<1>4. Apart'
  BY <1>1, <1>2, ApartShrinks DEF Custody, Shrinks, Fewer
<1> QED
  BY <1>3, <1>4 DEF Moves

LEMMA PullDroppedMoves ==
  ASSUME Custody, NEW t \in Tokens, PullDropped(t)
  PROVE  Moves /\ Apart'
<1>1. UNCHANGED <<mixing, queue, sent, got, lost>> /\ call[t].batch = {}
  BY Empty DEF PullDropped
<1>2. /\ \A s \in Tokens \ {t} : call'[s] = call[s]
      /\ call'[t].batch = {} /\ call'[t].reply = call[t].reply
  BY <1>1, Empty DEF PullDropped, CallRecords
<1>3. GivesUp
  BY <1>1, <1>2 DEF GivesUp, OnWay, Custody, NotLost
<1>4. Apart'
  BY <1>1, <1>2, ApartShrinks DEF Custody, Shrinks, Fewer
<1> QED
  BY <1>3, <1>4 DEF Moves

LEMMA DrainMoves ==
  ASSUME Custody, NEW t \in Tokens, DrainToStage(t)
  PROVE  Moves /\ Apart'
<1> DEFINE b == QueueOf(call[t].user)
<1>1. /\ UNCHANGED <<mixing, sent, got, lost>> /\ queue' = queue \ b /\ b \subseteq queue
      /\ call[t].batch = {}
  BY Empty DEF DrainToStage, Drained, QueueOf
<1>2. /\ \A s \in Tokens \ {t} : call'[s] = call[s]
      /\ call'[t].batch = b /\ call'[t].reply = call[t].reply /\ call'[t].leg1 = "drained"
  <2>1. call' = [call EXCEPT ![t].leg1 = "drained", ![t].batch = b]
    BY DEF DrainToStage
  <2> HIDE DEF b
  <2> QED
    BY <2>1, Empty DEF CallRecords
<1> HIDE DEF b
<1>3. GivesUp
  BY <1>1, <1>2 DEF GivesUp, OnWay, Custody, NotLost
<1>4. Apart'
  BY <1>1, <1>2, ApartBatch DEF Custody, Shrinks, Fewer
<1> QED
  BY <1>3, <1>4 DEF Moves

\* A swept row is one that nobody waits for.
LEMMA SweptOne ==
  ASSUME Custody, NEW t \in Tokens
  PROVE  LET s == AfterSweep(t) IN
         /\ s.client = call[t].client /\ s.reply = call[t].reply
         /\ \/ s.batch = call[t].batch /\ s.leg1 = call[t].leg1
            \/ s.batch = {} /\ s.leg1 = "none" /\ call[t].leg1 = "staged" /\ call[t].client # "waiting"
<1>1. call[t] \in CallRecords /\ CallOK(call[t])
  BY DEF Custody, Shape, CallsOK
<1> QED
  BY <1>1, TTLAssumption DEF AfterSweep, Swept, CallOK, CallRecords

LEMMA StageMoves ==
  ASSUME Custody, NEW t \in Tokens, Stage(t)
  PROVE  Moves /\ Apart'
<1>1. UNCHANGED <<mixing, queue, sent, got>> /\ call[t].leg1 = "drained"
  BY DEF Stage
<1>2. /\ \A s \in Tokens \ {t} : call'[s] = AfterSweep(s)
      /\ call'[t].batch = call[t].batch /\ call'[t].reply = call[t].reply /\ call'[t].leg1 = "staged"
      /\ call'[t].client = call[t].client
  BY Empty DEF Stage, CallRecords
<1>3. DOMAIN lost' = IF call[t].client = "waiting" THEN DOMAIN lost ELSE DOMAIN lost \cup call[t].batch
  BY LostBy DEF Stage
<1>4. \A s \in Tokens : Fewer(s)
  BY <1>2, SweptOne DEF Fewer
<1>5. GivesUp
  <2>1. ASSUME NEW m \in Msgs
        PROVE  OnWay(m)' <=> OnWay(m) /\ (m \in call[t].batch => call[t].client = "waiting")
    <3>1. ASSUME NEW s \in Tokens, s # t
          PROVE  /\ call'[s].reply = call[s].reply
                 /\ m \in call'[s].batch /\ (call'[s].leg1 = "drained" \/ call'[s].client = "waiting")
                    <=> m \in call[s].batch /\ (call[s].leg1 = "drained" \/ call[s].client = "waiting")
      BY <1>2, <3>1, SweptOne
    <3>2. m \in call[t].batch => /\ m \notin mixing /\ m \notin queue
                                 /\ \A s \in Tokens : m \notin call[s].reply
                                 /\ \A s \in Tokens : s # t => m \notin call[s].batch
      BY DEF Custody, Apart
    <3> QED
      BY <1>1, <1>2, <3>1, <3>2 DEF OnWay
  <2>2. \A m \in DOMAIN lost : ~OnWay(m)
    BY DEF Custody, NotLost
  <2>3. \A m \in call[t].batch : OnWay(m)
    BY <1>1 DEF OnWay
  <2> QED
    BY <1>1, <1>3, <2>1, <2>2, <2>3 DEF GivesUp
<1>6. Apart'
  BY <1>1, <1>4, ApartShrinks DEF Custody, Shrinks
<1> QED
  BY <1>5, <1>6 DEF Moves

\* A step that only sweeps rows nobody waits for, or only ages rows.
LEMMA QuietMoves ==
  ASSUME Custody, UNCHANGED <<mixing, queue, sent, got, lost>>,
         \A t \in Tokens :
           /\ call'[t].client = call[t].client /\ call'[t].reply = call[t].reply
           /\ \/ call'[t].batch = call[t].batch /\ call'[t].leg1 = call[t].leg1
              \/ /\ call'[t].batch = {} /\ call'[t].leg1 = "none"
                 /\ call[t].leg1 = "staged" /\ call[t].client # "waiting"
  PROVE  Moves /\ Apart'
<1>1. \A t \in Tokens : Fewer(t)
  BY DEF Fewer
<1>2. GivesUp
  BY DEF GivesUp, OnWay, Custody, NotLost
<1>3. Apart'
  BY <1>1, ApartShrinks DEF Custody, Shrinks
<1> QED
  BY <1>2, <1>3 DEF Moves

LEMMA SweepMoves ==
  ASSUME Custody, OtherPull
  PROVE  Moves /\ Apart'
<1>1. UNCHANGED <<mixing, queue, sent, got, lost>> /\ \A t \in Tokens : call'[t] = AfterSweep(t)
  BY DEF OtherPull
<1> QED
  BY <1>1, SweptOne, QuietMoves

LEMMA TickMoves ==
  ASSUME Custody, Tick
  PROVE  Moves /\ Apart'
<1>1. UNCHANGED <<mixing, queue, sent, got, lost>>
  BY DEF Tick
<1>2. ASSUME NEW t \in Tokens
      PROVE  /\ call'[t].client = call[t].client /\ call'[t].reply = call[t].reply
             /\ call'[t].batch = call[t].batch /\ call'[t].leg1 = call[t].leg1
  BY Empty DEF Tick, CallRecords
<1> QED
  BY <1>1, <1>2, QuietMoves

LEMMA FetchMoves ==
  ASSUME Custody, NEW t \in Tokens, Fetch(t)
  PROVE  Moves /\ Apart'
<1>1. /\ UNCHANGED <<mixing, queue, sent, got, lost>>
      /\ call[t].client = "waiting" /\ call[t].reply = {}
      /\ call[t].leg1 \in {"none", "mixing"} => call[t].batch = {}
      /\ \A s \in Tokens \ {t} : call'[s] = call[s]
  BY Empty DEF Fetch
<1>2. CASE call[t].leg1 = "staged"
  <2>1. call'[t].batch = {} /\ call'[t].reply = call[t].batch
    BY <1>2, Empty DEF Fetch, NoCall
  <2>2. GivesUp
    BY <1>1, <2>1 DEF GivesUp, OnWay, Custody, NotLost
  <2>3. Apart'
    BY <1>1, <2>1, ApartReply DEF Custody, Shrinks, Fewer
  <2> QED
    BY <2>2, <2>3 DEF Moves
<1>3. CASE call[t].leg1 # "staged"
  <2>1. /\ call'[t].batch = call[t].batch /\ call'[t].reply = {}
        /\ call'[t].leg1 = call[t].leg1 /\ call'[t].client = "answered"
    BY <1>1, <1>3, Empty DEF Fetch, CallRecords
  <2>2. call[t].leg1 = "drained" \/ call[t].batch = {}
    BY <1>1, <1>3, Empty DEF CallRecords
  <2>3. GivesUp
    BY <1>1, <2>1, <2>2 DEF GivesUp, OnWay, Custody, NotLost
  <2>4. Apart'
    BY <1>1, <2>1, ApartShrinks DEF Custody, Shrinks, Fewer
  <2> QED
    BY <2>3, <2>4 DEF Moves
<1> QED
  BY <1>2, <1>3

\* What one batch or one response holds is nowhere else.
LEMMA HeldOnce ==
  ASSUME Custody, NEW t \in Tokens, NEW m
  PROVE  /\ m \in call[t].batch => /\ m \notin mixing /\ m \notin queue
                                   /\ \A s \in Tokens : m \notin call[s].reply
                                   /\ \A s \in Tokens \ {t} : m \notin call[s].batch
         /\ m \in call[t].reply => /\ m \notin mixing /\ m \notin queue
                                   /\ \A s \in Tokens : m \notin call[s].batch
                                   /\ \A s \in Tokens \ {t} : m \notin call[s].reply
BY DEF Custody, Apart

LEMMA GiveUpMoves ==
  ASSUME Custody, NEW t \in Tokens, GiveUp(t)
  PROVE  Moves /\ Apart'
<1>1. /\ UNCHANGED <<mixing, queue, sent, got>> /\ call[t].client = "waiting"
      /\ call[t].leg1 \in {"none", "mixing"} => call[t].batch = {}
      /\ \A s \in Tokens \ {t} : call'[s] = call[s]
  BY Empty DEF GiveUp
<1>2. /\ call'[t].batch = call[t].batch /\ call'[t].reply = call[t].reply
      /\ call'[t].leg1 = call[t].leg1 /\ call'[t].client = "idle"
  BY <1>1, Empty DEF GiveUp, CallRecords
<1>3. \A m : OnWay(m) => m \notin DOMAIN lost
  BY DEF Custody, NotLost
<1>4. CASE call[t].leg1 = "staged"
  <2>1. DOMAIN lost' = DOMAIN lost \cup call[t].batch
    BY <1>4, LostBy DEF GiveUp
  <2>2. ASSUME NEW m
        PROVE  OnWay(m)' <=> OnWay(m) /\ m \notin call[t].batch
    BY <1>1, <1>2, <1>4, HeldOnce DEF OnWay
  <2> QED
    BY <1>1, <1>2, <1>3, <2>1, <2>2, ApartShrinks DEF GivesUp, Moves, Custody, Shrinks, Fewer
<1>5. CASE call[t].leg1 # "staged"
  <2>1. lost' = lost
    BY <1>5 DEF GiveUp
  <2>2. call[t].leg1 = "drained" \/ call[t].batch = {}
    BY <1>1, <1>5, Empty DEF CallRecords
  <2>3. ASSUME NEW m
        PROVE  OnWay(m)' <=> OnWay(m)
    BY <1>1, <1>2, <2>2 DEF OnWay
  <2> QED
    BY <1>1, <1>2, <1>3, <2>1, <2>3, ApartShrinks DEF GivesUp, Moves, Custody, Shrinks, Fewer
<1> QED
  BY <1>4, <1>5

\* The response of an answered call is the only place it clears.
LEMMA ReplyCleared ==
  ASSUME Custody, NEW t \in Tokens, Return(t) \/ ReplyLost(t)
  PROVE  /\ UNCHANGED <<mixing, queue, sent>>
         /\ \A s \in Tokens \ {t} : call'[s] = call[s]
         /\ call'[t].batch = call[t].batch /\ call'[t].reply = {}
         /\ \A m : OnWay(m)' <=> OnWay(m) /\ m \notin call[t].reply
<1>1. /\ UNCHANGED <<mixing, queue, sent>> /\ call[t].client = "answered"
      /\ \A s \in Tokens \ {t} : call'[s] = call[s]
  BY Empty DEF Return, ReplyLost
<1>2. /\ call'[t].batch = call[t].batch /\ call'[t].reply = {}
      /\ call'[t].leg1 = call[t].leg1 /\ call'[t].client = "idle"
  BY <1>1, Empty DEF Return, ReplyLost, CallRecords
<1>3. ASSUME NEW m
      PROVE  OnWay(m)' <=> OnWay(m) /\ m \notin call[t].reply
  BY <1>1, <1>2, HeldOnce DEF OnWay
<1> QED
  BY <1>1, <1>2, <1>3

LEMMA ReturnMoves ==
  ASSUME Custody, NEW t \in Tokens, Return(t)
  PROVE  Moves /\ Apart'
<1>1. /\ UNCHANGED <<mixing, queue, sent, lost>>
      /\ got' = [got EXCEPT ![call[t].user] = @ \cup call[t].reply]
      /\ \A s \in Tokens : Fewer(s)
      /\ call'[t].reply = {}
      /\ \A m : OnWay(m)' <=> OnWay(m) /\ m \notin call[t].reply
  BY ReplyCleared DEF Return, Fewer
<1>2. HandsOver(t)
  BY <1>1 DEF HandsOver
<1>3. call[t].user \in Users /\ got \in [Users -> SUBSET sent] /\ Apart
  BY DEF Custody, Shape, CallsOK, CallRecords
<1>4. Apart'
  BY <1>1, <1>3, ApartGot DEF Shrinks
<1> QED
  BY <1>2, <1>4 DEF Moves

LEMMA ReplyLostMoves ==
  ASSUME Custody, NEW t \in Tokens, ReplyLost(t)
  PROVE  Moves /\ Apart'
<1>1. /\ UNCHANGED <<mixing, queue, sent, got>>
      /\ \A s \in Tokens : Fewer(s)
      /\ \A m : OnWay(m)' <=> OnWay(m) /\ m \notin call[t].reply
  BY ReplyCleared DEF ReplyLost, Fewer
<1>2. DOMAIN lost' = DOMAIN lost \cup call[t].reply
  BY LostBy DEF ReplyLost
<1>3. \A m : OnWay(m) => m \notin DOMAIN lost
  BY DEF Custody, NotLost
<1>4. GivesUp
  BY <1>1, <1>2, <1>3 DEF GivesUp
<1>5. Apart'
  BY <1>1, ApartShrinks DEF Custody, Shrinks
<1> QED
  BY <1>4, <1>5 DEF Moves

LEMMA RestartMoves ==
  ASSUME Custody, RelayRestarts
  PROVE  Moves /\ Apart'
<1>1. /\ UNCHANGED <<mixing, queue, sent, got>> /\ Lose(InMemory, "dropped")
      /\ \A t \in Tokens : call'[t] = AfterRestart(t)
  BY DEF RelayRestarts, InMemory, AfterRestart
<1>2. ASSUME NEW t \in Tokens
      PROVE  /\ call'[t].reply = {}
             /\ call'[t].batch = IF call[t].leg1 = "drained" THEN {} ELSE call[t].batch
             /\ call'[t].leg1 # "drained"
             /\ call'[t].client = "waiting" <=> call[t].client = "waiting"
  BY <1>1, RestartFields DEF Custody, Shape
<1>3. DOMAIN lost' = DOMAIN lost \cup InMemory
  BY <1>1, LostBy
<1>4. \A m : OnWay(m) => m \notin DOMAIN lost
  BY DEF Custody, NotLost
<1>5. ASSUME NEW m
      PROVE  OnWay(m)' <=> OnWay(m) /\ m \notin InMemory
  <2>1. m \in InMemory <=> \E t \in Tokens :
          (m \in call[t].batch /\ call[t].leg1 = "drained") \/ m \in call[t].reply
    BY InMemoryIs
  <2>2. CASE m \in mixing \/ m \in queue
    BY <1>1, <2>1, <2>2, HeldOnce DEF OnWay
  <2>3. CASE m \notin mixing /\ m \notin queue
    <3>1. OnWay(m)' <=> \E t \in Tokens :
            m \in call[t].batch /\ call[t].leg1 # "drained" /\ call[t].client = "waiting"
      BY <1>1, <1>2, <2>3 DEF OnWay
    <3> QED
      BY <2>1, <2>3, <3>1, HeldOnce DEF OnWay
  <2> QED
    BY <2>2, <2>3
<1>6. GivesUp
  BY <1>1, <1>3, <1>4, <1>5 DEF GivesUp
<1>7. Apart'
  BY <1>1, <1>2, ApartShrinks DEF Custody, Shrinks, Fewer
<1> QED
  BY <1>6, <1>7 DEF Moves

----------------------------------------------------------------------------
(* The theorems *)

LEMMA InitCustody == Init => Custody
<1> SUFFICES ASSUME Init PROVE Custody
  OBVIOUS
<1>1. mixing = {} /\ queue = {} /\ sent = {} /\ DOMAIN lost = {} /\ got = [u \in Users |-> {}]
  BY DEF Init
<1>2. \A t \in Tokens : call[t].batch = {} /\ call[t].reply = {}
  BY DEF Init, NoCall
<1> QED
  BY <1>1, <1>2, InitShape DEF Custody, Kept, NotLost, Apart

LEMMA StepMoves ==
  ASSUME Custody, Next
  PROVE  Moves /\ Apart'
<1>1. CASE \E m \in Msgs : Submit(m) \/ MixSend(m) \/ MixDeliver(m) \/ MixDrop(m) \/ DeleteMessage(m)
  BY <1>1, PostMoves, DeliverMoves, DropMoves
<1>2. CASE \E t \in Tokens, u \in Users : DirectReceive(t, u) \/ Ask(t, u) \/ AskFails(t, u)
  BY <1>2, DirectReceiveMoves, AskMoves
<1>3. CASE \E t \in Tokens : PullDropped(t) \/ DrainToStage(t) \/ Stage(t) \/ Fetch(t)
  BY <1>3, PullDroppedMoves, DrainMoves, StageMoves, FetchMoves
<1>4. CASE \E t \in Tokens : GiveUp(t) \/ Return(t) \/ ReplyLost(t)
  BY <1>4, GiveUpMoves, ReturnMoves, ReplyLostMoves
<1>5. CASE OtherPull \/ Tick \/ RelayRestarts
  BY <1>5, SweepMoves, TickMoves, RestartMoves
<1> QED
  BY <1>1, <1>2, <1>3, <1>4, <1>5 DEF Next

LEMMA CustodyStep == Custody /\ [Next]_vars => Custody'
<1>1. ASSUME Custody, Next
      PROVE  Custody'
  <2>1. Shape'
    BY <1>1, ShapeStep DEF Custody
  <2>2. Moves /\ Apart'
    BY <1>1, StepMoves
  <2> QED
    BY <1>1, <2>1, <2>2, MovesKeep DEF Custody
<1>2. ASSUME Custody, UNCHANGED vars
      PROVE  Custody'
  <2>1. Shape'
    BY <1>2, ShapeStep DEF Custody
  <2> QED
    BY <1>2, <2>1 DEF vars, Custody, Kept, NotLost, Apart, OnWay, Got
<1> QED
  BY <1>1, <1>2

LEMMA Custodial == Spec => []Custody
BY InitCustody, CustodyStep, PTL DEF Spec

\* A message the relay's side has accepted is returned to its recipient, on
\* its way, or lost to a cause that the model names: no interleaving of a
\* drain, a stage, a sweep, a fetch and a restart makes one vanish.
THEOREM NothingForgotten == Spec => []NoneForgotten
<1>1. ASSUME Custody
      PROVE  NoneForgotten
  <2>1. ASSUME NEW m
        PROVE  m \in UNION {got[u] : u \in Users} <=> Got(m)
    BY DEF Got
  <2>2. ASSUME NEW m, OnWay(m)
        PROVE  m \in sent
    BY <1>1, <2>2 DEF Custody, Shape, CallsOK, OwnMail, OnWay
  <2>3. ASSUME NEW m, Got(m) \/ m \in DOMAIN lost
        PROVE  m \in sent
    BY <1>1, <2>3 DEF Custody, Shape, Got
  <2>4. ASSUME NEW m
        PROVE  m \in sent <=> OnWay(m) \/ Got(m) \/ m \in DOMAIN lost
    BY <1>1, <2>2, <2>3 DEF Custody, Kept
  <2> DEFINE Returned == UNION {got[u] : u \in Users}
  <2>5. \A m : m \in Returned <=> Got(m)
    BY <2>1
  <2> HIDE DEF Returned
  <2>6. sent = OnItsWay \cup Returned \cup DOMAIN lost
    BY <2>4, <2>5, OnWayIs
  <2> QED
    BY <2>6 DEF NoneForgotten, Returned
<1> QED
  BY <1>1, Custodial, PTL

\* No two tables, handlers, responses or users ever have the same message, so
\* no two receive calls, direct or mix-routed, return it.
THEOREM AtMostOneCustodian == Spec => []OneCustodian
<1>1. ASSUME Custody
      PROVE  OneCustodian
  <2> DEFINE Held(p) ==
        \/ p = <<"mix", "mixing", mixing>>
        \/ p = <<"relay", "queue", queue>>
        \/ \E t \in Tokens : p = <<t, "batch", call[t].batch>>
        \/ \E t \in Tokens : p = <<t, "reply", call[t].reply>>
        \/ \E u \in Users : p = <<u, "got", got[u]>>
  <2>1. ASSUME NEW p \in Holdings
        PROVE  Held(p)
    BY <2>1 DEF Holdings
  <2>2. ASSUME NEW p, NEW q, Held(p), Held(q), p # q
        PROVE  p[3] \cap q[3] = {}
    <3>1. CASE p = <<"mix", "mixing", mixing>>
      BY <1>1, <2>2, <3>1 DEF Custody, Apart
    <3>2. CASE p = <<"relay", "queue", queue>>
      BY <1>1, <2>2, <3>2 DEF Custody, Apart
    <3>3. ASSUME NEW t \in Tokens, p = <<t, "batch", call[t].batch>>
          PROVE  p[3] \cap q[3] = {}
      BY <1>1, <2>2, <3>3 DEF Custody, Apart
    <3>4. ASSUME NEW t \in Tokens, p = <<t, "reply", call[t].reply>>
          PROVE  p[3] \cap q[3] = {}
      BY <1>1, <2>2, <3>4 DEF Custody, Apart
    <3>5. ASSUME NEW u \in Users, p = <<u, "got", got[u]>>
          PROVE  p[3] \cap q[3] = {}
      BY <1>1, <2>2, <3>5 DEF Custody, Apart
    <3> QED
      BY <2>2, <3>1, <3>2, <3>3, <3>4, <3>5
  <2> HIDE DEF Held
  <2> QED
    BY <2>1, <2>2 DEF OneCustodian
<1> QED
  BY <1>1, Custodial, PTL

\* What waits in the mailbox is what is on its way.
LEMMA WaitingIs ==
  ASSUME Custody, Custody'
  PROVE  /\ \A m : m \in OnItsWay \ DOMAIN lost <=> OnWay(m)
         /\ \A m : m \in (OnItsWay \ DOMAIN lost)' <=> OnWay(m)'
         /\ \A m : OnWay(m) \/ OnWay(m)' => m \in Msgs
<1>1. ASSUME NEW m
      PROVE  /\ m \in OnItsWay \ DOMAIN lost <=> OnWay(m)
             /\ m \in (OnItsWay \ DOMAIN lost)' <=> OnWay(m)'
  BY OnWayIs DEF Custody, NotLost
<1>2. ASSUME NEW m
      PROVE  /\ OnWay(m) => m \in Msgs
             /\ OnWay(m)' => m \in Msgs
  BY DEF Custody, Shape, CallsOK, CallRecords, OnWay
<1> QED
  BY <1>1, <1>2

\* The relay, its handlers and its clients implement the at-most-once
\* mailbox: whatever they do is a post, a hand-over to the message's own
\* recipient, the loss of messages for good, or invisible.
THEOREM Implements == Spec => ImplementsMailbox
<1> DEFINE w == OnItsWay \ DOMAIN lost
<1>1. ASSUME Init
      PROVE  MB!MailboxInit
  <2>1. Custody
    BY <1>1, InitCustody
  <2>2. \A m : ~OnWay(m)
    BY <1>1 DEF Init, NoCall, OnWay
  <2>3. OnItsWay = {}
    BY <2>2, OnWayIs
  <2> QED
    BY <1>1, <2>3 DEF Init, MB!MailboxInit
<1>2. ASSUME Custody, Custody', Next
      PROVE  MB!MailboxNext
  <2>1. /\ \A m : m \in w <=> OnWay(m)
        /\ \A m : m \in w' <=> OnWay(m)'
        /\ \A m : OnWay(m) \/ OnWay(m)' => m \in Msgs
    BY <1>2, WaitingIs
  <2>2. Moves
    BY <1>2, StepMoves
  <2> HIDE DEF w
  <2>3. ASSUME NEW n \in Msgs, Posts(n)
        PROVE  MB!MailboxNext
    <3>1. w' = w \cup {n}
      BY <2>1, <2>3 DEF Posts
    <3>2. MB!Post(n)
      BY <2>3, <3>1 DEF Posts, MB!Post, w
    <3> QED
      BY <3>2 DEF MB!MailboxNext
  <2>4. ASSUME NEW t \in Tokens, HandsOver(t)
        PROVE  MB!MailboxNext
    <3>1. /\ call[t].user \in Users /\ call[t].reply \in SUBSET Msgs
          /\ \A m \in call[t].reply : To[m] = call[t].user /\ m \in w
      BY <1>2, <2>1 DEF Custody, Shape, CallsOK, CallRecords, OwnMail, OnWay
    <3>2. w' = w \ call[t].reply
      BY <2>1, <2>4 DEF HandsOver
    <3>3. MB!HandOver(call[t].user, call[t].reply)
      BY <2>4, <3>1, <3>2 DEF HandsOver, MB!HandOver, w
    <3> QED
      BY <3>1, <3>3 DEF MB!MailboxNext
  <2>5. ASSUME GivesUp
        PROVE  MB!MailboxNext
    <3> DEFINE b == w \ w'
    <3>1. b \subseteq w /\ b \in SUBSET Msgs
      BY <2>1
    <3>2. w' = w \ b
      BY <2>1, <2>5 DEF GivesUp
    <3>3. MB!GiveUp(b)
      <4> HIDE DEF b
      <4> QED
        BY <2>5, <3>1, <3>2 DEF GivesUp, MB!GiveUp, w
    <3> QED
      BY <3>1, <3>3 DEF MB!MailboxNext
  <2> QED
    BY <2>2, <2>3, <2>4, <2>5 DEF Moves
<1>3. ASSUME UNCHANGED vars
      PROVE  UNCHANGED MB!mailbox
  BY <1>3 DEF vars, MB!mailbox, OnItsWay
<1>4. Custody /\ Custody' /\ [Next]_vars => [MB!MailboxNext]_(MB!mailbox)
  BY <1>2, <1>3
<1> QED
  BY <1>1, <1>4, Custodial, PTL DEF Spec, ImplementsMailbox, MB!MailboxSpec
=============================================================================
