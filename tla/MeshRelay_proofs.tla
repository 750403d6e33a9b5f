-------------------------- MODULE MeshRelay_proofs --------------------------
(***************************************************************************)
(* The sync protocol of the mesh keeps its two ends in step, never has to  *)
(* turn an honest peer's bundle away for its session cap, keeps its stores *)
(* within their caps, moves all it promised, and implements Gossip: for    *)
(* any devices, bundles, sessions, links and caps, however sessions        *)
(* overlap, links break and devices stop.                                  *)
(***************************************************************************)
EXTENDS MeshRelay, FiniteSetTheorems, SequenceTheorems, WellFoundedInduction, TLAPS

\* Sets of bundles that a store, a snapshot or a message may hold.
Hashes == {S \in SUBSET Bundles : IsFiniteSet(S)}

Messages == [type : {"Have", "Want", "Bundle", "Done"}, hashes : Hashes]

EndRecords == [node : Nodes \cup {None}, pc : Running \cup {"closed", "done", "failed"},
               have : Hashes, want : Hashes, budget : 0 .. MaxPerSession, got : SUBSET Bundles]

Typed ==
  /\ store \in [Nodes -> Hashes]
  /\ end \in [Sessions -> [Sides -> EndRecords]]
  /\ inbox \in [Sessions -> [Sides -> Seq(Messages)]]

\* How many of a peer's messages an end has consumed, its bundles apart.
Consumed(pc) == IF pc = "want" THEN 1 ELSE IF pc = "bundles" THEN 2 ELSE 0

\* What the peer's k-th message after the first n is, if len have arrived.
Scripted(n, k, len) ==
  IF n + k = 1 THEN "Have" ELSE IF n + k = 2 THEN "Want" ELSE IF k = len THEN "Done" ELSE "Bundle"

\* How the inbox q of an end e goes with its peer being at pc: what is in it is
\* what the peer has sent by then and e has not yet consumed.
Sent(e, q, pc) ==
  LET at == Consumed(e.pc) + Len(q) IN
  /\ pc = "start" => at = 0
  /\ pc = "have" => at = 1
  /\ pc = "want" => at = 2 /\ (e.pc = "bundles" => e.budget = MaxPerSession)
  /\ pc \in {"bundles", "done"} => at >= 3
Stream(e, q, pc) ==
  /\ e.pc \notin Running => q = <<>>
  /\ e.pc = "closed" <=> pc = "closed"
  /\ e.pc = "done" => pc \in {"bundles", "done", "failed"}
  /\ e.pc \in Running =>
       /\ Sent(e, q, pc)
       /\ Consumed(e.pc) + Len(q) <= MaxPerSession + 3
       /\ e.pc = "bundles" => Len(q) <= e.budget + 1
       /\ \A k \in 1 .. Len(q) : q[k].type = Scripted(Consumed(e.pc), k, Len(q))

\* A message with a bundle has one; the ends of a session are on two devices.
Single(hashes) == \E b \in Bundles : hashes = {b}
OneBundle(q) == \A k \in 1 .. Len(q) : q[k].type = "Bundle" => Single(q[k].hashes)
Apart(e, f) ==
  /\ e.pc \notin {"closed", "failed"} => e.node \in Nodes
  /\ e.pc \notin {"closed", "failed"} /\ f.pc \notin {"closed", "failed"} => e.node # f.node

Session(s, i) ==
  /\ Stream(end[s][i], inbox[s][i], end[s][Peer(i)].pc)
  /\ OneBundle(inbox[s][i])
  /\ Apart(end[s][i], end[s][Peer(i)])

\* The inductive invariant.
Synced == Typed /\ \A s \in Sessions, i \in Sides : Session(s, i)

LEMMA Peers ==
  ASSUME NEW i \in Sides
  PROVE  /\ Peer(i) \in Sides /\ Peer(i) # i /\ Peer(Peer(i)) = i
         /\ \A k \in Sides : k = i \/ k = Peer(i)
BY DEF Sides, Peer

LEMMA TailFacts ==
  ASSUME NEW M, NEW q \in Seq(M), q # <<>>
  PROVE  /\ Tail(q) \in Seq(M) /\ Len(q) \in Nat \ {0} /\ Len(Tail(q)) = Len(q) - 1
         /\ Head(q) = q[1]
         /\ \A k \in 1 .. Len(Tail(q)) : Tail(q)[k] = q[k + 1]
OBVIOUS

LEMMA EmptyIs ==
  ASSUME NEW M, NEW q \in Seq(M), Len(q) = 0
  PROVE  q = <<>>
BY EmptySeq

LEMMA CatFacts ==
  ASSUME NEW M, NEW q \in Seq(M), NEW r \in Seq(M)
  PROVE  /\ q \o r \in Seq(M) /\ Len(q) \in Nat /\ Len(r) \in Nat /\ Len(q \o r) = Len(q) + Len(r)
         /\ \A k \in 1 .. Len(q) : (q \o r)[k] = q[k]
         /\ \A k \in 1 .. Len(r) : (q \o r)[Len(q) + k] = r[k]
OBVIOUS

\* One end of one session takes a step, to e; its inboxes become qs.
OneStep(s, i, e, qs) ==
  /\ end' = [end EXCEPT ![s][i] = e]
  /\ inbox' = [inbox EXCEPT ![s] = qs]

LEMMA OneEnd ==
  ASSUME Synced, NEW s \in Sessions, NEW i \in Sides, NEW e, NEW qs, OneStep(s, i, e, qs),
         store' \in [Nodes -> Hashes],
         e \in EndRecords, qs \in [Sides -> Seq(Messages)],
         Stream(e, qs[i], end[s][Peer(i)].pc), Stream(end[s][Peer(i)], qs[Peer(i)], e.pc),
         OneBundle(qs[i]), OneBundle(qs[Peer(i)]),
         e.node = end[s][i].node, end[s][i].pc \notin {"closed", "failed"}
  PROVE  Synced'
<1>1. /\ end'[s][i] = e /\ inbox'[s] = qs
      /\ \A k \in Sides : k # i => end'[s][k] = end[s][k]
      /\ \A r \in Sessions : r # s => end'[r] = end[r] /\ inbox'[r] = inbox[r]
  BY DEF Synced, Typed, OneStep
<1>2. Typed'
  BY <1>1 DEF Synced, Typed, OneStep
<1>3. Peer(i) \in Sides /\ Peer(i) # i /\ Peer(Peer(i)) = i /\ \A k \in Sides : k = i \/ k = Peer(i)
  BY Peers
<1>4. ASSUME NEW r \in Sessions, NEW k \in Sides, r # s
      PROVE  Session(r, k)'
  BY <1>1, <1>4 DEF Synced, Session
<1>5. Session(s, i) /\ Session(s, Peer(i))
  BY <1>3 DEF Synced
<1>6. Session(s, i)'
  BY <1>1, <1>3, <1>5 DEF Session, Apart
<1>7. Session(s, Peer(i))'
  BY <1>1, <1>3, <1>5 DEF Session, Apart
<1> QED
  BY <1>2, <1>3, <1>4, <1>6, <1>7 DEF Synced

\* What the inboxes of a session become.
LEMMA PostFacts ==
  ASSUME Typed, NEW s \in Sessions, NEW i \in Sides, NEW messages \in Seq(Messages)
  PROVE  LET j == Peer(i)  qs == Post(s, i, messages) IN
         /\ qs \in [Sides -> Seq(Messages)] /\ qs[i] = inbox[s][i]
         /\ qs[j] = IF end[s][j].pc = "failed" THEN inbox[s][j] ELSE inbox[s][j] \o messages
BY Peers, CatFacts DEF Typed, Post

LEMMA RepliedFacts ==
  ASSUME Typed, NEW s \in Sessions, NEW i \in Sides, NEW messages \in Seq(Messages),
         inbox[s][i] # <<>>
  PROVE  LET j == Peer(i)  qs == [Post(s, i, messages) EXCEPT ![i] = Tail(@)] IN
         /\ qs \in [Sides -> Seq(Messages)] /\ qs[i] = Tail(inbox[s][i])
         /\ qs[j] = IF end[s][j].pc = "failed" THEN inbox[s][j] ELSE inbox[s][j] \o messages
<1> DEFINE p == Post(s, i, messages)
<1>1. /\ p \in [Sides -> Seq(Messages)] /\ p[i] = inbox[s][i]
      /\ p[Peer(i)] = IF end[s][Peer(i)].pc = "failed" THEN inbox[s][Peer(i)] ELSE inbox[s][Peer(i)] \o messages
  BY PostFacts
<1>2. Tail(inbox[s][i]) \in Seq(Messages)
  BY TailFacts DEF Typed
<1> HIDE DEF p
<1> QED
  BY <1>1, <1>2, Peers DEF p

LEMMA OneBundleTail ==
  ASSUME NEW q \in Seq(Messages), q # <<>>, OneBundle(q)
  PROVE  OneBundle(Tail(q))
BY TailFacts DEF OneBundle

LEMMA OneBundleCat ==
  ASSUME NEW q \in Seq(Messages), NEW r \in Seq(Messages), OneBundle(q), OneBundle(r)
  PROVE  OneBundle(q \o r)
<1> DEFINE p == q \o r
<1>1. \A k \in 1 .. Len(p) : \/ \E l \in 1 .. Len(q) : p[k] = q[l]
                             \/ \E l \in 1 .. Len(r) : p[k] = r[l]
  <2> SUFFICES ASSUME NEW k \in 1 .. Len(p)
               PROVE  (\E l \in 1 .. Len(q) : p[k] = q[l]) \/ (\E l \in 1 .. Len(r) : p[k] = r[l])
    OBVIOUS
  <2>1. CASE k \in 1 .. Len(q)
    BY <2>1, CatFacts
  <2>2. CASE k \notin 1 .. Len(q)
    <3>1. k - Len(q) \in 1 .. Len(r) /\ p[k] = r[k - Len(q)]
      BY <2>2
    <3> QED
      BY <3>1
  <2> QED
    BY <2>1, <2>2
<1> HIDE DEF p
<1>2. OneBundle(p)
  BY <1>1 DEF OneBundle
<1> QED
  BY <1>2 DEF p

LEMMA ScriptShift ==
  ASSUME NEW n \in Nat, NEW k \in Nat, NEW len \in Nat \ {0}
  PROVE  Scripted(n, k + 1, len) = Scripted(n + 1, k, len - 1)
BY DEF Scripted

LEMMA ScriptLate ==
  ASSUME NEW k \in Nat \ {0}, NEW len
  PROVE  Scripted(3, k, len) = Scripted(2, k, len)
BY DEF Scripted

\* An end that has not failed does its part of the script: e goes on to f.
LEMMA Consumes ==
  ASSUME CapAssumption, NEW e \in EndRecords, NEW f \in EndRecords, NEW q \in Seq(Messages),
         NEW pc \in Running \cup {"closed", "done", "failed"}, Stream(e, q, pc), q # <<>>,
         \/ e.pc = "have" /\ f.pc = "want"
         \/ e.pc = "want" /\ f.pc = "bundles" /\ f.budget = MaxPerSession
         \/ /\ e.pc = "bundles" /\ f.pc = "bundles" /\ q[1].type = "Bundle"
            /\ f.budget \in {e.budget, IF e.budget = 0 THEN 0 ELSE e.budget - 1}
         \/ e.pc = "bundles" /\ f.pc = "done" /\ q[1].type = "Done"
  PROVE  Stream(f, Tail(q), pc)
<1>1. /\ Tail(q) \in Seq(Messages) /\ Len(q) \in Nat \ {0} /\ Len(Tail(q)) = Len(q) - 1
      /\ \A k \in 1 .. Len(Tail(q)) : Tail(q)[k] = q[k + 1]
      /\ MaxPerSession \in Nat /\ e.budget \in Nat /\ f.budget \in Nat
      /\ Consumed(e.pc) \in 0 .. 2 /\ Consumed(f.pc) \in 0 .. 2
  BY TailFacts, CapAssumption DEF EndRecords, Consumed
<1>2. q[1].type = Scripted(Consumed(e.pc), 1, Len(q))
  BY <1>1 DEF Stream, Running, Waiting
<1>3. \A k \in 1 .. Len(Tail(q)) : Tail(q)[k].type = Scripted(Consumed(e.pc) + 1, k, Len(Tail(q)))
  <2> SUFFICES ASSUME NEW k \in 1 .. Len(Tail(q))
               PROVE  Tail(q)[k].type = Scripted(Consumed(e.pc) + 1, k, Len(Tail(q)))
    OBVIOUS
  <2>1. q[k + 1].type = Scripted(Consumed(e.pc), k + 1, Len(q))
    BY <1>1 DEF Stream, Running, Waiting
  <2>2. Tail(q)[k] = q[k + 1] /\ k \in Nat
    BY <1>1
  <2>3. Scripted(Consumed(e.pc), k + 1, Len(q)) = Scripted(Consumed(e.pc) + 1, k, Len(Tail(q)))
    <3>1. Consumed(e.pc) \in Nat /\ Len(q) \in Nat \ {0} /\ Len(Tail(q)) = Len(q) - 1
      BY <1>1
    <3> QED
      BY <2>2, <3>1, ScriptShift
  <2> QED
    BY <2>1, <2>2, <2>3
<1>4. CASE e.pc = "have" /\ f.pc = "want"
  BY <1>1, <1>3, <1>4 DEF Stream, Sent, Consumed, Running, Waiting
<1>5. CASE e.pc = "want" /\ f.pc = "bundles" /\ f.budget = MaxPerSession
  BY <1>1, <1>3, <1>5 DEF Stream, Sent, Consumed, Running, Waiting
<1>6. CASE /\ e.pc = "bundles" /\ f.pc = "bundles" /\ q[1].type = "Bundle"
           /\ f.budget \in {e.budget, IF e.budget = 0 THEN 0 ELSE e.budget - 1}
  <2>1. Len(q) # 1
    BY <1>2, <1>6 DEF Scripted, Consumed
  <2>2. \A k \in 1 .. Len(Tail(q)) : Tail(q)[k].type = Scripted(Consumed(f.pc), k, Len(Tail(q)))
    <3>1. Consumed(e.pc) = 2 /\ Consumed(f.pc) = 2
      BY <1>6 DEF Consumed
    <3> QED
      BY <1>1, <1>3, <3>1, ScriptLate
  <2> DEFINE r == Tail(q)
  <2>3. Len(r) <= f.budget + 1
    BY <1>1, <1>6, <2>1 DEF Stream, Running, Waiting
  <2>4. Sent(f, r, pc)
    BY <1>1, <1>6, <2>1 DEF Stream, Sent, Consumed, Running, Waiting
  <2>5. Consumed(f.pc) + Len(r) <= MaxPerSession + 3
    BY <1>1, <1>6 DEF Stream, Consumed, Running, Waiting
  <2> HIDE DEF r
  <2>6. Stream(f, r, pc)
    BY <1>6, <2>2, <2>3, <2>4, <2>5 DEF Stream, Running, Waiting, r
  <2> QED
    BY <2>6 DEF r
<1>7. CASE e.pc = "bundles" /\ f.pc = "done" /\ q[1].type = "Done"
  <2>1. Len(q) = 1
    BY <1>1, <1>2, <1>7 DEF Scripted, Consumed
  <2>2. Tail(q) = <<>>
    <3>1. Len(Tail(q)) = 0
      BY <1>1, <2>1
    <3> QED
      BY <1>1, <3>1, EmptyIs
  <2>3. pc \in {"bundles", "done", "failed"}
    BY <1>7, <2>1 DEF Stream, Sent, Consumed, Running, Waiting
  <2> QED
    BY <1>7, <2>2, <2>3 DEF Stream, Running, Waiting
<1> QED
  BY <1>4, <1>5, <1>6, <1>7

Pcs == Running \cup {"closed", "done", "failed"}

\* What a step of its peer means for an end: the messages r arrive, or they go
\* nowhere because the end has failed.
LEMMA Arrives ==
  ASSUME CapAssumption, NEW e \in EndRecords, NEW q \in Seq(Messages), NEW r \in Seq(Messages),
         NEW pc \in Pcs, NEW later \in Pcs, Stream(e, q, pc), e.pc # "failed",
         \/ pc = "start" /\ later = "have" /\ Len(r) = 1 /\ r[1].type = "Have"
         \/ pc = "have" /\ later = "want" /\ Len(r) = 1 /\ r[1].type = "Want"
         \/ /\ pc = "want" /\ later = "bundles" /\ Len(r) \in 1 .. MaxPerSession + 1
            /\ \A k \in 1 .. Len(r) : r[k].type = IF k = Len(r) THEN "Done" ELSE "Bundle"
  PROVE  Stream(e, q \o r, later)
<1> DEFINE p == q \o r
<1>1. /\ p \in Seq(Messages) /\ Len(q) \in Nat /\ Len(r) \in Nat /\ Len(p) = Len(q) + Len(r)
      /\ \A k \in 1 .. Len(q) : p[k] = q[k]
      /\ \A k \in 1 .. Len(r) : p[Len(q) + k] = r[k]
      /\ MaxPerSession \in Nat /\ e.budget \in Nat /\ Consumed(e.pc) \in 0 .. 2
  BY CatFacts, CapAssumption DEF EndRecords, Consumed
<1> HIDE DEF p
<1>2. e.pc \in Running /\ Sent(e, q, pc)
  BY DEF Stream, EndRecords
<1>3. /\ pc = "start" => Consumed(e.pc) + Len(q) = 0
      /\ pc = "have" => Consumed(e.pc) + Len(q) = 1
      /\ pc = "want" => Consumed(e.pc) + Len(q) = 2
  BY <1>2 DEF Sent
<1>4. ASSUME NEW k \in 1 .. Len(p)
      PROVE  p[k].type = Scripted(Consumed(e.pc), k, Len(p))
  <2>1. CASE k \in 1 .. Len(q)
    <3>1. p[k].type = Scripted(Consumed(e.pc), k, Len(q))
      BY <1>1, <1>2, <2>1 DEF Stream
    <3>2. Consumed(e.pc) + k <= 2
      BY <1>1, <1>3, <2>1
    <3> QED
      BY <1>1, <2>1, <3>1, <3>2 DEF Scripted
  <2>2. CASE k \notin 1 .. Len(q)
    <3>1. PICK l \in 1 .. Len(r) : k = Len(q) + l
      <4>1. k - Len(q) \in 1 .. Len(r) /\ k = Len(q) + (k - Len(q))
        BY <1>1, <1>4, <2>2
      <4> QED
        BY <4>1
    <3>2. p[k] = r[l] /\ (k = Len(p) <=> l = Len(r))
      <4>1. p[Len(q) + l] = r[l]
        BY <1>1
      <4>2. k = Len(p) <=> l = Len(r)
        <5>1. Len(p) = Len(q) + Len(r) /\ Len(q) \in Nat /\ Len(r) \in Nat
          BY <1>1
        <5> QED
          BY <3>1, <5>1
      <4> QED
        BY <3>1, <4>1, <4>2
    <3>3. CASE pc = "start" \/ pc = "have"
      BY <1>1, <1>3, <3>1, <3>2, <3>3 DEF Scripted
    <3>4. CASE pc = "want"
      <4>1. r[l].type = IF l = Len(r) THEN "Done" ELSE "Bundle"
        BY <3>4
      <4>2. Consumed(e.pc) + k > 2
        BY <1>1, <1>3, <3>1, <3>4
      <4> QED
        BY <1>1, <3>1, <3>2, <4>1, <4>2 DEF Scripted
    <3> QED
      BY <3>3, <3>4
  <2> QED
    BY <2>1, <2>2
<1>5. Sent(e, p, later) /\ Consumed(e.pc) + Len(p) <= MaxPerSession + 3
  <2> DEFINE at == Consumed(e.pc) + Len(p)
  <2>1. at = Consumed(e.pc) + Len(q) + Len(r) /\ at \in Nat
    BY <1>1
  <2>2. /\ later = "have" => at = 1
        /\ later = "want" => at = 2
        /\ later = "bundles" => at >= 3 /\ at <= MaxPerSession + 3
        /\ later \in {"have", "want", "bundles"}
    BY <1>1, <1>3, <2>1
  <2>3. later = "want" => e.pc # "bundles"
    BY <1>1, <1>3 DEF Consumed
  <2>4. at <= MaxPerSession + 3
    BY <1>1, <2>2
  <2> QED
    BY <2>2, <2>3, <2>4 DEF Sent
<1>6. e.pc = "bundles" => Len(p) <= e.budget + 1
  BY <1>1, <1>2, <1>3 DEF Sent, Consumed
<1>7. Stream(e, p, later)
  BY <1>2, <1>4, <1>5, <1>6 DEF Stream, Running, Waiting
<1> QED
  BY <1>7 DEF p

LEMMA Unmoved ==
  ASSUME NEW e \in EndRecords, NEW q, NEW pc, NEW later, Stream(e, q, pc),
         \/ e.pc = "failed" /\ later # "closed"
         \/ pc = "bundles" /\ later \in {"bundles", "done"}
  PROVE  Stream(e, q, later)
BY DEF Stream, Sent, Running, Waiting

----------------------------------------------------------------------------
(* What is sent *)

LEMMA TruncatedIs ==
  ASSUME CapAssumption, NEW h \in Hashes, NEW W \in Truncated(h)
  PROVE  W \in Hashes /\ W \subseteq h /\ Cardinality(W) \in 0 .. MaxPerSession
<1>1. W \subseteq h /\ IsFiniteSet(h) /\ Cardinality(W) = Min({MaxPerSession, Cardinality(h)})
  BY DEF Truncated, Hashes
<1>2. IsFiniteSet(W) /\ Cardinality(W) \in Nat /\ Cardinality(h) \in Nat
  BY <1>1, FS_Subset, FS_CardinalityType
<1>3. Min({MaxPerSession, Cardinality(h)}) <= MaxPerSession
  <2> DEFINE c == Cardinality(h)
  <2>1. \E x \in {MaxPerSession, c} : \A y \in {MaxPerSession, c} : x <= y
    <3>1. CASE MaxPerSession <= c
      BY <1>2, <3>1, CapAssumption
    <3>2. CASE c <= MaxPerSession
      BY <1>2, <3>2, CapAssumption
    <3> QED
      BY <1>2, <3>1, <3>2, CapAssumption
  <2> HIDE DEF c
  <2>2. \A y \in {MaxPerSession, c} : Min({MaxPerSession, c}) <= y
    BY <2>1 DEF Min
  <2> QED
    BY <2>2 DEF c
<1> QED
  BY <1>1, <1>2, <1>3, CapAssumption DEF Hashes

LEMMA OneMessage ==
  ASSUME NEW h \in Hashes, NEW type \in {"Have", "Want"}, NEW m, m = [type |-> type, hashes |-> h]
  PROVE  /\ <<m>> \in Seq(Messages) /\ Len(<<m>>) = 1 /\ <<m>>[1].type = type
         /\ OneBundle(<<m>>)
BY DEF Messages, OneBundle

\* The bundles served come one by one, then Done.
LEMMA Served ==
  ASSUME CapAssumption, NEW S \in Hashes, Cardinality(S) \in 0 .. MaxPerSession, NEW bundles \in SetToSeqs(S)
  PROVE  LET r == Append(Serve(bundles), Done) IN
         /\ r \in Seq(Messages) /\ Len(r) \in 1 .. MaxPerSession + 1
         /\ \A k \in 1 .. Len(r) : r[k].type = IF k = Len(r) THEN "Done" ELSE "Bundle"
         /\ OneBundle(r)
         /\ \A k \in 1 .. Len(r) : r[k].hashes \subseteq S
<1> DEFINE s == Serve(bundles)
           r == Append(s, Done)
           n == Cardinality(S)
<1>1. n \in Nat /\ n <= MaxPerSession /\ MaxPerSession \in Nat
  BY CapAssumption
<1> HIDE DEF n
<1>2. bundles \in [1 .. n -> S]
  BY DEF SetToSeqs, n
<1>3. s = [k \in 1 .. n |-> Bundle(bundles[k])]
  BY <1>2 DEF Serve
<1>4. ASSUME NEW b \in Bundles
      PROVE  {b} \in Hashes
  BY FS_Singleton DEF Hashes
<1>5. \A k \in 1 .. n : bundles[k] \in S /\ bundles[k] \in Bundles
  BY <1>2 DEF Hashes
<1>6. \A k \in 1 .. n : Bundle(bundles[k]) \in Messages
  BY <1>4, <1>5 DEF Bundle, Messages
<1>7. s \in Seq(Messages) /\ Len(s) = n
  BY <1>1, <1>3, <1>6
<1>8. Done \in Messages
  BY FS_EmptySet DEF Done, Messages, Hashes
<1>9. \A k \in 1 .. n : s[k] = Bundle(bundles[k])
  BY <1>3
<1> HIDE DEF s
<1>10. /\ r \in Seq(Messages) /\ Len(r) = n + 1 /\ r[n + 1] = Done
       /\ \A k \in 1 .. n : r[k] = s[k]
  BY <1>1, <1>7, <1>8
<1> HIDE DEF r
<1>11. ASSUME NEW k \in 1 .. Len(r)
       PROVE  (k = n + 1 /\ r[k] = Done) \/ (k \in 1 .. n /\ k # n + 1 /\ r[k] = Bundle(bundles[k]))
  BY <1>1, <1>9, <1>10
<1>12. \A k \in 1 .. Len(r) : r[k].type = IF k = Len(r) THEN "Done" ELSE "Bundle"
  BY <1>10, <1>11 DEF Done, Bundle
<1>13. ASSUME NEW k \in 1 .. Len(r)
       PROVE  (r[k].type = "Bundle" => Single(r[k].hashes)) /\ r[k].hashes \subseteq S
  <2>1. CASE r[k] = Done
    BY <2>1 DEF Done
  <2>2. CASE k \in 1 .. n /\ r[k] = Bundle(bundles[k])
    <3>1. r[k].hashes = {bundles[k]}
      BY <2>2 DEF Bundle
    <3> QED
      BY <1>5, <2>2, <3>1 DEF Single
  <2> QED
    BY <1>11, <2>1, <2>2
<1>14. OneBundle(r) /\ \A k \in 1 .. Len(r) : r[k].hashes \subseteq S
  BY <1>13 DEF OneBundle
<1>15. Len(r) \in 1 .. MaxPerSession + 1
  BY <1>1, <1>10
<1> QED
  BY <1>10, <1>12, <1>14, <1>15 DEF r, s

----------------------------------------------------------------------------
(* The steps of a session *)

LEMMA SyncedFacts ==
  ASSUME Synced, NEW s \in Sessions, NEW i \in Sides
  PROVE  /\ Peer(i) \in Sides /\ Peer(i) # i /\ Peer(Peer(i)) = i
         /\ end[s][i] \in EndRecords /\ end[s][Peer(i)] \in EndRecords
         /\ end[s][i].pc \in Pcs /\ end[s][Peer(i)].pc \in Pcs
         /\ inbox[s][i] \in Seq(Messages) /\ inbox[s][Peer(i)] \in Seq(Messages)
         /\ Stream(end[s][i], inbox[s][i], end[s][Peer(i)].pc)
         /\ Stream(end[s][Peer(i)], inbox[s][Peer(i)], end[s][i].pc)
         /\ OneBundle(inbox[s][i]) /\ OneBundle(inbox[s][Peer(i)])
<1>1. Peer(i) \in Sides /\ Peer(i) # i /\ Peer(Peer(i)) = i
  BY Peers
<1>2. end[s][i] \in EndRecords /\ end[s][Peer(i)] \in EndRecords
      /\ inbox[s][i] \in Seq(Messages) /\ inbox[s][Peer(i)] \in Seq(Messages)
  BY <1>1 DEF Synced, Typed
<1>3. Session(s, i) /\ Session(s, Peer(i))
  BY <1>1 DEF Synced
<1>4. end[s][i].pc \in Pcs /\ end[s][Peer(i)].pc \in Pcs
  BY <1>2 DEF EndRecords, Pcs
<1> QED
  BY <1>1, <1>2, <1>3, <1>4 DEF Session

\* An end consumes nothing, or one message, and posts r, its peer being where
\* it was: e is what becomes of the end.
LEMMA Exchange ==
  ASSUME CapAssumption, Synced, NEW s \in Sessions, NEW i \in Sides,
         NEW e \in EndRecords, NEW q \in Seq(Messages), NEW r \in Seq(Messages),
         OneBundle(q), OneBundle(r), Stream(e, q, end[s][Peer(i)].pc),
         OneStep(s, i, e, [Post(s, i, r) EXCEPT ![i] = q]), store' \in [Nodes -> Hashes],
         e.node = end[s][i].node, end[s][i].pc \in Running,
         \/ end[s][i].pc = "start" /\ e.pc = "have" /\ Len(r) = 1 /\ r[1].type = "Have"
         \/ end[s][i].pc = "have" /\ e.pc = "want" /\ Len(r) = 1 /\ r[1].type = "Want"
         \/ /\ end[s][i].pc = "want" /\ e.pc = "bundles" /\ Len(r) \in 1 .. MaxPerSession + 1
            /\ \A k \in 1 .. Len(r) : r[k].type = IF k = Len(r) THEN "Done" ELSE "Bundle"
         \/ end[s][i].pc = "bundles" /\ e.pc \in {"bundles", "done"} /\ r = <<>>
  PROVE  Synced'
<1> DEFINE j == Peer(i)
           p == Post(s, i, r)
           qs == [p EXCEPT ![i] = q]
<1>1. /\ j \in Sides /\ j # i
      /\ end[s][j] \in EndRecords /\ inbox[s][j] \in Seq(Messages)
      /\ end[s][i].pc \in Pcs /\ e.pc \in Pcs
      /\ Stream(end[s][j], inbox[s][j], end[s][i].pc) /\ OneBundle(inbox[s][j])
  BY SyncedFacts DEF EndRecords, Pcs
<1>2. /\ p \in [Sides -> Seq(Messages)]
      /\ p[j] = IF end[s][j].pc = "failed" THEN inbox[s][j] ELSE inbox[s][j] \o r
  BY PostFacts DEF Synced
<1> HIDE DEF p
<1>3. qs \in [Sides -> Seq(Messages)] /\ qs[i] = q /\ qs[j] = p[j]
  BY <1>1, <1>2
<1>4. OneBundle(qs[j])
  BY <1>1, <1>2, <1>3, OneBundleCat
<1>5. Stream(end[s][j], qs[j], e.pc)
  <2>1. CASE end[s][j].pc = "failed"
    BY <1>1, <1>2, <1>3, <2>1, Unmoved DEF Running, Waiting
  <2>2. CASE end[s][j].pc # "failed" /\ end[s][i].pc # "bundles"
    <3> DEFINE pc == end[s][i].pc
    <3>1. qs[j] = inbox[s][j] \o r
      BY <1>2, <1>3, <2>2
    <3>2. \/ pc = "start" /\ e.pc = "have" /\ Len(r) = 1 /\ r[1].type = "Have"
          \/ pc = "have" /\ e.pc = "want" /\ Len(r) = 1 /\ r[1].type = "Want"
          \/ /\ pc = "want" /\ e.pc = "bundles" /\ Len(r) \in 1 .. MaxPerSession + 1
             /\ \A k \in 1 .. Len(r) : r[k].type = IF k = Len(r) THEN "Done" ELSE "Bundle"
      BY <2>2
    <3> HIDE DEF j, pc
    <3>3. Stream(end[s][j], inbox[s][j] \o r, e.pc)
      BY <1>1, <2>2, <3>2, Arrives DEF pc
    <3> QED
      BY <3>1, <3>3
  <2>3. CASE end[s][j].pc # "failed" /\ end[s][i].pc = "bundles"
    <3>1. qs[j] = inbox[s][j]
      BY <1>1, <1>2, <1>3, <2>3, ConcatEmptySeq
    <3> QED
      BY <1>1, <2>3, <3>1, Unmoved
  <2> QED
    BY <2>1, <2>2, <2>3
<1>6. OneStep(s, i, e, qs)
  BY DEF p
<1> HIDE DEF qs, j
<1> QED
  BY <1>3, <1>4, <1>5, <1>6, OneEnd DEF j, Running, Waiting

\* Bundles come to a store one by one, and leave it.
LEMMA StoreSteps ==
  ASSUME store \in [Nodes -> Hashes], NEW n \in Nodes
  PROVE  /\ \A b \in Bundles : Insert(n, b) => store' \in [Nodes -> Hashes]
         /\ \A gone : Discard(n, gone) => store' \in [Nodes -> Hashes]
<1>1. ASSUME NEW b \in Bundles, Insert(n, b)
      PROVE  store' \in [Nodes -> Hashes]
  <2>1. store[n] \cup {b} \in Hashes
    BY FS_AddElement DEF Hashes
  <2> QED
    BY <1>1, <2>1 DEF Insert
<1>2. ASSUME NEW gone, Discard(n, gone)
      PROVE  store' \in [Nodes -> Hashes]
  <2>1. store[n] \ gone \in Hashes
    BY FS_Subset DEF Hashes
  <2> QED
    BY <1>2, <2>1 DEF Discard
<1> QED
  BY <1>1, <1>2

LEMMA RunsOnNode ==
  ASSUME Synced, NEW s \in Sessions, NEW i \in Sides, end[s][i].pc \in Running
  PROVE  end[s][i].node \in Nodes
BY DEF Synced, Session, Apart, Running, Waiting

LEMMA StartSynced ==
  ASSUME CapAssumption, Synced, NEW s \in Sessions, NEW i \in Sides, NEW then \in Readings, Start(s, i, then)
  PROVE  Synced'
<1> DEFINE n == end[s][i].node
           m == Have(store'[n])
           e == [end[s][i] EXCEPT !.pc = "have", !.have = store'[n]]
           q == inbox[s][i]
<1>1. end[s][i].pc = "start" /\ n \in Nodes
  BY RunsOnNode DEF Start, Running
<1>2. store' \in [Nodes -> Hashes] /\ store'[n] \in Hashes
  BY <1>1, StoreSteps DEF Start, SweepExpired, Synced, Typed
<1>3. /\ <<m>> \in Seq(Messages) /\ Len(<<m>>) = 1 /\ <<m>>[1].type = "Have" /\ OneBundle(<<m>>)
  BY <1>2, OneMessage DEF Have
<1>4. e \in EndRecords /\ e.pc = "have" /\ e.node = end[s][i].node
  <2> DEFINE h == store'[n]
  <2>1. end[s][i] \in EndRecords /\ h \in Hashes
    BY <1>2, SyncedFacts
  <2> HIDE DEF h
  <2>2. LET f == [end[s][i] EXCEPT !.pc = "have", !.have = h] IN
        f \in EndRecords /\ f.pc = "have" /\ f.node = end[s][i].node
    BY <2>1 DEF EndRecords, Running, Waiting
  <2> QED
    BY <2>2 DEF h
<1>5. q \in Seq(Messages) /\ OneBundle(q) /\ Stream(end[s][i], q, end[s][Peer(i)].pc)
  BY SyncedFacts
<1>6. OneStep(s, i, e, Post(s, i, <<m>>))
  BY DEF Start, OneStep
<1> HIDE DEF m, e, q
<1>7. Stream(e, q, end[s][Peer(i)].pc)
  BY <1>1, <1>4, <1>5 DEF Stream, Sent, Consumed, Running, Waiting
<1>8. Post(s, i, <<m>>) = [Post(s, i, <<m>>) EXCEPT ![i] = q]
  <2> DEFINE p == Post(s, i, <<m>>)
  <2>1. p \in [Sides -> Seq(Messages)] /\ p[i] = q
    BY <1>3, PostFacts DEF Synced, q
  <2> HIDE DEF p
  <2>2. p = [p EXCEPT ![i] = q]
    BY <2>1
  <2> QED
    BY <2>2 DEF p
<1> DEFINE r == <<m>>
<1>9. OneStep(s, i, e, [Post(s, i, r) EXCEPT ![i] = q])
  BY <1>6, <1>8
<1>10. r \in Seq(Messages) /\ OneBundle(r) /\ Len(r) = 1 /\ r[1].type = "Have"
  BY <1>3
<1>11. end[s][i].pc = "start" /\ end[s][i].pc \in Running
  BY <1>1 DEF Running
<1> HIDE DEF r
<1> QED
  BY <1>2, <1>4, <1>5, <1>7, <1>9, <1>10, <1>11, Exchange

\* A message is consumed, and r is posted.
LEMMA Answer ==
  ASSUME CapAssumption, Synced, NEW s \in Sessions, NEW i \in Sides,
         NEW e \in EndRecords, NEW r \in Seq(Messages), OneBundle(r), inbox[s][i] # <<>>,
         end' = [end EXCEPT ![s][i] = e], inbox' = Replied(s, i, r), store' \in [Nodes -> Hashes],
         e.node = end[s][i].node, end[s][i].pc \in Running,
         \/ end[s][i].pc = "have" /\ e.pc = "want" /\ Len(r) = 1 /\ r[1].type = "Want"
         \/ /\ end[s][i].pc = "want" /\ e.pc = "bundles" /\ e.budget = MaxPerSession
            /\ Len(r) \in 1 .. MaxPerSession + 1
            /\ \A k \in 1 .. Len(r) : r[k].type = IF k = Len(r) THEN "Done" ELSE "Bundle"
         \/ /\ end[s][i].pc = "bundles" /\ r = <<>>
            /\ \/ /\ e.pc = "bundles" /\ inbox[s][i][1].type = "Bundle"
                  /\ LET budget == end[s][i].budget IN
                     e.budget \in {budget, IF budget = 0 THEN 0 ELSE budget - 1}
               \/ e.pc = "done" /\ inbox[s][i][1].type = "Done"
  PROVE  Synced'
<1> DEFINE q == inbox[s][i]
           pc == end[s][i].pc
<1>1. /\ q \in Seq(Messages) /\ OneBundle(q) /\ end[s][i] \in EndRecords
      /\ end[s][Peer(i)].pc \in Pcs /\ Stream(end[s][i], q, end[s][Peer(i)].pc)
  BY SyncedFacts
<1>2. Tail(q) \in Seq(Messages) /\ OneBundle(Tail(q))
  BY <1>1, TailFacts, OneBundleTail
<1>3. OneStep(s, i, e, [Post(s, i, r) EXCEPT ![i] = Tail(q)])
  <2>1. Post(s, i, r) \in [Sides -> Seq(Messages)] /\ Post(s, i, r)[i] = q
    BY PostFacts DEF Synced
  <2>2. inbox' = [inbox EXCEPT ![s] = [Post(s, i, r) EXCEPT ![i] = Tail(q)]]
    BY <2>1 DEF Replied
  <2> QED
    BY <2>2 DEF OneStep
<1>4. \/ pc = "have" /\ e.pc = "want"
      \/ pc = "want" /\ e.pc = "bundles" /\ e.budget = MaxPerSession
      \/ /\ pc = "bundles" /\ e.pc = "bundles" /\ q[1].type = "Bundle"
         /\ e.budget \in {end[s][i].budget, IF end[s][i].budget = 0 THEN 0 ELSE end[s][i].budget - 1}
      \/ pc = "bundles" /\ e.pc = "done" /\ q[1].type = "Done"
  OBVIOUS
<1> HIDE DEF q, pc
<1>5. Stream(e, Tail(q), end[s][Peer(i)].pc)
  BY <1>1, <1>4, Consumes DEF q, pc, Pcs
<1> QED
  BY <1>2, <1>3, <1>5, Exchange

\* What an end finds when it receives.
LEMMA Received ==
  ASSUME Synced, NEW s \in Sessions, NEW i \in Sides, NEW pc, NEW type, Receives(s, i, pc, type)
  PROVE  LET q == inbox[s][i] IN
         /\ end[s][i].pc = pc /\ q # <<>> /\ q \in Seq(Messages)
         /\ Head(q) = q[1] /\ q[1] \in Messages /\ q[1].type = type /\ q[1].hashes \in Hashes
         /\ type = "Bundle" => Single(q[1].hashes)
<1> DEFINE q == inbox[s][i]
<1>1. end[s][i].pc = pc /\ q # <<>> /\ Head(q).type = type
  BY DEF Receives
<1>2. q \in Seq(Messages) /\ OneBundle(q)
  BY SyncedFacts
<1> HIDE DEF q
<1>3. Head(q) = q[1] /\ Len(q) \in Nat \ {0}
  BY <1>1, <1>2, TailFacts
<1>4. q[1] \in Messages
  BY <1>2, <1>3, ElementOfSeq
<1>5. type = "Bundle" => Single(q[1].hashes)
  BY <1>1, <1>2, <1>3 DEF OneBundle
<1> QED
  BY <1>1, <1>2, <1>3, <1>4, <1>5 DEF q, Messages

LEMMA RecvHaveSynced ==
  ASSUME CapAssumption, Synced, NEW s \in Sessions, NEW i \in Sides, RecvHave(s, i)
  PROVE  Synced'
<1> DEFINE h == Head(inbox[s][i]).hashes \ end[s][i].have
<1>1. /\ end[s][i].pc = "have" /\ inbox[s][i] # <<>> /\ Head(inbox[s][i]).hashes \in Hashes
      /\ end[s][i] \in EndRecords /\ store \in [Nodes -> Hashes]
  BY Received, SyncedFacts DEF RecvHave, Synced, Typed
<1>2. h \in Hashes
  BY <1>1, FS_Difference DEF Hashes
<1>3. PICK W \in Truncated(h) :
        /\ end' = [end EXCEPT ![s][i] = [@ EXCEPT !.pc = "want", !.have = {}, !.want = W]]
        /\ inbox' = Replied(s, i, <<Want(W)>>)
  BY DEF RecvHave
<1> HIDE DEF h
<1>4. W \in Hashes
  BY <1>2, TruncatedIs
<1> DEFINE e == [end[s][i] EXCEPT !.pc = "want", !.have = {}, !.want = W]
           r == <<Want(W)>>
<1>5. r \in Seq(Messages) /\ Len(r) = 1 /\ r[1].type = "Want" /\ OneBundle(r)
  BY <1>4, OneMessage DEF Want
<1>6. e \in EndRecords /\ e.pc = "want" /\ e.node = end[s][i].node
  BY <1>1, <1>4, FS_EmptySet DEF EndRecords, Hashes, Running, Waiting
<1>7. end' = [end EXCEPT ![s][i] = e] /\ inbox' = Replied(s, i, r)
  BY <1>3
<1>8. store' = store
  BY DEF RecvHave, stores
<1> HIDE DEF e, r
<1> QED
  BY <1>1, <1>5, <1>6, <1>7, <1>8, Answer DEF Running, Waiting

LEMMA RecvWantSynced ==
  ASSUME CapAssumption, Synced, NEW s \in Sessions, NEW i \in Sides, RecvWant(s, i)
  PROVE  Synced'
<1>1. /\ end[s][i].pc = "want" /\ inbox[s][i] # <<>> /\ Head(inbox[s][i]).hashes \in Hashes
      /\ end[s][i] \in EndRecords /\ store \in [Nodes -> Hashes] /\ end[s][i].node \in Nodes
  BY Received, SyncedFacts, RunsOnNode DEF RecvWant, Synced, Typed, Running, Waiting
<1>2. PICK W \in Truncated(Head(inbox[s][i]).hashes) :
        \E bundles \in SetToSeqs(W \cap store[end[s][i].node]) :
          inbox' = Replied(s, i, Append(Serve(bundles), Done))
  BY DEF RecvWant
<1>8. PICK bundles \in SetToSeqs(W \cap store[end[s][i].node]) :
        inbox' = Replied(s, i, Append(Serve(bundles), Done))
  BY <1>2
<1>3. W \in Hashes /\ Cardinality(W) \in 0 .. MaxPerSession
  BY <1>1, TruncatedIs
<1> DEFINE S == W \cap store[end[s][i].node]
           e == [end[s][i] EXCEPT !.pc = "bundles", !.budget = MaxPerSession]
           r == Append(Serve(bundles), Done)
<1>4. S \in Hashes /\ Cardinality(S) \in 0 .. MaxPerSession
  <2>1. S \subseteq W /\ IsFiniteSet(W) /\ W \subseteq Bundles
    BY <1>3 DEF Hashes
  <2>2. IsFiniteSet(S) /\ Cardinality(S) <= Cardinality(W)
    BY <2>1, FS_Subset
  <2>3. Cardinality(S) \in Nat
    BY <2>2, FS_CardinalityType
  <2> QED
    BY <1>3, <2>1, <2>2, <2>3, CapAssumption DEF Hashes
<1>5. /\ r \in Seq(Messages) /\ Len(r) \in 1 .. MaxPerSession + 1 /\ OneBundle(r)
      /\ \A k \in 1 .. Len(r) : r[k].type = IF k = Len(r) THEN "Done" ELSE "Bundle"
  <2> HIDE DEF S
  <2> QED
    BY <1>4, <1>8, Served DEF S
<1>6. e \in EndRecords /\ e.pc = "bundles" /\ e.budget = MaxPerSession /\ e.node = end[s][i].node
  <2>1. MaxPerSession \in 0 .. MaxPerSession /\ end[s][i] \in EndRecords
    BY <1>1, CapAssumption
  <2> QED
    BY <2>1 DEF EndRecords, Running, Waiting
<1>7. end' = [end EXCEPT ![s][i] = e] /\ inbox' = Replied(s, i, r) /\ store' = store
  BY <1>8 DEF RecvWant, stores
<1> HIDE DEF e, r
<1> QED
  BY <1>1, <1>5, <1>6, <1>7, Answer DEF Running, Waiting

LEMMA OneLess ==
  ASSUME NEW n \in Nat
  PROVE  Max({n - 1, 0}) = IF n = 0 THEN 0 ELSE n - 1
<1> DEFINE m == IF n = 0 THEN 0 ELSE n - 1
<1>1. m \in {n - 1, 0} /\ \A y \in {n - 1, 0} : m >= y
  OBVIOUS
<1>2. \A x \in {n - 1, 0} : (\A y \in {n - 1, 0} : x >= y) => x = m
  OBVIOUS
<1> HIDE DEF m
<1>3. Max({n - 1, 0}) = m
  BY <1>1, <1>2 DEF Max
<1> QED
  BY <1>3 DEF m

\* The bundle of a message, and what becomes of the end that receives it.
Carried(s, i) == CHOOSE x \in Head(inbox[s][i]).hashes : TRUE

LEMMA RecvBundleIs ==
  ASSUME CapAssumption, Synced, NEW s \in Sessions, NEW i \in Sides, NEW then \in Readings, RecvBundle(s, i, then)
  PROVE  LET b == Carried(s, i)  n == end[s][i].node  budget == end[s][i].budget
             ok == Admits(n, b, budget, then) IN
         /\ n \in Nodes /\ b \in Bundles /\ end[s][i].pc = "bundles"
         /\ inbox[s][i] # <<>> /\ inbox[s][i][1].type = "Bundle" /\ inbox[s][i][1].hashes = {b}
         /\ IF ok /\ b \notin store[n] THEN Insert(n, b) ELSE UNCHANGED stores
         /\ \E e \in EndRecords :
              /\ end' = [end EXCEPT ![s][i] = e] /\ e.pc = "bundles" /\ e.node = n
              /\ e.budget \in {budget, IF budget = 0 THEN 0 ELSE budget - 1}
              /\ e.want = end[s][i].want /\ e.got = end[s][i].got \cup {b}
         /\ inbox' = Replied(s, i, <<>>)
         /\ UNCHANGED <<now, expiry>>
<1> DEFINE b == Carried(s, i)
           n == end[s][i].node
           budget == end[s][i].budget
           ok == Admits(n, b, budget, then)
<1>1. /\ end[s][i].pc = "bundles" /\ inbox[s][i] # <<>> /\ Head(inbox[s][i]) = inbox[s][i][1]
      /\ inbox[s][i][1].type = "Bundle" /\ Single(inbox[s][i][1].hashes)
      /\ end[s][i] \in EndRecords /\ n \in Nodes
  BY Received, SyncedFacts, RunsOnNode DEF RecvBundle, Running, Waiting
<1>2. b \in Bundles /\ inbox[s][i][1].hashes = {b}
  BY <1>1 DEF Single, Carried
<1>3. /\ IF ok /\ b \notin store[n] THEN Insert(n, b) ELSE UNCHANGED stores
      /\ end' = [end EXCEPT ![s][i].budget = IF ok THEN Max({@ - 1, 0}) ELSE @, ![s][i].got = @ \cup {b}]
      /\ inbox' = Replied(s, i, <<>>)
      /\ UNCHANGED <<now, expiry>>
  BY DEF RecvBundle, Carried
<1> HIDE DEF b, ok
<1> DEFINE left == IF ok THEN Max({budget - 1, 0}) ELSE budget
           e == [end[s][i] EXCEPT !.budget = left, !.got = @ \cup {b}]
<1>4. /\ budget \in 0 .. MaxPerSession /\ left \in 0 .. MaxPerSession
      /\ left \in {budget, IF budget = 0 THEN 0 ELSE budget - 1}
  <2>1. budget \in 0 .. MaxPerSession
    BY <1>1 DEF EndRecords
  <2>2. Max({budget - 1, 0}) = IF budget = 0 THEN 0 ELSE budget - 1
    BY <2>1, OneLess, CapAssumption
  <2> QED
    BY <2>1, <2>2, CapAssumption
<1>5. end' = [end EXCEPT ![s][i] = e]
  BY <1>3
<1> HIDE DEF left
<1>6. /\ e \in EndRecords /\ e.pc = "bundles" /\ e.node = n /\ e.budget = left
      /\ e.want = end[s][i].want /\ e.got = end[s][i].got \cup {b}
  BY <1>1, <1>2, <1>4 DEF EndRecords
<1> HIDE DEF e
<1> QED
  BY <1>1, <1>2, <1>3, <1>4, <1>5, <1>6 DEF b, ok

LEMMA RecvBundleSynced ==
  ASSUME CapAssumption, Synced, NEW s \in Sessions, NEW i \in Sides, NEW then \in Readings, RecvBundle(s, i, then)
  PROVE  Synced'
<1> DEFINE b == Carried(s, i)
           n == end[s][i].node
           budget == end[s][i].budget
<1>1. /\ n \in Nodes /\ b \in Bundles /\ end[s][i].pc = "bundles"
      /\ inbox[s][i] # <<>> /\ inbox[s][i][1].type = "Bundle"
      /\ Insert(n, b) \/ UNCHANGED stores
      /\ inbox' = Replied(s, i, <<>>)
  BY RecvBundleIs
<1>2. PICK e \in EndRecords :
        /\ end' = [end EXCEPT ![s][i] = e] /\ e.pc = "bundles" /\ e.node = n
        /\ e.budget \in {budget, IF budget = 0 THEN 0 ELSE budget - 1}
  BY RecvBundleIs
<1>3. store' \in [Nodes -> Hashes]
  BY <1>1, StoreSteps DEF Synced, Typed, stores
<1>4. OneBundle(<<>>) /\ <<>> \in Seq(Messages)
  BY EmptySeq DEF OneBundle
<1> HIDE DEF b
<1> QED
  BY <1>1, <1>2, <1>3, <1>4, Answer DEF Running, Waiting

LEMMA RecvDoneSynced ==
  ASSUME CapAssumption, Synced, NEW s \in Sessions, NEW i \in Sides, RecvDone(s, i)
  PROVE  Synced'
<1>1. /\ end[s][i].pc = "bundles" /\ inbox[s][i] # <<>> /\ inbox[s][i][1].type = "Done"
      /\ end[s][i] \in EndRecords
  <2>1. Receives(s, i, "bundles", "Done")
    BY DEF RecvDone
  <2> QED
    BY <2>1, Received, SyncedFacts
<1> DEFINE e == [end[s][i] EXCEPT !.pc = "done", !.budget = 0]
<1>2. e \in EndRecords /\ e.pc = "done" /\ e.node = end[s][i].node
  <2>1. 0 \in 0 .. MaxPerSession /\ end[s][i] \in EndRecords
    BY <1>1, CapAssumption
  <2> QED
    BY <2>1 DEF EndRecords
<1>3. end' = [end EXCEPT ![s][i] = e] /\ inbox' = Replied(s, i, <<>>) /\ store' \in [Nodes -> Hashes]
  BY DEF RecvDone, stores, Synced, Typed
<1>4. OneBundle(<<>>) /\ <<>> \in Seq(Messages)
  BY EmptySeq DEF OneBundle
<1> HIDE DEF e
<1> QED
  BY <1>1, <1>2, <1>3, <1>4, Answer DEF Running, Waiting

\* Some ends fail: those of one broken link, or all of a device.
LEMMA FailSynced ==
  ASSUME CapAssumption, Synced, NEW ends, \A s \in Sessions, i \in Sides : <<s, i>> \in ends => end[s][i].pc \in Running,
         Fail(ends), store' \in [Nodes -> Hashes]
  PROVE  Synced'
<1> DEFINE failed == [NoEnd EXCEPT !.pc = "failed"]
<1>1. failed \in EndRecords /\ failed.pc = "failed"
  <2>1. {} \in Hashes /\ 0 \in 0 .. MaxPerSession
    BY CapAssumption, FS_EmptySet DEF Hashes
  <2> QED
    BY <2>1 DEF NoEnd, EndRecords
<1> HIDE DEF failed
<1>2. /\ end' = [s \in Sessions |-> [i \in Sides |-> IF <<s, i>> \in ends THEN failed ELSE end[s][i]]]
      /\ inbox' = [s \in Sessions |-> [i \in Sides |-> IF <<s, i>> \in ends THEN <<>> ELSE inbox[s][i]]]
  BY DEF Fail, failed
<1>3. Typed'
  BY <1>1, <1>2, EmptySeq DEF Synced, Typed
<1>4. ASSUME NEW s \in Sessions, NEW i \in Sides
      PROVE  Session(s, i)'
  <2>1. /\ end'[s][i] = IF <<s, i>> \in ends THEN failed ELSE end[s][i]
        /\ inbox'[s][i] = IF <<s, i>> \in ends THEN <<>> ELSE inbox[s][i]
        /\ end'[s][Peer(i)] = IF <<s, Peer(i)>> \in ends THEN failed ELSE end[s][Peer(i)]
    BY <1>2, Peers
  <2>2. Session(s, i) /\ Stream(end[s][Peer(i)], inbox[s][Peer(i)], end[s][i].pc)
    BY SyncedFacts DEF Synced
  <2>3. /\ <<s, i>> \in ends => end[s][i].pc \in Running
        /\ <<s, Peer(i)>> \in ends => end[s][Peer(i)].pc \in Running
    BY Peers
  <2>4. end[s][i].pc = "closed" <=> end[s][Peer(i)].pc = "closed"
    BY <2>2 DEF Stream
  <2>5. "closed" \notin Running /\ "failed" \notin Running
    BY DEF Running, Waiting
  <2>6. Stream(end'[s][i], inbox'[s][i], end'[s][Peer(i)].pc)
    <3>1. CASE <<s, i>> \in ends
      BY <1>1, <2>1, <2>3, <2>4, <2>5, <3>1 DEF Stream
    <3>2. CASE <<s, i>> \notin ends /\ <<s, Peer(i)>> \in ends
      BY <1>1, <2>1, <2>2, <2>3, <2>4, <2>5, <3>2 DEF Stream, Sent, Session
    <3>3. CASE <<s, i>> \notin ends /\ <<s, Peer(i)>> \notin ends
      BY <2>1, <2>2, <3>3 DEF Session
    <3> QED
      BY <3>1, <3>2, <3>3
  <2>7. OneBundle(inbox'[s][i])
    BY <2>1, <2>2 DEF Session, OneBundle
  <2>8. Apart(end'[s][i], end'[s][Peer(i)])
    BY <1>1, <2>1, <2>2 DEF Session, Apart
  <2> QED
    BY <2>6, <2>7, <2>8 DEF Session
<1> QED
  BY <1>3, <1>4 DEF Synced

LEMMA ConnectSynced ==
  ASSUME CapAssumption, LinkAssumption, Synced, NEW s \in Sessions, NEW link \in Links, Connect(s, link)
  PROVE  Synced'
<1> DEFINE e == [i \in Sides |-> [NoEnd EXCEPT !.node = link[i], !.pc = "start"]]
<1>1. link[1] \in Nodes /\ link[2] \in Nodes /\ link[1] # link[2]
  BY LinkAssumption
<1>2. \A i \in Sides : /\ e[i] \in EndRecords /\ e[i].pc = "start" /\ e[i].node = link[i]
                       /\ e[i].node \in Nodes /\ e[i].node # e[Peer(i)].node
  <2>1. {} \in Hashes /\ 0 \in 0 .. MaxPerSession
    BY CapAssumption, FS_EmptySet DEF Hashes
  <2>2. \A i \in Sides : link[i] \in Nodes /\ link[i] # link[Peer(i)]
    BY <1>1 DEF Sides, Peer
  <2>3. ASSUME NEW i \in Sides
        PROVE  e[i] \in EndRecords /\ e[i].pc = "start" /\ e[i].node = link[i]
    BY <2>1, <2>2 DEF NoEnd, EndRecords, Running, Waiting
  <2> HIDE DEF e
  <2> QED
    BY <2>2, <2>3, Peers
<1>3. end' = [end EXCEPT ![s] = e] /\ inbox' = inbox /\ store' = store
  BY DEF Connect, stores
<1>4. e \in [Sides -> EndRecords]
  BY <1>2
<1> HIDE DEF e
<1>5. Typed'
  BY <1>3, <1>4 DEF Synced, Typed
<1>6. \A i \in Sides : inbox[s][i] = <<>>
  <2>1. end[s][1].pc = "closed" /\ 1 \in Sides
    BY DEF Connect, Sides
  <2>2. ASSUME NEW i \in Sides
        PROVE  end[s][i].pc = "closed"
    BY <2>1, Peers, SyncedFacts DEF Stream
  <2> QED
    BY <2>2, SyncedFacts DEF Stream, Running, Waiting
<1>7. ASSUME NEW i \in Sides
      PROVE  Session(s, i)'
  <2>1. /\ end'[s][i] = e[i] /\ end'[s][Peer(i)] = e[Peer(i)] /\ inbox'[s][i] = <<>>
        /\ Peer(i) \in Sides
    BY <1>3, <1>6, Peers DEF Synced, Typed
  <2>2. e[i].pc = "start" /\ e[Peer(i)].pc = "start"
    BY <1>2, <2>1
  <2>3. Stream(e[i], <<>>, "start")
    BY <2>2, CapAssumption DEF Stream, Sent, Consumed, Running, Waiting
  <2> QED
    BY <1>2, <2>1, <2>2, <2>3 DEF Session, OneBundle, Apart
<1>8. ASSUME NEW r \in Sessions, NEW i \in Sides, r # s
      PROVE  Session(r, i)'
  BY <1>3, <1>8 DEF Synced, Typed, Session
<1> QED
  BY <1>5, <1>7, <1>8 DEF Synced

LEMMA InitSynced == CapAssumption /\ Init => Synced
<1> SUFFICES ASSUME CapAssumption, Init PROVE Synced
  OBVIOUS
<1>1. {} \in Hashes /\ 0 \in 0 .. MaxPerSession
  BY CapAssumption, FS_EmptySet DEF Hashes
<1>2. NoEnd \in EndRecords /\ NoEnd.pc = "closed"
  BY <1>1 DEF NoEnd, EndRecords
<1>3. Typed
  BY <1>1, <1>2, EmptySeq DEF Init, Typed
<1>4. ASSUME NEW s \in Sessions, NEW i \in Sides
      PROVE  Session(s, i)
  <2>1. end[s][i] = NoEnd /\ end[s][Peer(i)] = NoEnd /\ inbox[s][i] = <<>>
    BY Peers DEF Init
  <2> QED
    BY <1>2, <2>1 DEF Session, Stream, OneBundle, Apart, Running, Waiting
<1> QED
  BY <1>3, <1>4 DEF Synced

LEMMA SyncedStep == CapAssumption /\ LinkAssumption /\ Synced /\ [Next]_vars => Synced'
<1> SUFFICES ASSUME CapAssumption, LinkAssumption, Synced, [Next]_vars
             PROVE  Synced'
  OBVIOUS
<1>1. ASSUME UNCHANGED <<end, inbox>>, store' \in [Nodes -> Hashes]
      PROVE  Synced'
  BY <1>1 DEF Synced, Typed, Session
<1>2. CASE UNCHANGED vars \/ Tick
  BY <1>1, <1>2 DEF vars, stores, Tick, Synced, Typed
<1>3. ASSUME NEW n \in Nodes, NEW b \in Bundles, NEW life \in Lifetimes, Admit(n, b, life)
      PROVE  Synced'
  BY <1>1, <1>3, StoreSteps DEF Admit, Synced, Typed
<1>4. ASSUME NEW n \in Nodes, NEW matching \in SUBSET store[n], TakeForAddresses(n, matching)
      PROVE  Synced'
  BY <1>1, <1>4, StoreSteps DEF TakeForAddresses, Synced, Typed
<1>5. ASSUME NEW n \in Nodes, NodeStops(n)
      PROVE  Synced'
  <2> DEFINE ends == {x \in Sessions \X Sides : end[x[1]][x[2]].node = n /\ end[x[1]][x[2]].pc \in Running}
  <2>1. \A s \in Sessions, i \in Sides : <<s, i>> \in ends => end[s][i].pc \in Running
    OBVIOUS
  <2>2. Fail(ends)
    BY <1>5 DEF NodeStops
  <2>3. store' \in [Nodes -> Hashes]
    BY <1>5, FS_EmptySet DEF NodeStops, Synced, Typed, Hashes
  <2> HIDE DEF ends
  <2> QED
    BY <2>1, <2>2, <2>3, FailSynced
<1>6. ASSUME NEW s \in Sessions, NEW i \in Sides, LinkLost(s, i) \/ PeerGone(s, i)
      PROVE  Synced'
  <2> DEFINE ends == {<<s, i>>}
  <2>1. /\ end[s][i].pc \in Running /\ store' = store /\ Fail(ends)
    BY <1>6 DEF LinkLost, PeerGone, stores
  <2>2. \A r \in Sessions, k \in Sides : <<r, k>> \in ends => end[r][k].pc \in Running
    BY <2>1
  <2> HIDE DEF ends
  <2> QED
    BY <2>1, <2>2, FailSynced DEF Synced, Typed
<1>7. ASSUME NEW s \in Sessions, NEW i \in Sides, SyncStep(s, i)
      PROVE  Synced'
  BY <1>6, <1>7, StartSynced, RecvHaveSynced, RecvWantSynced, RecvBundleSynced, RecvDoneSynced DEF SyncStep
<1> QED
  BY <1>2, <1>3, <1>4, <1>5, <1>6, <1>7, ConnectSynced DEF Next

LEMMA Syncing == Spec => []Synced
<1>1. Init => Synced
  BY InitSynced, CapAssumption
<1>2. Synced /\ [Next]_vars => Synced'
  BY SyncedStep, CapAssumption, LinkAssumption
<1> QED
  BY <1>1, <1>2, PTL DEF Spec

\* With no roles and no acknowledgements, however the two ends of a session
\* interleave and whichever fails first, neither ever receives a message that
\* sync_with_peer does not expect at that point.
THEOREM NeverOutOfOrder == Spec => []InStep
<1>1. ASSUME Synced
      PROVE  InStep
  <2> SUFFICES ASSUME NEW s \in Sessions, NEW i \in Sides,
                      end[s][i].pc \in Running, inbox[s][i] # <<>>
               PROVE  Head(inbox[s][i]).type \in Expects(end[s][i].pc)
    BY DEF InStep
  <2> DEFINE q == inbox[s][i]
             e == end[s][i]
             pc == end[s][Peer(i)].pc
  <2>1. q \in Seq(Messages) /\ Stream(e, q, pc) /\ pc \in Pcs
    BY <1>1, SyncedFacts
  <2> HIDE DEF q, e, pc
  <2>2. Head(q) = q[1] /\ Len(q) \in Nat \ {0}
    BY <2>1, TailFacts DEF q
  <2>3. e.pc \in Running
    BY DEF e
  <2>4. q[1].type = Scripted(Consumed(e.pc), 1, Len(q))
    BY <2>1, <2>2, <2>3 DEF Stream
  <2>5. q[1].type \in Expects(e.pc)
    BY <2>2, <2>3, <2>4 DEF Scripted, Consumed, Expects, Running, Waiting
  <2> QED
    BY <2>2, <2>5 DEF q, e
<1> QED
  BY <1>1, Syncing, PTL

\* What is still to come in a session fits the admission cap that is left, so
\* an honest peer's bundle is only refused for the store's caps or its expiry.
THEOREM CapNeverBites == Spec => []BudgetSuffices
<1>1. ASSUME Synced
      PROVE  BudgetSuffices
  <2> SUFFICES ASSUME NEW s \in Sessions, NEW i \in Sides, end[s][i].pc = "bundles"
               PROVE  Cardinality(Coming(s, i)) <= end[s][i].budget
    BY DEF BudgetSuffices
  <2> DEFINE q == inbox[s][i]
             e == end[s][i]
             n == Len(q) - 1
  <2>1. q \in Seq(Messages) /\ Stream(e, q, end[s][Peer(i)].pc) /\ e \in EndRecords
    BY <1>1, SyncedFacts
  <2>2. Coming(s, i) = {k \in 1 .. Len(q) : q[k].type = "Bundle"} /\ e.pc = "bundles"
    <3>1. DOMAIN q = 1 .. Len(q)
      BY <2>1, LenProperties
    <3> QED
      BY <3>1 DEF Coming
  <2> HIDE DEF q, e
  <2>3. Len(q) \in Nat /\ e.budget \in Nat
    BY <2>1, LenProperties, CapAssumption DEF EndRecords
  <2>4. /\ Len(q) <= e.budget + 1
        /\ \A k \in 1 .. Len(q) : q[k].type = Scripted(2, k, Len(q))
    BY <2>1, <2>2 DEF Stream, Consumed, Running, Waiting
  <2>5. CASE Len(q) = 0
    <3>1. Coming(s, i) = {}
      BY <2>2, <2>5
    <3> QED
      BY <2>3, <3>1, FS_EmptySet DEF e
  <2>6. CASE Len(q) # 0
    <3>1. \A k \in 1 .. Len(q) : q[k].type = "Bundle" => k \in 1 .. n
      BY <2>3, <2>4, <2>6 DEF Scripted
    <3>2. Coming(s, i) \subseteq 1 .. n
      BY <2>2, <3>1
    <3>3. n \in Nat
      BY <2>3, <2>6
    <3>4. IsFiniteSet(1 .. n) /\ Cardinality(1 .. n) = n
      <4> HIDE DEF n
      <4> QED
        BY <3>3, FS_Interval
    <3>5. Cardinality(Coming(s, i)) <= n
      BY <3>2, <3>4, FS_Subset
    <3>6. Cardinality(Coming(s, i)) \in Nat
      BY <3>2, <3>4, FS_Subset, FS_CardinalityType
    <3> QED
      BY <2>3, <2>4, <3>5, <3>6 DEF e
  <2> QED
    BY <2>5, <2>6
<1> QED
  BY <1>1, Syncing, PTL

----------------------------------------------------------------------------
(* Gossip *)

\* A copy of b is in the inbox q.
CopyIn(q, b) == \E k \in 1 .. Len(q) : q[k].type = "Bundle" /\ b \in q[k].hashes

LEMMA CopyTail ==
  ASSUME NEW q \in Seq(Messages), q # <<>>, NEW b
  PROVE  CopyIn(q, b) <=> (q[1].type = "Bundle" /\ b \in q[1].hashes) \/ CopyIn(Tail(q), b)
<1>1. /\ Len(q) \in Nat \ {0} /\ Len(Tail(q)) = Len(q) - 1
      /\ \A k \in 1 .. Len(Tail(q)) : Tail(q)[k] = q[k + 1]
  BY TailFacts
<1> DEFINE t == Tail(q)
<1> HIDE DEF t
<1>2. ASSUME NEW k \in 1 .. Len(q), k # 1
      PROVE  k - 1 \in 1 .. Len(t) /\ t[k - 1] = q[k]
  <2>1. k - 1 \in 1 .. Len(t) /\ (k - 1) + 1 = k
    BY <1>1, <1>2 DEF t
  <2>2. t[k - 1] = q[(k - 1) + 1]
    BY <1>1, <2>1 DEF t
  <2> QED
    BY <2>1, <2>2
<1>3. ASSUME NEW k \in 1 .. Len(t)
      PROVE  k + 1 \in 1 .. Len(q) /\ t[k] = q[k + 1]
  BY <1>1, <1>3 DEF t
<1>4. CopyIn(q, b) => (q[1].type = "Bundle" /\ b \in q[1].hashes) \/ CopyIn(t, b)
  <2> SUFFICES ASSUME NEW k \in 1 .. Len(q), q[k].type = "Bundle", b \in q[k].hashes, k # 1
               PROVE  CopyIn(t, b)
    BY DEF CopyIn
  <2> QED
    BY <1>2 DEF CopyIn
<1>5. CopyIn(t, b) => CopyIn(q, b)
  BY <1>3 DEF CopyIn
<1>6. 1 \in 1 .. Len(q)
  BY <1>1
<1> QED
  BY <1>4, <1>5, <1>6 DEF CopyIn, t

LEMMA CopyCat ==
  ASSUME NEW q \in Seq(Messages), NEW r \in Seq(Messages), NEW b
  PROVE  CopyIn(q \o r, b) <=> CopyIn(q, b) \/ CopyIn(r, b)
<1> DEFINE p == q \o r
<1>1. /\ Len(q) \in Nat /\ Len(r) \in Nat /\ Len(p) = Len(q) + Len(r)
      /\ \A k \in 1 .. Len(q) : p[k] = q[k]
      /\ \A k \in 1 .. Len(r) : p[Len(q) + k] = r[k]
  BY CatFacts
<1> HIDE DEF p
<1>2. ASSUME NEW k \in 1 .. Len(p), k \notin 1 .. Len(q)
      PROVE  k - Len(q) \in 1 .. Len(r) /\ r[k - Len(q)] = p[k]
  <2>1. k - Len(q) \in 1 .. Len(r) /\ Len(q) + (k - Len(q)) = k
    BY <1>1, <1>2
  <2>2. p[Len(q) + (k - Len(q))] = r[k - Len(q)]
    BY <1>1, <2>1
  <2> QED
    BY <2>1, <2>2
<1>3. CopyIn(p, b) => CopyIn(q, b) \/ CopyIn(r, b)
  <2> SUFFICES ASSUME NEW k \in 1 .. Len(p), p[k].type = "Bundle", b \in p[k].hashes
               PROVE  CopyIn(q, b) \/ CopyIn(r, b)
    BY DEF CopyIn
  <2>1. CASE k \in 1 .. Len(q)
    BY <1>1, <2>1 DEF CopyIn
  <2>2. CASE k \notin 1 .. Len(q)
    BY <1>2, <2>2 DEF CopyIn
  <2> QED
    BY <2>1, <2>2
<1>4. CopyIn(q, b) => CopyIn(p, b)
  <2>1. \A k \in 1 .. Len(q) : k \in 1 .. Len(p) /\ p[k] = q[k]
    BY <1>1
  <2> QED
    BY <2>1 DEF CopyIn
<1>5. CopyIn(r, b) => CopyIn(p, b)
  <2> SUFFICES ASSUME NEW k \in 1 .. Len(r), r[k].type = "Bundle", b \in r[k].hashes
               PROVE  CopyIn(p, b)
    BY DEF CopyIn
  <2>1. Len(q) + k \in 1 .. Len(p) /\ p[Len(q) + k] = r[k]
    BY <1>1
  <2> QED
    BY <2>1 DEF CopyIn
<1> QED
  BY <1>3, <1>4, <1>5 DEF p

LEMMA FlightIs ==
  ASSUME Synced, Synced', NEW n, NEW b
  PROVE  /\ b \in Flight(n) <=>
              \E s \in Sessions, i \in Sides : end[s][i].node = n /\ CopyIn(inbox[s][i], b) /\ b \in Bundles
         /\ b \in Flight(n)' <=>
              \E s \in Sessions, i \in Sides : end'[s][i].node = n /\ CopyIn(inbox'[s][i], b) /\ b \in Bundles
<1>1. ASSUME NEW s \in Sessions, NEW i \in Sides
      PROVE  /\ DOMAIN inbox[s][i] = 1 .. Len(inbox[s][i])
             /\ DOMAIN inbox'[s][i] = 1 .. Len(inbox'[s][i])
  BY LenProperties DEF Synced, Typed
<1>2. ASSUME NEW s \in Sessions, NEW i \in Sides
      PROVE  /\ (\E k \in Coming(s, i) : b \in inbox[s][i][k].hashes) <=> CopyIn(inbox[s][i], b)
             /\ (\E k \in Coming(s, i)' : b \in inbox'[s][i][k].hashes) <=> CopyIn(inbox'[s][i], b)
  BY <1>1 DEF Coming, CopyIn
<1> QED
  BY <1>2 DEF Flight

\* A step that moves no copy.
LEMMA NoCopyMoves ==
  ASSUME Synced, Synced',
         \A s \in Sessions, i \in Sides, b \in Bundles :
           \/ /\ CopyIn(inbox'[s][i], b) <=> CopyIn(inbox[s][i], b)
              /\ end'[s][i].node = end[s][i].node
           \/ ~CopyIn(inbox'[s][i], b) /\ ~CopyIn(inbox[s][i], b)
  PROVE  [n \in Nodes |-> Flight(n)]' = [n \in Nodes |-> Flight(n)]
<1>1. ASSUME NEW n, NEW b
      PROVE  b \in Flight(n)' <=> b \in Flight(n)
  <2> DEFINE Before(s, i) == end[s][i].node = n /\ CopyIn(inbox[s][i], b) /\ b \in Bundles
             After(s, i) == end'[s][i].node = n /\ CopyIn(inbox'[s][i], b) /\ b \in Bundles
  <2>1. \A s \in Sessions, i \in Sides : After(s, i) <=> Before(s, i)
    OBVIOUS
  <2>2. /\ b \in Flight(n) <=> \E s \in Sessions, i \in Sides : Before(s, i)
        /\ b \in Flight(n)' <=> \E s \in Sessions, i \in Sides : After(s, i)
    BY FlightIs
  <2> HIDE DEF Before, After
  <2> QED
    BY <2>1, <2>2
<1>2. \A n \in Nodes : Flight(n)' = Flight(n)
  BY <1>1
<1> QED
  BY <1>2

LEMMA EmptyInbox ==
  ASSUME Synced, NEW s \in Sessions, NEW i \in Sides, end[s][i].pc \notin Running, NEW b
  PROVE  ~CopyIn(inbox[s][i], b)
BY SyncedFacts DEF Stream, CopyIn

\* Where the copies are after an end has consumed a message and posted r.
LEMMA RepliedCopies ==
  ASSUME Synced, NEW s \in Sessions, NEW i \in Sides, NEW e, NEW r \in Seq(Messages),
         inbox[s][i] # <<>>, inbox' = Replied(s, i, r),
         end' = [end EXCEPT ![s][i] = e], e.node = end[s][i].node
  PROVE  /\ \A t \in Sessions, k \in Sides : end'[t][k].node = end[t][k].node
         /\ \A t \in Sessions, k \in Sides : t # s => inbox'[t][k] = inbox[t][k]
         /\ inbox'[s][i] = Tail(inbox[s][i])
         /\ \A b : CopyIn(inbox'[s][Peer(i)], b) <=>
              \/ CopyIn(inbox[s][Peer(i)], b)
              \/ end[s][Peer(i)].pc # "failed" /\ CopyIn(r, b)
<1> DEFINE j == Peer(i)
           qs == [Post(s, i, r) EXCEPT ![i] = Tail(@)]
<1>1. /\ qs \in [Sides -> Seq(Messages)] /\ qs[i] = Tail(inbox[s][i])
      /\ qs[j] = IF end[s][j].pc = "failed" THEN inbox[s][j] ELSE inbox[s][j] \o r
  BY RepliedFacts DEF Synced
<1>2. inbox' = [inbox EXCEPT ![s] = qs]
  BY DEF Replied
<1>3. j \in Sides /\ inbox[s][j] \in Seq(Messages)
  BY SyncedFacts
<1> HIDE DEF qs
<1>4. inbox'[s] = qs /\ \A t \in Sessions : t # s => inbox'[t] = inbox[t]
  BY <1>2 DEF Synced, Typed
<1>5. \A t \in Sessions, k \in Sides : end'[t][k].node = end[t][k].node
  BY DEF Synced, Typed
<1>6. ASSUME NEW b
      PROVE  CopyIn(inbox'[s][j], b) <=> CopyIn(inbox[s][j], b) \/ (end[s][j].pc # "failed" /\ CopyIn(r, b))
  <2> HIDE DEF j
  <2>1. CopyIn(inbox[s][j] \o r, b) <=> CopyIn(inbox[s][j], b) \/ CopyIn(r, b)
    BY <1>3, CopyCat
  <2> QED
    BY <1>1, <1>4, <2>1
<1> QED
  BY <1>1, <1>4, <1>5, <1>6

LEMMA SilentReply ==
  ASSUME Synced, Synced', NEW s \in Sessions, NEW i \in Sides, NEW e, NEW r \in Seq(Messages),
         inbox[s][i] # <<>>, inbox[s][i][1].type # "Bundle", inbox' = Replied(s, i, r),
         end' = [end EXCEPT ![s][i] = e], e.node = end[s][i].node,
         end[s][Peer(i)].pc = "failed" \/ \A b : ~CopyIn(r, b)
  PROVE  [n \in Nodes |-> Flight(n)]' = [n \in Nodes |-> Flight(n)]
<1>1. /\ \A t \in Sessions, k \in Sides : end'[t][k].node = end[t][k].node
      /\ \A t \in Sessions, k \in Sides : t # s => inbox'[t][k] = inbox[t][k]
      /\ inbox'[s][i] = Tail(inbox[s][i])
      /\ \A b : CopyIn(inbox'[s][Peer(i)], b) <=> CopyIn(inbox[s][Peer(i)], b)
  BY RepliedCopies
<1>2. ASSUME NEW b
      PROVE  CopyIn(inbox'[s][i], b) <=> CopyIn(inbox[s][i], b)
  BY <1>1, SyncedFacts, CopyTail
<1>3. \A k \in Sides : k = i \/ k = Peer(i)
  BY Peers
<1>4. \A t \in Sessions, k \in Sides, b \in Bundles : CopyIn(inbox'[t][k], b) <=> CopyIn(inbox[t][k], b)
  BY <1>1, <1>2, <1>3
<1> QED
  BY <1>1, <1>4, NoCopyMoves

\* Copies leave the air over one device, for the last time or not.
LEMMA FlightShrinks ==
  ASSUME Synced, Synced', NEW n \in Nodes,
         \A m, b : b \in Flight(m)' => b \in Flight(m),
         \A m, b : m # n /\ b \in Flight(m) => b \in Flight(m)'
  PROVE  LET f == [m \in Nodes |-> Flight(m)]  lost == Flight(n) \ Flight(n)' IN
         lost \subseteq f[n] /\ f' = [f EXCEPT ![n] = @ \ lost]
<1> DEFINE f == [m \in Nodes |-> Flight(m)]
           lost == Flight(n) \ Flight(n)'
<1>1. Flight(n)' = Flight(n) \ lost
  OBVIOUS
<1>2. \A m \in Nodes : m # n => Flight(m)' = Flight(m)
  OBVIOUS
<1>3. \A m \in Nodes : f'[m] = Flight(m)' /\ f[m] = Flight(m)
  OBVIOUS
<1>4. f' = [m \in Nodes |-> f'[m]] /\ f = [m \in Nodes |-> f[m]]
  OBVIOUS
<1> HIDE DEF f, lost
<1>5. f' = [f EXCEPT ![n] = @ \ lost]
  BY <1>1, <1>2, <1>3, <1>4
<1>6. lost \subseteq f[n]
  BY <1>3 DEF lost
<1> QED
  BY <1>5, <1>6 DEF f, lost

LEMMA FailGossips ==
  ASSUME Synced, Synced', NEW n \in Nodes, NEW ends, Fail(ends),
         \A s \in Sessions, i \in Sides : <<s, i>> \in ends => end[s][i].node = n
  PROVE  /\ \A m, b : b \in Flight(m)' => b \in Flight(m)
         /\ \A m, b : m # n /\ b \in Flight(m) => b \in Flight(m)'
<1>1. ASSUME NEW s \in Sessions, NEW i \in Sides
      PROVE  /\ <<s, i>> \notin ends => end'[s][i] = end[s][i] /\ inbox'[s][i] = inbox[s][i]
             /\ <<s, i>> \in ends => inbox'[s][i] = <<>>
  BY DEF Fail
<1>2. \A b : ~CopyIn(<<>>, b)
  BY DEF CopyIn
<1>3. ASSUME NEW m, NEW b, b \in Flight(m)'
      PROVE  b \in Flight(m)
  <2>1. PICK s \in Sessions, i \in Sides : end'[s][i].node = m /\ CopyIn(inbox'[s][i], b) /\ b \in Bundles
    BY <1>3, FlightIs
  <2>2. end[s][i].node = m /\ CopyIn(inbox[s][i], b)
    BY <1>1, <1>2, <2>1
  <2> QED
    BY <2>1, <2>2, FlightIs
<1>4. ASSUME NEW m, NEW b, m # n, b \in Flight(m)
      PROVE  b \in Flight(m)'
  <2>1. PICK s \in Sessions, i \in Sides : end[s][i].node = m /\ CopyIn(inbox[s][i], b) /\ b \in Bundles
    BY <1>4, FlightIs
  <2>2. end'[s][i].node = m /\ CopyIn(inbox'[s][i], b)
    BY <1>1, <1>4, <2>1
  <2> QED
    BY <2>1, <2>2, FlightIs
<1> QED
  BY <1>3, <1>4

LEMMA Untouched ==
  ASSUME Synced, Synced', UNCHANGED <<end, inbox>>
  PROVE  [n \in Nodes |-> Flight(n)]' = [n \in Nodes |-> Flight(n)]
BY NoCopyMoves

LEMMA SameCount == \A S : G!Cardinality(S) = Cardinality(S)
BY Zenon DEF Cardinality, G!Cardinality

LEMMA StoreGossips ==
  ASSUME Synced, Synced', NEW n \in Nodes
  PROVE  /\ \A b \in Bundles, life \in Lifetimes : Admit(n, b, life) => G!GossipNext
         /\ \A matching \in SUBSET store[n] : TakeForAddresses(n, matching) => G!GossipNext
<1>1. ASSUME NEW b \in Bundles, NEW life \in Lifetimes, Admit(n, b, life)
      PROVE  G!Compose(n, b, life)
  <2>1. [m \in Nodes |-> Flight(m)]' = [m \in Nodes |-> Flight(m)]
    BY <1>1, Untouched DEF Admit
  <2>2. ~G!Born(b) /\ life > 0 /\ G!HasRoom(n)
    BY <1>1, SameCount DEF Admit, HasRoom, Unborn, G!Born, G!Unborn, G!HasRoom
  <2>3. /\ \E then \in G!Readings : expiry' = [expiry EXCEPT ![b] = then + life]
        /\ store' = [store EXCEPT ![n] = @ \cup {b}]
        /\ now' = now
    BY <1>1 DEF Admit, Insert, Readings, G!Readings
  <2> QED
    BY <2>1, <2>2, <2>3, Zenon DEF G!Compose
<1>2. ASSUME NEW matching \in SUBSET store[n], TakeForAddresses(n, matching)
      PROVE  G!Leave(n, matching)
  <2>1. [m \in Nodes |-> Flight(m)]' = [m \in Nodes |-> Flight(m)]
    BY <1>2, Untouched DEF TakeForAddresses
  <2> QED
    BY <1>2, <2>1 DEF TakeForAddresses, Discard, G!Leave
<1> QED
  BY <1>1, <1>2 DEF G!GossipNext

LEMMA StopGossips ==
  ASSUME Synced, Synced', NEW n \in Nodes, NodeStops(n)
  PROVE  G!Crash(n)
<1> DEFINE ends == {x \in Sessions \X Sides : end[x[1]][x[2]].node = n /\ end[x[1]][x[2]].pc \in Running}
<1>1. \A s \in Sessions, i \in Sides :
        <<s, i>> \in ends <=> end[s][i].node = n /\ end[s][i].pc \in Running
  OBVIOUS
<1>2. Fail(ends) /\ store' = [store EXCEPT ![n] = {}] /\ UNCHANGED <<now, expiry>>
  BY DEF NodeStops
<1> HIDE DEF ends
<1>3. /\ \A m, b : b \in Flight(m)' => b \in Flight(m)
      /\ \A m, b : m # n /\ b \in Flight(m) => b \in Flight(m)'
  BY <1>1, <1>2, FailGossips
<1>4. ASSUME NEW b \in Flight(n)'
      PROVE  FALSE
  <2>1. PICK s \in Sessions, i \in Sides : end'[s][i].node = n /\ CopyIn(inbox'[s][i], b)
    BY <1>4, FlightIs
  <2>2. <<s, i>> \notin ends
    BY <1>2, <2>1 DEF Fail, CopyIn
  <2>3. end'[s][i] = end[s][i] /\ inbox'[s][i] = inbox[s][i]
    BY <1>2, <2>2 DEF Fail
  <2>4. end[s][i].pc \notin Running
    BY <1>1, <2>1, <2>2, <2>3
  <2> QED
    BY <2>1, <2>3, <2>4, EmptyInbox
<1>5. LET f == [m \in Nodes |-> Flight(m)]  lost == Flight(n) \ Flight(n)' IN
      lost \subseteq f[n] /\ f' = [f EXCEPT ![n] = @ \ lost]
  BY <1>3, FlightShrinks
<1>6. Flight(n) \ Flight(n)' = Flight(n)
  BY <1>4
<1>7. [m \in Nodes |-> Flight(m)]' = [[m \in Nodes |-> Flight(m)] EXCEPT ![n] = {}]
  BY <1>5, <1>6
<1> QED
  BY <1>2, <1>7 DEF G!Crash

LEMMA FailureGossips ==
  ASSUME Synced, Synced', NEW s \in Sessions, NEW i \in Sides, LinkLost(s, i) \/ PeerGone(s, i)
  PROVE  G!GossipNext
<1> DEFINE ends == {<<s, i>>}
<1> PICK n \in Nodes : n = end[s][i].node
  BY RunsOnNode DEF LinkLost, PeerGone
<1>1. Fail(ends) /\ UNCHANGED <<now, expiry, store>>
  BY DEF LinkLost, PeerGone, stores
<1>2. \A t \in Sessions, k \in Sides : <<t, k>> \in ends => end[t][k].node = n
  OBVIOUS
<1> HIDE DEF ends
<1>3. /\ \A m, b : b \in Flight(m)' => b \in Flight(m)
      /\ \A m, b : m # n /\ b \in Flight(m) => b \in Flight(m)'
  BY <1>1, <1>2, FailGossips
<1>4. PICK lost : LET f == [m \in Nodes |-> Flight(m)] IN
                  lost \subseteq f[n] /\ f' = [f EXCEPT ![n] = @ \ lost]
  <2>1. LET f == [m \in Nodes |-> Flight(m)]  lost == Flight(n) \ Flight(n)' IN
        lost \subseteq f[n] /\ f' = [f EXCEPT ![n] = @ \ lost]
    BY <1>1, <1>3, FlightShrinks
  <2> QED
    BY <2>1
<1>5. G!Lost(n, lost)
  BY <1>1, <1>4 DEF G!Lost
<1>6. lost \in SUBSET [m \in Nodes |-> Flight(m)][n]
  BY <1>4
<1> QED
  BY <1>1, <1>5, <1>6 DEF G!GossipNext

LEMMA ConnectGossips ==
  ASSUME Synced, Synced', NEW s \in Sessions, NEW link \in Links, Connect(s, link)
  PROVE  UNCHANGED G!gossip
<1>1. ASSUME NEW i \in Sides
      PROVE  end[s][i].pc = "closed"
  <2>1. end[s][1].pc = "closed" /\ 1 \in Sides
    BY DEF Connect, Sides
  <2>2. i = 1 \/ Peer(i) = 1
    BY <2>1, Peers
  <2>3. Stream(end[s][i], inbox[s][i], end[s][Peer(i)].pc)
    BY SyncedFacts
  <2> QED
    BY <2>1, <2>2, <2>3 DEF Stream
<1>2. "closed" \notin Running
  BY DEF Running, Waiting
<1>3. \A i \in Sides, b \in Bundles : ~CopyIn(inbox[s][i], b)
  BY <1>1, <1>2, EmptyInbox
<1>4. inbox' = inbox /\ \A t \in Sessions : t # s => end'[t] = end[t]
  BY DEF Connect, Synced, Typed
<1>5. [n \in Nodes |-> Flight(n)]' = [n \in Nodes |-> Flight(n)]
  BY <1>3, <1>4, NoCopyMoves
<1> QED
  BY <1>5 DEF Connect, stores, G!gossip

LEMMA NoBundle ==
  ASSUME NEW r \in Seq(Messages), Len(r) = 1, r[1].type # "Bundle"
  PROVE  \A b : ~CopyIn(r, b)
BY DEF CopyIn

LEMMA StartGossips ==
  ASSUME CapAssumption, Synced, Synced', NEW s \in Sessions, NEW i \in Sides, NEW then \in Readings, Start(s, i, then)
  PROVE  G!GossipNext
<1>1. PICK n \in Nodes : n = end[s][i].node
  BY RunsOnNode DEF Start, Running
<1>2. /\ store' = [store EXCEPT ![n] = @ \ Swept(n, then)] /\ UNCHANGED <<now, expiry>>
      /\ end' = [end EXCEPT ![s][i] = [@ EXCEPT !.pc = "have", !.have = store'[n]]]
      /\ inbox' = [inbox EXCEPT ![s] = Post(s, i, <<Have(store'[n])>>)]
  BY <1>1 DEF Start, SweepExpired, Discard
<1> DEFINE r == <<Have(store'[n])>>
           qs == Post(s, i, r)
           j == Peer(i)
<1>3. r \in Seq(Messages) /\ Len(r) = 1 /\ r[1].type = "Have"
  <2> DEFINE h == store'[n]
             m == Have(h)
  <2>1. h \in Hashes
    BY DEF Synced, Typed
  <2> HIDE DEF h
  <2>2. m = [type |-> "Have", hashes |-> h]
    BY DEF Have
  <2> HIDE DEF m
  <2>3. <<m>> \in Seq(Messages) /\ Len(<<m>>) = 1 /\ <<m>>[1].type = "Have"
    BY <2>1, <2>2, OneMessage
  <2> QED
    BY <2>3 DEF m, h
<1>4. /\ qs[i] = inbox[s][i] /\ inbox[s][j] \in Seq(Messages) /\ j \in Sides
      /\ qs[j] = IF end[s][j].pc = "failed" THEN inbox[s][j] ELSE inbox[s][j] \o r
  <2> HIDE DEF r
  <2> QED
    BY <1>3, PostFacts, SyncedFacts DEF Synced
<1>5. /\ inbox'[s] = qs
      /\ \A t \in Sessions : t # s => inbox'[t] = inbox[t]
      /\ \A t \in Sessions, k \in Sides : end'[t][k].node = end[t][k].node
  <2> HIDE DEF qs, r
  <2> QED
    BY <1>2 DEF Synced, Typed, EndRecords, qs, r
<1> HIDE DEF r, qs
<1>6. ASSUME NEW b
      PROVE  CopyIn(qs[j], b) <=> CopyIn(inbox[s][j], b)
  <2>1. ~CopyIn(r, b)
    BY <1>3, NoBundle
  <2>2. CopyIn(inbox[s][j] \o r, b) <=> CopyIn(inbox[s][j], b) \/ CopyIn(r, b)
    BY <1>3, <1>4, CopyCat
  <2> QED
    BY <1>4, <2>1, <2>2
<1>7. \A t \in Sessions, k \in Sides, b \in Bundles : CopyIn(inbox'[t][k], b) <=> CopyIn(inbox[t][k], b)
  <2>1. \A k \in Sides : k = i \/ k = j
    BY Peers
  <2> QED
    BY <1>4, <1>5, <1>6, <2>1
<1>8. [m \in Nodes |-> Flight(m)]' = [m \in Nodes |-> Flight(m)]
  BY <1>5, <1>7, NoCopyMoves
<1>9. G!Leave(n, Swept(n, then))
  BY <1>2, <1>8 DEF G!Leave
<1>10. Swept(n, then) \in SUBSET store[n]
  BY DEF Swept
<1> QED
  BY <1>9, <1>10 DEF G!GossipNext

LEMMA SilentGossips ==
  ASSUME CapAssumption, Synced, Synced', NEW s \in Sessions, NEW i \in Sides,
         RecvHave(s, i) \/ RecvDone(s, i)
  PROVE  UNCHANGED G!gossip
<1>1. CASE RecvHave(s, i)
  <2>1. /\ inbox[s][i] # <<>> /\ inbox[s][i][1].type = "Have" /\ end[s][i] \in EndRecords
        /\ Head(inbox[s][i]).hashes \in Hashes
    <3>1. Receives(s, i, "have", "Have")
      BY <1>1 DEF RecvHave
    <3> QED
      BY <3>1, Received, SyncedFacts
  <2> DEFINE h == Head(inbox[s][i]).hashes \ end[s][i].have
  <2>2. h \in Hashes
    BY <2>1, FS_Difference DEF Hashes
  <2>3. PICK W \in Truncated(h) :
          /\ end' = [end EXCEPT ![s][i] = [@ EXCEPT !.pc = "want", !.have = {}, !.want = W]]
          /\ inbox' = Replied(s, i, <<Want(W)>>)
    BY <1>1 DEF RecvHave
  <2> HIDE DEF h
  <2>4. W \in Hashes
    BY <2>2, TruncatedIs
  <2> DEFINE e == [end[s][i] EXCEPT !.pc = "want", !.have = {}, !.want = W]
             r == <<Want(W)>>
  <2>5. r \in Seq(Messages) /\ \A b : ~CopyIn(r, b)
    <3>1. r \in Seq(Messages) /\ Len(r) = 1 /\ r[1].type = "Want"
      BY <2>4, OneMessage DEF Want
    <3> QED
      BY <3>1, NoBundle
  <2>6. e.node = end[s][i].node /\ end' = [end EXCEPT ![s][i] = e] /\ inbox' = Replied(s, i, r)
    BY <2>1, <2>3 DEF EndRecords
  <2> HIDE DEF e, r
  <2>7. [m \in Nodes |-> Flight(m)]' = [m \in Nodes |-> Flight(m)]
    BY <2>1, <2>5, <2>6, SilentReply
  <2> QED
    BY <1>1, <2>7 DEF RecvHave, stores, G!gossip
<1>2. CASE RecvDone(s, i)
  <2>1. inbox[s][i] # <<>> /\ inbox[s][i][1].type = "Done" /\ end[s][i] \in EndRecords
    <3>1. Receives(s, i, "bundles", "Done")
      BY <1>2 DEF RecvDone
    <3> QED
      BY <3>1, Received, SyncedFacts
  <2> DEFINE e == [end[s][i] EXCEPT !.pc = "done", !.budget = 0]
  <2>2. e.node = end[s][i].node /\ end' = [end EXCEPT ![s][i] = e] /\ inbox' = Replied(s, i, <<>>)
    BY <1>2, <2>1 DEF RecvDone, EndRecords
  <2>3. <<>> \in Seq(Messages) /\ \A b : ~CopyIn(<<>>, b)
    BY DEF CopyIn
  <2> HIDE DEF e
  <2>4. [m \in Nodes |-> Flight(m)]' = [m \in Nodes |-> Flight(m)]
    BY <2>1, <2>2, <2>3, SilentReply
  <2> QED
    BY <1>2, <2>4 DEF RecvDone, stores, G!gossip
<1> QED
  BY <1>1, <1>2

\* What an end sends is in its store when it is sent.
LEMMA WantGossips ==
  ASSUME CapAssumption, Synced, Synced', NEW s \in Sessions, NEW i \in Sides, RecvWant(s, i)
  PROVE  [G!GossipNext]_(G!gossip)
<1>1. PICK from \in Nodes : from = end[s][i].node
  BY RunsOnNode DEF RecvWant, Receives, Running, Waiting
<1>2. /\ inbox[s][i] # <<>> /\ inbox[s][i][1].type = "Want" /\ end[s][i].pc = "want"
      /\ Head(inbox[s][i]).hashes \in Hashes
  <2>1. Receives(s, i, "want", "Want")
    BY DEF RecvWant
  <2> QED
    BY <2>1, Received
<1>3. PICK W \in Truncated(Head(inbox[s][i]).hashes) :
        \E bundles \in SetToSeqs(W \cap store[from]) :
          inbox' = Replied(s, i, Append(Serve(bundles), Done))
  BY <1>1 DEF RecvWant
<1>4. PICK bundles \in SetToSeqs(W \cap store[from]) :
        inbox' = Replied(s, i, Append(Serve(bundles), Done))
  BY <1>3
<1> DEFINE S == W \cap store[from]
           r == Append(Serve(bundles), Done)
           e == [end[s][i] EXCEPT !.pc = "bundles", !.budget = MaxPerSession]
<1>5. S \in Hashes /\ Cardinality(S) \in 0 .. MaxPerSession
  <2>1. W \in Hashes /\ Cardinality(W) \in 0 .. MaxPerSession
    BY <1>2, TruncatedIs
  <2>2. IsFiniteSet(S) /\ Cardinality(S) <= Cardinality(W) /\ S \subseteq Bundles
    BY <2>1, FS_Subset DEF Hashes
  <2>3. Cardinality(S) \in Nat
    BY <2>2, FS_CardinalityType
  <2> QED
    BY <2>1, <2>2, <2>3, CapAssumption DEF Hashes
<1>6. /\ r \in Seq(Messages)
      /\ \A b : CopyIn(r, b) => b \in S
  <2>1. /\ r \in Seq(Messages)
        /\ \A k \in 1 .. Len(r) : r[k].hashes \subseteq S
    <3> HIDE DEF S
    <3> QED
      BY <1>4, <1>5, Served DEF S
  <2> HIDE DEF S, r
  <2> QED
    BY <2>1 DEF CopyIn
<1>7. e.node = end[s][i].node /\ end' = [end EXCEPT ![s][i] = e] /\ inbox' = Replied(s, i, r)
  <2>1. end[s][i] \in EndRecords
    BY SyncedFacts
  <2> QED
    BY <1>4, <2>1 DEF RecvWant, EndRecords
<1>8. UNCHANGED <<now, expiry, store>>
  BY DEF RecvWant, stores
<1> HIDE DEF e, r, S
<1>9. CASE end[s][Peer(i)].pc = "failed"
  <2>1. [m \in Nodes |-> Flight(m)]' = [m \in Nodes |-> Flight(m)]
    BY <1>2, <1>6, <1>7, <1>9, SilentReply
  <2> QED
    BY <1>8, <2>1 DEF G!gossip
<1>10. CASE end[s][Peer(i)].pc # "failed"
  <2> DEFINE j == Peer(i)
  <2>1. PICK to \in Nodes : to = end[s][j].node /\ to # from
    <3>1. end[s][i].pc # "closed" /\ end[s][j].pc # "closed" /\ j \in Sides
      BY <1>2, SyncedFacts DEF Stream
    <3>2. Apart(end[s][i], end[s][j]) /\ Apart(end[s][j], end[s][i])
      BY <3>1, Peers DEF Synced, Session
    <3> QED
      BY <1>1, <1>2, <1>10, <3>1, <3>2 DEF Apart
  <2>2. /\ \A t \in Sessions, k \in Sides : end'[t][k].node = end[t][k].node
        /\ \A t \in Sessions, k \in Sides : t # s => inbox'[t][k] = inbox[t][k]
        /\ inbox'[s][i] = Tail(inbox[s][i])
        /\ \A b : CopyIn(inbox'[s][j], b) <=> CopyIn(inbox[s][j], b) \/ CopyIn(r, b)
    BY <1>2, <1>6, <1>7, <1>10, RepliedCopies
  <2>3. \A b : CopyIn(inbox'[s][i], b) <=> CopyIn(inbox[s][i], b)
    BY <1>2, <2>2, SyncedFacts, CopyTail
  <2>4. j \in Sides /\ \A k \in Sides : k = i \/ k = j
    BY Peers
  <2> HIDE DEF j
  <2> DEFINE copies == {b \in Bundles : CopyIn(r, b)}
  <2>5. ASSUME NEW m, NEW b
        PROVE  b \in Flight(m)' <=> b \in Flight(m) \/ (m = to /\ b \in copies)
    <3> DEFINE Before(t, k) == end[t][k].node = m /\ CopyIn(inbox[t][k], b) /\ b \in Bundles
               After(t, k) == end'[t][k].node = m /\ CopyIn(inbox'[t][k], b) /\ b \in Bundles
    <3>1. /\ b \in Flight(m) <=> \E t \in Sessions, k \in Sides : Before(t, k)
          /\ b \in Flight(m)' <=> \E t \in Sessions, k \in Sides : After(t, k)
      BY FlightIs
    <3>2. ASSUME NEW t \in Sessions, NEW k \in Sides
          PROVE  After(t, k) <=> Before(t, k) \/ (t = s /\ k = j /\ m = to /\ b \in copies)
      <4>1. CASE t = s /\ k = j
        BY <2>1, <2>2, <4>1
      <4>2. CASE t = s /\ k = i /\ k # j
        BY <2>2, <2>3, <4>2
      <4>3. CASE t # s
        BY <2>2, <4>3
      <4> QED
        BY <2>4, <4>1, <4>2, <4>3
    <3> HIDE DEF Before, After, copies
    <3> QED
      BY <2>4, <3>1, <3>2
  <2>6. copies \subseteq store[from]
    BY <1>6 DEF S
  <2> HIDE DEF copies
  <2>7. Flight(to)' = Flight(to) \cup copies
    BY <2>5
  <2>8. \A m : m # to => Flight(m)' = Flight(m)
    BY <2>5
  <2>9. [m \in Nodes |-> Flight(m)]' = [[m \in Nodes |-> Flight(m)] EXCEPT ![to] = @ \cup copies]
    BY <2>7, <2>8
  <2>10. G!Offer(from, to, copies)
    BY <1>8, <2>1, <2>6, <2>9 DEF G!Offer
  <2> QED
    BY <2>6, <2>10 DEF G!GossipNext
<1> QED
  BY <1>9, <1>10

LEMMA BundleGossips ==
  ASSUME CapAssumption, Synced, Synced', NEW s \in Sessions, NEW i \in Sides, NEW then \in Readings, RecvBundle(s, i, then)
  PROVE  G!GossipNext
<1>1. /\ Carried(s, i) \in Bundles /\ end[s][i].node \in Nodes /\ inbox[s][i] # <<>>
      /\ inbox[s][i][1].type = "Bundle" /\ inbox[s][i][1].hashes = {Carried(s, i)}
      /\ IF Admits(end[s][i].node, Carried(s, i), end[s][i].budget, then) /\ Carried(s, i) \notin store[end[s][i].node]
         THEN Insert(end[s][i].node, Carried(s, i)) ELSE UNCHANGED stores
      /\ \E e \in EndRecords :
           end' = [end EXCEPT ![s][i] = e] /\ e.node = end[s][i].node
      /\ inbox' = Replied(s, i, <<>>)
      /\ UNCHANGED <<now, expiry>>
  BY RecvBundleIs
<1>2. PICK n \in Nodes : n = end[s][i].node
  BY <1>1
<1>3. PICK b \in Bundles : b = Carried(s, i)
  BY <1>1
<1>4. PICK budget : budget = end[s][i].budget
  OBVIOUS
<1>5. /\ inbox[s][i][1].hashes = {b}
      /\ IF Admits(n, b, budget, then) /\ b \notin store[n] THEN Insert(n, b) ELSE UNCHANGED stores
  BY <1>1, <1>2, <1>3, <1>4
<1>6. PICK e \in EndRecords : end' = [end EXCEPT ![s][i] = e] /\ e.node = end[s][i].node
  BY <1>1
<1>7. <<>> \in Seq(Messages) /\ \A x : ~CopyIn(<<>>, x)
  BY DEF CopyIn
<1>8. /\ \A t \in Sessions, k \in Sides : end'[t][k].node = end[t][k].node
      /\ \A t \in Sessions, k \in Sides : t # s => inbox'[t][k] = inbox[t][k]
      /\ inbox'[s][i] = Tail(inbox[s][i])
      /\ \A x : CopyIn(inbox'[s][Peer(i)], x) <=> CopyIn(inbox[s][Peer(i)], x)
  BY <1>1, <1>6, <1>7, RepliedCopies
<1>9. \A x : CopyIn(inbox[s][i], x) <=> x = b \/ CopyIn(inbox'[s][i], x)
  BY <1>1, <1>5, <1>8, SyncedFacts, CopyTail
<1>10. \A k \in Sides : k = i \/ k = Peer(i)
  BY Peers
<1>11. \A t \in Sessions, k \in Sides : \A x :
         /\ CopyIn(inbox'[t][k], x) => CopyIn(inbox[t][k], x)
         /\ end[t][k].node # n \/ x # b => (CopyIn(inbox[t][k], x) => CopyIn(inbox'[t][k], x))
  BY <1>2, <1>8, <1>9, <1>10
<1>12. ASSUME NEW m, NEW x
       PROVE  /\ x \in Flight(m)' => x \in Flight(m)
              /\ m # n \/ x # b => (x \in Flight(m) => x \in Flight(m)')
  <2>1. ASSUME x \in Flight(m)'
        PROVE  x \in Flight(m)
    <3>1. PICK t \in Sessions, k \in Sides : end'[t][k].node = m /\ CopyIn(inbox'[t][k], x) /\ x \in Bundles
      BY <2>1, FlightIs
    <3> QED
      BY <1>8, <1>11, <3>1, FlightIs
  <2>2. ASSUME m # n \/ x # b, x \in Flight(m)
        PROVE  x \in Flight(m)'
    <3>1. PICK t \in Sessions, k \in Sides : end[t][k].node = m /\ CopyIn(inbox[t][k], x) /\ x \in Bundles
      BY <2>2, FlightIs
    <3> QED
      BY <1>8, <1>11, <2>2, <3>1, FlightIs
  <2> QED
    BY <2>1, <2>2
<1>13. b \in Flight(n)
  BY <1>2, <1>9, FlightIs
<1> DEFINE f == [m \in Nodes |-> Flight(m)]
<1>14. CASE Admits(n, b, budget, then)
  <2>1. (\E x \in G!Readings : expiry[b] > x) /\ (b \in store[n] \/ G!HasRoom(n))
    BY <1>14, SameCount DEF Admits, HasRoom, Readings, G!Readings, G!HasRoom
  <2>2. store' = [store EXCEPT ![n] = @ \cup {b}]
    <3>1. CASE b \notin store[n]
      BY <1>5, <1>14, <3>1 DEF Insert
    <3>2. CASE b \in store[n]
      <4>1. store' = store /\ store \in [Nodes -> Hashes] /\ store[n] \cup {b} = store[n]
        BY <1>5, <3>2 DEF stores, Synced, Typed
      <4> QED
        BY <4>1
    <3> QED
      BY <3>1, <3>2
  <2>3. f' \in {f, [f EXCEPT ![n] = @ \ {b}]}
    <3>1. ASSUME NEW m, m # n
          PROVE  Flight(m)' = Flight(m)
      <4>1. \A x : x \in Flight(m)' <=> x \in Flight(m)
        BY <1>12, <3>1
      <4> QED
        BY <4>1
    <3>2. Flight(n)' = Flight(n) \/ Flight(n)' = Flight(n) \ {b}
      <4>1. \A x : /\ x \in Flight(n)' => x \in Flight(n)
                   /\ x # b => (x \in Flight(n) => x \in Flight(n)')
        BY <1>12
      <4>2. CASE b \in Flight(n)'
        <5>1. \A x : x \in Flight(n)' <=> x \in Flight(n)
          BY <1>13, <4>1, <4>2
        <5> QED
          BY <5>1
      <4>3. CASE b \notin Flight(n)'
        <5>1. \A x : x \in Flight(n)' <=> x \in Flight(n) \ {b}
          BY <4>1, <4>3
        <5> QED
          BY <5>1
      <4> QED
        BY <4>2, <4>3
    <3>3. CASE Flight(n)' = Flight(n)
      BY <3>1, <3>3
    <3>4. CASE Flight(n)' = Flight(n) \ {b}
      BY <3>1, <3>4
    <3> QED
      BY <3>2, <3>3, <3>4
  <2>4. b \in f[n]
    BY <1>13
  <2>5. G!Arrive(n, b)
    BY <1>1, <2>1, <2>2, <2>3, <2>4 DEF G!Arrive, G!Landed
  <2> QED
    BY <2>5 DEF G!GossipNext
<1>15. CASE ~Admits(n, b, budget, then)
  <2>1. PICK lost : LET g == [m \in Nodes |-> Flight(m)] IN
                    lost \subseteq g[n] /\ g' = [g EXCEPT ![n] = @ \ lost]
    <3>1. LET g == [m \in Nodes |-> Flight(m)]  lost == Flight(n) \ Flight(n)' IN
          lost \subseteq g[n] /\ g' = [g EXCEPT ![n] = @ \ lost]
      BY <1>12, FlightShrinks
    <3> QED
      BY <3>1
  <2>2. store' = store
    BY <1>5, <1>15 DEF stores
  <2>3. G!Lost(n, lost)
    BY <1>1, <2>1, <2>2 DEF G!Lost
  <2>4. lost \in SUBSET [m \in Nodes |-> Flight(m)][n]
    BY <2>1
  <2> QED
    BY <2>3, <2>4 DEF G!GossipNext
<1> QED
  BY <1>14, <1>15

LEMMA GossipStep ==
  CapAssumption /\ Synced /\ Synced' /\ [Next]_vars => [G!GossipNext]_(G!gossip)
<1> SUFFICES ASSUME CapAssumption, Synced, Synced', [Next]_vars
             PROVE  [G!GossipNext]_(G!gossip)
  OBVIOUS
<1>1. CASE UNCHANGED vars
  <2>1. [m \in Nodes |-> Flight(m)]' = [m \in Nodes |-> Flight(m)]
    BY <1>1, Untouched DEF vars
  <2> QED
    BY <1>1, <2>1 DEF vars, stores, G!gossip
<1>2. CASE Tick
  <2>1. [m \in Nodes |-> Flight(m)]' = [m \in Nodes |-> Flight(m)]
    BY <1>2, Untouched DEF Tick
  <2>2. G!Tick
    BY <1>2, <2>1 DEF Tick, stores, G!Tick
  <2> QED
    BY <2>2 DEF G!GossipNext
<1>3. CASE \E n \in Nodes :
             \/ \E b \in Bundles, life \in Lifetimes : Admit(n, b, life)
             \/ \E matching \in SUBSET store[n] : TakeForAddresses(n, matching)
             \/ NodeStops(n)
  <2>1. ASSUME NEW n \in Nodes, NodeStops(n)
        PROVE  G!GossipNext
    BY <2>1, StopGossips DEF G!GossipNext
  <2> QED
    BY <1>3, <2>1, StoreGossips
<1>4. CASE \E s \in Sessions : \E link \in Links : Connect(s, link)
  BY <1>4, ConnectGossips
<1>5. ASSUME NEW s \in Sessions, NEW i \in Sides, SyncStep(s, i) \/ LinkLost(s, i)
      PROVE  [G!GossipNext]_(G!gossip)
  BY <1>5, StartGossips, SilentGossips, WantGossips, BundleGossips, FailureGossips DEF SyncStep
<1> QED
  BY <1>1, <1>2, <1>3, <1>4, <1>5 DEF Next

\* Whatever sessions run at once, break or stop half-way, the stores of the
\* devices only change as Gossip says: a store admits what some device composed
\* and sent it, while it has not expired and there is room, and nothing else.
THEOREM Implements == Spec => ImplementsGossip
<1>1. Init => G!GossipInit
  <2> SUFFICES ASSUME Init PROVE G!GossipInit
    OBVIOUS
  <2>1. Synced
    BY InitSynced, CapAssumption
  <2>2. ASSUME NEW n \in Nodes, NEW b, b \in Flight(n)
        PROVE  FALSE
    <3>1. PICK s \in Sessions, i \in Sides : Coming(s, i) # {}
      BY <2>2 DEF Flight
    <3>2. inbox[s][i] = <<>>
      BY DEF Init
    <3> QED
      BY <3>1, <3>2 DEF Coming
  <2>3. \A n \in Nodes : Flight(n) = {}
    BY <2>2
  <2>4. [n \in Nodes |-> Flight(n)] = [n \in Nodes |-> {}]
    BY <2>3
  <2> QED
    BY <2>4 DEF Init, Unborn, G!GossipInit, G!Unborn
<1>2. Synced /\ Synced' /\ [Next]_vars => [G!GossipNext]_(G!gossip)
  BY GossipStep, CapAssumption
<1> QED
  BY <1>1, <1>2, Syncing, PTL DEF Spec, ImplementsGossip, G!GossipSpec

----------------------------------------------------------------------------
(* Bytes *)

\* Bytes folds over a set in the order of CHOOSE.
Some(S) == CHOOSE b \in S : TRUE
But(S) == S \ {Some(S)}
Counts(f, S) == f = [T \in SUBSET S |-> IF T = {} THEN 0 ELSE Size[Some(T)] + f[But(T)]]
Count(S) == CHOOSE f : Counts(f, S)

LEMMA BytesIs == ASSUME NEW S PROVE Bytes(S) = Count(S)[S]
BY DEF Bytes, SumFunctionOnSet, FoldFunctionOnSet, MapThenFoldSet, Count, Counts, Some, But

\* Among finite sets of bundles there is one that contains no other.
LEMMA Smallest ==
  ASSUME NEW C, C \subseteq Hashes, C # {}
  PROVE  \E S \in C : \A T \in C : T \subseteq S => T = S
<1>1. /\ IsWellFoundedOn(StrictSubsetOrdering(Bundles), FiniteSubsetsOf(Bundles))
      /\ C \subseteq FiniteSubsetsOf(Bundles)
  BY FS_StrictSubsetOrderingWellFounded DEF FiniteSubsetsOf, Hashes
<1>2. PICK S \in C : \A T \in C : <<T, S>> \notin StrictSubsetOrdering(Bundles)
  BY <1>1, WFMin
<1>3. ASSUME NEW T \in C, T \subseteq S, T # S
      PROVE  FALSE
  <2>1. <<T, S>> \in StrictSubsetOrdering(Bundles)
    BY <1>3 DEF StrictSubsetOrdering, Hashes
  <2> QED
    BY <1>2, <2>1
<1> QED
  BY <1>3

LEMMA SubHashes ==
  ASSUME NEW S \in Hashes, NEW T, T \subseteq S
  PROVE  T \in Hashes
BY FS_Subset DEF Hashes

LEMMA ButIs ==
  ASSUME NEW S, S # {}
  PROVE  Some(S) \in S /\ But(S) \subseteq S /\ But(S) # S
BY DEF Some, But

\* There is one count of a finite set.
LEMMA CountUnique ==
  ASSUME NEW S \in Hashes, NEW f, NEW g, Counts(f, S), Counts(g, S)
  PROVE  f = g
<1> DEFINE C == {T \in SUBSET S : f[T] # g[T]}
<1>1. /\ f = [T \in SUBSET S |-> f[T]] /\ g = [T \in SUBSET S |-> g[T]]
      /\ \A T \in SUBSET S : /\ f[T] = IF T = {} THEN 0 ELSE Size[Some(T)] + f[But(T)]
                             /\ g[T] = IF T = {} THEN 0 ELSE Size[Some(T)] + g[But(T)]
  BY DEF Counts
<1>2. CASE C # {}
  <2>1. C \subseteq Hashes
    BY SubHashes
  <2>2. PICK T \in C : \A U \in C : U \subseteq T => U = T
    <3> HIDE DEF C
    <3> QED
      BY <1>2, <2>1, Smallest
  <2>3. T # {}
    BY <1>1
  <2>4. But(T) \subseteq T /\ But(T) # T
    BY <2>3, ButIs
  <2>5. But(T) \notin C
    BY <2>2, <2>4
  <2> QED
    BY <1>1, <2>3, <2>4, <2>5
<1>3. CASE C = {}
  <2>1. \A T \in SUBSET S : f[T] = g[T]
    BY <1>3
  <2> HIDE DEF C
  <2> QED
    BY <1>1, <2>1
<1> QED
  BY <1>2, <1>3

LEMMA CountPart ==
  ASSUME NEW S \in Hashes, NEW T \in SUBSET S, NEW f, NEW g, Counts(f, S), Counts(g, T)
  PROVE  f[T] = g[T]
<1> DEFINE h == [U \in SUBSET T |-> f[U]]
<1>1. \A U \in SUBSET S : f[U] = IF U = {} THEN 0 ELSE Size[Some(U)] + f[But(U)]
  BY DEF Counts
<1>2. ASSUME NEW U \in SUBSET T
      PROVE  h[U] = IF U = {} THEN 0 ELSE Size[Some(U)] + h[But(U)]
  <2>1. CASE U = {}
    BY <1>1, <2>1
  <2>2. CASE U # {}
    <3>1. But(U) \in SUBSET T
      BY <2>2, ButIs
    <3>2. U \in SUBSET S
      OBVIOUS
    <3> QED
      BY <1>1, <2>2, <3>1, <3>2
  <2> QED
    BY <2>1, <2>2
<1>3. Counts(h, T)
  <2>1. h = [U \in SUBSET T |-> h[U]]
    OBVIOUS
  <2> HIDE DEF h
  <2> QED
    BY <1>2, <2>1 DEF Counts
<1>4. h = g
  <2> HIDE DEF h
  <2>1. T \in Hashes
    BY SubHashes
  <2> QED
    BY <1>3, <2>1, CountUnique
<1> QED
  BY <1>4

\* Every finite set has a count, if its parts have.
LEMMA CountExtends ==
  ASSUME NEW S \in Hashes, \A T \in SUBSET S : T # S => Counts(Count(T), T)
  PROVE  Counts(Count(S), S)
<1> DEFINE B(T) == Count(T)[T]
           f == [T \in SUBSET S |-> IF T = {} THEN 0 ELSE Size[Some(T)] + B(But(T))]
<1>1. ASSUME NEW T \in SUBSET S, T # {}
      PROVE  B(But(T)) = f[But(T)]
  <2> DEFINE U == But(T)
             V == But(U)
  <2>1. U \in SUBSET S /\ U # S
    BY <1>1, ButIs
  <2>2. Counts(Count(U), U)
    BY <2>1
  <2>3. B(U) = IF U = {} THEN 0 ELSE Size[Some(U)] + Count(U)[V]
    <3> HIDE DEF U
    <3> QED
      BY <2>2 DEF Counts
  <2>4. CASE U = {}
    BY <2>1, <2>3, <2>4
  <2>5. CASE U # {}
    <3>1. V \in SUBSET U /\ U \in Hashes
      BY <2>1, <2>5, ButIs, SubHashes
    <3>2. V \in SUBSET S /\ V # S
      BY <2>1, <3>1
    <3>3. Counts(Count(V), V)
      BY <3>2
    <3>4. Count(U)[V] = B(V)
      <4> HIDE DEF U, V
      <4> QED
        BY <2>2, <3>1, <3>3, CountPart
    <3>5. f[U] = Size[Some(U)] + B(V)
      <4> HIDE DEF B
      <4> QED
        BY <2>1, <2>5
    <3> QED
      BY <2>3, <2>5, <3>4, <3>5
  <2> QED
    BY <2>4, <2>5
<1>2. \A T \in SUBSET S : f[T] = IF T = {} THEN 0 ELSE Size[Some(T)] + f[But(T)]
  <2> SUFFICES ASSUME NEW T \in SUBSET S
               PROVE  f[T] = IF T = {} THEN 0 ELSE Size[Some(T)] + f[But(T)]
    OBVIOUS
  <2>1. f[T] = IF T = {} THEN 0 ELSE Size[Some(T)] + B(But(T))
    <3> HIDE DEF B
    <3> QED
      OBVIOUS
  <2> HIDE DEF f, B
  <2> QED
    BY <1>1, <2>1
<1>3. f = [T \in SUBSET S |-> f[T]]
  <2> HIDE DEF B
  <2> QED
    OBVIOUS
<1> HIDE DEF f
<1>4. Counts(f, S)
  BY <1>2, <1>3 DEF Counts
<1> QED
  BY <1>4 DEF Count

LEMMA CountExists ==
  ASSUME NEW S \in Hashes
  PROVE  Counts(Count(S), S)
<1> DEFINE C == {T \in Hashes : ~Counts(Count(T), T)}
<1>1. CASE C # {}
  <2>1. C \subseteq Hashes
    OBVIOUS
  <2>2. PICK T \in C : \A U \in C : U \subseteq T => U = T
    <3> HIDE DEF C
    <3> QED
      BY <1>1, <2>1, Smallest
  <2>3. \A U \in SUBSET T : U # T => Counts(Count(U), U)
    BY <2>2, SubHashes
  <2> QED
    BY <2>3, CountExtends
<1> QED
  BY <1>1

LEMMA BytesFold ==
  ASSUME NEW S \in Hashes
  PROVE  Bytes(S) = IF S = {} THEN 0 ELSE Size[Some(S)] + Bytes(But(S))
<1>1. Counts(Count(S), S)
  BY CountExists
<1>2. Count(S)[S] = IF S = {} THEN 0 ELSE Size[Some(S)] + Count(S)[But(S)]
  BY <1>1 DEF Counts
<1>3. CASE S # {}
  <2>1. But(S) \in SUBSET S /\ But(S) \in Hashes
    BY <1>3, ButIs, SubHashes
  <2>2. Count(S)[But(S)] = Count(But(S))[But(S)]
    BY <1>1, <2>1, CountExists, CountPart
  <2> QED
    BY <1>2, <1>3, <2>2, BytesIs
<1> QED
  BY <1>2, <1>3, BytesIs

LEMMA BytesType ==
  ASSUME NEW S \in Hashes
  PROVE  Bytes(S) \in Nat
<1> DEFINE C == {T \in Hashes : Bytes(T) \notin Nat}
<1>1. CASE C # {}
  <2>1. C \subseteq Hashes
    OBVIOUS
  <2>2. PICK T \in C : \A U \in C : U \subseteq T => U = T
    <3> HIDE DEF C
    <3> QED
      BY <1>1, <2>1, Smallest
  <2>3. Bytes(T) = IF T = {} THEN 0 ELSE Size[Some(T)] + Bytes(But(T))
    BY BytesFold
  <2>4. CASE T # {}
    <3>1. Some(T) \in Bundles /\ But(T) \in Hashes /\ But(T) \subseteq T /\ But(T) # T
      BY <2>4, ButIs, SubHashes DEF Hashes
    <3>2. Bytes(But(T)) \in Nat /\ Size[Some(T)] \in Nat
      BY <2>2, <3>1, SizeAssumption
    <3> QED
      BY <2>3, <2>4, <3>2
  <2> QED
    BY <2>3, <2>4
<1> QED
  BY <1>1

\* The order does not matter.
LEMMA BytesWithout ==
  ASSUME NEW S \in Hashes, NEW a \in S
  PROVE  Bytes(S) = Size[a] + Bytes(S \ {a})
<1> DEFINE C == {T \in Hashes : \E b \in T : Bytes(T) # Size[b] + Bytes(T \ {b})}
<1>1. CASE C # {}
  <2>1. C \subseteq Hashes
    OBVIOUS
  <2>2. PICK T \in C : \A U \in C : U \subseteq T => U = T
    <3> HIDE DEF C
    <3> QED
      BY <1>1, <2>1, Smallest
  <2>3. PICK b \in T : Bytes(T) # Size[b] + Bytes(T \ {b})
    BY <2>2
  <2> DEFINE x == Some(T)
             U == T \ {x}
             V == T \ {b}
             W == T \ {x, b}
  <2>4. /\ T \in Hashes /\ T # {} /\ x \in T
        /\ But(T) = U /\ U \subseteq T /\ U # T /\ V \subseteq T /\ V # T
    BY <2>2, <2>3, ButIs DEF But
  <2>5. /\ Bytes(T) = Size[x] + Bytes(U)
        /\ U \in Hashes /\ V \in Hashes /\ W \in Hashes /\ x \in Bundles /\ b \in Bundles
    BY <2>3, <2>4, BytesFold, SubHashes DEF Hashes
  <2>6. x # b
    BY <2>3, <2>5
  <2>7. Bytes(U) = Size[b] + Bytes(W)
    <3>1. U \notin C /\ b \in U /\ U \ {b} = W
      BY <2>2, <2>4, <2>6
    <3> QED
      BY <2>5, <3>1
  <2>8. Bytes(V) = Size[x] + Bytes(W)
    <3>1. V \notin C /\ x \in V /\ V \ {x} = W
      BY <2>2, <2>4, <2>6
    <3> QED
      BY <2>5, <3>1
  <2>9. Bytes(W) \in Nat /\ Size[x] \in Nat /\ Size[b] \in Nat
    BY <2>5, BytesType, SizeAssumption
  <2> HIDE DEF U, W, x
  <2> QED
    BY <2>3, <2>5, <2>7, <2>8, <2>9
<1> QED
  BY <1>1

LEMMA BytesEmpty == Bytes({}) = 0
BY BytesFold, FS_EmptySet DEF Hashes

LEMMA BytesAdd ==
  ASSUME NEW S \in Hashes, NEW b \in Bundles, b \notin S
  PROVE  Bytes(S \cup {b}) = Bytes(S) + Size[b]
<1> DEFINE T == S \cup {b}
<1>1. T \in Hashes /\ b \in T /\ T \ {b} = S
  BY FS_AddElement DEF Hashes
<1>2. Bytes(S) \in Nat /\ Size[b] \in Nat
  BY BytesType, SizeAssumption
<1> HIDE DEF T
<1>3. Bytes(T) = Size[b] + Bytes(S)
  BY <1>1, BytesWithout
<1> QED
  BY <1>2, <1>3 DEF T

LEMMA BytesRemove ==
  ASSUME NEW S \in Hashes, NEW gone \in SUBSET S
  PROVE  Bytes(S \ gone) = Bytes(S) - Bytes(gone)
<1> DEFINE C == {T \in Hashes : T \subseteq S /\ Bytes(S \ T) # Bytes(S) - Bytes(T)}
<1>1. CASE C # {}
  <2>1. C \subseteq Hashes
    OBVIOUS
  <2>2. PICK T \in C : \A U \in C : U \subseteq T => U = T
    <3> HIDE DEF C
    <3> QED
      BY <1>1, <2>1, Smallest
  <2>3. CASE T = {}
    <3>1. Bytes(S) \in Nat /\ S \ T = S
      BY <2>3, BytesType
    <3> QED
      BY <2>2, <2>3, <3>1, BytesEmpty
  <2>4. CASE T # {}
    <3>1. PICK b \in T : TRUE
      BY <2>4
    <3> DEFINE U == T \ {b}
    <3>2. /\ U \in Hashes /\ U \subseteq S /\ U # T /\ U \subseteq T /\ T \in Hashes
          /\ b \in Bundles /\ S \ U \in Hashes /\ S \ T \in Hashes /\ b \in S \ U /\ (S \ U) \ {b} = S \ T
      BY <2>2, <3>1, SubHashes DEF Hashes
    <3>3. Bytes(S \ U) = Bytes(S) - Bytes(U)
      BY <2>2, <3>2
    <3>4. Bytes(S \ U) = Size[b] + Bytes(S \ T) /\ Bytes(T) = Size[b] + Bytes(U)
      <4>1. Bytes(T) = Size[b] + Bytes(U)
        BY <3>1, <3>2, BytesWithout
      <4> HIDE DEF U
      <4>2. Bytes(S \ U) = Size[b] + Bytes((S \ U) \ {b})
        BY <3>2, BytesWithout
      <4> QED
        BY <3>2, <4>1, <4>2
    <3>5. /\ Bytes(S) \in Nat /\ Bytes(T) \in Nat /\ Bytes(U) \in Nat /\ Bytes(S \ T) \in Nat
          /\ Size[b] \in Nat
      BY <3>2, BytesType, SizeAssumption
    <3> HIDE DEF U
    <3>6. Bytes(S \ T) # Bytes(S) - Bytes(T)
      BY <2>2
    <3> QED
      BY <3>3, <3>4, <3>5, <3>6
  <2> QED
    BY <2>3, <2>4
<1>2. gone \in Hashes
  BY SubHashes
<1> QED
  BY <1>1, <1>2

----------------------------------------------------------------------------
(* The caps of a store *)

\* What every implementation of Gossip keeps: a store, or a message to it,
\* only holds bundles that were composed.
Composed ==
  /\ now \in Nat /\ expiry \in [Bundles -> Nat \cup {Unborn}]
  /\ \A n \in Nodes :
       /\ Cardinality(store[n]) <= MaxTotal
       /\ \A b \in store[n] \cup Flight(n) : expiry[b] # Unborn

LEMMA HashesCount ==
  ASSUME NEW S \in Hashes
  PROVE  /\ Cardinality(S) \in Nat
         /\ \A b \in Bundles : Cardinality(S \cup {b}) = IF b \in S THEN Cardinality(S) ELSE Cardinality(S) + 1
         /\ \A T \in SUBSET S : Cardinality(T) \in Nat /\ Cardinality(T) <= Cardinality(S)
<1>1. IsFiniteSet(S) /\ Cardinality(S) \in Nat
  BY FS_CardinalityType DEF Hashes
<1>2. \A T \in SUBSET S : Cardinality(T) \in Nat /\ Cardinality(T) <= Cardinality(S)
  BY <1>1, FS_Subset, FS_CardinalityType
<1>3. ASSUME NEW b \in Bundles
      PROVE  Cardinality(S \cup {b}) = IF b \in S THEN Cardinality(S) ELSE Cardinality(S) + 1
  BY <1>1, FS_AddElement
<1> QED
  BY <1>1, <1>2, <1>3

LEMMA ComposedStep == Synced /\ Composed /\ [G!GossipNext]_(G!gossip) => Composed'
<1> SUFFICES ASSUME Synced, Composed, [G!GossipNext]_(G!gossip)
             PROVE  Composed'
  OBVIOUS
<1> DEFINE f == [n \in Nodes |-> Flight(n)]
           g == [n \in Nodes |-> Flight(n)']
<1>1. \A n \in Nodes : f[n] = Flight(n) /\ g[n] = Flight(n)'
  OBVIOUS
<1>2. /\ now \in Nat /\ expiry \in [Bundles -> Nat \cup {-1}] /\ store \in [Nodes -> Hashes]
      /\ \A n \in Nodes : /\ Cardinality(store[n]) <= MaxTotal
                          /\ \A b \in store[n] \cup f[n] : expiry[b] # -1
  BY DEF Synced, Typed, Composed, Unborn
<1>3. f' = g
  OBVIOUS
<1>4. SUFFICES /\ now' \in Nat /\ expiry' \in [Bundles -> Nat \cup {-1}]
               /\ \A n \in Nodes : /\ Cardinality(store'[n]) <= MaxTotal
                                   /\ \A b \in store'[n] \cup g[n] : expiry'[b] # -1
  BY <1>1 DEF Composed, Unborn
<1>5. f = [n \in Nodes |-> f[n]]
  OBVIOUS
<1> HIDE DEF f, g
<1>6. ASSUME UNCHANGED <<now, expiry>>,
             \A n \in Nodes : /\ store'[n] \subseteq store[n]
                             /\ \A b \in g[n] : \E m \in Nodes : b \in store[m] \cup f[m]
      PROVE  /\ now' \in Nat /\ expiry' \in [Bundles -> Nat \cup {-1}]
             /\ \A n \in Nodes : /\ Cardinality(store'[n]) <= MaxTotal
                                 /\ \A b \in store'[n] \cup g[n] : expiry'[b] # -1
  <2>1. \A n \in Nodes : Cardinality(store'[n]) <= MaxTotal
    <3> SUFFICES ASSUME NEW n \in Nodes
                 PROVE  Cardinality(store'[n]) <= MaxTotal
      OBVIOUS
    <3>1. Cardinality(store'[n]) \in Nat /\ Cardinality(store[n]) \in Nat /\ Cardinality(store'[n]) <= Cardinality(store[n])
      BY <1>2, <1>6, HashesCount
    <3> QED
      BY <1>2, <3>1, StoreAssumption
  <2> QED
    BY <1>2, <1>6, <2>1
<1>7. CASE UNCHANGED G!gossip
  <2>1. UNCHANGED <<now, expiry, store>> /\ g = f
    BY <1>3, <1>7 DEF G!gossip, f
  <2> QED
    BY <1>6, <2>1
<1>8. CASE G!Tick
  <2>1. now' = now + 1 /\ UNCHANGED <<expiry, store>> /\ g = f
    BY <1>3, <1>8 DEF G!Tick, f
  <2> QED
    BY <1>2, <2>1
<1>9. ASSUME NEW n \in Nodes, NEW b \in Bundles, NEW life \in Lifetimes, G!Compose(n, b, life)
      PROVE  /\ now' \in Nat /\ expiry' \in [Bundles -> Nat \cup {-1}]
             /\ \A m \in Nodes : /\ Cardinality(store'[m]) <= MaxTotal
                                 /\ \A x \in store'[m] \cup g[m] : expiry'[x] # -1
  <2>1. /\ Cardinality(store[n]) < MaxTotal /\ UNCHANGED now /\ g = f
        /\ \E then \in G!Readings : expiry' = [expiry EXCEPT ![b] = then + life]
        /\ store' = [store EXCEPT ![n] = @ \cup {b}]
    BY <1>3, <1>9, SameCount DEF G!Compose, G!HasRoom, f
  <2>2. PICK stamp \in Nat : expiry' = [expiry EXCEPT ![b] = stamp + life] /\ stamp + life \in Nat
    <3>1. \A then \in G!Readings : then \in Nat /\ then + life \in Nat
      BY <1>2, StoreAssumption DEF G!Readings
    <3> QED
      BY <2>1, <3>1
  <2>3. Cardinality(store'[n]) <= MaxTotal
    <3>1. /\ Cardinality(store[n]) \in Nat
          /\ Cardinality(store[n] \cup {b}) = IF b \in store[n] THEN Cardinality(store[n]) ELSE Cardinality(store[n]) + 1
      BY <1>2, HashesCount
    <3>2. store'[n] = store[n] \cup {b}
      BY <1>2, <2>1
    <3>3. Cardinality(store[n]) < MaxTotal
      BY <2>1
    <3> QED
      BY <3>1, <3>2, <3>3, StoreAssumption
  <2>4. \A m \in Nodes : m # n => store'[m] = store[m]
    BY <1>2, <2>1
  <2>5. \A x \in Bundles : expiry[x] # -1 \/ x = b => expiry'[x] # -1
    BY <1>2, <2>1, <2>2
  <2>6. \A m \in Nodes : store'[m] \subseteq store[m] \cup {b} /\ store[m] \subseteq Bundles /\ f[m] \subseteq Bundles
    <3>1. \A m \in Nodes : Flight(m) \subseteq Bundles
      BY DEF Flight
    <3> QED
      BY <1>1, <1>2, <2>1, <3>1 DEF Hashes
  <2>7. \A m \in Nodes : Cardinality(store'[m]) <= MaxTotal
    BY <1>2, <2>3, <2>4
  <2>8. \A m \in Nodes : \A x \in store'[m] \cup g[m] : expiry'[x] # -1
    BY <1>2, <2>1, <2>5, <2>6
  <2>9. expiry' \in [Bundles -> Nat \cup {-1}]
    BY <1>2, <2>1, <2>2
  <2> QED
    BY <1>2, <2>1, <2>7, <2>8, <2>9
<1>10. ASSUME NEW from \in Nodes, NEW to \in Nodes, NEW copies \in SUBSET store[from], G!Offer(from, to, copies)
       PROVE  /\ now' \in Nat /\ expiry' \in [Bundles -> Nat \cup {-1}]
              /\ \A n \in Nodes : /\ Cardinality(store'[n]) <= MaxTotal
                                  /\ \A b \in store'[n] \cup g[n] : expiry'[b] # -1
  <2>1. UNCHANGED <<now, expiry, store>> /\ g = [f EXCEPT ![to] = @ \cup copies]
    BY <1>3, <1>10 DEF G!Offer, f
  <2>2. \A n \in Nodes : \A b \in g[n] : \E m \in Nodes : b \in store[m] \cup f[m]
    BY <1>5, <2>1
  <2> QED
    BY <1>6, <2>1, <2>2
<1>11. ASSUME NEW n \in Nodes, NEW b \in Bundles, G!Arrive(n, b)
       PROVE  /\ now' \in Nat /\ expiry' \in [Bundles -> Nat \cup {-1}]
              /\ \A m \in Nodes : /\ Cardinality(store'[m]) <= MaxTotal
                                  /\ \A x \in store'[m] \cup g[m] : expiry'[x] # -1
  <2>1. /\ b \in f[n]
        /\ b \in store[n] \/ Cardinality(store[n]) < MaxTotal
        /\ store' = [store EXCEPT ![n] = @ \cup {b}] /\ UNCHANGED <<now, expiry>>
        /\ g \in {f, [f EXCEPT ![n] = @ \ {b}]}
    BY <1>3, <1>11, SameCount DEF G!Arrive, G!HasRoom, G!Landed, f
  <2>2. \A m \in Nodes : g[m] \subseteq f[m]
    BY <1>5, <2>1
  <2>3. Cardinality(store'[n]) <= MaxTotal
    <3>1. /\ Cardinality(store[n]) \in Nat
          /\ Cardinality(store[n] \cup {b}) = IF b \in store[n] THEN Cardinality(store[n]) ELSE Cardinality(store[n]) + 1
      BY <1>2, HashesCount
    <3>2. store'[n] = store[n] \cup {b}
      BY <1>2, <2>1
    <3> QED
      BY <1>2, <2>1, <3>1, <3>2, StoreAssumption
  <2>4. \A m \in Nodes : m # n => store'[m] = store[m]
    BY <1>2, <2>1
  <2>5. \A m \in Nodes : Cardinality(store'[m]) <= MaxTotal
    BY <1>2, <2>3, <2>4
  <2>6. ASSUME NEW m \in Nodes, NEW x \in store'[m] \cup g[m]
        PROVE  expiry'[x] # -1
    <3>1. x \in store[m] \/ x \in f[m] \/ (x = b /\ m = n)
      BY <1>2, <2>1, <2>2, <2>6
    <3>2. expiry[x] # -1
      BY <1>2, <2>1, <3>1
    <3> QED
      BY <2>1, <3>2
  <2> QED
    BY <1>2, <2>1, <2>5, <2>6
<1>12. ASSUME NEW n \in Nodes,
              \/ \E lost \in SUBSET f[n] : G!Lost(n, lost)
              \/ \E gone \in SUBSET store[n] : G!Leave(n, gone)
              \/ G!Crash(n)
       PROVE  /\ now' \in Nat /\ expiry' \in [Bundles -> Nat \cup {-1}]
              /\ \A m \in Nodes : /\ Cardinality(store'[m]) <= MaxTotal
                                  /\ \A b \in store'[m] \cup g[m] : expiry'[b] # -1
  <2>1. CASE \E lost \in SUBSET f[n] : G!Lost(n, lost)
    <3>1. PICK lost : UNCHANGED <<now, expiry, store>> /\ g = [f EXCEPT ![n] = @ \ lost]
      BY <1>3, <2>1 DEF G!Lost, f
    <3>2. \A m \in Nodes : g[m] \subseteq f[m]
      BY <1>5, <3>1
    <3> QED
      BY <1>6, <3>1, <3>2
  <2>2. CASE \E gone \in SUBSET store[n] : G!Leave(n, gone)
    <3>1. PICK gone : UNCHANGED <<now, expiry>> /\ g = f /\ store' = [store EXCEPT ![n] = @ \ gone]
      BY <1>3, <2>2 DEF G!Leave, f
    <3>2. \A m \in Nodes : store'[m] \subseteq store[m]
      BY <1>2, <3>1
    <3> QED
      BY <1>6, <3>1, <3>2
  <2>3. CASE G!Crash(n)
    <3>1. UNCHANGED <<now, expiry>> /\ g = [f EXCEPT ![n] = {}] /\ store' = [store EXCEPT ![n] = {}]
      BY <1>3, <2>3 DEF G!Crash, f
    <3>2. \A m \in Nodes : store'[m] \subseteq store[m] /\ g[m] \subseteq f[m]
      BY <1>2, <1>5, <3>1
    <3> QED
      BY <1>6, <3>1, <3>2
  <2> QED
    BY <1>12, <2>1, <2>2, <2>3
<1> QED
  <2>1. CASE \E n \in Nodes : \E lost \in SUBSET [m \in Nodes |-> Flight(m)][n] : G!Lost(n, lost)
    BY <1>12, <2>1 DEF f
  <2> QED
    BY <1>7, <1>8, <1>9, <1>10, <1>11, <1>12, <2>1 DEF G!GossipNext

\* The inductive invariant of the caps.
Counted ==
  /\ Composed
  /\ total_bytes \in [Nodes -> Nat]
  /\ \A n \in Nodes : total_bytes[n] = Bytes(store[n]) /\ total_bytes[n] <= MaxBytes

LEMMA CountedKept ==
  ASSUME Synced, Counted, NEW n \in Nodes, NEW gone \in SUBSET store[n], Discard(n, gone)
  PROVE  /\ total_bytes' \in [Nodes -> Nat]
         /\ \A m \in Nodes : total_bytes'[m] = Bytes(store'[m]) /\ total_bytes'[m] <= MaxBytes
<1>1. store[n] \in Hashes /\ store[n] \ gone \in Hashes /\ gone \in Hashes
  BY SubHashes DEF Synced, Typed
<1>2. /\ Bytes(store[n] \ gone) = Bytes(store[n]) - Bytes(gone)
      /\ Bytes(store[n] \ gone) \in Nat /\ Bytes(gone) \in Nat
  BY <1>1, BytesRemove, BytesType
<1>3. /\ store'[n] = store[n] \ gone /\ \A m \in Nodes : m # n => store'[m] = store[m]
      /\ total_bytes'[n] = total_bytes[n] - Bytes(gone)
      /\ \A m \in Nodes : m # n => total_bytes'[m] = total_bytes[m]
      /\ total_bytes' = [m \in Nodes |-> total_bytes'[m]]
  BY DEF Discard, Synced, Typed, Counted
<1>4. /\ total_bytes[n] = Bytes(store[n]) /\ total_bytes[n] <= MaxBytes
      /\ total_bytes[n] \in Nat /\ MaxBytes \in Nat
  BY CapAssumption DEF Counted
<1>5. total_bytes'[n] \in Nat /\ total_bytes'[n] = Bytes(store'[n]) /\ total_bytes'[n] <= MaxBytes
  BY <1>2, <1>3, <1>4
<1> QED
  BY <1>3, <1>5 DEF Counted

LEMMA CountedMore ==
  ASSUME Synced, Counted, NEW n \in Nodes, NEW b \in Bundles, b \notin store[n], HasRoom(n, b), Insert(n, b)
  PROVE  /\ total_bytes' \in [Nodes -> Nat]
         /\ \A m \in Nodes : total_bytes'[m] = Bytes(store'[m]) /\ total_bytes'[m] <= MaxBytes
<1>1. store[n] \in Hashes /\ Size[b] \in Nat
  BY SizeAssumption DEF Synced, Typed
<1>2. Bytes(store[n] \cup {b}) = Bytes(store[n]) + Size[b]
  BY <1>1, BytesAdd
<1>3. /\ store'[n] = store[n] \cup {b} /\ \A m \in Nodes : m # n => store'[m] = store[m]
      /\ total_bytes'[n] = total_bytes[n] + Size[b]
      /\ \A m \in Nodes : m # n => total_bytes'[m] = total_bytes[m]
      /\ total_bytes' = [m \in Nodes |-> total_bytes'[m]]
  BY DEF Insert, Synced, Typed, Counted
<1>4. /\ total_bytes[n] = Bytes(store[n]) /\ total_bytes[n] \in Nat
      /\ total_bytes[n] + Size[b] <= MaxBytes
  BY DEF Counted, HasRoom
<1>5. total_bytes'[n] \in Nat /\ total_bytes'[n] = Bytes(store'[n]) /\ total_bytes'[n] <= MaxBytes
  BY <1>1, <1>2, <1>3, <1>4
<1> QED
  BY <1>3, <1>5 DEF Counted

LEMMA CountedStep == CapAssumption /\ Synced /\ Synced' /\ Counted /\ [Next]_vars => Counted'
<1> SUFFICES ASSUME CapAssumption, Synced, Synced', Counted, [Next]_vars
             PROVE  Counted'
  OBVIOUS
<1>1. Composed'
  BY ComposedStep, GossipStep DEF Counted
<1> DEFINE Kept == /\ total_bytes' \in [Nodes -> Nat]
                   /\ \A m \in Nodes : total_bytes'[m] = Bytes(store'[m]) /\ total_bytes'[m] <= MaxBytes
<1>2. ASSUME UNCHANGED stores
      PROVE  Kept
  BY <1>2 DEF stores, Counted
<1>3. ASSUME NEW n \in Nodes, NEW b \in Bundles, NEW life \in Lifetimes, Admit(n, b, life)
      PROVE  Kept
  <2>1. b \notin store[n]
    BY <1>3 DEF Admit, Counted, Composed
  <2> QED
    BY <1>3, <2>1, CountedMore DEF Admit
<1>4. ASSUME NEW n \in Nodes, NEW matching \in SUBSET store[n], TakeForAddresses(n, matching)
      PROVE  Kept
  BY <1>4, CountedKept DEF TakeForAddresses
<1>5. ASSUME NEW n \in Nodes, NodeStops(n)
      PROVE  Kept
  <2>1. store' = [store EXCEPT ![n] = {}] /\ total_bytes' = [total_bytes EXCEPT ![n] = 0]
    BY <1>5 DEF NodeStops
  <2>2. 0 \in Nat /\ 0 <= MaxBytes /\ Bytes({}) = 0
    BY BytesEmpty, CapAssumption
  <2> QED
    BY <2>1, <2>2 DEF Counted, Synced, Typed
<1>6. ASSUME NEW s \in Sessions, NEW i \in Sides, NEW then \in Readings, Start(s, i, then)
      PROVE  Kept
  <2>1. PICK n \in Nodes : n = end[s][i].node
    BY <1>6, RunsOnNode DEF Start, Running
  <2>2. Discard(n, Swept(n, then)) /\ Swept(n, then) \in SUBSET store[n]
    BY <1>6, <2>1 DEF Start, SweepExpired, Swept
  <2> QED
    BY <2>2, CountedKept
<1>7. ASSUME NEW s \in Sessions, NEW i \in Sides, NEW then \in Readings, RecvBundle(s, i, then)
      PROVE  Kept
  <2>1. PICK n \in Nodes, b \in Bundles :
          \/ UNCHANGED stores
          \/ /\ HasRoom(n, b) /\ b \notin store[n]
             /\ Insert(n, b)
    <3>1. /\ Carried(s, i) \in Bundles /\ end[s][i].node \in Nodes
          /\ IF Admits(end[s][i].node, Carried(s, i), end[s][i].budget, then) /\ Carried(s, i) \notin store[end[s][i].node]
             THEN Insert(end[s][i].node, Carried(s, i)) ELSE UNCHANGED stores
      BY <1>7, RecvBundleIs
    <3> QED
      BY <3>1 DEF Admits
  <2>2. CASE /\ HasRoom(n, b) /\ b \notin store[n]
             /\ Insert(n, b)
    BY <2>2, CountedMore
  <2> QED
    BY <1>2, <2>1, <2>2
<1>8. ASSUME NEW s \in Sessions, NEW i \in Sides,
             \/ RecvHave(s, i) \/ RecvWant(s, i) \/ RecvDone(s, i)
             \/ PeerGone(s, i) \/ LinkLost(s, i)
      PROVE  Kept
  BY <1>2, <1>8 DEF RecvHave, RecvWant, RecvDone, PeerGone, LinkLost
<1>9. ASSUME NEW s \in Sessions, NEW link \in Links, Connect(s, link)
      PROVE  Kept
  BY <1>2, <1>9 DEF Connect
<1>10. ASSUME Tick \/ UNCHANGED vars
       PROVE  Kept
  <2>1. UNCHANGED stores
    BY <1>10 DEF Tick, vars, stores
  <2> QED
    BY <1>2, <2>1
<1>11. Kept
  <2>1. ASSUME NEW n \in Nodes,
               \/ \E b \in Bundles, life \in Lifetimes : Admit(n, b, life)
               \/ \E matching \in SUBSET store[n] : TakeForAddresses(n, matching)
               \/ NodeStops(n)
        PROVE  Kept
    <3> HIDE DEF Kept
    <3> QED
      BY <1>3, <1>4, <1>5, <2>1
  <2>2. ASSUME NEW s \in Sessions,
               \/ \E link \in Links : Connect(s, link)
               \/ \E i \in Sides : SyncStep(s, i) \/ LinkLost(s, i)
        PROVE  Kept
    <3> HIDE DEF Kept
    <3> QED
      BY <1>6, <1>7, <1>8, <1>9, <2>2 DEF SyncStep
  <2> HIDE DEF Kept
  <2> QED
    BY <1>10, <2>1, <2>2 DEF Next
<1> QED
  BY <1>1, <1>11 DEF Counted

LEMMA Counting == Spec => []Counted
<1>1. Init => Counted
  <2> SUFFICES ASSUME Init PROVE Counted
    OBVIOUS
  <2>1. Composed
    <3>1. \A n \in Nodes : Flight(n) = {}
      <4>1. \A s \in Sessions, i \in Sides : Coming(s, i) = {}
        BY DEF Init, Coming
      <4> QED
        BY <4>1 DEF Flight
    <3>2. Cardinality({}) = 0 /\ 0 <= MaxTotal
      BY FS_EmptySet, StoreAssumption
    <3> QED
      BY <3>1, <3>2 DEF Init, Composed
  <2>2. 0 \in Nat /\ 0 <= MaxBytes /\ Bytes({}) = 0
    BY BytesEmpty, CapAssumption
  <2> QED
    BY <2>1, <2>2 DEF Init, Counted
<1>2. Synced /\ Synced' /\ Counted /\ [Next]_vars => Counted'
  BY CountedStep, CapAssumption
<1> QED
  BY <1>1, <1>2, Syncing, PTL DEF Spec

\* Neither cap of a store is ever exceeded, by what a device composes or by
\* what any number of sessions push at once, and total_bytes is what is held.
THEOREM CapsHold == Spec => []StoreBounded
<1>1. Counted => StoreBounded
  BY DEF Counted, Composed, StoreBounded
<1> QED
  BY <1>1, Counting, PTL

\* Types of the state and of what is sent.
THEOREM TypeCorrect == Spec => []TypeOK
<1>1. Synced /\ Counted => TypeOK
  <2> SUFFICES ASSUME Synced, Counted PROVE TypeOK
    OBVIOUS
  <2>1. ASSUME NEW s \in Sessions, NEW i \in Sides
        PROVE  /\ end[s][i].pc \in Running \cup {"closed", "done", "failed"}
               /\ end[s][i].budget \in 0 .. MaxPerSession
               /\ \A k \in DOMAIN inbox[s][i] : inbox[s][i][k].hashes \subseteq Bundles
    <3>1. end[s][i] \in EndRecords /\ inbox[s][i] \in Seq(Messages)
      BY SyncedFacts
    <3>2. \A k \in DOMAIN inbox[s][i] : inbox[s][i][k] \in Messages
      BY <3>1, ElementOfSeq, LenProperties
    <3> QED
      BY <3>1, <3>2 DEF EndRecords, Messages, Hashes
  <2>2. store \in [Nodes -> SUBSET Bundles]
    BY DEF Synced, Typed, Hashes
  <2> QED
    BY <2>1, <2>2 DEF Counted, Composed, TypeOK
<1> QED
  BY <1>1, Syncing, Counting, PTL

----------------------------------------------------------------------------
(* A whole sync *)

InBox(q) == {q[k] : k \in 1 .. Len(q)}

\* What SyncComplete excuses, and keeps to be so: b was composed before.
Gone(b) == b \in claimed \/ (expiry[b] # Unborn /\ Expired(b))
There(n, b) == b \in store[n] \/ Gone(b)

Off == {"closed", "failed"}
HasServed(f) == f.pc \in {"bundles", "done"}

\* What was offered to an end, and what it asks for, its peer has until it
\* serves it; from then on it has come, or is coming.
Promise(s, i) ==
  LET e == end[s][i]
      f == end[s][Peer(i)]
      q == InBox(inbox[s][i])
  IN e.pc \notin Off /\ f.pc \notin Off =>
     /\ Cardinality(e.want) <= MaxPerSession
     /\ \A x \in InBox(inbox[s][Peer(i)]) : x.type = "Want" => x.hashes = e.want
     /\ ~HasServed(f) =>
          /\ \A b \in e.want : There(f.node, b)
          /\ \A x \in q : x.type = "Have" => \A b \in x.hashes : There(f.node, b)
     /\ HasServed(f) =>
          \A b \in e.want : b \in e.got \/ Gone(b) \/ \E x \in q : x.type = "Bundle" /\ b \in x.hashes
Promises == \A s \in Sessions, i \in Sides : Promise(s, i)

LEMMA InTail ==
  ASSUME NEW q \in Seq(Messages), q # <<>>
  PROVE  /\ InBox(Tail(q)) \subseteq InBox(q) /\ InBox(q) \subseteq InBox(Tail(q)) \cup {q[1]}
         /\ q[1] \in InBox(q)
<1>1. /\ Len(q) \in Nat \ {0} /\ Len(Tail(q)) = Len(q) - 1
      /\ \A k \in 1 .. Len(Tail(q)) : Tail(q)[k] = q[k + 1]
  BY TailFacts
<1> DEFINE t == Tail(q)
<1> HIDE DEF t
<1>2. ASSUME NEW k \in 1 .. Len(q), k # 1
      PROVE  k - 1 \in 1 .. Len(t) /\ t[k - 1] = q[k]
  <2>1. k - 1 \in 1 .. Len(t) /\ (k - 1) + 1 = k
    BY <1>1, <1>2 DEF t
  <2>2. t[k - 1] = q[(k - 1) + 1]
    BY <1>1, <2>1 DEF t
  <2> QED
    BY <2>1, <2>2
<1>3. ASSUME NEW k \in 1 .. Len(t)
      PROVE  k + 1 \in 1 .. Len(q) /\ t[k] = q[k + 1]
  BY <1>1, <1>3 DEF t
<1>4. InBox(t) \subseteq InBox(q)
  BY <1>3 DEF InBox
<1>5. InBox(q) \subseteq InBox(t) \cup {q[1]}
  BY <1>2 DEF InBox
<1>6. q[1] \in InBox(q)
  BY <1>1 DEF InBox
<1> QED
  BY <1>4, <1>5, <1>6 DEF t

LEMMA InCat ==
  ASSUME NEW q \in Seq(Messages), NEW r \in Seq(Messages)
  PROVE  InBox(q \o r) = InBox(q) \cup InBox(r)
<1> DEFINE p == q \o r
<1>1. /\ Len(q) \in Nat /\ Len(r) \in Nat /\ Len(p) = Len(q) + Len(r)
      /\ \A k \in 1 .. Len(q) : p[k] = q[k]
      /\ \A k \in 1 .. Len(r) : p[Len(q) + k] = r[k]
  BY CatFacts
<1> HIDE DEF p
<1>2. ASSUME NEW k \in 1 .. Len(p), k \notin 1 .. Len(q)
      PROVE  p[k] \in InBox(r)
  <2>1. k - Len(q) \in 1 .. Len(r) /\ Len(q) + (k - Len(q)) = k
    BY <1>1, <1>2
  <2>2. p[Len(q) + (k - Len(q))] = r[k - Len(q)]
    BY <1>1, <2>1
  <2> QED
    BY <2>1, <2>2 DEF InBox
<1>3. InBox(p) \subseteq InBox(q) \cup InBox(r)
  <2>1. \A k \in 1 .. Len(q) : p[k] \in InBox(q)
    BY <1>1 DEF InBox
  <2> QED
    BY <1>2, <2>1 DEF InBox
<1>4. InBox(q) \subseteq InBox(p)
  <2>1. \A k \in 1 .. Len(q) : k \in 1 .. Len(p) /\ p[k] = q[k]
    BY <1>1
  <2> QED
    BY <2>1 DEF InBox
<1>5. InBox(r) \subseteq InBox(p)
  <2>1. \A k \in 1 .. Len(r) : Len(q) + k \in 1 .. Len(p) /\ p[Len(q) + k] = r[k]
    BY <1>1
  <2> QED
    BY <2>1 DEF InBox
<1> QED
  BY <1>3, <1>4, <1>5 DEF p

LEMMA InMessages ==
  ASSUME NEW q \in Seq(Messages)
  PROVE  InBox(q) \subseteq Messages
BY DEF InBox

LEMMA HashesFacts ==
  ASSUME Synced, NEW s \in Sessions, NEW i \in Sides
  PROVE  /\ end[s][i].want \in Hashes /\ end[s][i].want \subseteq Bundles
         /\ \A x \in InBox(inbox[s][i]) : x.hashes \subseteq Bundles
<1>1. end[s][i] \in EndRecords /\ inbox[s][i] \in Seq(Messages)
  BY SyncedFacts
<1>2. end[s][i].want \in Hashes
  BY <1>1 DEF EndRecords
<1>3. InBox(inbox[s][i]) \subseteq Messages
  BY <1>1, InMessages
<1> QED
  BY <1>2, <1>3 DEF Messages, Hashes

\* As many as a session may ask for are never cut.
LEMMA NotTruncated ==
  ASSUME CapAssumption, NEW h \in Hashes, Cardinality(h) <= MaxPerSession, NEW W \in Truncated(h)
  PROVE  W = h
<1>1. W \subseteq h /\ IsFiniteSet(h) /\ Cardinality(W) = Min({MaxPerSession, Cardinality(h)})
  BY DEF Truncated, Hashes
<1> DEFINE c == Cardinality(h)
<1>2. c \in Nat
  BY <1>1, FS_CardinalityType
<1> HIDE DEF c
<1>3. Min({MaxPerSession, c}) = c
  <2>1. c <= MaxPerSession
    BY DEF c
  <2>2. c \in {MaxPerSession, c} /\ \A y \in {MaxPerSession, c} : c <= y
    BY <1>2, <2>1, CapAssumption
  <2>3. \A x \in {MaxPerSession, c} : (\A y \in {MaxPerSession, c} : x <= y) => x = c
    BY <1>2, <2>1, CapAssumption
  <2> QED
    BY <2>2, <2>3 DEF Min
<1>4. Cardinality(W) = Cardinality(h)
  BY <1>1, <1>3 DEF c
<1> QED
  BY <1>1, <1>4, FS_Subset

\* Every bundle that is to be served is.
LEMMA ServesAll ==
  ASSUME CapAssumption, NEW S \in Hashes, Cardinality(S) \in 0 .. MaxPerSession, NEW bundles \in SetToSeqs(S),
         NEW b \in S
  PROVE  \E x \in InBox(Append(Serve(bundles), Done)) : x.type = "Bundle" /\ b \in x.hashes
<1> DEFINE s == Serve(bundles)
           n == Cardinality(S)
<1>1. n \in Nat /\ IsFiniteSet(S)
  BY CapAssumption DEF Hashes
<1>2. n = Cardinality(S)
  OBVIOUS
<1> HIDE DEF n
<1>3. bundles \in [1 .. n -> S] /\ \A k, l \in 1 .. n : k # l => bundles[k] # bundles[l]
  BY <1>2 DEF SetToSeqs
<1>4. bundles \in Injection(1 .. n, S)
  BY <1>3 DEF Injection, IsInjective
<1>5. Cardinality(1 .. n) = n
  BY <1>1, FS_Interval
<1>6. bundles \in Surjection(1 .. n, S)
  BY <1>1, <1>2, <1>4, <1>5, FS_Injection
<1>7. PICK k \in 1 .. n : bundles[k] = b
  BY <1>6 DEF Surjection
<1>8. s = [l \in 1 .. n |-> Bundle(bundles[l])]
  BY <1>3 DEF Serve
<1>9. s \in Seq({Bundle(x) : x \in S}) /\ Len(s) = n /\ s[k] = Bundle(b)
  BY <1>1, <1>3, <1>7, <1>8
<1> HIDE DEF s
<1> DEFINE r == Append(s, Done)
<1>10. k \in 1 .. Len(r) /\ r[k] = Bundle(b)
  BY <1>1, <1>9
<1> HIDE DEF r
<1>11. Bundle(b).type = "Bundle" /\ b \in Bundle(b).hashes /\ Bundle(b) \in InBox(r)
  BY <1>10 DEF Bundle, InBox
<1> QED
  BY <1>11 DEF r, s

\* A bundle leaves a store for a reason, or with its device.
LEMMA Stays ==
  ASSUME Synced, Composed, [Next]_vars
  PROVE  /\ \A b \in Bundles : Gone(b) => Gone(b)'
         /\ \A n \in Nodes : NodeStops(n) \/ \A b \in Bundles : There(n, b) => There(n, b)'
<1>1. now \in Nat /\ expiry \in [Bundles -> Nat \cup {Unborn}] /\ store \in [Nodes -> Hashes]
      /\ \A n \in Nodes : \A b \in store[n] : b \in Bundles /\ expiry[b] # Unborn
  BY DEF Composed, Synced, Typed, Hashes
<1> DEFINE Aged == \A b \in Bundles : Gone(b) => Gone(b)'
           Stay == \A n \in Nodes, b \in Bundles : There(n, b) => There(n, b)'
<1>2. ASSUME now' \in Nat, now' >= now, expiry' = expiry, claimed \subseteq claimed'
      PROVE  Aged
  BY <1>1, <1>2 DEF Gone, Expired, Unborn
<1>3. ASSUME Aged, \A n \in Nodes : store[n] \subseteq store'[n]
      PROVE  Stay
  BY <1>3 DEF There
<1>4. ASSUME NEW n \in Nodes, NEW b \in Bundles, NEW life \in Lifetimes, Admit(n, b, life)
      PROVE  Aged /\ Stay
  <2>1. /\ expiry[b] = Unborn /\ now' = now
        /\ \E then \in Readings : expiry' = [expiry EXCEPT ![b] = then + life]
        /\ claimed' = claimed /\ store' = [store EXCEPT ![n] = @ \cup {b}]
    BY <1>4 DEF Admit, Insert
  <2>2. \A c \in Bundles : c # b => expiry'[c] = expiry[c]
    BY <1>1, <2>1
  <2>3. Aged
    BY <2>1, <2>2 DEF Gone, Expired
  <2>4. \A m \in Nodes : store[m] \subseteq store'[m]
    BY <1>1, <2>1
  <2> HIDE DEF Aged
  <2> QED
    BY <1>3, <2>3, <2>4
<1>5. ASSUME NEW n \in Nodes, NEW matching \in SUBSET store[n], TakeForAddresses(n, matching)
      PROVE  Aged /\ Stay
  <2>1. /\ UNCHANGED <<now, expiry>> /\ claimed' = claimed \cup matching
        /\ store' = [store EXCEPT ![n] = @ \ matching]
    BY <1>5 DEF TakeForAddresses, Discard
  <2>2. Aged
    BY <1>1, <1>2, <2>1
  <2>3. \A m \in Nodes, b \in Bundles : b \in store[m] => b \in store'[m] \/ b \in claimed'
    BY <1>1, <2>1
  <2>4. Stay
    BY <2>2, <2>3 DEF There, Gone
  <2> QED
    BY <2>2, <2>4
<1>6. ASSUME NEW s \in Sessions, NEW i \in Sides, NEW then \in Readings, Start(s, i, then)
      PROVE  Aged /\ Stay
  <2>1. PICK n \in Nodes : n = end[s][i].node
    BY <1>6, RunsOnNode DEF Start, Running
  <2>2. /\ UNCHANGED <<now, expiry, claimed>>
        /\ store' = [store EXCEPT ![n] = @ \ {b \in store[n] : expiry[b] <= then}]
    BY <1>6, <2>1 DEF Start, SweepExpired, Discard, Swept
  <2>3. Aged
    BY <1>1, <1>2, <2>2
  <2>4. \A m \in Nodes, b \in Bundles : b \in store[m] => b \in store'[m] \/ (expiry[b] # Unborn /\ Expired(b))
    <3>1. then <= now
      BY <1>1 DEF Readings
    <3> QED
      <4>1. \A b \in store[n] : expiry[b] <= then => expiry[b] # Unborn /\ Expired(b)
        BY <1>1, <3>1 DEF Expired, Readings
      <4> QED
        BY <1>1, <2>2, <4>1
  <2>5. Stay
    BY <2>2, <2>3, <2>4 DEF There, Gone, Expired
  <2> QED
    BY <2>3, <2>5
<1>7. ASSUME NEW s \in Sessions, NEW i \in Sides, NEW then \in Readings, RecvBundle(s, i, then)
      PROVE  Aged /\ Stay
  <2>1. \E n \in Nodes, b \in Bundles : Insert(n, b) \/ UNCHANGED stores
    <3>1. /\ Carried(s, i) \in Bundles /\ end[s][i].node \in Nodes
          /\ IF Admits(end[s][i].node, Carried(s, i), end[s][i].budget, then) /\ Carried(s, i) \notin store[end[s][i].node]
             THEN Insert(end[s][i].node, Carried(s, i)) ELSE UNCHANGED stores
      BY <1>7, RecvBundleIs, CapAssumption
    <3> QED
      BY <3>1
  <2>2. \A m \in Nodes : store[m] \subseteq store'[m]
    BY <1>1, <2>1 DEF Insert, stores
  <2>3. Aged
    BY <1>1, <1>2, <1>7 DEF RecvBundle
  <2> HIDE DEF Aged
  <2> QED
    BY <1>3, <2>2, <2>3
<1>8. ASSUME UNCHANGED stores, UNCHANGED <<now, expiry, claimed>>
      PROVE  Aged /\ Stay
  <2>1. Aged
    BY <1>1, <1>2, <1>8
  <2> HIDE DEF Aged
  <2> QED
    BY <1>3, <1>8, <2>1 DEF stores
<1>9. ASSUME Tick
      PROVE  Aged /\ Stay
  <2>1. Aged
    BY <1>1, <1>2, <1>9 DEF Tick
  <2> HIDE DEF Aged
  <2> QED
    BY <1>3, <1>9, <2>1 DEF Tick, stores
<1>10. ASSUME NEW n \in Nodes, NodeStops(n)
       PROVE  Aged /\ \A m \in Nodes : NodeStops(m) \/ \A b \in Bundles : There(m, b) => There(m, b)'
  <2>1. UNCHANGED <<now, expiry, claimed>> /\ store' = [store EXCEPT ![n] = {}]
    BY <1>10 DEF NodeStops
  <2>2. Aged
    BY <1>1, <1>2, <2>1
  <2>3. \A m \in Nodes : m # n => store'[m] = store[m]
    BY <1>1, <2>1
  <2>4. \A m \in Nodes : m # n => \A b \in Bundles : There(m, b) => There(m, b)'
    BY <2>2, <2>3 DEF There
  <2> QED
    BY <1>10, <2>2, <2>4
<1>11. ASSUME NEW s \in Sessions, NEW i \in Sides,
              \/ RecvHave(s, i) \/ RecvWant(s, i) \/ RecvDone(s, i)
              \/ PeerGone(s, i) \/ LinkLost(s, i)
       PROVE  Aged /\ Stay
  <2>1. UNCHANGED stores /\ UNCHANGED <<now, expiry, claimed>>
    BY <1>11 DEF RecvHave, RecvWant, RecvDone, PeerGone, LinkLost
  <2> QED
    BY <1>8, <2>1
<1>12. ASSUME NEW s \in Sessions, NEW link \in Links, Connect(s, link)
       PROVE  Aged /\ Stay
  <2>1. UNCHANGED stores /\ UNCHANGED <<now, expiry, claimed>>
    BY <1>12 DEF Connect
  <2> QED
    BY <1>8, <2>1
<1>13. ASSUME UNCHANGED vars
       PROVE  Aged /\ Stay
  <2>1. UNCHANGED stores /\ UNCHANGED <<now, expiry, claimed>>
    BY <1>13 DEF vars, stores
  <2> QED
    BY <1>8, <2>1
<1> DEFINE Result == Aged /\ \A m \in Nodes : NodeStops(m) \/ \A b \in Bundles : There(m, b) => There(m, b)'
<1>14. Aged /\ Stay => Result
  OBVIOUS
<1>15. (\E n \in Nodes : NodeStops(n)) => Result
  BY <1>10
<1> HIDE DEF Aged, Stay, Result
<1>16. Result
  BY <1>4, <1>5, <1>6, <1>7, <1>9, <1>11, <1>12, <1>13, <1>14, <1>15 DEF Next, SyncStep
<1> QED
  BY <1>16 DEF Result, Aged

\* What Stays gives the step of a session.
Kind(s, i) ==
  /\ \A b \in Bundles : Gone(b) => Gone(b)'
  /\ LET f == end[s][Peer(i)] IN
     f.pc \notin Off /\ ~HasServed(f) => \A b \in Bundles : There(f.node, b) => There(f.node, b)'

\* An end receives, or nothing happens to it: it asks for what it asked for.
LEMMA AskerMoves ==
  ASSUME Synced, NEW s \in Sessions, NEW i \in Sides, Promise(s, i), Kind(s, i),
         end'[s][Peer(i)] = end[s][Peer(i)], end[s][i].pc \notin Off,
         end'[s][i].want = end[s][i].want, end[s][i].got \subseteq end'[s][i].got,
         InBox(inbox'[s][i]) \subseteq InBox(inbox[s][i]),
         \A x \in InBox(inbox[s][i]) :
           x \in InBox(inbox'[s][i]) \/ (x.type = "Bundle" => x.hashes \subseteq end'[s][i].got),
         end[s][Peer(i)].pc # "failed" =>
           \A x \in InBox(inbox'[s][Peer(i)]) : x \in InBox(inbox[s][Peer(i)]) \/ x.type # "Want"
  PROVE  Promise(s, i)'
<1> DEFINE e == end[s][i]
           d == end'[s][i]
           f == end[s][Peer(i)]
           q == InBox(inbox[s][i])
           r == InBox(inbox'[s][i])
           p == InBox(inbox[s][Peer(i)])
           o == InBox(inbox'[s][Peer(i)])
<1>1. e.want \subseteq Bundles /\ \A x \in q : x.hashes \subseteq Bundles
  BY HashesFacts
<1>2. /\ d.want = e.want /\ e.got \subseteq d.got /\ e.pc \notin Off
      /\ r \subseteq q /\ \A x \in q : x \in r \/ (x.type = "Bundle" => x.hashes \subseteq d.got)
      /\ f.pc # "failed" => \A x \in o : x \in p \/ x.type # "Want"
      /\ \A b \in Bundles : Gone(b) => Gone(b)'
      /\ f.pc \notin Off /\ ~HasServed(f) => \A b \in Bundles : There(f.node, b) => There(f.node, b)'
  BY DEF Kind
<1>3. e.pc \notin Off /\ f.pc \notin Off =>
        /\ Cardinality(e.want) <= MaxPerSession
        /\ \A x \in p : x.type = "Want" => x.hashes = e.want
        /\ ~HasServed(f) =>
             /\ \A b \in e.want : There(f.node, b)
             /\ \A x \in q : x.type = "Have" => \A b \in x.hashes : There(f.node, b)
        /\ HasServed(f) =>
             \A b \in e.want : b \in e.got \/ Gone(b) \/ \E x \in q : x.type = "Bundle" /\ b \in x.hashes
  BY DEF Promise
<1> DEFINE Claim == d.pc \notin Off /\ f.pc \notin Off =>
        /\ Cardinality(d.want) <= MaxPerSession
        /\ \A x \in o : x.type = "Want" => x.hashes = d.want
        /\ ~HasServed(f) =>
             /\ \A b \in d.want : There(f.node, b)'
             /\ \A x \in r : x.type = "Have" => \A b \in x.hashes : There(f.node, b)'
        /\ HasServed(f) =>
             \A b \in d.want : b \in d.got \/ Gone(b)' \/ \E x \in r : x.type = "Bundle" /\ b \in x.hashes
<1>4. Claim => Promise(s, i)'
  BY DEF Promise, There, HasServed
<1> HIDE DEF e, d, f, q, r, p, o
<1>5. Claim
  <2> SUFFICES ASSUME d.pc \notin Off, f.pc \notin Off
               PROVE  /\ Cardinality(d.want) <= MaxPerSession
                      /\ \A x \in o : x.type = "Want" => x.hashes = d.want
                      /\ ~HasServed(f) =>
                           /\ \A b \in d.want : There(f.node, b)'
                           /\ \A x \in r : x.type = "Have" => \A b \in x.hashes : There(f.node, b)'
                      /\ HasServed(f) =>
                           \A b \in d.want : b \in d.got \/ Gone(b)' \/ \E x \in r : x.type = "Bundle" /\ b \in x.hashes
    OBVIOUS
  <2>1. Cardinality(d.want) <= MaxPerSession
    BY <1>2, <1>3
  <2>2. \A x \in o : x.type = "Want" => x.hashes = d.want
    BY <1>2, <1>3 DEF Off
  <2>3. ASSUME ~HasServed(f)
        PROVE  /\ \A b \in d.want : There(f.node, b)'
               /\ \A x \in r : x.type = "Have" => \A b \in x.hashes : There(f.node, b)'
    BY <1>1, <1>2, <1>3, <2>3
  <2>4. ASSUME HasServed(f), NEW b \in d.want
        PROVE  b \in d.got \/ Gone(b)' \/ \E x \in r : x.type = "Bundle" /\ b \in x.hashes
    BY <1>1, <1>2, <1>3, <2>4
  <2> QED
    BY <2>1, <2>2, <2>3, <2>4
<1> QED
  BY <1>4, <1>5

\* Its peer receives, before or after it has served.
LEMMA ServerMoves ==
  ASSUME Synced, NEW s \in Sessions, NEW i \in Sides, Promise(s, i), Kind(s, i),
         end'[s][i] = end[s][i], end[s][Peer(i)].pc \notin Off,
         end'[s][Peer(i)].node = end[s][Peer(i)].node,
         HasServed(end'[s][Peer(i)]) <=> HasServed(end[s][Peer(i)]),
         InBox(inbox'[s][Peer(i)]) \subseteq InBox(inbox[s][Peer(i)]),
         end[s][i].pc # "failed" => InBox(inbox[s][i]) \subseteq InBox(inbox'[s][i]),
         end[s][i].pc # "failed" =>
           \A x \in InBox(inbox'[s][i]) :
             \/ x \in InBox(inbox[s][i])
             \/ x.type = "Have" => \A b \in x.hashes : There(end[s][Peer(i)].node, b)'
  PROVE  Promise(s, i)'
<1> DEFINE e == end[s][i]
           f == end[s][Peer(i)]
           g == end'[s][Peer(i)]
           q == InBox(inbox[s][i])
           r == InBox(inbox'[s][i])
           p == InBox(inbox[s][Peer(i)])
           o == InBox(inbox'[s][Peer(i)])
<1>1. e.want \subseteq Bundles /\ \A x \in q : x.hashes \subseteq Bundles
  BY HashesFacts
<1>2. /\ f.pc \notin Off /\ g.node = f.node /\ (HasServed(g) <=> HasServed(f)) /\ o \subseteq p
      /\ e.pc # "failed" => q \subseteq r
      /\ e.pc # "failed" => \A x \in r : x \in q \/ (x.type = "Have" => \A b \in x.hashes : There(f.node, b)')
      /\ \A b \in Bundles : Gone(b) => Gone(b)'
      /\ ~HasServed(f) => \A b \in Bundles : There(f.node, b) => There(f.node, b)'
  BY DEF Kind
<1>3. e.pc \notin Off =>
        /\ Cardinality(e.want) <= MaxPerSession
        /\ \A x \in p : x.type = "Want" => x.hashes = e.want
        /\ ~HasServed(f) =>
             /\ \A b \in e.want : There(f.node, b)
             /\ \A x \in q : x.type = "Have" => \A b \in x.hashes : There(f.node, b)
        /\ HasServed(f) =>
             \A b \in e.want : b \in e.got \/ Gone(b) \/ \E x \in q : x.type = "Bundle" /\ b \in x.hashes
  BY DEF Promise
<1> DEFINE Claim == e.pc \notin Off =>
        /\ Cardinality(e.want) <= MaxPerSession
        /\ \A x \in o : x.type = "Want" => x.hashes = e.want
        /\ ~HasServed(g) =>
             /\ \A b \in e.want : There(f.node, b)'
             /\ \A x \in r : x.type = "Have" => \A b \in x.hashes : There(f.node, b)'
        /\ HasServed(g) =>
             \A b \in e.want : b \in e.got \/ Gone(b)' \/ \E x \in r : x.type = "Bundle" /\ b \in x.hashes
<1>4. Claim => Promise(s, i)'
  BY <1>2 DEF Promise, There, HasServed
<1> HIDE DEF e, f, g, q, r, p, o
<1>5. Claim
  <2> SUFFICES ASSUME e.pc \notin Off
               PROVE  /\ Cardinality(e.want) <= MaxPerSession
                      /\ \A x \in o : x.type = "Want" => x.hashes = e.want
                      /\ ~HasServed(g) =>
                           /\ \A b \in e.want : There(f.node, b)'
                           /\ \A x \in r : x.type = "Have" => \A b \in x.hashes : There(f.node, b)'
                      /\ HasServed(g) =>
                           \A b \in e.want : b \in e.got \/ Gone(b)' \/ \E x \in r : x.type = "Bundle" /\ b \in x.hashes
    OBVIOUS
  <2>0. e.pc # "failed"
    BY DEF Off
  <2>1. Cardinality(e.want) <= MaxPerSession
    BY <1>3
  <2>2. \A x \in o : x.type = "Want" => x.hashes = e.want
    BY <1>2, <1>3
  <2>3. ASSUME ~HasServed(g)
        PROVE  /\ \A b \in e.want : There(f.node, b)'
               /\ \A x \in r : x.type = "Have" => \A b \in x.hashes : There(f.node, b)'
    BY <1>1, <1>2, <1>3, <2>0, <2>3
  <2>4. ASSUME HasServed(g), NEW b \in e.want
        PROVE  b \in e.got \/ Gone(b)' \/ \E x \in r : x.type = "Bundle" /\ b \in x.hashes
    BY <1>1, <1>2, <1>3, <2>0, <2>4
  <2> QED
    BY <2>1, <2>2, <2>3, <2>4
<1> QED
  BY <1>4, <1>5

\* An end becomes e, after it has consumed a message and posted r, or has only
\* posted r.
Move(s, i, e, r) ==
  /\ end' = [end EXCEPT ![s][i] = e]
  /\ \/ inbox[s][i] # <<>> /\ inbox' = Replied(s, i, r)
     \/ inbox' = [inbox EXCEPT ![s] = Post(s, i, r)]

\* Where the messages are then.
Moved(s, i, e, r) ==
  LET j == Peer(i) IN
  /\ end'[s][i] = e /\ end'[s][j] = end[s][j]
  /\ InBox(inbox'[s][i]) \subseteq InBox(inbox[s][i])
  /\ InBox(inbox[s][i]) \subseteq InBox(inbox'[s][i]) \cup {inbox[s][i][1]}
  /\ end[s][j].pc # "failed" => InBox(inbox'[s][j]) = InBox(inbox[s][j]) \cup InBox(r)
  /\ \A t \in Sessions : t # s => end'[t] = end[t] /\ inbox'[t] = inbox[t]

LEMMA RepliedInBox ==
  ASSUME Synced, NEW s \in Sessions, NEW i \in Sides, NEW e, NEW r \in Seq(Messages),
         Move(s, i, e, r)
  PROVE  Moved(s, i, e, r)
<1> DEFINE j == Peer(i)
<1>1. j \in Sides /\ j # i /\ inbox[s][i] \in Seq(Messages) /\ inbox[s][j] \in Seq(Messages)
  BY SyncedFacts
<1>2. end'[s][i] = e /\ end'[s][j] = end[s][j] /\ \A t \in Sessions : t # s => end'[t] = end[t]
  BY <1>1 DEF Synced, Typed, Move
<1>3. ASSUME NEW qs, inbox' = [inbox EXCEPT ![s] = qs]
      PROVE  inbox'[s] = qs /\ \A t \in Sessions : t # s => inbox'[t] = inbox[t]
  BY <1>3 DEF Synced, Typed
<1>4. InBox(inbox[s][j] \o r) = InBox(inbox[s][j]) \cup InBox(r)
  BY <1>1, InCat
<1>5. ASSUME inbox' = [inbox EXCEPT ![s] = Post(s, i, r)]
      PROVE  /\ inbox'[s][i] = inbox[s][i]
             /\ end[s][j].pc # "failed" => inbox'[s][j] = inbox[s][j] \o r
             /\ \A t \in Sessions : t # s => inbox'[t] = inbox[t]
  <2> DEFINE p == Post(s, i, r)
  <2>1. p[i] = inbox[s][i] /\ p[j] = IF end[s][j].pc = "failed" THEN inbox[s][j] ELSE inbox[s][j] \o r
    BY PostFacts DEF Synced
  <2>2. inbox' = [inbox EXCEPT ![s] = p]
    BY <1>5
  <2> HIDE DEF p
  <2>3. inbox'[s] = p /\ \A t \in Sessions : t # s => inbox'[t] = inbox[t]
    BY <1>3, <2>2
  <2> QED
    BY <2>1, <2>3
<1>6. ASSUME inbox[s][i] # <<>>, inbox' = Replied(s, i, r)
      PROVE  /\ inbox'[s][i] = Tail(inbox[s][i])
             /\ end[s][j].pc # "failed" => inbox'[s][j] = inbox[s][j] \o r
             /\ \A t \in Sessions : t # s => inbox'[t] = inbox[t]
  <2> DEFINE qs == [Post(s, i, r) EXCEPT ![i] = Tail(@)]
  <2>1. qs[i] = Tail(inbox[s][i]) /\ qs[j] = IF end[s][j].pc = "failed" THEN inbox[s][j] ELSE inbox[s][j] \o r
    BY <1>6, RepliedFacts DEF Synced
  <2>2. inbox' = [inbox EXCEPT ![s] = qs]
    BY <1>6 DEF Replied
  <2> HIDE DEF qs
  <2>3. inbox'[s] = qs /\ \A t \in Sessions : t # s => inbox'[t] = inbox[t]
    BY <1>3, <2>2
  <2> QED
    BY <2>1, <2>3
<1> HIDE DEF j
<1>7. ASSUME inbox' = [inbox EXCEPT ![s] = Post(s, i, r)]
      PROVE  /\ InBox(inbox'[s][i]) = InBox(inbox[s][i])
             /\ end[s][j].pc # "failed" => InBox(inbox'[s][j]) = InBox(inbox[s][j]) \cup InBox(r)
             /\ \A t \in Sessions : t # s => inbox'[t] = inbox[t]
  BY <1>4, <1>5, <1>7
<1>8. ASSUME inbox[s][i] # <<>>, inbox' = Replied(s, i, r)
      PROVE  /\ InBox(inbox'[s][i]) \subseteq InBox(inbox[s][i])
             /\ InBox(inbox[s][i]) \subseteq InBox(inbox'[s][i]) \cup {inbox[s][i][1]}
             /\ end[s][j].pc # "failed" => InBox(inbox'[s][j]) = InBox(inbox[s][j]) \cup InBox(r)
             /\ \A t \in Sessions : t # s => inbox'[t] = inbox[t]
  BY <1>1, <1>4, <1>6, <1>8, InTail
<1> QED
  BY <1>2, <1>5, <1>7, <1>8 DEF j, Move, Moved

LEMMA Vacuous ==
  ASSUME NEW s \in Sessions, NEW i \in Sides, end'[s][i].pc \in Off \/ end'[s][Peer(i)].pc \in Off
  PROVE  Promise(s, i)'
BY DEF Promise

LEMMA Keeps ==
  ASSUME Synced, Composed, [Next]_vars, NEW s \in Sessions, NEW i \in Sides,
         end'[s][Peer(i)].pc # "failed", end'[s][Peer(i)].node = end[s][Peer(i)].node
  PROVE  Kind(s, i)
<1> DEFINE f == end[s][Peer(i)]
<1>1. \A b \in Bundles : Gone(b) => Gone(b)'
  BY Stays
<1>2. ASSUME f.pc \notin Off, ~HasServed(f), NEW b \in Bundles, There(f.node, b)
      PROVE  There(f.node, b)'
  <2>1. Peer(i) \in Sides /\ f.pc \in Running
    BY <1>2, SyncedFacts DEF Off, HasServed, Pcs, Running, Waiting
  <2>2. PICK n \in Nodes : n = f.node
    BY <2>1, RunsOnNode
  <2>3. ~NodeStops(n)
    <3>1. ASSUME NodeStops(n)
          PROVE  end'[s][Peer(i)].pc = "failed"
      <4> DEFINE ends == {x \in Sessions \X Sides : end[x[1]][x[2]].node = n /\ end[x[1]][x[2]].pc \in Running}
      <4>1. Fail(ends)
        BY <3>1 DEF NodeStops
      <4>2. <<s, Peer(i)>> \in ends
        BY <2>1, <2>2
      <4> HIDE DEF ends
      <4>3. end'[s][Peer(i)] = [NoEnd EXCEPT !.pc = "failed"]
        BY <2>1, <4>1, <4>2 DEF Fail
      <4> QED
        BY <4>3 DEF NoEnd
    <3> QED
      BY <3>1
  <2>4. There(n, b) => There(n, b)'
    BY <2>3, Stays
  <2>5. f.node' = n
    BY <2>2
  <2> QED
    BY <1>2, <2>2, <2>4, <2>5 DEF There
<1> QED
  BY <1>1, <1>2 DEF Kind

\* Nothing happens to either end.
LEMMA Idle ==
  ASSUME Synced, Composed, [Next]_vars, NEW s \in Sessions, NEW i \in Sides, Promise(s, i),
         end'[s][i] = end[s][i], end'[s][Peer(i)] = end[s][Peer(i)],
         inbox'[s][i] = inbox[s][i], inbox'[s][Peer(i)] = inbox[s][Peer(i)]
  PROVE  Promise(s, i)'
<1>1. CASE end[s][i].pc \in Off \/ end[s][Peer(i)].pc \in Off
  BY <1>1, Vacuous
<1>2. CASE end[s][i].pc \notin Off /\ end[s][Peer(i)].pc \notin Off
  <2>1. Kind(s, i)
    BY <1>2, Keeps DEF Off
  <2> QED
    BY <1>2, <2>1, AskerMoves
<1> QED
  BY <1>1, <1>2

\* An end takes a step: what this means for what it is promised, and for what
\* it promised its peer.
LEMMA AskerStep ==
  ASSUME Synced, Composed, [Next]_vars, NEW s \in Sessions, NEW i \in Sides, Promise(s, i),
         NEW e, NEW r \in Seq(Messages), Move(s, i, e, r),
         end[s][i].pc \in Running, e.want = end[s][i].want, end[s][i].got \subseteq e.got,
         inbox[s][i] # <<>> /\ inbox[s][i][1].type = "Bundle" => inbox[s][i][1].hashes \subseteq e.got,
         \A x \in InBox(r) : x.type # "Want"
  PROVE  Promise(s, i)'
<1> DEFINE j == Peer(i)
<1>0. Moved(s, i, e, r)
  BY RepliedInBox
<1>1. /\ end'[s][i] = e /\ end'[s][j] = end[s][j]
      /\ InBox(inbox'[s][i]) \subseteq InBox(inbox[s][i])
      /\ InBox(inbox[s][i]) \subseteq InBox(inbox'[s][i]) \cup {inbox[s][i][1]}
      /\ end[s][j].pc # "failed" => InBox(inbox'[s][j]) = InBox(inbox[s][j]) \cup InBox(r)
  BY <1>0 DEF Moved
<1>2. end[s][i].pc \notin Off
  BY DEF Off, Running, Waiting
<1> HIDE DEF j
<1>3. \A x \in InBox(inbox[s][i]) : x \in InBox(inbox'[s][i]) \/ (x.type = "Bundle" => x.hashes \subseteq e.got)
  <2>1. InBox(<<>>) = {}
    BY DEF InBox
  <2> QED
    BY <1>1, <2>1
<1>4. end[s][j].pc # "failed" => \A x \in InBox(inbox'[s][j]) : x \in InBox(inbox[s][j]) \/ x.type # "Want"
  BY <1>1
<1>5. CASE end[s][j].pc \in Off
  BY <1>1, <1>5, Vacuous DEF j
<1>6. CASE end[s][j].pc \notin Off
  <2>1. Kind(s, i)
    BY <1>1, <1>6, Keeps DEF Off, j
  <2> QED
    BY <1>1, <1>2, <1>3, <1>4, <2>1, AskerMoves DEF j
<1> QED
  BY <1>5, <1>6

LEMMA ServerStep ==
  ASSUME Synced, Composed, [Next]_vars, NEW s \in Sessions, NEW i \in Sides, Promise(s, Peer(i)),
         NEW e, NEW r \in Seq(Messages), Move(s, i, e, r),
         end[s][i].pc \in Running, e.pc # "failed", e.node = end[s][i].node,
         HasServed(e) <=> HasServed(end[s][i]),
         \A n \in Nodes : n = e.node =>
           \A x \in InBox(r) : x.type = "Have" => \A b \in x.hashes : There(n, b)'
  PROVE  Promise(s, Peer(i))'
<1> DEFINE j == Peer(i)
<1>0. Moved(s, i, e, r)
  BY RepliedInBox
<1>1. /\ end'[s][i] = e /\ end'[s][j] = end[s][j]
      /\ InBox(inbox'[s][i]) \subseteq InBox(inbox[s][i])
      /\ end[s][j].pc # "failed" => InBox(inbox'[s][j]) = InBox(inbox[s][j]) \cup InBox(r)
  BY <1>0 DEF Moved
<1>2. end[s][i].pc \notin Off /\ j \in Sides /\ Peer(j) = i
  BY Peers DEF Off, Running, Waiting
<1>3. Promise(s, j)
  OBVIOUS
<1>4. PICK n \in Nodes : n = end[s][i].node
  BY RunsOnNode
<1> HIDE DEF j
<1>5. Kind(s, j)
  BY <1>1, <1>2, Keeps
<1>6. ASSUME NEW x \in InBox(r), x.type = "Have", NEW b \in x.hashes
      PROVE  There(end[s][i].node, b)'
  <2>1. There(n, b)'
    BY <1>4, <1>6
  <2>2. end'[s][i].node = n
    BY <1>1, <1>4
  <2> QED
    BY <2>1, <2>2 DEF There
<1>7. end[s][j].pc # "failed" =>
        \A x \in InBox(inbox'[s][j]) :
          x \in InBox(inbox[s][j]) \/ (x.type = "Have" => \A b \in x.hashes : There(end[s][i].node, b)')
  BY <1>1, <1>6
<1>8. Promise(s, j)'
  BY <1>1, <1>2, <1>3, <1>5, <1>7, ServerMoves
<1> QED
  BY <1>8 DEF j

LEMMA Aside ==
  ASSUME Synced, Composed, [Next]_vars, Promises, NEW s \in Sessions, NEW i \in Sides,
         NEW e, NEW r \in Seq(Messages), Move(s, i, e, r),
         Promise(s, i)', Promise(s, Peer(i))'
  PROVE  Promises'
<1>0. Moved(s, i, e, r)
  BY RepliedInBox
<1>1. \A t \in Sessions : t # s => end'[t] = end[t] /\ inbox'[t] = inbox[t]
  BY <1>0 DEF Moved
<1>2. ASSUME NEW t \in Sessions, NEW k \in Sides
      PROVE  Promise(t, k)'
  <2>1. CASE t # s
    <3>1. Promise(t, k) /\ Peer(k) \in Sides
      BY Peers DEF Promises
    <3> QED
      BY <1>1, <2>1, <3>1, Idle
  <2>2. CASE t = s
    <3>1. k = i \/ k = Peer(i)
      BY Peers
    <3> QED
      BY <2>2, <3>1
  <2> QED
    BY <2>1, <2>2
<1> QED
  BY <1>2 DEF Promises

LEMMA InBoxOne == \A m : InBox(<<m>>) = {m}
BY DEF InBox

LEMMA InBoxNone == InBox(<<>>) = {} /\ <<>> \in Seq(Messages)
BY EmptySeq DEF InBox

LEMMA StartPromises ==
  ASSUME CapAssumption, Synced, Composed, [Next]_vars, Promises, NEW s \in Sessions, NEW i \in Sides, NEW then \in Readings, Start(s, i, then)
  PROVE  Promises'
<1>1. end[s][i].pc = "start" /\ end[s][i].node \in Nodes /\ end[s][i].pc \in Running
  BY RunsOnNode DEF Start, Running
<1>2. PICK n \in Nodes : n = end[s][i].node
  BY <1>1
<1>3. PICK h : h = store'[n]
  OBVIOUS
<1>4. h \in Hashes
  BY <1>2, <1>3, StoreSteps DEF Start, SweepExpired, Synced, Typed
<1>5. PICK e : e = [end[s][i] EXCEPT !.pc = "have", !.have = h]
  OBVIOUS
<1>6. PICK r : r = <<Have(h)>>
  OBVIOUS
<1>7. /\ end' = [end EXCEPT ![s][i] = e] /\ inbox' = [inbox EXCEPT ![s] = Post(s, i, r)]
  BY <1>2, <1>3, <1>5, <1>6 DEF Start
<1>8. r \in Seq(Messages) /\ InBox(r) = {Have(h)}
  BY <1>4, <1>6, OneMessage, InBoxOne DEF Have
<1>9. e.pc = "have" /\ e.node = n /\ e.want = end[s][i].want /\ e.got = end[s][i].got
  BY <1>2, <1>5, SyncedFacts DEF EndRecords
<1>10. Move(s, i, e, r)
  BY <1>7 DEF Move
<1>11. Promise(s, i) /\ Promise(s, Peer(i)) /\ Peer(i) \in Sides
  BY Peers DEF Promises
<1>12. Promise(s, i)'
  <2>1. \A x \in InBox(r) : x.type # "Want"
    BY <1>8 DEF Have
  <2>2. inbox[s][i] # <<>> => inbox[s][i][1].type # "Bundle"
    <3> DEFINE q == inbox[s][i]
    <3>1. q \in Seq(Messages) /\ Stream(end[s][i], q, end[s][Peer(i)].pc)
      BY SyncedFacts
    <3> HIDE DEF q
    <3> SUFFICES ASSUME q # <<>> PROVE q[1].type # "Bundle"
      BY DEF q
    <3>2. Len(q) \in Nat \ {0}
      BY <3>1, TailFacts
    <3>3. q[1].type = Scripted(0, 1, Len(q))
      BY <1>1, <3>1, <3>2 DEF Stream, Consumed
    <3> QED
      BY <3>3 DEF Scripted
  <2> QED
    BY <1>1, <1>8, <1>9, <1>10, <1>11, <2>1, <2>2, AskerStep
<1>13. Promise(s, Peer(i))'
  <2>1. \A m \in Nodes : m = e.node =>
          \A x \in InBox(r) : x.type = "Have" => \A b \in x.hashes : There(m, b)'
    <3>1. \A b \in h : There(n, b)'
      BY <1>3 DEF There
    <3>2. \A x \in InBox(r) : x.hashes = h
      BY <1>8 DEF Have
    <3> QED
      BY <1>9, <3>1, <3>2
  <2>2. HasServed(e) <=> HasServed(end[s][i])
    BY <1>1, <1>9 DEF HasServed
  <2> QED
    BY <1>1, <1>2, <1>8, <1>9, <1>10, <1>11, <2>1, <2>2, ServerStep
<1> QED
  BY <1>8, <1>10, <1>12, <1>13, Aside

\* A message is consumed and nothing is said.
LEMMA SilentPromises ==
  ASSUME Synced, Composed, [Next]_vars, Promises, NEW s \in Sessions, NEW i \in Sides,
         NEW e, end' = [end EXCEPT ![s][i] = e], inbox' = Replied(s, i, <<>>), inbox[s][i] # <<>>,
         end[s][i].pc = "bundles", HasServed(e), e.node = end[s][i].node,
         e.want = end[s][i].want, end[s][i].got \subseteq e.got,
         inbox[s][i][1].type = "Bundle" => inbox[s][i][1].hashes \subseteq e.got
  PROVE  Promises'
<1>1. Move(s, i, e, <<>>)
  BY DEF Move
<1>2. Promise(s, i) /\ Promise(s, Peer(i)) /\ Peer(i) \in Sides
  BY Peers DEF Promises
<1>3. PICK r : r = <<>> /\ r \in Seq(Messages) /\ InBox(r) = {}
  BY InBoxNone
<1>4. Move(s, i, e, r) /\ end[s][i].pc \in Running
  BY <1>1, <1>3 DEF Running, Waiting
<1>5. \A x \in InBox(r) : x.type # "Want"
  BY <1>3
<1>6. \A n \in Nodes : n = e.node =>
        \A x \in InBox(r) : x.type = "Have" => \A b \in x.hashes : There(n, b)'
  BY <1>3
<1>7. (HasServed(e) <=> HasServed(end[s][i])) /\ e.pc # "failed"
  BY DEF HasServed
<1>8. Promise(s, i)'
  BY <1>2, <1>3, <1>4, <1>5, AskerStep
<1>9. Promise(s, Peer(i))'
  BY <1>2, <1>3, <1>4, <1>6, <1>7, ServerStep
<1> QED
  BY <1>3, <1>4, <1>8, <1>9, Aside

LEMMA BundlePromises ==
  ASSUME CapAssumption, Synced, Composed, [Next]_vars, Promises, NEW s \in Sessions, NEW i \in Sides, NEW then \in Readings, RecvBundle(s, i, then)
  PROVE  Promises'
<1> DEFINE b == Carried(s, i)
<1>1. /\ end[s][i].pc = "bundles" /\ inbox[s][i] # <<>>
      /\ inbox[s][i][1].hashes = {b} /\ inbox' = Replied(s, i, <<>>)
  BY RecvBundleIs
<1>2. PICK e \in EndRecords :
        /\ end' = [end EXCEPT ![s][i] = e] /\ e.pc = "bundles" /\ e.node = end[s][i].node
        /\ e.want = end[s][i].want /\ e.got = end[s][i].got \cup {b}
  <2>1. \E e \in EndRecords :
          /\ end' = [end EXCEPT ![s][i] = e] /\ e.pc = "bundles" /\ e.node = end[s][i].node
          /\ e.want = end[s][i].want /\ e.got = end[s][i].got \cup {Carried(s, i)}
    <3>1. LET n == end[s][i].node  budget == end[s][i].budget IN
          \E e \in EndRecords :
            /\ end' = [end EXCEPT ![s][i] = e] /\ e.pc = "bundles" /\ e.node = n
            /\ e.budget \in {budget, IF budget = 0 THEN 0 ELSE budget - 1}
            /\ e.want = end[s][i].want /\ e.got = end[s][i].got \cup {Carried(s, i)}
      BY RecvBundleIs, Zenon
    <3> QED
      BY <3>1
  <2> QED
    BY <2>1
<1>3. HasServed(e) /\ end[s][i].got \subseteq e.got /\ inbox[s][i][1].hashes \subseteq e.got
  BY <1>1, <1>2 DEF HasServed
<1> HIDE DEF b
<1> QED
  BY <1>1, <1>2, <1>3, SilentPromises

LEMMA DonePromises ==
  ASSUME Synced, Composed, [Next]_vars, Promises, NEW s \in Sessions, NEW i \in Sides, RecvDone(s, i)
  PROVE  Promises'
<1>1. Receives(s, i, "bundles", "Done")
  BY DEF RecvDone
<1>2. end[s][i].pc = "bundles" /\ inbox[s][i] # <<>> /\ inbox[s][i][1].type = "Done" /\ end[s][i] \in EndRecords
  BY <1>1, Received, SyncedFacts
<1>3. PICK e : e = [end[s][i] EXCEPT !.pc = "done", !.budget = 0]
  OBVIOUS
<1>4. end' = [end EXCEPT ![s][i] = e] /\ inbox' = Replied(s, i, <<>>)
  BY <1>3 DEF RecvDone
<1>5. HasServed(e) /\ e.node = end[s][i].node /\ e.want = end[s][i].want /\ e.got = end[s][i].got
  BY <1>2, <1>3 DEF EndRecords, HasServed
<1> QED
  BY <1>2, <1>4, <1>5, SilentPromises

\* What an end asks for was offered, and asked for by no earlier message.
LEMMA AskPromises ==
  ASSUME CapAssumption, Synced, Composed, [Next]_vars, Promises, NEW s \in Sessions, NEW i \in Sides, RecvHave(s, i)
  PROVE  Promises'
<1> DEFINE j == Peer(i)
           q == inbox[s][i]
<1>1. /\ end[s][i].pc = "have" /\ q # <<>> /\ q \in Seq(Messages)
      /\ Head(q) = q[1] /\ q[1].type = "Have" /\ q[1].hashes \in Hashes
  <2>1. Receives(s, i, "have", "Have")
    BY DEF RecvHave
  <2> QED
    BY <2>1, Received
<1>2. q[1] \in InBox(q)
  BY <1>1, InTail
<1> DEFINE h == q[1].hashes \ end[s][i].have
<1>3. h \in Hashes
  BY <1>1, FS_Difference DEF Hashes
<1>4. PICK W \in Truncated(h) :
        /\ end' = [end EXCEPT ![s][i] = [@ EXCEPT !.pc = "want", !.have = {}, !.want = W]]
        /\ inbox' = Replied(s, i, <<Want(W)>>)
  BY <1>1 DEF RecvHave
<1>5. W \in Hashes /\ W \subseteq h /\ Cardinality(W) <= MaxPerSession
  <2> HIDE DEF h
  <2>1. W \in Hashes /\ W \subseteq h /\ Cardinality(W) \in 0 .. MaxPerSession
    BY <1>3, TruncatedIs
  <2> QED
    BY <2>1, CapAssumption
<1>6. W \subseteq q[1].hashes /\ W \subseteq Bundles
  BY <1>5 DEF Hashes
<1> HIDE DEF h
<1>7. PICK e : e = [end[s][i] EXCEPT !.pc = "want", !.have = {}, !.want = W]
  OBVIOUS
<1>8. PICK r : r = <<Want(W)>>
  OBVIOUS
<1>9. r \in Seq(Messages) /\ InBox(r) = {Want(W)}
  BY <1>5, <1>8, OneMessage, InBoxOne DEF Want
<1>10. e.pc = "want" /\ e.node = end[s][i].node /\ e.want = W
  BY <1>7, SyncedFacts DEF EndRecords
<1>11. Move(s, i, e, r)
  BY <1>1, <1>4, <1>7, <1>8 DEF Move
<1>12. Promise(s, i) /\ Promise(s, j) /\ j \in Sides
  BY Peers DEF Promises
<1>13. end[s][i].pc \in Running
  BY <1>1 DEF Running, Waiting
<1>14. Promise(s, j)'
  <2>1. \A n \in Nodes : n = e.node =>
          \A x \in InBox(r) : x.type = "Have" => \A b \in x.hashes : There(n, b)'
    BY <1>9 DEF Want
  <2>2. (HasServed(e) <=> HasServed(end[s][i])) /\ e.pc # "failed"
    BY <1>1, <1>10 DEF HasServed
  <2> QED
    BY <1>9, <1>10, <1>11, <1>12, <1>13, <2>1, <2>2, ServerStep
<1>15. Promise(s, i)'
  <2> DEFINE f == end[s][j]
  <2>1. /\ end'[s][i] = e /\ end'[s][j] = f
        /\ InBox(inbox'[s][i]) \subseteq InBox(q)
        /\ f.pc # "failed" => InBox(inbox'[s][j]) = InBox(inbox[s][j]) \cup InBox(r)
    <3>1. Moved(s, i, e, r)
      BY <1>9, <1>11, RepliedInBox
    <3> QED
      BY <3>1 DEF Moved
  <2>2. CASE f.pc \in Off
    BY <2>1, <2>2, Vacuous
  <2>3. CASE f.pc \notin Off
    <3>1. /\ f \in EndRecords /\ inbox[s][j] \in Seq(Messages)
          /\ Stream(f, inbox[s][j], "have") /\ Stream(end[s][i], q, f.pc)
      BY <1>1, SyncedFacts
    <3>2. f.pc \in Running
      BY <1>1, <2>3, <3>1 DEF Stream, EndRecords, Off
    <3> DEFINE c == Consumed(f.pc)
               len == Len(inbox[s][j])
    <3>3. c + len = 1 /\ c \in Nat /\ len \in Nat /\ (f.pc = "bundles" => c = 2)
      <4>1. c + len = 1
        BY <3>1, <3>2 DEF Stream, Sent
      <4>2. c \in Nat /\ (f.pc = "bundles" => c = 2)
        BY DEF Consumed
      <4>3. len \in Nat
        BY <3>1
      <4> QED
        BY <4>1, <4>2, <4>3
    <3>4. ~HasServed(f)
      <4>1. f.pc # "bundles"
        <5>1. c # 2
          <6> HIDE DEF c, len
          <6> QED
            BY <3>3
        <5> QED
          BY <3>3, <5>1
      <4> QED
        BY <3>2, <4>1 DEF HasServed, Running, Waiting
    <3>5. \A x \in InBox(inbox[s][j]) : x.type # "Want"
      <4> SUFFICES ASSUME NEW k \in 1 .. Len(inbox[s][j])
                   PROVE  inbox[s][j][k].type # "Want"
        BY DEF InBox
      <4>1. k \in 1 .. len
        OBVIOUS
      <4>2. len = 1 /\ k = 1 /\ c = 0
        <5> HIDE DEF c, len
        <5> QED
          BY <3>3, <4>1
      <4>3. inbox[s][j][k].type = Scripted(0, 1, 1)
        BY <3>1, <3>2, <4>2 DEF Stream
      <4> QED
        BY <4>3 DEF Scripted
    <3>6. \A x \in InBox(inbox'[s][j]) : x.type = "Want" => x.hashes = W
      BY <1>9, <2>1, <2>3, <3>5 DEF Want, Off
    <3>7. \A x \in InBox(q) : x.type = "Have" => x.hashes \subseteq Bundles /\ \A b \in x.hashes : There(f.node, b)
      <4>1. end[s][i].pc \notin Off
        BY <1>1 DEF Off
      <4>2. \A x \in InBox(q) : x.type = "Have" => \A b \in x.hashes : There(f.node, b)
        BY <1>12, <2>3, <3>4, <4>1 DEF Promise
      <4> QED
        BY <4>2, HashesFacts
    <3>8. \A b \in Bundles : There(f.node, b) => There(f.node, b)'
      <4>1. Kind(s, i)
        BY <2>1, <2>3, Keeps DEF Off
      <4> QED
        BY <2>3, <3>4, <4>1 DEF Kind
    <3>9. \A b \in W : There(f.node, b)'
      BY <1>1, <1>2, <1>6, <3>7, <3>8
    <3>10. \A x \in InBox(inbox'[s][i]) : x.type = "Have" => \A b \in x.hashes : There(f.node, b)'
      BY <2>1, <3>7, <3>8
    <3>11. /\ \A b \in e.want : There(f.node, b)'
           /\ \A x \in InBox(inbox'[s][i]) : x.type = "Have" => \A b \in x.hashes : There(f.node, b)'
           /\ Cardinality(e.want) <= MaxPerSession
           /\ \A x \in InBox(inbox'[s][j]) : x.type = "Want" => x.hashes = e.want
           /\ ~HasServed(end'[s][j])
      BY <1>5, <1>10, <2>1, <3>4, <3>6, <3>9, <3>10
    <3> QED
      BY <2>1, <3>11 DEF Promise, There, HasServed
  <2> QED
    BY <2>2, <2>3
<1> QED
  BY <1>9, <1>11, <1>14, <1>15, Aside

\* Everything an end has asked for is served at once: it was there.
LEMMA ServePromises ==
  ASSUME CapAssumption, Synced, Composed, [Next]_vars, Promises, NEW s \in Sessions, NEW i \in Sides, RecvWant(s, i)
  PROVE  Promises'
<1> DEFINE j == Peer(i)
           q == inbox[s][i]
<1>1. /\ end[s][i].pc = "want" /\ q # <<>> /\ q \in Seq(Messages)
      /\ Head(q) = q[1] /\ q[1].type = "Want" /\ q[1].hashes \in Hashes
  <2>1. Receives(s, i, "want", "Want")
    BY DEF RecvWant
  <2> QED
    BY <2>1, Received
<1>2. end[s][i].pc \in Running /\ end[s][i].pc \notin Off /\ end[s][i].node \in Nodes
  BY <1>1, RunsOnNode DEF Running, Waiting, Off
<1>3. PICK W \in Truncated(q[1].hashes) :
        \E bundles \in SetToSeqs(W \cap store[end[s][i].node]) :
          inbox' = Replied(s, i, Append(Serve(bundles), Done))
  BY <1>1 DEF RecvWant
<1>4. PICK S : S = W \cap store[end[s][i].node]
  OBVIOUS
<1>5. PICK bundles \in SetToSeqs(S) : inbox' = Replied(s, i, Append(Serve(bundles), Done))
  BY <1>3, <1>4
<1>6. S \in Hashes /\ Cardinality(S) \in 0 .. MaxPerSession
  <2>1. W \in Hashes /\ Cardinality(W) \in 0 .. MaxPerSession
    BY <1>1, TruncatedIs
  <2>2. S \subseteq W /\ IsFiniteSet(W) /\ W \subseteq Bundles
    BY <1>4, <2>1 DEF Hashes
  <2>3. IsFiniteSet(S) /\ Cardinality(S) <= Cardinality(W)
    BY <2>2, FS_Subset
  <2>4. Cardinality(S) \in Nat
    BY <2>3, FS_CardinalityType
  <2> QED
    BY <2>1, <2>2, <2>3, <2>4, CapAssumption DEF Hashes
<1>7. PICK r : r = Append(Serve(bundles), Done)
  OBVIOUS
<1>8. /\ r \in Seq(Messages) /\ \A x \in InBox(r) : x.type \notin {"Have", "Want"}
      /\ \A b \in S : \E x \in InBox(r) : x.type = "Bundle" /\ b \in x.hashes
  <2>1. r \in Seq(Messages) /\ \A k \in 1 .. Len(r) : r[k].type = IF k = Len(r) THEN "Done" ELSE "Bundle"
    BY <1>5, <1>6, <1>7, Served
  <2>2. ASSUME NEW b \in S
        PROVE  \E x \in InBox(r) : x.type = "Bundle" /\ b \in x.hashes
    BY <1>5, <1>6, <1>7, ServesAll
  <2>3. \A x \in InBox(r) : x.type \notin {"Have", "Want"}
    BY <2>1 DEF InBox
  <2> QED
    BY <2>1, <2>2, <2>3
<1>9. PICK e : e = [end[s][i] EXCEPT !.pc = "bundles", !.budget = MaxPerSession]
  OBVIOUS
<1>10. /\ e.pc = "bundles" /\ e.node = end[s][i].node
       /\ e.want = end[s][i].want /\ e.got = end[s][i].got
  BY <1>9, SyncedFacts DEF EndRecords
<1>11. Move(s, i, e, r)
  BY <1>1, <1>5, <1>7, <1>9 DEF Move, RecvWant
<1>12. Promise(s, i) /\ Promise(s, j) /\ j \in Sides /\ Peer(j) = i
  BY Peers DEF Promises
<1>13. Promise(s, i)'
  <2>1. (\A x \in InBox(r) : x.type # "Want") /\ (q # <<>> /\ q[1].type = "Bundle" => q[1].hashes \subseteq e.got)
    BY <1>1, <1>8
  <2> QED
    BY <1>2, <1>8, <1>10, <1>11, <1>12, <2>1, AskerStep
<1>14. Promise(s, j)'
  <2> DEFINE a == end[s][j]
             n == end[s][i].node
  <2>1. /\ end'[s][i] = e /\ end'[s][j] = a
        /\ InBox(inbox'[s][i]) \subseteq InBox(q)
        /\ a.pc # "failed" => InBox(inbox'[s][j]) = InBox(inbox[s][j]) \cup InBox(r)
    <3>1. Moved(s, i, e, r)
      BY <1>8, <1>11, RepliedInBox
    <3> QED
      BY <3>1 DEF Moved
  <2>2. CASE a.pc \in Off
    BY <1>12, <2>1, <2>2, Vacuous
  <2>3. CASE a.pc \notin Off
    <3>1. ~HasServed(end[s][i])
      BY <1>1 DEF HasServed
    <3>2. /\ Cardinality(a.want) <= MaxPerSession
          /\ \A x \in InBox(q) : x.type = "Want" => x.hashes = a.want
          /\ \A b \in a.want : There(n, b)
      BY <1>2, <1>12, <2>3, <3>1 DEF Promise
    <3>3. a.want \in Hashes /\ a.want \subseteq Bundles
      BY <1>12, HashesFacts
    <3>4. q[1].hashes = a.want
      <4>1. q[1] \in InBox(q)
        BY <1>1, InTail
      <4> QED
        BY <1>1, <3>2, <4>1
    <3> DEFINE w == a.want
    <3>5. W = w
      <4>1. w \in Hashes /\ Cardinality(w) <= MaxPerSession /\ W \in Truncated(w)
        BY <3>2, <3>3, <3>4
      <4> HIDE DEF w
      <4> QED
        BY <4>1, NotTruncated
    <3>6. ASSUME NEW b \in w
          PROVE  b \in a.got \/ Gone(b)' \/ \E x \in InBox(inbox'[s][j]) : x.type = "Bundle" /\ b \in x.hashes
      <4>1. CASE b \in store[n]
        <5>1. b \in S
          BY <1>4, <3>5, <3>6, <4>1
        <5>2. PICK x \in InBox(r) : x.type = "Bundle" /\ b \in x.hashes
          BY <1>8, <5>1
        <5>3. x \in InBox(inbox'[s][j])
          BY <2>1, <2>3 DEF Off
        <5> QED
          BY <5>2, <5>3
      <4>2. CASE b \notin store[n]
        <5>1. Gone(b) /\ b \in Bundles
          BY <3>2, <3>3, <3>6, <4>2 DEF There
        <5> QED
          BY <5>1, Stays
      <4> QED
        BY <4>1, <4>2
    <3>7. /\ \A x \in InBox(inbox'[s][i]) : x.type = "Want" => x.hashes = a.want
          /\ HasServed(e)
      BY <1>10, <2>1, <3>2 DEF HasServed
    <3>8. \A b \in a.want :
            b \in a.got \/ Gone(b)' \/ \E x \in InBox(inbox'[s][j]) : x.type = "Bundle" /\ b \in x.hashes
      BY <3>6
    <3> QED
      BY <1>12, <2>1, <3>2, <3>7, <3>8 DEF Promise, HasServed
  <2> QED
    BY <2>2, <2>3
<1> QED
  BY <1>8, <1>11, <1>13, <1>14, Aside

LEMMA FailPromises ==
  ASSUME Synced, Composed, [Next]_vars, Promises, NEW ends, Fail(ends)
  PROVE  Promises'
<1>1. ASSUME NEW s \in Sessions, NEW i \in Sides
      PROVE  Promise(s, i)'
  <2>1. Promise(s, i) /\ Peer(i) \in Sides
    BY Peers DEF Promises
  <2>2. ASSUME NEW k \in Sides, <<s, k>> \in ends
        PROVE  end'[s][k].pc \in Off
    <3>1. end'[s][k] = [NoEnd EXCEPT !.pc = "failed"]
      BY <2>2 DEF Fail
    <3> QED
      BY <3>1 DEF NoEnd, Off
  <2>3. ASSUME NEW k \in Sides, <<s, k>> \notin ends
        PROVE  end'[s][k] = end[s][k] /\ inbox'[s][k] = inbox[s][k]
    BY <2>3 DEF Fail
  <2> QED
    BY <2>1, <2>2, <2>3, Vacuous, Idle
<1> QED
  BY <1>1 DEF Promises

LEMMA ConnectPromises ==
  ASSUME CapAssumption, LinkAssumption, Synced, Composed, [Next]_vars, Promises,
         NEW s \in Sessions, NEW link \in Links, Connect(s, link)
  PROVE  Promises'
<1> DEFINE e == [i \in Sides |-> [NoEnd EXCEPT !.node = link[i], !.pc = "start"]]
<1>1. end' = [end EXCEPT ![s] = e] /\ inbox' = inbox
  BY DEF Connect
<1>2. \A i \in Sides : e[i].pc = "start" /\ e[i].want = {}
  BY DEF NoEnd
<1> HIDE DEF e
<1>3. \A i \in Sides : inbox[s][i] = <<>>
  <2>1. end[s][1].pc = "closed" /\ 1 \in Sides
    BY DEF Connect, Sides
  <2>2. ASSUME NEW i \in Sides
        PROVE  end[s][i].pc = "closed"
    BY <2>1, Peers, SyncedFacts DEF Stream
  <2> QED
    BY <2>2, SyncedFacts DEF Stream, Running, Waiting
<1>4. ASSUME NEW i \in Sides
      PROVE  Promise(s, i)'
  <2>1. /\ Peer(i) \in Sides /\ end'[s][i] = e[i] /\ end'[s][Peer(i)] = e[Peer(i)]
        /\ inbox'[s][i] = <<>> /\ inbox'[s][Peer(i)] = <<>>
    BY <1>1, <1>3, Peers DEF Synced, Typed
  <2>2. InBox(<<>>) = {} /\ Cardinality({}) <= MaxPerSession
    BY InBoxNone, FS_EmptySet, CapAssumption
  <2> QED
    BY <1>2, <2>1, <2>2 DEF Promise, HasServed
<1>5. ASSUME NEW t \in Sessions, NEW i \in Sides, t # s
      PROVE  Promise(t, i)'
  <2>1. Promise(t, i) /\ end'[t] = end[t] /\ inbox'[t] = inbox[t]
    BY <1>1, <1>5 DEF Promises, Synced, Typed
  <2> QED
    BY <2>1, Idle
<1> QED
  BY <1>4, <1>5 DEF Promises

LEMMA PromisesStep ==
  CapAssumption /\ LinkAssumption /\ Synced /\ Composed /\ Promises /\ [Next]_vars => Promises'
<1> SUFFICES ASSUME CapAssumption, LinkAssumption, Synced, Composed, Promises, [Next]_vars
             PROVE  Promises'
  OBVIOUS
<1>1. ASSUME UNCHANGED <<end, inbox>>
      PROVE  Promises'
  BY <1>1, Idle DEF Promises
<1>2. CASE Tick \/ UNCHANGED vars
  BY <1>1, <1>2 DEF Tick, vars
<1>3. ASSUME NEW n \in Nodes,
             \/ \E b \in Bundles, life \in Lifetimes : Admit(n, b, life)
             \/ \E matching \in SUBSET store[n] : TakeForAddresses(n, matching)
      PROVE  Promises'
  BY <1>1, <1>3 DEF Admit, TakeForAddresses
<1>4. ASSUME NEW n \in Nodes, NodeStops(n)
      PROVE  Promises'
  BY <1>4, FailPromises DEF NodeStops
<1>5. ASSUME NEW s \in Sessions, NEW i \in Sides, LinkLost(s, i) \/ PeerGone(s, i)
      PROVE  Promises'
  BY <1>5, FailPromises DEF LinkLost, PeerGone
<1>6. ASSUME NEW s \in Sessions, NEW i \in Sides, SyncStep(s, i)
      PROVE  Promises'
  BY <1>5, <1>6, StartPromises, AskPromises, ServePromises, BundlePromises, DonePromises DEF SyncStep
<1>7. ASSUME NEW s \in Sessions, NEW link \in Links, Connect(s, link)
      PROVE  Promises'
  BY <1>7, ConnectPromises
<1> QED
  BY <1>2, <1>3, <1>4, <1>5, <1>6, <1>7 DEF Next

\* A session that ran to its end has moved everything it promised: however
\* many other sessions fill, sweep or empty the same stores meanwhile, what an
\* end asked for and did not get expired, was claimed, or left with its carrier.
THEOREM SyncsAreWhole == Spec => []SyncComplete
<1>1. Init => Promises
  BY Peers DEF Init, NoEnd, Promises, Promise, Off
<1>2. Synced /\ Counted /\ Promises /\ [Next]_vars => Promises'
  BY PromisesStep, CapAssumption, LinkAssumption DEF Counted
<1>3. Synced /\ Promises => SyncComplete
  <2> SUFFICES ASSUME Synced, Promises, NEW s \in Sessions, NEW i \in Sides,
                      end[s][i].pc = "done", end[s][Peer(i)].pc # "failed", NEW b \in end[s][i].want
               PROVE  b \in end[s][i].got \/ Expired(b) \/ b \in claimed
    BY DEF SyncComplete
  <2>1. inbox[s][i] = <<>> /\ end[s][Peer(i)].pc \in {"bundles", "done"}
    BY SyncedFacts DEF Stream, Running, Waiting
  <2>2. InBox(inbox[s][i]) = {}
    BY <2>1, InBoxNone
  <2>3. end[s][i].pc \notin Off /\ end[s][Peer(i)].pc \notin Off /\ HasServed(end[s][Peer(i)]) /\ Promise(s, i)
    BY <2>1 DEF Off, HasServed, Promises
  <2>4. b \in end[s][i].got \/ Gone(b)
    BY <2>2, <2>3 DEF Promise
  <2> QED
    BY <2>4 DEF Gone
<1> QED
  BY <1>1, <1>2, <1>3, Syncing, Counting, PTL DEF Spec
=============================================================================
