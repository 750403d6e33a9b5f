------------------------ MODULE MeshTransport_proofs ------------------------
(***************************************************************************)
(* The counter and the sliding window of a conversation, for any network,  *)
(* any number of messages, devices, senders and restarts, and windows of   *)
(* any size.                                                               *)
(***************************************************************************)
EXTENDS MeshTransport, FiniteSetTheorems, WellFoundedInduction, TLAPS

----------------------------------------------------------------------------
(* The network below *)

Carried ==
  /\ now \in Nat /\ expiry \in [Bundles -> Int]
  /\ store \in [Nodes -> SUBSET Bundles] /\ flight \in [Nodes -> SUBSET Bundles]
  /\ \A n \in Nodes : IsFiniteSet(store[n]) /\ Cardinality(store[n]) <= MaxTotal
  /\ \A n \in Nodes : \A b \in store[n] \cup flight[n] : Born(b)

\* A bundle that was composed stays so.
LEMMA ComposedOnce ==
  Carried /\ [GossipNext]_gossip => \A b \in Bundles : Born(b) => Born(b)' /\ expiry'[b] = expiry[b]
<1> SUFFICES ASSUME Carried, [GossipNext]_gossip, NEW b \in Bundles, Born(b)
             PROVE  Born(b)' /\ expiry'[b] = expiry[b]
  OBVIOUS
<1>1. expiry'[b] = expiry[b]
  BY DEF Carried, GossipNext, gossip, Tick, Compose, Offer, Arrive, Lost, Leave, Crash, Born
<1> QED
  BY <1>1 DEF Born

LEMMA StoreGrows ==
  ASSUME Carried, NEW n \in Nodes, NEW b \in Bundles, b \in store[n] \/ HasRoom(n)
  PROVE  IsFiniteSet(store[n] \cup {b}) /\ Cardinality(store[n] \cup {b}) <= MaxTotal
<1>1. IsFiniteSet(store[n]) /\ Cardinality(store[n]) \in Nat /\ Cardinality(store[n]) <= MaxTotal
  BY FS_CardinalityType DEF Carried
<1>2. /\ IsFiniteSet(store[n] \cup {b})
      /\ Cardinality(store[n] \cup {b}) =
           IF b \in store[n] THEN Cardinality(store[n]) ELSE Cardinality(store[n]) + 1
  BY <1>1, FS_AddElement
<1> QED
  BY <1>1, <1>2, GossipAssumption DEF HasRoom

LEMMA StoreShrinks ==
  ASSUME Carried, NEW n \in Nodes, NEW kept, kept \subseteq store[n]
  PROVE  IsFiniteSet(kept) /\ Cardinality(kept) <= MaxTotal
<1>1. IsFiniteSet(store[n]) /\ Cardinality(store[n]) \in Nat /\ Cardinality(store[n]) <= MaxTotal
  BY FS_CardinalityType DEF Carried
<1>2. IsFiniteSet(kept) /\ Cardinality(kept) <= Cardinality(store[n])
  BY <1>1, FS_Subset
<1>3. Cardinality(kept) \in Nat
  BY <1>2, FS_CardinalityType
<1> QED
  BY <1>1, <1>2, <1>3, GossipAssumption

LEMMA CarriedStep == Carried /\ [GossipNext]_gossip => Carried'
<1> SUFFICES ASSUME Carried, [GossipNext]_gossip
             PROVE  Carried'
  OBVIOUS
<1>1. \A b \in Bundles : Born(b) => Born(b)'
  BY ComposedOnce
<1>2. ASSUME Tick \/ UNCHANGED gossip
      PROVE  Carried'
  BY <1>1, <1>2 DEF Tick, gossip, Carried, Born
<1>3. ASSUME NEW n \in Nodes, NEW b \in Bundles, NEW life \in Lifetimes, Compose(n, b, life)
      PROVE  Carried'
  <2>1. /\ \E then \in Readings : expiry' = [expiry EXCEPT ![b] = then + life]
        /\ store' = [store EXCEPT ![n] = store[n] \cup {b}]
        /\ HasRoom(n) /\ UNCHANGED <<now, flight>>
    BY <1>3 DEF Compose
  <2>5. PICK stamp \in Nat : expiry' = [expiry EXCEPT ![b] = stamp + life] /\ stamp + life \in Nat
    <3>1. \A then \in Readings : then \in Nat /\ then + life \in Nat
      BY GossipAssumption DEF Readings, Carried
    <3> QED
      BY <2>1, <3>1
  <2>2. Born(b)'
    BY <2>5 DEF Carried, Born, Unborn
  <2>3. IsFiniteSet(store[n] \cup {b}) /\ Cardinality(store[n] \cup {b}) <= MaxTotal
    BY <2>1, StoreGrows
  <2>4. \A m \in Nodes : store'[m] = IF m = n THEN store[n] \cup {b} ELSE store[m]
    BY <2>1 DEF Carried
  <2> QED
    BY <1>1, <2>1, <2>2, <2>3, <2>4, <2>5 DEF Carried
<1>4. ASSUME NEW m \in Nodes, NEW n \in Nodes, NEW copies \in SUBSET store[m], Offer(m, n, copies)
      PROVE  Carried'
  BY <1>1, <1>4 DEF Offer, Carried
<1>5. ASSUME NEW n \in Nodes, NEW b \in Bundles, Arrive(n, b)
      PROVE  Carried'
  <2>1. /\ b \in flight[n] /\ store' = [store EXCEPT ![n] = store[n] \cup {b}]
        /\ flight' \in [Nodes -> SUBSET Bundles] /\ \A m \in Nodes : flight'[m] \subseteq flight[m]
        /\ UNCHANGED <<now, expiry>> /\ (b \in store[n] \/ HasRoom(n))
    BY <1>5 DEF Arrive, Landed, Carried
  <2>2. IsFiniteSet(store[n] \cup {b}) /\ Cardinality(store[n] \cup {b}) <= MaxTotal
    BY <2>1, StoreGrows
  <2>3. \A m \in Nodes : store'[m] = IF m = n THEN store[n] \cup {b} ELSE store[m]
    BY <2>1 DEF Carried
  <2> QED
    BY <1>1, <2>1, <2>2, <2>3 DEF Carried
<1>6. ASSUME NEW n \in Nodes, NEW lost \in SUBSET flight[n], Lost(n, lost)
      PROVE  Carried'
  BY <1>1, <1>6 DEF Lost, Carried
<1>7. ASSUME NEW n \in Nodes, UNCHANGED <<now, expiry>>,
             store' \in [Nodes -> SUBSET Bundles], flight' \in [Nodes -> SUBSET Bundles],
             \A m \in Nodes : store'[m] \subseteq store[m] /\ flight'[m] \subseteq flight[m]
      PROVE  Carried'
  BY <1>1, <1>7, StoreShrinks DEF Carried
<1>8. ASSUME NEW n \in Nodes, Crash(n) \/ \E gone \in SUBSET store[n] : Leave(n, gone)
      PROVE  Carried'
  BY <1>7, <1>8 DEF Crash, Leave, Carried
<1> QED
  BY <1>2, <1>3, <1>4, <1>5, <1>6, <1>8 DEF GossipNext

----------------------------------------------------------------------------
(* The watermark *)

LEMMA SmallestOf ==
  ASSUME NEW S \in SUBSET Nat, S # {}
  PROVE  \E n \in S : \A m \in S : n <= m
<1> DEFINE C == {0 .. n : n \in S}
<1>1. C \subseteq FiniteSubsetsOf(Nat)
  <2>1. ASSUME NEW n \in Nat
        PROVE  0 .. n \subseteq Nat /\ IsFiniteSet(0 .. n)
    BY <2>1, FS_Interval
  <2> QED
    BY <2>1 DEF FiniteSubsetsOf
<1>2. C # {}
  OBVIOUS
<1>3. IsWellFoundedOn(StrictSubsetOrdering(Nat), FiniteSubsetsOf(Nat))
  BY FS_StrictSubsetOrderingWellFounded
<1> HIDE DEF C
<1>4. PICK I \in C : \A J \in C : <<J, I>> \notin StrictSubsetOrdering(Nat)
  BY <1>1, <1>2, <1>3, WFMin
<1>5. PICK n \in S : I = 0 .. n
  BY <1>4 DEF C
<1>6. ASSUME NEW m \in S, m < n
      PROVE  FALSE
  <2>1. 0 .. m \in C /\ 0 .. m \subseteq Nat /\ 0 .. n \subseteq Nat
    BY DEF C
  <2>2. 0 .. m \subseteq 0 .. n /\ 0 .. m # 0 .. n
    <3>1. n \in 0 .. n /\ n \notin 0 .. m
      BY <1>6
    <3> QED
      BY <1>6, <3>1
  <2>3. <<0 .. m, 0 .. n>> \in StrictSubsetOrdering(Nat)
    BY <2>1, <2>2 DEF StrictSubsetOrdering
  <2> QED
    BY <1>4, <1>5, <2>1, <2>3
<1> QED
  BY <1>6

\* The watermark stops at the first index that is not claimed, and there is one.
LEMMA StopsAtGap ==
  ASSUME NEW start \in Nat, NEW claimed \in SUBSET Nat, IsFiniteSet(claimed)
  PROVE  /\ PastContiguous(start, claimed) \in Nat
         /\ start <= PastContiguous(start, claimed)
         /\ PastContiguous(start, claimed) \notin claimed
         /\ start .. (PastContiguous(start, claimed) - 1) \subseteq claimed
<1> DEFINE k == Cardinality(claimed)
           gaps == {n \in start .. (start + k) : n \notin claimed}
<1>1. k \in Nat
  BY FS_CardinalityType
<1>2. Cardinality(start .. (start + k)) = k + 1
  <2>1. ASSUME NEW b \in Int, start <= b
        PROVE  Cardinality(start .. b) = b - start + 1
    BY <2>1, FS_Interval
  <2>2. PICK b \in Int : b = start + k
    BY <1>1
  <2>3. Cardinality(start .. b) = k + 1
    <3>1. Cardinality(start .. b) = b - start + 1
      BY <1>1, <2>1, <2>2
    <3> QED
      BY <1>1, <2>2, <3>1
  <2> QED
    BY <2>2, <2>3
<1>3. gaps # {}
  <2>1. SUFFICES ASSUME start .. (start + k) \subseteq claimed
                 PROVE  FALSE
    OBVIOUS
  <2>2. Cardinality(start .. (start + k)) <= Cardinality(claimed)
    BY <2>1, FS_Subset
  <2> QED
    BY <1>1, <1>2, <2>2
<1>4. gaps \subseteq Nat
  BY <1>1
<1>5. PICK n \in gaps : \A m \in gaps : n <= m
  BY <1>3, <1>4, SmallestOf
<1>6. n \in start .. (start + k) /\ n \notin claimed
  BY <1>5
<1>7. start .. (n - 1) \subseteq claimed
  <2>1. SUFFICES ASSUME NEW i \in start .. (n - 1), i \notin claimed
                 PROVE  FALSE
    OBVIOUS
  <2>2. i \in start .. (start + k) /\ i < n
    BY <1>1, <1>6, <2>1
  <2> QED
    BY <1>1, <1>5, <1>6, <2>1, <2>2
<1>8. /\ PastContiguous(start, claimed) \in start .. (start + k)
      /\ PastContiguous(start, claimed) \notin claimed
      /\ start .. (PastContiguous(start, claimed) - 1) \subseteq claimed
  BY <1>6, <1>7 DEF PastContiguous
<1> QED
  BY <1>1, <1>8

----------------------------------------------------------------------------
(* The conversation *)

TaskRecords ==
  [op : {"idle", "send", "poll", "claimed"}, end : Ends \cup {NoEnd}, n : Nat, claims : SUBSET Bundles]

Conversing ==
  /\ author \in [Bundles -> Ends \cup {NoEnd}] /\ index \in [Bundles -> Nat]
  /\ counter \in [Ends -> Nat] /\ low \in [Ends -> Nat]
  /\ ahead \in [Ends -> SUBSET Nat] /\ got \in [Ends -> SUBSET Bundles]
  /\ \A e \in Ends : IsFiniteSet(ahead[e])
  /\ task \in [Tasks \cup Polls -> TaskRecords]
  /\ \A t \in Tasks \cup Polls :
       /\ task[t].op # "idle" => task[t].end \in Ends
       /\ task[t].op # "claimed" => task[t].claims = {}

\* What is in the hands of a call, or was returned by one, has its address for good.
Addressed ==
  /\ \A e \in Ends : \A b \in got[e] : Born(b)
  /\ \A t \in Tasks \cup Polls : \A b \in task[t].claims :
       Born(b) /\ index[b] \in AddressWindow(task[t].n)

LEMMA IdleIs ==
  /\ Idle \in TaskRecords /\ Idle.op = "idle" /\ Idle.end = NoEnd /\ Idle.claims = {}
  /\ NoEnd \notin Ends
BY EndsAssumption DEF Idle, TaskRecords

LEMMA SendIs ==
  ASSUME Conversing, NEW t \in Tasks, NEW life \in Lifetimes, Send(t, life)
  PROVE  /\ task[t].end \in Ends /\ task[t].end \in Nodes /\ Fresh \in Bundles /\ ~Born(Fresh)
         /\ Compose(task[t].end, Fresh, life)
         /\ author' = [author EXCEPT ![Fresh] = task[t].end]
         /\ index' = [index EXCEPT ![Fresh] = task[t].n]
         /\ counter' = [counter EXCEPT ![task[t].end] = counter[task[t].end] + 1]
         /\ task' = [task EXCEPT ![t] = Idle]
         /\ UNCHANGED <<low, ahead, got>>
<1>1. Fresh \in Bundles /\ ~Born(Fresh)
  BY DEF Send, Fresh
<1> QED
  BY <1>1, EndsAssumption DEF Send, AdvanceSendCounter, Conversing

LEMMA AdvanceIs ==
  ASSUME Conversing, Addressed, NEW t \in Polls, Advance(t)
  PROVE  LET e == task[t].end
             claimed == ahead[e] \cup {index[b] : b \in task[t].claims}
             next == PastContiguous(low[e], claimed)
         IN  /\ e \in Ends /\ task[t].op = "claimed"
             /\ claimed \in SUBSET Nat /\ IsFiniteSet(claimed)
             /\ next \in Nat /\ low[e] <= next /\ next \notin claimed
             /\ low[e] .. (next - 1) \subseteq claimed
             /\ low' = [low EXCEPT ![e] = next]
             /\ ahead' = [ahead EXCEPT ![e] = claimed \ (low[e] .. (next - 1))]
             /\ got' = [got EXCEPT ![e] = got[e] \cup task[t].claims]
             /\ task' = [task EXCEPT ![t] = Idle]
             /\ UNCHANGED <<gossip, mail, counter>>
<1> DEFINE e == task[t].end
           sent == {index[b] : b \in task[t].claims}
           claimed == ahead[e] \cup sent
<1>1. e \in Ends /\ task[t].op = "claimed"
  BY DEF Advance, Conversing
<1>2. task[t].n \in Nat /\ task[t].claims \subseteq Bundles
  BY DEF Conversing, TaskRecords
<1>3. sent \subseteq task[t].n .. (task[t].n + WindowSize - 1)
  BY <1>2 DEF Addressed, AddressWindow
<1>4. IsFiniteSet(sent)
  <2>1. task[t].n \in Int /\ task[t].n + WindowSize - 1 \in Int
    BY <1>2, WindowAssumption
  <2> QED
    BY <1>3, <2>1, FS_Interval, FS_Subset
<1>5. ahead[e] \in SUBSET Nat /\ IsFiniteSet(ahead[e]) /\ low[e] \in Nat
  BY <1>1 DEF Conversing
<1>6. claimed \in SUBSET Nat
  BY <1>2, <1>5 DEF Conversing
<1>7. IsFiniteSet(claimed)
  BY <1>4, <1>5, FS_Union
<1>8. /\ PastContiguous(low[e], claimed) \in Nat /\ low[e] <= PastContiguous(low[e], claimed)
      /\ PastContiguous(low[e], claimed) \notin claimed
      /\ low[e] .. (PastContiguous(low[e], claimed) - 1) \subseteq claimed
  <2> HIDE DEF claimed
  <2> QED
    BY <1>5, <1>6, <1>7, StopsAtGap
<1> QED
  BY <1>1, <1>6, <1>7, <1>8 DEF Advance

\* A conversation uses the network as Gossip describes it.
LEMMA Spreads == Conversing /\ [Next]_vars => [GossipNext]_gossip
<1> SUFFICES ASSUME Conversing, [Next]_vars
             PROVE  [GossipNext]_gossip
  OBVIOUS
<1>1. ASSUME NEW t \in Tasks, NEW life \in Lifetimes, Send(t, life)
      PROVE  GossipNext
  BY <1>1, SendIs DEF GossipNext
<1>2. ASSUME NEW t \in Polls, TakeWindow(t)
      PROVE  GossipNext
  <2>1. /\ task[t].end \in Nodes
        /\ \E gone \in SUBSET store[task[t].end] : Leave(task[t].end, gone)
    BY <1>2, EndsAssumption DEF TakeWindow, Conversing
  <2> QED
    BY <2>1 DEF GossipNext
<1>3. ASSUME NEW n \in Nodes, Restart(n)
      PROVE  GossipNext
  BY <1>3 DEF Restart, GossipNext
<1>4. ASSUME NetworkStep
      PROVE  GossipNext
  <2>1. ASSUME NEW r \in Routes, NEW b \in Bundles, Offer(r[1], r[2], {b})
        PROVE  GossipNext
    <3>1. r[1] \in Nodes /\ r[2] \in Nodes /\ {b} \in SUBSET store[r[1]]
      BY <2>1, RoutesAssumption DEF Offer
    <3> QED
      BY <2>1, <3>1 DEF GossipNext
  <2>2. ASSUME NEW n \in Nodes, NEW b \in Bundles, Lost(n, {b})
        PROVE  GossipNext
    <3>1. {b} \in SUBSET flight[n]
      BY <2>2 DEF Lost
    <3> QED
      BY <2>2, <3>1 DEF GossipNext
  <2>3. ASSUME NEW n \in Nodes, NEW then \in Readings, Sweep(n, then)
        PROVE  GossipNext
    <3>1. Swept(n, then) \in SUBSET store[n] /\ Leave(n, Swept(n, then))
      BY <2>3 DEF Sweep, Swept
    <3> QED
      BY <3>1 DEF GossipNext
  <2> QED
    BY <1>4, <2>1, <2>2, <2>3 DEF NetworkStep, GossipNext
<1>5. ASSUME \/ \E t \in Tasks, e \in Senders : ComposeEnvelope(t, e)
             \/ \E t \in Tasks : SendRefused(t)
             \/ \E t \in Polls, e \in Pollers : ReadWindow(t, e)
             \/ \E t \in Polls : Advance(t)
             \/ UNCHANGED vars
      PROVE  UNCHANGED gossip
  BY <1>5 DEF ComposeEnvelope, SendRefused, ReadWindow, Advance, vars, gossip
<1> QED
  BY <1>1, <1>2, <1>3, <1>4, <1>5 DEF Next, TransportStep

\* Which calls a task goes through.
LEMMA TaskMoves ==
  ASSUME Conversing, NEW t \in Tasks \cup Polls, NEW r \in TaskRecords,
         task' = [task EXCEPT ![t] = r]
  PROVE  /\ task'[t] = r /\ \A u \in Tasks \cup Polls : u # t => task'[u] = task[u]
         /\ task' \in [Tasks \cup Polls -> TaskRecords]
BY DEF Conversing

Starting(op, e, k) == [Idle EXCEPT !.op = op, !.end = e, !.n = k]

LEMMA StartsCall ==
  ASSUME Conversing, NEW e \in Ends, NEW op \in {"send", "poll"}, NEW k \in Nat
  PROVE  /\ Starting(op, e, k) \in TaskRecords
         /\ Starting(op, e, k).op = op /\ Starting(op, e, k).end = e
         /\ Starting(op, e, k).n = k /\ Starting(op, e, k).claims = {}
BY DEF Idle, TaskRecords, Starting

LEMMA TakeIs ==
  ASSUME Conversing, NEW t \in Polls, TakeWindow(t)
  PROVE  \E taken \in SUBSET store[task[t].end] :
           LET r == [task[t] EXCEPT !.op = "claimed", !.claims = taken]
           IN  /\ task[t].op = "poll" /\ task[t].end \in Ends /\ task[t].end \in Nodes
               /\ \A b \in taken : index[b] \in AddressWindow(task[t].n)
               /\ r.op = "claimed" /\ r.end = task[t].end /\ r.n = task[t].n /\ r.claims = taken
               /\ taken \subseteq Bundles => r \in TaskRecords
               /\ task' = [task EXCEPT ![t] = r]
               /\ UNCHANGED <<mail, counter, low, ahead, got>>
<1> DEFINE taken == {b \in store[task[t].end] : index[b] \in AddressWindow(task[t].n)}
           r == [task[t] EXCEPT !.op = "claimed", !.claims = taken]
<1>1. /\ task[t].op = "poll" /\ task' = [task EXCEPT ![t] = r]
      /\ UNCHANGED <<mail, counter, low, ahead, got>>
  BY DEF TakeWindow
<1>2. task[t] \in TaskRecords /\ task[t].end \in Ends /\ task[t].end \in Nodes
  BY <1>1, EndsAssumption DEF Conversing
<1>3. taken \in SUBSET store[task[t].end] /\ \A b \in taken : index[b] \in AddressWindow(task[t].n)
  OBVIOUS
<1> HIDE DEF taken
<1>4. /\ r.op = "claimed" /\ r.end = task[t].end /\ r.n = task[t].n /\ r.claims = taken
      /\ taken \subseteq Bundles => r \in TaskRecords
  BY <1>2 DEF TaskRecords
<1> QED
  BY <1>1, <1>2, <1>3, <1>4

LEMMA RestartIs ==
  ASSUME Conversing, NEW n \in Nodes, Restart(n)
  PROVE  /\ UNCHANGED <<author, index, got>>
         /\ counter' \in [Ends -> Nat] /\ low' \in [Ends -> Nat] /\ ahead' \in [Ends -> SUBSET Nat]
         /\ \A e \in Ends :
              \/ counter'[e] = counter[e] /\ low'[e] = low[e] /\ ahead'[e] = ahead[e] /\ e # n
              \/ counter'[e] = 0 /\ low'[e] = 0 /\ ahead'[e] = {}
         /\ task' \in [Tasks \cup Polls -> TaskRecords]
         /\ \A t \in Tasks \cup Polls :
              task'[t] = Idle \/ (task'[t] = task[t] /\ task[t].end # n)
BY IdleIs DEF Restart, Conversing, mail

LEMMA ConversingStep == Carried /\ Conversing /\ Addressed /\ [Next]_vars => Conversing'
<1> SUFFICES ASSUME Carried, Conversing, Addressed, [Next]_vars
             PROVE  Conversing'
  OBVIOUS
<1>1. ASSUME UNCHANGED above
      PROVE  Conversing'
  BY <1>1 DEF above, Conversing
<1>2. ASSUME NEW t \in Tasks \cup Polls, NEW e \in Ends, NEW op \in {"send", "poll"}, NEW k \in Nat,
             task' = [task EXCEPT ![t] = Starting(op, e, k)],
             UNCHANGED <<mail, counter, low, ahead, got>>
      PROVE  Conversing'
  <2>1. PICK r \in TaskRecords :
          /\ r = Starting(op, e, k)
          /\ r.op = op /\ r.end = e /\ r.n = k /\ r.claims = {}
    BY StartsCall
  <2>2. task' = [task EXCEPT ![t] = r]
    BY <1>2, <2>1
  <2>3. /\ task'[t] = r /\ \A u \in Tasks \cup Polls : u # t => task'[u] = task[u]
        /\ task' \in [Tasks \cup Polls -> TaskRecords]
    BY <2>2, TaskMoves
  <2> QED
    BY <1>2, <2>1, <2>3 DEF Conversing, mail
<1>3. ASSUME NEW t \in Tasks, NEW e \in Senders, ComposeEnvelope(t, e)
      PROVE  Conversing'
  <2>1. e \in Ends /\ counter[e] \in Nat
    BY EndsAssumption DEF Conversing
  <2> QED
    BY <1>2, <1>3, <2>1 DEF ComposeEnvelope, Starting
<1>4. ASSUME NEW t \in Polls, NEW e \in Pollers, ReadWindow(t, e)
      PROVE  Conversing'
  <2>1. e \in Ends /\ low[e] \in Nat
    BY EndsAssumption DEF Conversing
  <2> QED
    BY <1>2, <1>4, <2>1 DEF ReadWindow, Starting
<1>5. ASSUME NEW t \in Tasks, NEW life \in Lifetimes, Send(t, life)
      PROVE  Conversing'
  <2>1. task[t].n \in Nat
    BY DEF Conversing, TaskRecords
  <2> QED
    BY <1>5, <2>1, SendIs, IdleIs, TaskMoves DEF Conversing
<1>6. ASSUME NEW t \in Tasks, SendRefused(t)
      PROVE  Conversing'
  BY <1>6, IdleIs, TaskMoves DEF SendRefused, Conversing, mail
<1>7. ASSUME NEW t \in Polls, TakeWindow(t)
      PROVE  Conversing'
  <2>1. \A n \in Nodes : store[n] \subseteq Bundles
    BY DEF Carried
  <2>2. PICK r \in TaskRecords : /\ r.op = "claimed" /\ r.end \in Ends
                                /\ task' = [task EXCEPT ![t] = r]
    BY <1>7, <2>1, TakeIs
  <2>3. UNCHANGED <<mail, counter, low, ahead, got>>
    BY <1>7 DEF TakeWindow
  <2>4. /\ task'[t] = r /\ \A u \in Tasks \cup Polls : u # t => task'[u] = task[u]
        /\ task' \in [Tasks \cup Polls -> TaskRecords]
    BY <2>2, TaskMoves
  <2> QED
    BY <2>2, <2>3, <2>4 DEF Conversing, mail
<1>8. ASSUME NEW t \in Polls, Advance(t)
      PROVE  Conversing'
  <2> DEFINE e == task[t].end
             claimed == ahead[e] \cup {index[b] : b \in task[t].claims}
             next == PastContiguous(low[e], claimed)
             rest == claimed \ (low[e] .. (next - 1))
  <2>1. /\ e \in Ends /\ claimed \in SUBSET Nat /\ IsFiniteSet(claimed) /\ next \in Nat
        /\ low' = [low EXCEPT ![e] = next] /\ ahead' = [ahead EXCEPT ![e] = rest]
        /\ got' = [got EXCEPT ![e] = got[e] \cup task[t].claims]
        /\ task' = [task EXCEPT ![t] = Idle] /\ UNCHANGED <<mail, counter>>
    BY <1>8, AdvanceIs
  <2>2. rest \in SUBSET Nat /\ IsFiniteSet(rest)
    BY <2>1, FS_Subset
  <2>3. task[t].claims \subseteq Bundles
    BY DEF Conversing, TaskRecords
  <2> HIDE DEF next, rest, claimed
  <2> QED
    BY <2>1, <2>2, <2>3, IdleIs, TaskMoves DEF Conversing, mail
<1>9. ASSUME NEW n \in Nodes, Restart(n)
      PROVE  Conversing'
  BY <1>9, RestartIs, IdleIs, FS_EmptySet DEF Conversing
<1>10. ASSUME NetworkStep \/ UNCHANGED vars
       PROVE  Conversing'
  BY <1>1, <1>10 DEF NetworkStep, vars, above
<1> QED
  BY <1>3, <1>4, <1>5, <1>6, <1>7, <1>8, <1>9, <1>10 DEF Next, TransportStep

\* A bundle that was composed keeps its address.
LEMMA KeepsAddress ==
  ASSUME Carried, Conversing, [Next]_vars, NEW b \in Bundles, Born(b)
  PROVE  Born(b)' /\ index'[b] = index[b]
<1>1. Born(b)'
  BY Spreads, ComposedOnce
<1>2. ASSUME NEW t \in Tasks, NEW life \in Lifetimes, Send(t, life)
      PROVE  index'[b] = index[b]
  BY <1>2, SendIs DEF Conversing
<1>3. ASSUME UNCHANGED index
      PROVE  index'[b] = index[b]
  BY <1>3
<1>4. ASSUME NetworkStep \/ UNCHANGED vars
      PROVE  UNCHANGED index
  BY <1>4 DEF NetworkStep, vars, above
<1>5. ASSUME Next
      PROVE  UNCHANGED index \/ \E t \in Tasks, life \in Lifetimes : Send(t, life)
  BY <1>4, <1>5 DEF Next, TransportStep, ComposeEnvelope, SendRefused, ReadWindow, TakeWindow, Advance, Restart, mail
<1> QED
  BY <1>1, <1>2, <1>3, <1>4, <1>5

\* What a task holds after a step, and what was returned.
LEMMA Holds ==
  ASSUME Carried, Conversing, Addressed, [Next]_vars
  PROVE  /\ \A t \in Tasks \cup Polls :
              \/ task'[t].claims = {}
              \/ task'[t].claims = task[t].claims /\ task'[t].n = task[t].n
              \/ \A b \in task'[t].claims : b \in Bundles /\ Born(b) /\ index[b] \in AddressWindow(task'[t].n)
         /\ \A e \in Ends : \A b \in got'[e] :
              b \in got[e] \/ \E t \in Polls : b \in task[t].claims
<1> DEFINE TaskHolds(t) ==
             \/ task'[t].claims = {}
             \/ task'[t].claims = task[t].claims /\ task'[t].n = task[t].n
             \/ \A b \in task'[t].claims : b \in Bundles /\ Born(b) /\ index[b] \in AddressWindow(task'[t].n)
           Returned(e) == \A b \in got'[e] : b \in got[e] \/ \E t \in Polls : b \in task[t].claims
           Goal == (\A t \in Tasks \cup Polls : TaskHolds(t)) /\ \A e \in Ends : Returned(e)
<1>1. ASSUME UNCHANGED above
      PROVE  Goal
  BY <1>1 DEF above
<1>2. ASSUME NEW t \in Tasks \cup Polls, NEW r \in TaskRecords, task' = [task EXCEPT ![t] = r],
             r.claims = {}, UNCHANGED got
      PROVE  Goal
  BY <1>2, TaskMoves
<1>3. ASSUME NEW t \in Tasks \cup Polls, NEW e \in Ends, NEW op \in {"send", "poll"}, NEW k \in Nat,
             task' = [task EXCEPT ![t] = Starting(op, e, k)],
             UNCHANGED got
      PROVE  Goal
  <2> HIDE DEF Goal
  <2>1. Starting(op, e, k) \in TaskRecords /\ Starting(op, e, k).claims = {}
    BY StartsCall
  <2> QED
    BY <1>2, <1>3, <2>1
<1>4. ASSUME NEW t \in Tasks, NEW e \in Senders, ComposeEnvelope(t, e)
      PROVE  Goal
  <2>1. e \in Ends /\ counter[e] \in Nat
    BY EndsAssumption DEF Conversing
  <2> HIDE DEF Goal
  <2> QED
    BY <1>3, <1>4, <2>1 DEF ComposeEnvelope, Starting
<1>5. ASSUME NEW t \in Polls, NEW e \in Pollers, ReadWindow(t, e)
      PROVE  Goal
  <2>1. e \in Ends /\ low[e] \in Nat
    BY EndsAssumption DEF Conversing
  <2> HIDE DEF Goal
  <2> QED
    BY <1>3, <1>5, <2>1 DEF ReadWindow, Starting
<1>6. ASSUME NEW t \in Tasks, SendRefused(t) \/ \E life \in Lifetimes : Send(t, life)
      PROVE  Goal
  <2>1. task' = [task EXCEPT ![t] = Idle] /\ UNCHANGED got
    BY <1>6, SendIs DEF SendRefused
  <2> HIDE DEF Goal
  <2> QED
    BY <1>2, <2>1, IdleIs
<1>7. ASSUME NEW t \in Polls, TakeWindow(t)
      PROVE  Goal
  <2>1. \A n \in Nodes : \A b \in store[n] : b \in Bundles /\ Born(b)
    BY DEF Carried
  <2>2. PICK taken \in SUBSET store[task[t].end], r \in TaskRecords :
          /\ task[t].end \in Nodes /\ \A b \in taken : index[b] \in AddressWindow(task[t].n)
          /\ r.n = task[t].n /\ r.claims = taken /\ task' = [task EXCEPT ![t] = r]
    <3>1. PICK taken \in SUBSET store[task[t].end] :
           LET r == [task[t] EXCEPT !.op = "claimed", !.claims = taken]
           IN  /\ task[t].end \in Nodes
               /\ \A b \in taken : index[b] \in AddressWindow(task[t].n)
               /\ r.n = task[t].n /\ r.claims = taken
               /\ taken \subseteq Bundles => r \in TaskRecords
               /\ task' = [task EXCEPT ![t] = r]
      BY <1>7, TakeIs
    <3>2. taken \subseteq Bundles
      BY <2>1, <3>1
    <3> QED
      BY <3>1, <3>2
  <2>3. UNCHANGED got
    BY <1>7 DEF TakeWindow
  <2>4. task'[t] = r /\ \A u \in Tasks \cup Polls : u # t => task'[u] = task[u]
    BY <2>2, TaskMoves
  <2> QED
    BY <2>1, <2>2, <2>3, <2>4
<1>8. ASSUME NEW t \in Polls, Advance(t)
      PROVE  Goal
  <2>1. /\ task[t].end \in Ends /\ got' = [got EXCEPT ![task[t].end] = got[task[t].end] \cup task[t].claims]
        /\ task' = [task EXCEPT ![t] = Idle]
    BY <1>8, AdvanceIs
  <2>2. task'[t] = Idle /\ \A u \in Tasks \cup Polls : u # t => task'[u] = task[u]
    BY <2>1, IdleIs, TaskMoves
  <2>3. \A e \in Ends : Returned(e)
    BY <2>1 DEF Conversing
  <2> QED
    BY <2>2, <2>3, IdleIs
<1>9. ASSUME NEW n \in Nodes, Restart(n)
      PROVE  Goal
  BY <1>9, RestartIs, IdleIs
<1>10. ASSUME NetworkStep \/ UNCHANGED vars
       PROVE  Goal
  BY <1>1, <1>10 DEF NetworkStep, vars, above
<1>11. Goal
  <2> HIDE DEF Goal
  <2> QED
    BY <1>4, <1>5, <1>6, <1>7, <1>8, <1>9, <1>10 DEF Next, TransportStep
<1> QED
  BY <1>11

LEMMA AddressedStep == Carried /\ Conversing /\ Addressed /\ [Next]_vars => Addressed'
<1> SUFFICES ASSUME Carried, Conversing, Addressed, [Next]_vars
             PROVE  Addressed'
  OBVIOUS
<1>1. /\ \A t \in Tasks \cup Polls : task[t].claims \subseteq Bundles
      /\ \A e \in Ends : got[e] \subseteq Bundles
  BY DEF Conversing, TaskRecords
<1>2. \A b \in Bundles : Born(b) => Born(b)' /\ index'[b] = index[b]
  BY KeepsAddress
<1>3. ASSUME NEW e \in Ends, NEW b \in got'[e]
      PROVE  Born(b)'
  <2>1. b \in got[e] \/ \E t \in Polls : b \in task[t].claims
    BY <1>3, Holds
  <2>2. b \in Bundles /\ Born(b)
    BY <1>1, <2>1 DEF Addressed
  <2> QED
    BY <1>2, <2>2
<1>4. ASSUME NEW t \in Tasks \cup Polls, NEW b \in task'[t].claims
      PROVE  Born(b)' /\ index'[b] \in AddressWindow(task'[t].n)
  <2>1. b \in Bundles /\ Born(b) /\ index[b] \in AddressWindow(task'[t].n)
    BY <1>1, <1>4, Holds DEF Addressed
  <2> QED
    BY <1>2, <2>1
<1> QED
  BY <1>3, <1>4 DEF Addressed, AddressWindow

\* Whatever moves the counters, watermarks and what is claimed ahead.
LEMMA Watermarks ==
  ASSUME Conversing, Next
  PROVE  \/ UNCHANGED <<low, ahead>> /\ \A e \in Ends : got[e] \subseteq got'[e]
         \/ \E t \in Polls : Advance(t)
         \/ \E n \in Nodes : Restart(n)
<1>1. ASSUME \/ \E t \in Tasks, e \in Senders : ComposeEnvelope(t, e)
             \/ \E t \in Tasks : SendRefused(t)
             \/ \E t \in Tasks, life \in Lifetimes : Send(t, life)
             \/ \E t \in Polls, e \in Pollers : ReadWindow(t, e)
             \/ \E t \in Polls : TakeWindow(t)
             \/ NetworkStep
      PROVE  UNCHANGED <<low, ahead, got>>
  BY <1>1 DEF ComposeEnvelope, SendRefused, Send, ReadWindow, TakeWindow, NetworkStep, above
<1> QED
  BY <1>1 DEF Next, TransportStep

----------------------------------------------------------------------------
(* Nothing is skipped *)

\* What the watermark has passed, or what is claimed ahead of it, was returned.
Accounted ==
  \A e \in Ends : \A n \in Nat :
    n < low[e] \/ n \in ahead[e] => \E b \in got[e] : index[b] = n

LEMMA AccountedStep ==
  Carried /\ Conversing /\ Addressed /\ Accounted /\ [Next]_vars => Accounted'
<1> SUFFICES ASSUME Carried, Conversing, Addressed, Accounted, [Next]_vars
             PROVE  Accounted'
  OBVIOUS
<1>1. \A e \in Ends : \A b \in got[e] : index'[b] = index[b]
  <2>1. \A b \in Bundles : Born(b) => index'[b] = index[b]
    BY KeepsAddress
  <2> QED
    BY <2>1 DEF Conversing, Addressed
<1>2. ASSUME UNCHANGED <<low, ahead>>, \A e \in Ends : got[e] \subseteq got'[e]
      PROVE  Accounted'
  BY <1>1, <1>2 DEF Accounted
<1>3. ASSUME NEW t \in Polls, Advance(t)
      PROVE  Accounted'
  <2> DEFINE e == task[t].end
             claimed == ahead[e] \cup {index[b] : b \in task[t].claims}
             next == PastContiguous(low[e], claimed)
  <2>1. /\ e \in Ends /\ next \in Nat /\ low[e] <= next
        /\ low[e] .. (next - 1) \subseteq claimed
        /\ low' = [low EXCEPT ![e] = next]
        /\ ahead' = [ahead EXCEPT ![e] = claimed \ (low[e] .. (next - 1))]
        /\ got' = [got EXCEPT ![e] = got[e] \cup task[t].claims] /\ UNCHANGED mail
    BY <1>3, AdvanceIs
  <2>2. index' = index
    BY <2>1 DEF mail
  <2>3. ASSUME NEW n \in claimed
        PROVE  \E b \in got'[e] : index'[b] = n
    <3>1. got'[e] = got[e] \cup task[t].claims
      BY <2>1 DEF Conversing
    <3>2. CASE n \in ahead[e]
      <4>1. n \in Nat
        BY <2>1, <3>2 DEF Conversing
      <4> QED
        BY <2>1, <2>2, <3>1, <3>2, <4>1 DEF Accounted
    <3>3. CASE n \in {index[b] : b \in task[t].claims}
      BY <2>2, <3>1, <3>3
    <3> QED
      BY <3>2, <3>3
  <2>4. low[e] \in Nat /\ low'[e] = next /\ ahead'[e] \subseteq claimed
    BY <2>1 DEF Conversing
  <2>5. ASSUME NEW n \in Nat, n < low'[e] \/ n \in ahead'[e]
        PROVE  \E b \in got'[e] : index'[b] = n
    <3>1. CASE n < low[e]
      <4>1. got[e] \subseteq got'[e]
        BY <2>1 DEF Conversing
      <4> QED
        BY <2>1, <2>2, <3>1, <4>1 DEF Accounted
    <3>2. CASE ~(n < low[e]) /\ n < next
      <4>1. n \in low[e] .. (next - 1)
        BY <2>1, <2>4, <3>2
      <4> QED
        BY <2>1, <2>3, <4>1
    <3>3. CASE n \in ahead'[e]
      BY <2>3, <2>4, <3>3
    <3> QED
      BY <2>4, <2>5, <3>1, <3>2, <3>3
  <2>6. ASSUME NEW f \in Ends, f # e
        PROVE  low'[f] = low[f] /\ ahead'[f] = ahead[f] /\ got'[f] = got[f]
    BY <2>1, <2>6 DEF Conversing
  <2> HIDE DEF e, next, claimed
  <2> QED
    BY <2>2, <2>5, <2>6 DEF Accounted
<1>4. ASSUME NEW n \in Nodes, Restart(n)
      PROVE  Accounted'
  <2>1. UNCHANGED <<index, got>>
    BY <1>4, RestartIs
  <2>2. \A e \in Ends : \A k \in Nat : k < low'[e] \/ k \in ahead'[e] => k < low[e] \/ k \in ahead[e]
    BY <1>4, RestartIs
  <2> QED
    BY <2>1, <2>2 DEF Accounted
<1>5. ASSUME UNCHANGED vars
      PROVE  Accounted'
  BY <1>2, <1>5 DEF vars
<1> QED
  BY <1>2, <1>3, <1>4, <1>5, Watermarks

----------------------------------------------------------------------------
(* The window, with one task that receives *)

OneReceiver == \A s, t \in Polls : s = t

\* While a call is under way nobody else moves the watermark it has read.
Windowed ==
  /\ \A t \in Polls : task[t].op \in {"poll", "claimed"} => task[t].n = low[task[t].end]
  /\ \A e \in Ends : ahead[e] \subseteq (low[e] + 1) .. (low[e] + WindowSize - 1)

LEMMA WindowedStep ==
  ASSUME OneReceiver
  PROVE  Carried /\ Conversing /\ Addressed /\ Windowed /\ [Next]_vars => Windowed'
<1> SUFFICES ASSUME Carried, Conversing, Addressed, Windowed, [Next]_vars
             PROVE  Windowed'
  OBVIOUS
<1>1. ASSUME UNCHANGED above
      PROVE  Windowed'
  BY <1>1 DEF above, Windowed
<1>2. ASSUME UNCHANGED <<low, ahead>>, NEW t \in Tasks \cup Polls, NEW r \in TaskRecords,
             task' = [task EXCEPT ![t] = r],
             r.op \in {"poll", "claimed"} => r.n = low[r.end]
      PROVE  Windowed'
  BY <1>2, TaskMoves DEF Windowed
<1>3. ASSUME NEW t \in Tasks, NEW e \in Senders, ComposeEnvelope(t, e)
      PROVE  Windowed'
  <2>1. e \in Ends /\ counter[e] \in Nat
    BY EndsAssumption DEF Conversing
  <2>2. Starting("send", e, counter[e]) \in TaskRecords /\ Starting("send", e, counter[e]).op = "send"
    BY <2>1, StartsCall
  <2>3. task' = [task EXCEPT ![t] = Starting("send", e, counter[e])] /\ UNCHANGED <<low, ahead>>
    BY <1>3 DEF ComposeEnvelope, Starting
  <2> HIDE DEF Windowed
  <2> QED
    BY <1>2, <2>2, <2>3
<1>4. ASSUME NEW t \in Polls, NEW e \in Pollers, ReadWindow(t, e)
      PROVE  Windowed'
  <2>1. e \in Ends /\ low[e] \in Nat
    BY EndsAssumption DEF Conversing
  <2>2. /\ Starting("poll", e, low[e]) \in TaskRecords
        /\ Starting("poll", e, low[e]).end = e /\ Starting("poll", e, low[e]).n = low[e]
    BY <2>1, StartsCall
  <2>3. task' = [task EXCEPT ![t] = Starting("poll", e, low[e])] /\ UNCHANGED <<low, ahead>>
    BY <1>4 DEF ReadWindow, Starting
  <2> HIDE DEF Windowed
  <2> QED
    BY <1>2, <2>2, <2>3
<1>5. ASSUME NEW t \in Tasks, SendRefused(t) \/ \E life \in Lifetimes : Send(t, life)
      PROVE  Windowed'
  <2>1. task' = [task EXCEPT ![t] = Idle] /\ UNCHANGED <<low, ahead>>
    BY <1>5 DEF SendRefused, Send
  <2> QED
    BY <1>2, <2>1, IdleIs
<1>6. ASSUME NEW t \in Polls, TakeWindow(t)
      PROVE  Windowed'
  <2>1. \A n \in Nodes : store[n] \subseteq Bundles
    BY DEF Carried
  <2>2. PICK r \in TaskRecords :
          /\ task[t].op = "poll" /\ r.end = task[t].end /\ r.n = task[t].n
          /\ task' = [task EXCEPT ![t] = r]
    BY <1>6, <2>1, TakeIs
  <2>3. UNCHANGED <<low, ahead>>
    BY <1>6 DEF TakeWindow
  <2>4. r.n = low[r.end]
    BY <2>2 DEF Windowed
  <2> QED
    BY <1>2, <2>2, <2>3, <2>4
<1>7. ASSUME NEW t \in Polls, Advance(t)
      PROVE  Windowed'
  <2> DEFINE e == task[t].end
             claimed == ahead[e] \cup {index[b] : b \in task[t].claims}
             next == PastContiguous(low[e], claimed)
             rest == claimed \ (low[e] .. (next - 1))
  <2>1. /\ e \in Ends /\ next \in Nat /\ low[e] <= next /\ next \notin claimed
        /\ claimed \in SUBSET Nat
        /\ low' = [low EXCEPT ![e] = next] /\ ahead' = [ahead EXCEPT ![e] = rest]
        /\ task' = [task EXCEPT ![t] = Idle] /\ task[t].op = "claimed"
    BY <1>7, AdvanceIs
  <2>2. task[t].n = low[e]
    BY <2>1 DEF Windowed
  <2>3. \A b \in task[t].claims : index[b] \in AddressWindow(low[e])
    BY <2>2 DEF Addressed
  <2>4. ASSUME NEW k \in claimed
        PROVE  k \in low[e] .. (low[e] + WindowSize - 1)
    <3>1. CASE k \in ahead[e]
      <4>1. k \in (low[e] + 1) .. (low[e] + WindowSize - 1) /\ low[e] \in Nat
        BY <2>1, <3>1 DEF Windowed, Conversing
      <4> QED
        BY <4>1, WindowAssumption
    <3>2. CASE k \in {index[b] : b \in task[t].claims}
      BY <2>3, <3>2 DEF AddressWindow
    <3> QED
      BY <3>1, <3>2
  <2>5. ASSUME NEW k \in rest
        PROVE  k \in (next + 1) .. (next + WindowSize - 1)
    <3>1. k \in claimed /\ k \notin low[e] .. (next - 1) /\ k \in Nat /\ low[e] \in Nat
      BY <2>1 DEF Conversing
    <3>2. k # next /\ k \in low[e] .. (low[e] + WindowSize - 1)
      BY <2>1, <2>4, <3>1
    <3> HIDE DEF next, claimed, rest
    <3> QED
      BY <2>1, <3>1, <3>2, WindowAssumption
  <2> HIDE DEF next, claimed, rest
  <2>6. ASSUME NEW f \in Ends
        PROVE  ahead'[f] \subseteq (low'[f] + 1) .. (low'[f] + WindowSize - 1)
    <3>1. CASE f = e
      BY <2>1, <2>5, <3>1 DEF Conversing
    <3>2. CASE f # e
      BY <2>1, <3>2 DEF Conversing, Windowed
    <3> QED
      BY <3>1, <3>2
  <2>7. \A u \in Polls : task'[u].op = "idle"
    BY <2>1, IdleIs, TaskMoves DEF OneReceiver
  <2> QED
    BY <2>6, <2>7 DEF Windowed
<1>8. ASSUME NEW n \in Nodes, Restart(n)
      PROVE  Windowed'
  <2>1. \A e \in Ends : ahead'[e] \subseteq (low'[e] + 1) .. (low'[e] + WindowSize - 1)
    BY <1>8, RestartIs DEF Windowed
  <2>2. ASSUME NEW t \in Polls, task'[t].op \in {"poll", "claimed"}
        PROVE  task'[t].n = low'[task'[t].end]
    <3>1. task'[t] = task[t] /\ task[t].end # n
      BY <1>8, <2>2, RestartIs, IdleIs
    <3>2. task[t].end \in Ends /\ task[t].n = low[task[t].end]
      BY <2>2, <3>1 DEF Windowed, Conversing
    <3>3. low'[task[t].end] = low[task[t].end]
      BY <1>8, <3>1, <3>2 DEF Restart
    <3> QED
      BY <3>1, <3>2, <3>3
  <2> QED
    BY <2>1, <2>2 DEF Windowed
<1>9. ASSUME NetworkStep \/ UNCHANGED vars
      PROVE  Windowed'
  BY <1>1, <1>9 DEF NetworkStep, vars, above
<1> QED
  BY <1>3, <1>4, <1>5, <1>6, <1>7, <1>8, <1>9 DEF Next, TransportStep

----------------------------------------------------------------------------
(* The counters *)

Composed == {b \in Bundles : Born(b)}
Numbered == \A e \in Ends : counter[e] <= Cardinality(Composed)

LEMMA NumberedStep == Carried /\ Conversing /\ Numbered /\ [Next]_vars => Numbered'
<1> SUFFICES ASSUME Carried, Conversing, Numbered, [Next]_vars
             PROVE  Numbered'
  OBVIOUS
<1>1. /\ IsFiniteSet(Composed) /\ Cardinality(Composed) \in Nat
      /\ IsFiniteSet(Composed') /\ Cardinality(Composed') \in Nat
  <2>1. Composed \subseteq Bundles /\ Composed' \subseteq Bundles
    BY DEF Composed
  <2> QED
    BY <2>1, WindowAssumption, FS_Subset, FS_CardinalityType
<1>2. Composed \subseteq Composed'
  BY Spreads, ComposedOnce DEF Composed
<1>3. Cardinality(Composed) <= Cardinality(Composed')
  BY <1>1, <1>2, FS_Subset
<1>4. ASSUME \A e \in Ends : counter'[e] \in {0, counter[e]}
      PROVE  Numbered'
  <2> SUFFICES ASSUME NEW e \in Ends
               PROVE  counter'[e] <= Cardinality(Composed')
    BY DEF Numbered, Composed
  <2>1. counter[e] \in Nat /\ counter[e] <= Cardinality(Composed)
    BY DEF Conversing, Numbered
  <2>2. counter'[e] \in {0, counter[e]}
    BY <1>4
  <2> QED
    BY <1>1, <1>3, <2>1, <2>2
<1>5. ASSUME NEW t \in Tasks, NEW life \in Lifetimes, Send(t, life)
      PROVE  Numbered'
  <2>1. PICK b \in Bundles :
          /\ ~Born(b) /\ Compose(task[t].end, b, life)
          /\ counter' = [counter EXCEPT ![task[t].end] = counter[task[t].end] + 1]
    BY <1>5, SendIs
  <2>2. Born(b)'
    <3>1. \A then \in Readings : then + life \in Nat
      BY GossipAssumption DEF Readings, Carried
    <3>2. \E then \in Readings : expiry' = [expiry EXCEPT ![b] = then + life]
      BY <2>1 DEF Compose
    <3> QED
      BY <3>1, <3>2 DEF Carried, Born, Unborn
  <2>3. b \in Composed' /\ b \notin Composed
    BY <2>1, <2>2 DEF Composed
  <2>4. Cardinality(Composed) # Cardinality(Composed')
    BY <1>1, <1>2, <2>3, FS_Subset
  <2> SUFFICES ASSUME NEW e \in Ends
               PROVE  counter'[e] <= Cardinality(Composed')
    BY DEF Numbered, Composed
  <2>5. counter[e] \in Nat /\ counter[e] <= Cardinality(Composed)
    BY DEF Conversing, Numbered
  <2>6. counter'[e] \in {counter[e], counter[e] + 1}
    BY <2>1 DEF Conversing
  <2> QED
    BY <1>1, <1>3, <2>4, <2>5, <2>6
<1>6. ASSUME NEW n \in Nodes, Restart(n)
      PROVE  Numbered'
  BY <1>4, <1>6, RestartIs
<1>7. ASSUME UNCHANGED counter
      PROVE  Numbered'
  BY <1>4, <1>7
<1>8. ASSUME \/ \E t \in Tasks, e \in Senders : ComposeEnvelope(t, e)
             \/ \E t \in Tasks : SendRefused(t)
             \/ \E t \in Polls, e \in Pollers : ReadWindow(t, e)
             \/ \E t \in Polls : TakeWindow(t) \/ Advance(t)
             \/ NetworkStep \/ UNCHANGED vars
      PROVE  UNCHANGED counter
  BY <1>8 DEF ComposeEnvelope, SendRefused, ReadWindow, TakeWindow, Advance, NetworkStep, above, vars
<1> QED
  BY <1>5, <1>6, <1>7, <1>8 DEF Next, TransportStep

----------------------------------------------------------------------------
(* The theorems *)

Talking == Carried /\ Conversing /\ Addressed /\ Accounted /\ Numbered

LEMMA InitTalks == Init => Talking /\ Windowed
<1> SUFFICES ASSUME Init
             PROVE  Talking /\ Windowed
  OBVIOUS
<1>1. Carried
  BY GossipAssumption, FS_EmptySet DEF Init, GossipInit, Carried, Unborn
<1>2. Conversing
  BY IdleIs, FS_EmptySet DEF Init, Conversing
<1>3. Addressed
  BY IdleIs DEF Init, Addressed
<1>4. Accounted /\ Windowed
  BY IdleIs DEF Init, Accounted, Windowed
<1>5. Numbered
  <2>1. IsFiniteSet(Composed)
    BY WindowAssumption, FS_Subset DEF Composed
  <2>2. 0 <= Cardinality(Composed)
    BY <2>1, FS_CardinalityType
  <2> QED
    BY <2>2 DEF Init, Numbered
<1> QED
  BY <1>1, <1>2, <1>3, <1>4, <1>5 DEF Talking

LEMMA TalkingStep == Talking /\ [Next]_vars => Talking'
BY Spreads, CarriedStep, ConversingStep, AddressedStep, AccountedStep, NumberedStep DEF Talking

LEMMA AlwaysTalking == Spec => []Talking
BY InitTalks, TalkingStep, PTL DEF Spec

\* Types; no store exceeds its cap, and no counter the messages composed.
THEOREM TypeCorrect == Spec => []TypeOK
<1>1. Talking => TypeOK
  <2> SUFFICES ASSUME Talking PROVE TypeOK
    OBVIOUS
  <2>1. ASSUME NEW e \in Ends
        PROVE  counter[e] \in 0..Cardinality(Bundles)
    <3>1. Composed \subseteq Bundles
      BY DEF Composed
    <3>2. /\ Cardinality(Composed) <= Cardinality(Bundles) /\ Cardinality(Composed) \in Nat
          /\ Cardinality(Bundles) \in Nat
      BY <3>1, WindowAssumption, FS_Subset, FS_CardinalityType
    <3>3. counter[e] \in Nat /\ counter[e] <= Cardinality(Composed)
      BY DEF Talking, Conversing, Numbered
    <3> QED
      BY <3>2, <3>3
  <2>2. counter \in [Ends -> 0..Cardinality(Bundles)]
    BY <2>1 DEF Talking, Conversing
  <2> QED
    BY <2>2 DEF Talking, Carried, Conversing, TypeOK
<1> QED
  BY <1>1, AlwaysTalking, PTL

\* The network a conversation runs over is the one Gossip describes, which the
\* sync protocol of MeshRelay implements.
THEOREM UsesGossip == Spec => GossipSpec
<1>1. Init => GossipInit
  BY DEF Init
<1>2. Talking /\ [Next]_vars => [GossipNext]_gossip
  BY Spreads DEF Talking
<1> QED
  BY <1>1, <1>2, AlwaysTalking, PTL DEF Spec, GossipSpec

\* The watermark never passes an index whose message was not returned, in
\* whatever order the messages arrive and however many calls of receive overlap.
THEOREM NothingSkipped == Spec => []NoSilentSkip
<1>1. Talking => NoSilentSkip
  <2> SUFFICES ASSUME Talking, NEW e \in Pollers, NEW n \in 0 .. (low[e] - 1)
               PROVE  \E b \in got[e] : index[b] = n
    BY DEF NoSilentSkip
  <2>1. e \in Ends /\ low[e] \in Nat
    BY EndsAssumption DEF Talking, Conversing
  <2>2. n \in Nat /\ n < low[e]
    BY <2>1
  <2> QED
    BY <2>1, <2>2 DEF Talking, Accounted
<1> QED
  BY <1>1, AlwaysTalking, PTL

\* With one task that receives, the window is what bounds claimed_ahead.
THEOREM WindowBounds == OneReceiver => (Spec => []AheadInWindow)
<1> SUFFICES ASSUME OneReceiver
             PROVE  Spec => []AheadInWindow
  OBVIOUS
<1>1. Windowed => AheadInWindow
  BY EndsAssumption DEF Windowed, AheadInWindow
<1>2. Talking /\ Windowed /\ [Next]_vars => Windowed'
  BY WindowedStep DEF Talking
<1> QED
  BY <1>1, <1>2, InitTalks, AlwaysTalking, PTL DEF Spec

\* With one task that receives, nothing is claimed behind the watermark,
\* however often the network brings a copy back.
THEOREM NotTwice == OneReceiver => (Spec => []NeverBehind)
<1> SUFFICES ASSUME OneReceiver
             PROVE  Spec => []NeverBehind
  OBVIOUS
<1>1. Talking /\ Windowed => NeverBehind
  <2> SUFFICES ASSUME Talking, Windowed, NEW t \in Polls, NEW b \in task[t].claims
               PROVE  index[b] >= low[task[t].end]
    BY DEF NeverBehind
  <2>1. task[t].op = "claimed" /\ task[t].n \in Nat
    BY DEF Talking, Conversing, TaskRecords
  <2>2. task[t].n = low[task[t].end] /\ index[b] \in AddressWindow(task[t].n)
    BY <2>1 DEF Windowed, Talking, Addressed
  <2> QED
    BY <2>1, <2>2 DEF AddressWindow
<1>2. Talking /\ Windowed /\ [Next]_vars => Windowed'
  BY WindowedStep DEF Talking
<1> QED
  BY <1>1, <1>2, InitTalks, AlwaysTalking, PTL DEF Spec
=============================================================================
