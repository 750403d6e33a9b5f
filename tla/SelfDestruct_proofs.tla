------------------------- MODULE SelfDestruct_proofs -------------------------
(* What SelfDestruct promises for any number of messages, handles, callers  *)
(* and restarts, any window and any setting of the wall clock.              *)
EXTENDS SelfDestruct, FiniteSetTheorems, TLAPS

----------------------------------------------------------------------------
(* The shape of the state *)

SealedOK == \A m \in Msgs : Timed(sealed[m].mode) <=> sealed[m].expires # NoTime

\* A handle in use belongs to a sealed message.
InUse(h) == slot[h].owned \/ slot[h].live \/ slot[h].timer # NoTime
SlotOK == \A h \in Handles : InUse(h) => slot[h].msg \in Msgs /\ IsSealed(slot[h].msg)

\* A caller between two steps holds a state of a sealed message, or borrows a
\* handle that stays owned until it is done.
HoldsState(c) == /\ caller[c].m \in Msgs
                 /\ caller[c].h = None
                 /\ IsSealed(caller[c].m)
Borrows(c) == /\ caller[c].m = None
              /\ caller[c].h \in Handles
              /\ slot[caller[c].h].owned
CallerOK == \A c \in Callers :
  /\ caller[c].pc = "idle" => caller[c].m = None /\ caller[c].h = None
  /\ caller[c].pc \in {"exported", "taken"} => HoldsState(c)
  /\ caller[c].pc \in {"clock_read", "rolled_back", "accepted", "checked"} =>
       HoldsState(c) \/ Borrows(c)

RowsOK == \A m \in Msgs : rows[m] > 0 => IsSealed(m)

Shape == TypeOK /\ SealedOK /\ SlotOK /\ CallerOK /\ RowsOK

\* What the values are made of is expanded in every proof below; the records
\* of handles and callers only where their fields matter.
USE NoneAssumption, TimeAssumption
    DEF Times, NoTime, Unsealed, FreeSlot, Idle, Pcs, Modes, Timed,
        SealedRecords, IsSealed, InUse, HoldsState, Borrows, clocks, history

\* The initial state is well-shaped.
LEMMA ShapeInit == Init => Shape
  BY DEF Init, Shape, TypeOK, SealedOK, SlotOK, CallerOK, RowsOK, SlotRecords, CallerRecords

\* Records built by the operations are records of handles and of callers.
LEMMA SlotRecordsBuilt ==
  /\ \A s \in SlotRecords : [s EXCEPT !.live = FALSE] \in SlotRecords
  /\ \A s \in SlotRecords : [s EXCEPT !.live = FALSE, !.timer = NoTime] \in SlotRecords
  /\ \A s \in SlotRecords : [s EXCEPT !.owned = FALSE] \in SlotRecords
  /\ FreeSlot \in SlotRecords
  BY DEF SlotRecords

LEMMA CallerRecordsBuilt ==
  /\ Idle \in CallerRecords
  /\ \A m \in Msgs \cup {None}, p \in Pcs : [Idle EXCEPT !.pc = p, !.m = m] \in CallerRecords
  /\ \A r \in CallerRecords, p \in Pcs : [r EXCEPT !.pc = p] \in CallerRecords
  /\ \A r \in CallerRecords, p \in Pcs, t \in Nat, a \in Nat :
       [r EXCEPT !.pc = p, !.t = t, !.at = a] \in CallerRecords
  BY DEF CallerRecords

\* The step erases keys, maybe none, and changes nothing else about handles.
OnlyErases ==
  /\ slot' \in [Handles -> SlotRecords]
  /\ \A g \in Handles :
       /\ slot'[g].msg = slot[g].msg
       /\ slot'[g].owned = slot[g].owned
       /\ slot'[g].timer = slot[g].timer
       /\ slot'[g].born = slot[g].born
       /\ slot'[g].read = slot[g].read
       /\ slot'[g].live => slot[g].live

LEMMA EraseOnlyErases ==
  ASSUME TypeOK, NEW h \in Handles, slot' = Erase(h)
  PROVE  OnlyErases /\ ~slot'[h].live
<1>1. slot' \in [Handles -> SlotRecords]
  BY SlotRecordsBuilt DEF Erase, TypeOK
<1>2. QED
  BY <1>1 DEF OnlyErases, Erase, TypeOK, SlotRecords

LEMMA UnchangedOnlyErases == TypeOK /\ UNCHANGED slot => OnlyErases
  BY DEF OnlyErases, TypeOK

\* Opening counts a read of a live key, and keeps or erases that key.
LEMMA OpenedOnlyErases ==
  ASSUME TypeOK, NEW h \in Handles, Opened(h)
  PROVE  OnlyErases /\ reads' \in [Msgs -> Nat]
<1>1. reads' \in [Msgs -> Nat] /\ (slot' = slot \/ slot' = Erase(h))
  BY DEF Opened, TypeOK
<1>2. QED
  BY <1>1, EraseOnlyErases, UnchangedOnlyErases

LEMMA OnlyErasesSlotOK == SlotOK /\ OnlyErases /\ UNCHANGED sealed => SlotOK'
  BY DEF SlotOK, OnlyErases

LEMMA OnlyErasesCallerOK ==
  ASSUME TypeOK, CallerOK, OnlyErases, UNCHANGED sealed,
         caller' = caller \/ \E c \in Callers : caller' = [caller EXCEPT ![c] = Idle]
  PROVE  CallerOK'
  BY DEF TypeOK, CallerOK, OnlyErases

LEMMA ShapeStep == Shape /\ [Next]_vars => Shape'
<1> SUFFICES ASSUME Shape, [Next]_vars PROVE Shape'
    OBVIOUS
<1> USE DEF Shape
<1>1. CASE Tick
  BY <1>1 DEF Tick, TypeOK, SealedOK, SlotOK, CallerOK, RowsOK, SlotRecords, CallerRecords
<1>2. ASSUME NEW w \in 0..(MaxNow + Epoch), SetWall(w) PROVE Shape'
  BY <1>2 DEF SetWall, TypeOK, SealedOK, SlotOK, CallerOK, RowsOK, SlotRecords, CallerRecords
<1>3. ASSUME NEW m \in Msgs, NEW h \in Handles, NEW mode \in Modes, Seal(m, h, mode) PROVE Shape'
  BY <1>3 DEF Seal, NewSlot, TypeOK, SealedOK, SlotOK, CallerOK, RowsOK, SlotRecords, CallerRecords
<1>4. ASSUME NEW h \in Handles, Open(h) PROVE Shape'
  <2>1. OnlyErases
    BY <1>4, OpenedOnlyErases DEF Open, CallerOK
  <2>2. TypeOK'
    BY <1>4, <2>1, OpenedOnlyErases, CallerRecordsBuilt DEF Open, TypeOK, OnlyErases, CallerOK
  <2>3. SealedOK' /\ RowsOK'
    BY <1>4 DEF Open, SealedOK, RowsOK
  <2>4. SlotOK'
    BY <1>4, <2>1, OnlyErasesSlotOK DEF Open
  <2>5. CallerOK'
    BY <1>4, <2>1, OnlyErasesCallerOK DEF Open
  <2> QED
    BY <2>2, <2>3, <2>4, <2>5
<1>5. ASSUME NEW h \in Handles, ExpireNow(h) PROVE Shape'
  <2>1. OnlyErases
    BY <1>5, EraseOnlyErases DEF ExpireNow, CallerOK
  <2>2. TypeOK'
    BY <1>5, <2>1, EraseOnlyErases, CallerRecordsBuilt DEF ExpireNow, TypeOK, OnlyErases, CallerOK
  <2>3. SealedOK' /\ RowsOK'
    BY <1>5 DEF ExpireNow, SealedOK, RowsOK
  <2>4. SlotOK'
    BY <1>5, <2>1, OnlyErasesSlotOK DEF ExpireNow
  <2>5. CallerOK'
    BY <1>5, <2>1, OnlyErasesCallerOK DEF ExpireNow
  <2> QED
    BY <2>2, <2>3, <2>4, <2>5
<1>6. ASSUME NEW h \in Handles, TimerFire(h) PROVE Shape'
  <2>1. slot' \in [Handles -> SlotRecords]
    BY <1>6, SlotRecordsBuilt DEF TimerFire, TypeOK
  <2>2. TypeOK'
    BY <1>6, <2>1 DEF TimerFire, TypeOK
  <2>3. SealedOK' /\ RowsOK'
    BY <1>6 DEF TimerFire, SealedOK, RowsOK
  <2>4. SlotOK'
    BY <1>6, <2>1 DEF TimerFire, TypeOK, SlotOK, SlotRecords
  <2>5. CallerOK'
    BY <1>6, <2>1 DEF TimerFire, TypeOK, CallerOK, SlotRecords
  <2> QED
    BY <2>2, <2>3, <2>4, <2>5
<1>7. ASSUME NEW h \in Handles, DropHandle(h) PROVE Shape'
  <2>1. slot' \in [Handles -> SlotRecords]
    BY <1>7, SlotRecordsBuilt DEF DropHandle, TypeOK
  <2>2. TypeOK'
    BY <1>7, <2>1 DEF DropHandle, TypeOK
  <2>3. SealedOK' /\ RowsOK'
    BY <1>7 DEF DropHandle, SealedOK, RowsOK
  <2>4. SlotOK'
    BY <1>7, <2>1 DEF DropHandle, TypeOK, SlotOK, SlotRecords
  <2>5. CallerOK'
    BY <1>7, <2>1 DEF DropHandle, TypeOK, CallerOK, SlotRecords
  <2> QED
    BY <2>2, <2>3, <2>4, <2>5
<1>8. ASSUME NEW c \in Callers, NEW h \in Handles, Export(c, h) PROVE Shape'
  <2>0. slot[h].msg \in Msgs \cup {None} /\ exports' \in [Msgs -> Nat]
    BY <1>8 DEF Export, TypeOK, SlotOK, SlotRecords
  <2>1. TypeOK'
    BY <1>8, <2>0, CallerRecordsBuilt DEF Export, TypeOK
  <2>2. SealedOK' /\ SlotOK'
    BY <1>8 DEF Export, SealedOK, SlotOK
  <2>3. RowsOK'
    BY <1>8 DEF Export, TypeOK, RowsOK, CallerOK
  <2>4. CallerOK'
    BY <1>8 DEF Export, TypeOK, CallerOK, SlotOK, RowsOK, CallerRecords, SlotRecords
  <2> QED
    BY <2>1, <2>2, <2>3, <2>4
<1>9. ASSUME NEW c \in Callers, NEW h \in Handles, ReadClockToOpen(c, h) PROVE Shape'
  BY <1>9 DEF ReadClockToOpen, TypeOK, SealedOK, SlotOK, CallerOK, RowsOK, SlotRecords, CallerRecords
<1>10. ASSUME NEW c \in Callers, NEW h \in Handles, Revive(c, h) PROVE Shape'
  <2>1. TypeOK'
    BY <1>10 DEF Revive, Expired, Armed, NewSlot, TypeOK, SealedOK, CallerOK, SlotRecords, CallerRecords
  <2>2. SealedOK' /\ RowsOK'
    BY <1>10 DEF Revive, TypeOK, SealedOK, RowsOK
  <2>3. SlotOK'
    BY <1>10 DEF Revive, Expired, Armed, NewSlot, TypeOK, SlotOK, CallerOK
  <2>4. CallerOK'
    BY <1>10 DEF Revive, TypeOK, CallerOK
  <2> QED
    BY <2>1, <2>2, <2>3, <2>4
<1>11. ASSUME NEW c \in Callers, NEW m \in Msgs, Take(c, m) PROVE Shape'
  <2>0. rows' \in [Msgs -> Nat]
    BY <1>11 DEF Take, TypeOK
  <2>1. TypeOK'
    BY <1>11, <2>0, CallerRecordsBuilt DEF Take, TypeOK
  <2>2. SealedOK' /\ SlotOK'
    BY <1>11 DEF Take, SealedOK, SlotOK
  <2>3. RowsOK'
    BY <1>11 DEF Take, TypeOK, RowsOK, CallerOK
  <2>4. CallerOK'
    BY <1>11 DEF Take, TypeOK, CallerOK, SlotOK, RowsOK, CallerRecords, SlotRecords
  <2> QED
    BY <2>1, <2>2, <2>3, <2>4
<1>12. ASSUME NEW c \in Callers, Stage(c) PROVE Shape'
  <2>0. rows' \in [Msgs -> Nat]
    BY <1>12 DEF Stage, TypeOK, CallerOK
  <2>1. TypeOK'
    BY <1>12, <2>0, CallerRecordsBuilt DEF Stage, TypeOK
  <2>2. SealedOK' /\ SlotOK'
    BY <1>12 DEF Stage, SealedOK, SlotOK
  <2>3. RowsOK'
    BY <1>12 DEF Stage, TypeOK, RowsOK, CallerOK
  <2>4. CallerOK'
    BY <1>12 DEF Stage, TypeOK, CallerOK, SlotOK, RowsOK, CallerRecords, SlotRecords
  <2> QED
    BY <2>1, <2>2, <2>3, <2>4
<1>13. ASSUME NEW c \in Callers, StageFails(c) PROVE Shape'
  <2>1. TypeOK'
    BY <1>13, CallerRecordsBuilt DEF StageFails, TypeOK
  <2>2. SealedOK' /\ SlotOK'
    BY <1>13 DEF StageFails, SealedOK, SlotOK
  <2>3. RowsOK'
    BY <1>13 DEF StageFails, TypeOK, RowsOK, CallerOK
  <2>4. CallerOK'
    BY <1>13 DEF StageFails, TypeOK, CallerOK, SlotOK, RowsOK, CallerRecords, SlotRecords
  <2> QED
    BY <2>1, <2>2, <2>3, <2>4
<1>14. ASSUME NEW c \in Callers, ReadClockToRestore(c) PROVE Shape'
  <2>1. TypeOK'
    BY <1>14, CallerRecordsBuilt DEF ReadClockToRestore, TypeOK
  <2>2. SealedOK' /\ SlotOK'
    BY <1>14 DEF ReadClockToRestore, SealedOK, SlotOK
  <2>3. RowsOK'
    BY <1>14 DEF ReadClockToRestore, TypeOK, RowsOK, CallerOK
  <2>4. CallerOK'
    BY <1>14 DEF ReadClockToRestore, TypeOK, CallerOK, SlotOK, RowsOK, CallerRecords, SlotRecords
  <2> QED
    BY <2>1, <2>2, <2>3, <2>4
<1>15. ASSUME NEW c \in Callers, LoadWatermark(c) PROVE Shape'
  <2>1. TypeOK'
    BY <1>15, CallerRecordsBuilt DEF LoadWatermark, TypeOK
  <2>2. SealedOK' /\ SlotOK'
    BY <1>15 DEF LoadWatermark, SealedOK, SlotOK
  <2>3. RowsOK'
    BY <1>15 DEF LoadWatermark, TypeOK, RowsOK, CallerOK
  <2>4. CallerOK'
    BY <1>15 DEF LoadWatermark, TypeOK, CallerOK, SlotOK, RowsOK, CallerRecords, SlotRecords
  <2> QED
    BY <2>1, <2>2, <2>3, <2>4
<1>16. ASSUME NEW c \in Callers, StoreWatermark(c) PROVE Shape'
  <2>0. watermark' \in Nat
    BY <1>16 DEF StoreWatermark, TypeOK, CallerRecords
  <2>1. TypeOK'
    BY <1>16, <2>0, CallerRecordsBuilt DEF StoreWatermark, TypeOK
  <2>2. SealedOK' /\ SlotOK'
    BY <1>16 DEF StoreWatermark, SealedOK, SlotOK
  <2>3. RowsOK'
    BY <1>16 DEF StoreWatermark, TypeOK, RowsOK, CallerOK
  <2>4. CallerOK'
    BY <1>16 DEF StoreWatermark, TypeOK, CallerOK, SlotOK, RowsOK, CallerRecords, SlotRecords
  <2> QED
    BY <2>1, <2>2, <2>3, <2>4
<1>17. ASSUME NEW c \in Callers, FailClosed(c) PROVE Shape'
  <2>1. OnlyErases
    BY <1>17, EraseOnlyErases, UnchangedOnlyErases DEF FailClosed, CallerOK
  <2>2. TypeOK'
    BY <1>17, <2>1, EraseOnlyErases, UnchangedOnlyErases, CallerRecordsBuilt DEF FailClosed, TypeOK, OnlyErases, CallerOK
  <2>3. SealedOK' /\ RowsOK'
    BY <1>17 DEF FailClosed, SealedOK, RowsOK
  <2>4. SlotOK'
    BY <1>17, <2>1, OnlyErasesSlotOK DEF FailClosed
  <2>5. CallerOK'
    BY <1>17, <2>1, OnlyErasesCallerOK DEF FailClosed
  <2> QED
    BY <2>2, <2>3, <2>4, <2>5
<1>18. ASSUME NEW c \in Callers, FinishGuardedOpen(c) PROVE Shape'
  <2>1. OnlyErases
    BY <1>18, OpenedOnlyErases DEF FinishGuardedOpen, CallerOK
  <2>2. TypeOK'
    BY <1>18, <2>1, OpenedOnlyErases, CallerRecordsBuilt DEF FinishGuardedOpen, TypeOK, OnlyErases, CallerOK
  <2>3. SealedOK' /\ RowsOK'
    BY <1>18 DEF FinishGuardedOpen, SealedOK, RowsOK
  <2>4. SlotOK'
    BY <1>18, <2>1, OnlyErasesSlotOK DEF FinishGuardedOpen
  <2>5. CallerOK'
    BY <1>18, <2>1, OnlyErasesCallerOK DEF FinishGuardedOpen
  <2> QED
    BY <2>2, <2>3, <2>4, <2>5
<1>19. ASSUME NEW c \in Callers, RefuseExpired(c) PROVE Shape'
  <2>1. TypeOK'
    BY <1>19, CallerRecordsBuilt DEF RefuseExpired, TypeOK
  <2>2. SealedOK' /\ SlotOK'
    BY <1>19 DEF RefuseExpired, SealedOK, SlotOK
  <2>3. RowsOK'
    BY <1>19 DEF RefuseExpired, TypeOK, RowsOK, CallerOK
  <2>4. CallerOK'
    BY <1>19 DEF RefuseExpired, TypeOK, CallerOK, SlotOK, RowsOK, CallerRecords, SlotRecords
  <2> QED
    BY <2>1, <2>2, <2>3, <2>4
<1>20. CASE Purge
  BY <1>20 DEF Purge, TypeOK, SealedOK, SlotOK, CallerOK, RowsOK, SlotRecords, CallerRecords
<1>21. CASE Restart
  BY <1>21 DEF Restart, TypeOK, SealedOK, SlotOK, CallerOK, RowsOK, SlotRecords, CallerRecords
<1>22. CASE UNCHANGED vars
  BY <1>22 DEF vars, TypeOK, SealedOK, SlotOK, CallerOK, RowsOK
<1> QED
  BY <1>1, <1>2, <1>3, <1>4, <1>5, <1>6, <1>7, <1>8, <1>9, <1>10, <1>11, <1>12, <1>13, <1>14, <1>15, <1>16, <1>17, <1>18, <1>19, <1>20, <1>21, <1>22
  DEF Next, HandleStep, CallerStep, SealTimeBound, SealReadTriggered, SealCombined

\* The state keeps its types: every record of a handle or of a caller, every
\* deadline and every count, whatever callers, timers and restarts do.
THEOREM TypeCorrect == Spec => []TypeOK
<1>1. Shape => TypeOK
  BY DEF Shape
<1>2. QED
  BY <1>1, ShapeInit, ShapeStep, PTL DEF Spec

----------------------------------------------------------------------------
(* Keys and timers *)

\* All that a step can do to handles: erase keys, or one of five operations.
LEMMA StepKinds ==
  ASSUME Shape, [Next]_vars
  PROVE  \/ OnlyErases /\ UNCHANGED sealed
         \/ \E m \in Msgs, h \in Handles, mode \in Modes : Seal(m, h, mode)
         \/ \E c \in Callers, h \in Handles : Revive(c, h)
         \/ \E h \in Handles : TimerFire(h)
         \/ \E h \in Handles : DropHandle(h)
         \/ Restart
<1> USE DEF Shape
<1>1. UNCHANGED <<slot, sealed>> => OnlyErases /\ UNCHANGED sealed
  BY UnchangedOnlyErases
<1>2. ASSUME NEW h \in Handles, HandleStep(h)
      PROVE  \/ OnlyErases /\ UNCHANGED sealed
             \/ \E m \in Msgs, mode \in Modes : Seal(m, h, mode)
             \/ TimerFire(h)
             \/ DropHandle(h)
  <2>1. Open(h) => OnlyErases /\ UNCHANGED sealed
    BY OpenedOnlyErases DEF Open
  <2>2. ExpireNow(h) => OnlyErases /\ UNCHANGED sealed
    BY EraseOnlyErases DEF ExpireNow
  <2> QED
    BY <1>2, <2>1, <2>2 DEF HandleStep, SealTimeBound, SealReadTriggered, SealCombined
<1>3. ASSUME NEW c \in Callers, CallerStep(c)
      PROVE  (OnlyErases /\ UNCHANGED sealed) \/ \E h \in Handles : Revive(c, h)
  <2>1. FailClosed(c) => OnlyErases /\ UNCHANGED sealed
    BY EraseOnlyErases, UnchangedOnlyErases DEF FailClosed, CallerOK
  <2>2. FinishGuardedOpen(c) => OnlyErases /\ UNCHANGED sealed
    BY OpenedOnlyErases DEF FinishGuardedOpen, CallerOK
  <2> QED
    BY <1>1, <1>3, <2>1, <2>2
    DEF CallerStep, Export, ReadClockToOpen, Take, Stage, StageFails, ReadClockToRestore,
        LoadWatermark, StoreWatermark, RefuseExpired
<1>4. Tick \/ Purge \/ (\E w \in 0..(MaxNow + Epoch) : SetWall(w)) \/ UNCHANGED vars
      => OnlyErases /\ UNCHANGED sealed
  BY <1>1 DEF Tick, Purge, SetWall, vars
<1> QED
  BY <1>2, <1>3, <1>4 DEF Next

LEMMA LiveKeysEndStep ==
  ASSUME Shape, LiveKeysEnd, [Next]_vars
  PROVE  LiveKeysEnd'
<1> USE DEF Shape
<1>1. CASE OnlyErases /\ UNCHANGED sealed
  BY <1>1 DEF LiveKeysEnd, OnlyErases
<1>2. ASSUME NEW m \in Msgs, NEW h \in Handles, NEW mode \in Modes, Seal(m, h, mode)
      PROVE  LiveKeysEnd'
  BY <1>2 DEF Seal, NewSlot, LiveKeysEnd, TypeOK, SlotOK
<1>3. ASSUME NEW c \in Callers, NEW h \in Handles, Revive(c, h)
      PROVE  LiveKeysEnd'
  <2>1. Timed(sealed[caller[c].m].mode)
        => Armed(sealed[caller[c].m].expires, caller[c].t) # NoTime
    BY <1>3 DEF Revive, Expired, Armed, CallerOK, SealedOK, TypeOK, CallerRecords
  <2> QED
    BY <1>3, <2>1 DEF Revive, NewSlot, LiveKeysEnd, TypeOK
<1>4. ASSUME NEW h \in Handles, TimerFire(h)
      PROVE  LiveKeysEnd'
  BY <1>4 DEF TimerFire, LiveKeysEnd, TypeOK, SlotRecords
<1>5. ASSUME NEW h \in Handles, DropHandle(h)
      PROVE  LiveKeysEnd'
  BY <1>5 DEF DropHandle, LiveKeysEnd, TypeOK, SlotRecords
<1>6. CASE Restart
  BY <1>6 DEF Restart, LiveKeysEnd
<1> QED
  BY <1>1, <1>2, <1>3, <1>4, <1>5, <1>6, StepKinds

\* No immortal key: as long as a key of a timed message is live, or a key that
\* no handle can open is, a timer task is there that will erase it.
THEOREM KeysEnd == Spec => []LiveKeysEnd
<1>1. Init => LiveKeysEnd
  BY DEF Init, LiveKeysEnd
<1>2. Shape /\ LiveKeysEnd /\ [Next]_vars => LiveKeysEnd'
  BY LiveKeysEndStep
<1> QED
  BY <1>1, <1>2, ShapeInit, ShapeStep, PTL DEF Spec

----------------------------------------------------------------------------
(* Time across restarts *)

\* While nobody has set the wall clock it keeps its distance from real time,
\* and so do the deadlines and the readings taken from it.
HasReading(c) == caller[c].pc \in {"clock_read", "rolled_back", "accepted", "checked"}
HonestClocks ==
  skews = 0 =>
    /\ wall = now + Epoch
    /\ \A m \in Msgs : Timed(sealed[m].mode) => sealed[m].expires = sealed[m].at + Epoch + Window
    /\ \A c \in Callers : HasReading(c) => caller[c].t = caller[c].at + Epoch

LEMMA HonestClocksStep ==
  ASSUME Shape, HonestClocks, [Next]_vars
  PROVE  HonestClocks'
<1> USE DEF Shape, HonestClocks, HasReading
<1>1. CASE Tick
  BY <1>1 DEF Tick, TypeOK
<1>2. ASSUME NEW w \in 0..(MaxNow + Epoch), SetWall(w)
      PROVE  HonestClocks'
  BY <1>2 DEF SetWall, TypeOK
<1>3. ASSUME NEW h \in Handles, HandleStep(h)
      PROVE  HonestClocks'
  <2>1. ASSUME NEW m \in Msgs, NEW mode \in Modes, Seal(m, h, mode)
        PROVE  HonestClocks'
    BY <2>1 DEF Seal, TypeOK
  <2> QED
    BY <1>3, <2>1 DEF HandleStep, SealTimeBound, SealReadTriggered, SealCombined,
                      Open, ExpireNow, TimerFire, DropHandle
<1>4. ASSUME NEW c \in Callers, CallerStep(c)
      PROVE  HonestClocks'
  <2>1. ASSUME NEW h \in Handles, Export(c, h)
        PROVE  HonestClocks'
    BY <2>1 DEF Export, TypeOK
  <2>2. ASSUME NEW h \in Handles, ReadClockToOpen(c, h)
        PROVE  HonestClocks'
    BY <2>2 DEF ReadClockToOpen, TypeOK
  <2>3. ASSUME NEW h \in Handles, Revive(c, h)
        PROVE  HonestClocks'
    BY <2>3 DEF Revive, TypeOK
  <2>4. ASSUME NEW m \in Msgs, Take(c, m)
        PROVE  HonestClocks'
    BY <2>4 DEF Take, TypeOK
  <2>5. CASE ReadClockToRestore(c)
    BY <2>5 DEF ReadClockToRestore, TypeOK, CallerRecords
  <2>6. CASE LoadWatermark(c)
    BY <2>6 DEF LoadWatermark, TypeOK, CallerRecords
  <2>7. CASE StoreWatermark(c)
    BY <2>7 DEF StoreWatermark, TypeOK, CallerRecords
  <2>8. CASE Stage(c) \/ StageFails(c) \/ FailClosed(c) \/ FinishGuardedOpen(c) \/ RefuseExpired(c)
    BY <2>8 DEF Stage, StageFails, FailClosed, FinishGuardedOpen, RefuseExpired, TypeOK
  <2> QED
    BY <1>4, <2>1, <2>2, <2>3, <2>4, <2>5, <2>6, <2>7, <2>8 DEF CallerStep
<1>5. CASE Purge
  BY <1>5 DEF Purge
<1>6. CASE Restart
  BY <1>6 DEF Restart
<1>7. CASE UNCHANGED vars
  BY <1>7 DEF vars
<1> QED
  BY <1>1, <1>2, <1>3, <1>4, <1>5, <1>6, <1>7 DEF Next

LEMMA TimersStep ==
  ASSUME Shape, HonestClocks, DowntimeCounts, RestoredInTime, [Next]_vars
  PROVE  DowntimeCounts' /\ RestoredInTime'
<1> USE DEF Shape, DowntimeCounts, RestoredInTime, ReadBeforeDeadline
<1> SUFFICES ASSUME skews' = 0
             PROVE  DowntimeCounts' /\ RestoredInTime'
  OBVIOUS
<1>1. skews = 0
  <2>1. \A h \in Handles : HandleStep(h) => UNCHANGED skews
    BY DEF HandleStep, SealTimeBound, SealReadTriggered, SealCombined, Seal, Open, ExpireNow,
           TimerFire, DropHandle
  <2>2. \A c \in Callers : CallerStep(c) => UNCHANGED skews
    BY DEF CallerStep, Export, Stage, StageFails, Take, ReadClockToOpen, ReadClockToRestore,
           LoadWatermark, StoreWatermark, FailClosed, FinishGuardedOpen, RefuseExpired, Revive
  <2>3. Tick \/ Purge \/ Restart \/ UNCHANGED vars => UNCHANGED skews
    BY DEF Tick, Purge, Restart, vars
  <2>4. \A w \in 0..(MaxNow + Epoch) : SetWall(w) => skews' # 0
    BY DEF SetWall, TypeOK
  <2> QED
    BY <2>1, <2>2, <2>3, <2>4 DEF Next
<1>2. CASE OnlyErases /\ UNCHANGED sealed
  BY <1>1, <1>2 DEF OnlyErases
<1>3. ASSUME NEW m \in Msgs, NEW h \in Handles, NEW mode \in Modes, Seal(m, h, mode)
      PROVE  DowntimeCounts' /\ RestoredInTime'
  BY <1>1, <1>3 DEF Seal, NewSlot, TypeOK, SlotOK
<1>4. ASSUME NEW c \in Callers, NEW h \in Handles, Revive(c, h)
      PROVE  DowntimeCounts' /\ RestoredInTime'
  <2> DEFINE m == caller[c].m
             timer == Armed(sealed[m].expires, caller[c].t)
  <2>1. m \in Msgs /\ HasReading(c)
    BY <1>4 DEF Revive, CallerOK, HasReading
  <2>2. timer # NoTime => /\ timer - now <= sealed[m].at + Window - caller[c].at
                          /\ caller[c].at < sealed[m].at + Window
    BY <1>1, <1>4, <2>1 DEF Revive, Expired, Armed, HonestClocks, SealedOK, TypeOK, CallerRecords
  <2>3. /\ slot' = [slot EXCEPT ![h] = NewSlot(m, timer, caller[c].at)]
        /\ UNCHANGED sealed
    BY <1>4 DEF Revive
  <2> HIDE DEF m, timer
  <2> QED
    BY <1>1, <2>2, <2>3 DEF NewSlot, TypeOK
<1>5. ASSUME NEW h \in Handles, TimerFire(h)
      PROVE  DowntimeCounts' /\ RestoredInTime'
  BY <1>1, <1>5 DEF TimerFire, TypeOK, SlotRecords
<1>6. ASSUME NEW h \in Handles, DropHandle(h)
      PROVE  DowntimeCounts' /\ RestoredInTime'
  BY <1>1, <1>6 DEF DropHandle, TypeOK, SlotRecords
<1>7. CASE Restart
  BY <1>7 DEF Restart
<1> QED
  BY <1>2, <1>3, <1>4, <1>5, <1>6, <1>7, StepKinds

\* While the wall clock is left alone, no number of exports, restarts and
\* restores gives a message more time than it was sealed with, counted from the
\* clock reading each restore is made with, and none made too late succeeds.
THEOREM LifeIsBounded == Spec => [](DowntimeCounts /\ RestoredInTime)
<1>1. Init => HonestClocks /\ DowntimeCounts /\ RestoredInTime
  BY DEF Init, HonestClocks, HasReading, DowntimeCounts, RestoredInTime, ReadBeforeDeadline
<1>2. Shape /\ HonestClocks /\ DowntimeCounts /\ RestoredInTime /\ [Next]_vars
      => HonestClocks' /\ DowntimeCounts' /\ RestoredInTime'
  BY HonestClocksStep, TimersStep
<1> QED
  BY <1>1, <1>2, ShapeInit, ShapeStep, PTL DEF Spec

\* restore never brings a timed message back by a reading made after its end,
\* as long as nobody sets the clock.
THEOREM RestoredOnlyInTime == Spec => []RestoredInTime
BY LifeIsBounded, PTL

----------------------------------------------------------------------------
(* Erasure is permanent *)

\* A message with no row and no holder gets none, unless a live key of it is exported.
LEMMA NoCopyLeaks ==
  ASSUME Shape, [Next]_vars, NEW m \in Msgs, rows[m] = 0, Holders(m) = {},
         exports'[m] = 0 \/ LiveSlots(m) = {}
  PROVE  rows'[m] = 0 /\ Holders(m)' = {}
<1> USE DEF Shape, Holders, LiveSlots
<1>1. ASSUME NEW h \in Handles, HandleStep(h)
      PROVE  rows'[m] = 0 /\ Holders(m)' = {}
  BY <1>1 DEF HandleStep, SealTimeBound, SealReadTriggered, SealCombined, Seal,
              Open, ExpireNow, TimerFire, DropHandle
<1>2. ASSUME NEW c \in Callers, CallerStep(c)
      PROVE  rows'[m] = 0 /\ Holders(m)' = {}
  <2>1. ASSUME NEW h \in Handles, Export(c, h)
        PROVE  rows'[m] = 0 /\ Holders(m)' = {}
    <3>1. slot[h].msg \in Msgs /\ exports'[slot[h].msg] > 0
      BY <2>1 DEF Export, TypeOK, SlotOK
    <3>2. slot[h].msg # m
      BY <2>1, <3>1 DEF Export
    <3> QED
      BY <2>1, <3>2 DEF Export, TypeOK
  <2>2. ASSUME NEW n \in Msgs, Take(c, n)
        PROVE  rows'[m] = 0 /\ Holders(m)' = {}
    BY <2>2 DEF Take, TypeOK
  <2>3. CASE Stage(c)
    BY <2>3 DEF Stage, TypeOK
  <2>4. ASSUME NEW h \in Handles, ReadClockToOpen(c, h) \/ Revive(c, h)
        PROVE  rows'[m] = 0 /\ Holders(m)' = {}
    BY <2>4 DEF ReadClockToOpen, Revive, TypeOK
  <2>5. CASE ReadClockToRestore(c) \/ LoadWatermark(c) \/ StoreWatermark(c)
    <3>1. UNCHANGED rows /\ \A d \in Callers : caller'[d].m = caller[d].m
      <4>1. CASE ReadClockToRestore(c)
        BY <4>1 DEF ReadClockToRestore, TypeOK, CallerRecords
      <4>2. CASE LoadWatermark(c)
        BY <4>2 DEF LoadWatermark, TypeOK, CallerRecords
      <4>3. CASE StoreWatermark(c)
        BY <4>3 DEF StoreWatermark, TypeOK, CallerRecords
      <4> QED
        BY <2>5, <4>1, <4>2, <4>3
    <3> QED
      BY <3>1
  <2>6. CASE StageFails(c) \/ FailClosed(c) \/ FinishGuardedOpen(c) \/ RefuseExpired(c)
    BY <2>6 DEF StageFails, FailClosed, FinishGuardedOpen, RefuseExpired, TypeOK
  <2> QED
    BY <1>2, <2>1, <2>2, <2>3, <2>4, <2>5, <2>6 DEF CallerStep
<1>3. CASE Tick \/ Purge \/ Restart \/ (\E w \in 0..(MaxNow + Epoch) : SetWall(w)) \/ UNCHANGED vars
  BY <1>3 DEF Tick, Purge, Restart, SetWall, vars, TypeOK
<1> QED
  BY <1>1, <1>2, <1>3 DEF Next

LEMMA GoneStep ==
  ASSUME Shape, [Next]_vars, NEW m \in Msgs, Gone(m)
  PROVE  Gone(m)'
<1> USE DEF Shape, Gone, LiveSlots, Holders
<1>1. (LiveSlots(m) = {} /\ IsSealed(m))'
  <2>1. CASE OnlyErases /\ UNCHANGED sealed
    BY <2>1 DEF OnlyErases
  <2>2. ASSUME NEW n \in Msgs, NEW h \in Handles, NEW mode \in Modes, Seal(n, h, mode)
        PROVE  (LiveSlots(m) = {} /\ IsSealed(m))'
    BY <2>2 DEF Seal, NewSlot, TypeOK
  <2>3. ASSUME NEW c \in Callers, NEW h \in Handles, Revive(c, h)
        PROVE  (LiveSlots(m) = {} /\ IsSealed(m))'
    BY <2>3 DEF Revive, NewSlot, TypeOK, CallerOK
  <2>4. ASSUME NEW h \in Handles, TimerFire(h) \/ DropHandle(h)
        PROVE  (LiveSlots(m) = {} /\ IsSealed(m))'
    <3>1. \A g \in Handles : slot'[g].live => slot[g].live /\ slot'[g].msg = slot[g].msg
      <4>1. CASE TimerFire(h)
        BY <4>1 DEF TimerFire, TypeOK, SlotRecords
      <4>2. CASE DropHandle(h)
        BY <4>2 DEF DropHandle, TypeOK, SlotRecords
      <4> QED
        BY <2>4, <4>1, <4>2
    <3>2. UNCHANGED sealed
      BY <2>4 DEF TimerFire, DropHandle
    <3> QED
      BY <3>1, <3>2
  <2>5. CASE Restart
    BY <2>5 DEF Restart
  <2> QED
    BY <2>1, <2>2, <2>3, <2>4, <2>5, StepKinds
<1>2. (rows[m] = 0 /\ Holders(m) = {})'
  BY NoCopyLeaks
<1> QED
  BY <1>1, <1>2

\* A message of which no key is left in a handle, in the holding area or with a
\* caller is never readable again, in this process or after any restart.
THEOREM ErasureIsPermanent == Spec => GoneIsForever
<1>1. Shape /\ [Next]_vars => [\A m \in Msgs : Gone(m) => Gone(m)']_vars
  BY GoneStep
<1> QED
  BY <1>1, ShapeInit, ShapeStep, PTL DEF Spec, GoneIsForever

----------------------------------------------------------------------------
(* Read once *)

\* Before a message is exported its only copy is in the one handle it was
\* sealed into, and a successful read of a message that erases on read left
\* no copy there either.
Unexported(m) ==
  /\ ~IsSealed(m) => reads[m] = 0
  /\ exports[m] = 0 =>
       /\ rows[m] = 0
       /\ Holders(m) = {}
       /\ \A g, h \in LiveSlots(m) : g = h
       /\ ErasesOnRead(sealed[m].mode) =>
            /\ reads[m] <= 1
            /\ reads[m] = 1 => LiveSlots(m) = {}

\* Nothing is exported unless Export is taken, and only opening counts reads.
LEMMA CountsStep ==
  ASSUME Shape, [Next]_vars, NEW m \in Msgs
  PROVE  /\ exports'[m] = 0 => exports[m] = 0
         /\ \/ UNCHANGED reads
            \/ \E h \in Handles : slot[h].owned /\ Opened(h) /\ UNCHANGED sealed
<1> USE DEF Shape
<1>1. ASSUME NEW h \in Handles, HandleStep(h)
      PROVE  /\ UNCHANGED exports
             /\ UNCHANGED reads \/ (slot[h].owned /\ Opened(h) /\ UNCHANGED sealed)
  BY <1>1 DEF HandleStep, SealTimeBound, SealReadTriggered, SealCombined, Seal, Open,
              ExpireNow, TimerFire, DropHandle
<1>2. ASSUME NEW c \in Callers, CallerStep(c)
      PROVE  /\ exports'[m] = 0 => exports[m] = 0
             /\ \/ UNCHANGED reads
                \/ \E h \in Handles : slot[h].owned /\ Opened(h) /\ UNCHANGED sealed
  <2>1. ASSUME NEW h \in Handles, Export(c, h)
        PROVE  UNCHANGED reads /\ (exports'[m] = 0 => exports[m] = 0)
    BY <2>1 DEF Export, TypeOK
  <2>2. CASE FinishGuardedOpen(c)
    BY <2>2 DEF FinishGuardedOpen, CallerOK
  <2> QED
    BY <1>2, <2>1, <2>2
    DEF CallerStep, ReadClockToOpen, Revive, Take, Stage, StageFails, ReadClockToRestore,
        LoadWatermark, StoreWatermark, FailClosed, RefuseExpired
<1>3. Tick \/ Purge \/ Restart \/ (\E w \in 0..(MaxNow + Epoch) : SetWall(w)) \/ UNCHANGED vars
      => UNCHANGED history
  BY DEF Tick, Purge, Restart, SetWall, vars
<1> QED
  BY <1>1, <1>2, <1>3 DEF Next

\* Without exports a step moves the only copy of a message, or spends it.
LEMMA LiveSlotsStep ==
  ASSUME Shape, [Next]_vars, NEW m \in Msgs, IsSealed(m), Holders(m) = {}
  PROVE  LiveSlots(m)' \subseteq LiveSlots(m) /\ UNCHANGED sealed[m]
<1> USE DEF Shape, LiveSlots
<1>1. CASE OnlyErases /\ UNCHANGED sealed
  BY <1>1 DEF OnlyErases
<1>2. ASSUME NEW n \in Msgs, NEW h \in Handles, NEW mode \in Modes, Seal(n, h, mode)
      PROVE  LiveSlots(m)' \subseteq LiveSlots(m) /\ UNCHANGED sealed[m]
  BY <1>2 DEF Seal, NewSlot, TypeOK
<1>3. ASSUME NEW c \in Callers, NEW h \in Handles, Revive(c, h)
      PROVE  LiveSlots(m)' \subseteq LiveSlots(m) /\ UNCHANGED sealed[m]
  BY <1>3 DEF Revive, NewSlot, TypeOK, CallerOK, Holders
<1>4. ASSUME NEW h \in Handles, TimerFire(h) \/ DropHandle(h)
      PROVE  LiveSlots(m)' \subseteq LiveSlots(m) /\ UNCHANGED sealed[m]
  <2>1. \A g \in Handles : slot'[g].live => slot[g].live /\ slot'[g].msg = slot[g].msg
    <3>1. CASE TimerFire(h)
      BY <3>1 DEF TimerFire, TypeOK, SlotRecords
    <3>2. CASE DropHandle(h)
      BY <3>2 DEF DropHandle, TypeOK, SlotRecords
    <3> QED
      BY <1>4, <3>1, <3>2
  <2> QED
    BY <1>4, <2>1 DEF TimerFire, DropHandle
<1>5. CASE Restart
  BY <1>5 DEF Restart
<1> QED
  BY <1>1, <1>2, <1>3, <1>4, <1>5, StepKinds

\* A sealed message stays sealed.
LEMMA SealedStays ==
  ASSUME Shape, [Next]_vars, NEW m \in Msgs, IsSealed(m)
  PROVE  IsSealed(m)'
<1>1. ASSUME NEW n \in Msgs, NEW h \in Handles, NEW mode \in Modes, Seal(n, h, mode)
      PROVE  IsSealed(m)'
  BY <1>1 DEF Seal, Shape, TypeOK
<1>2. CASE UNCHANGED sealed
  BY <1>2
<1> QED
  BY <1>1, <1>2, StepKinds DEF Revive, TimerFire, DropHandle, Restart

\* A message that is not sealed has no key, and sealing gives it one.
LEMMA SealingStep ==
  ASSUME Shape, [Next]_vars, NEW m \in Msgs, ~IsSealed(m)
  PROVE  \A g, h \in LiveSlots(m)' : g = h
<1> USE DEF Shape, LiveSlots
<1>1. \A g \in Handles : slot[g].live => slot[g].msg # m
  BY DEF SlotOK
<1>2. CASE OnlyErases /\ UNCHANGED sealed
  BY <1>1, <1>2 DEF OnlyErases
<1>3. ASSUME NEW n \in Msgs, NEW h \in Handles, NEW mode \in Modes, Seal(n, h, mode)
      PROVE  \A g \in LiveSlots(m)' : g = h
  BY <1>1, <1>3 DEF Seal, NewSlot, TypeOK
<1>4. ASSUME NEW c \in Callers, NEW h \in Handles, Revive(c, h)
      PROVE  LiveSlots(m)' = {}
  <2>1. caller[c].m # m
    BY <1>4 DEF Revive, CallerOK
  <2> QED
    BY <1>1, <1>4, <2>1 DEF Revive, NewSlot, TypeOK
<1>5. ASSUME NEW h \in Handles, TimerFire(h) \/ DropHandle(h)
      PROVE  LiveSlots(m)' = {}
  <2>1. \A g \in Handles : slot'[g].live => slot[g].live /\ slot'[g].msg = slot[g].msg
    <3>1. CASE TimerFire(h)
      BY <3>1 DEF TimerFire, TypeOK, SlotRecords
    <3>2. CASE DropHandle(h)
      BY <3>2 DEF DropHandle, TypeOK, SlotRecords
    <3> QED
      BY <1>5, <3>1, <3>2
  <2> QED
    BY <1>1, <2>1
<1>6. CASE Restart
  BY <1>6 DEF Restart
<1> QED
  BY <1>2, <1>3, <1>4, <1>5, <1>6, StepKinds

\* An open of the only live handle of m counts one read and, when m erases on
\* read, leaves no live handle.
LEMMA OpenedOnce ==
  ASSUME Shape, NEW m \in Msgs, NEW h \in Handles, slot[h].owned, Opened(h),
         ErasesOnRead(sealed[m].mode),
         \A g, k \in LiveSlots(m) : g = k,
         reads[m] <= 1, reads[m] = 1 => LiveSlots(m) = {}
  PROVE  reads'[m] <= 1 /\ (reads'[m] = 1 => LiveSlots(m)' = {})
<1> USE DEF Shape, LiveSlots
<1>0. reads[m] \in Nat /\ OnlyErases
  BY OpenedOnlyErases DEF TypeOK
<1>1. CASE slot[h].live /\ slot[h].msg = m
  <2>1. reads[m] = 0
    BY <1>0, <1>1
  <2>2. reads'[m] <= 1
    BY <1>1, <2>1 DEF Opened, TypeOK
  <2>3. slot' = Erase(h)
    BY <1>1 DEF Opened
  <2>4. ~slot'[h].live
    BY <2>3, EraseOnlyErases
  <2>5. LiveSlots(m)' = {}
    BY <1>0, <1>1, <2>4 DEF OnlyErases
  <2> QED
    BY <2>2, <2>5
<1>2. CASE ~(slot[h].live /\ slot[h].msg = m)
  <2>1. slot[h].msg \in Msgs
    BY DEF SlotOK
  <2>2. reads'[m] = reads[m]
    BY <1>2, <2>1 DEF Opened, TypeOK
  <2>3. LiveSlots(m)' \subseteq LiveSlots(m)
    BY <1>0 DEF OnlyErases
  <2> QED
    BY <2>2, <2>3
<1> QED
  BY <1>1, <1>2

LEMMA UnexportedStep ==
  ASSUME Shape, [Next]_vars, NEW m \in Msgs, Unexported(m)
  PROVE  Unexported(m)'
<1> USE DEF Shape
<1>1. CASE ~IsSealed(m)
  <2>1. reads[m] = 0
    BY <1>1 DEF Unexported
  <2>2. reads'[m] = 0
    <3>1. ASSUME NEW h \in Handles, slot[h].owned, Opened(h)
          PROVE  reads'[m] = reads[m]
      <4>1. slot[h].msg \in Msgs /\ slot[h].msg # m
        BY <1>1, <3>1 DEF SlotOK
      <4> QED
        BY <3>1, <4>1 DEF Opened, TypeOK
    <3> QED
      BY <2>1, <3>1, CountsStep
  <2>3. exports'[m] = 0 => exports[m] = 0
    BY CountsStep
  <2>4. exports'[m] = 0 => rows'[m] = 0 /\ Holders(m)' = {}
    BY <2>3, NoCopyLeaks DEF Unexported
  <2> QED
    BY <1>1, <2>2, <2>4, SealingStep DEF Unexported
<1>2. CASE IsSealed(m)
  <2>1. IsSealed(m)'
    BY <1>2, SealedStays
  <2>2. ASSUME exports'[m] = 0
        PROVE  /\ rows'[m] = 0
               /\ Holders(m)' = {}
               /\ \A g, h \in LiveSlots(m)' : g = h
               /\ ErasesOnRead(sealed'[m].mode) =>
                    /\ reads'[m] <= 1
                    /\ reads'[m] = 1 => LiveSlots(m)' = {}
    <3>1. exports[m] = 0
      BY <2>2, CountsStep
    <3>2. rows'[m] = 0 /\ Holders(m)' = {}
      BY <2>2, <3>1, NoCopyLeaks DEF Unexported
    <3>3. LiveSlots(m)' \subseteq LiveSlots(m) /\ sealed'[m] = sealed[m]
      BY <1>2, <3>1, LiveSlotsStep DEF Unexported
    <3>4. \A g, h \in LiveSlots(m)' : g = h
      BY <3>1, <3>3 DEF Unexported
    <3>5. ASSUME ErasesOnRead(sealed'[m].mode)
          PROVE  reads'[m] <= 1 /\ (reads'[m] = 1 => LiveSlots(m)' = {})
      <4>1. ErasesOnRead(sealed[m].mode)
        BY <3>3, <3>5
      <4>2. /\ \A g, k \in LiveSlots(m) : g = k
            /\ reads[m] <= 1
            /\ reads[m] = 1 => LiveSlots(m) = {}
        BY <3>1, <4>1 DEF Unexported
      <4>3. CASE UNCHANGED reads
        BY <3>3, <4>2, <4>3
      <4>4. ASSUME NEW h \in Handles, slot[h].owned, Opened(h)
            PROVE  reads'[m] <= 1 /\ (reads'[m] = 1 => LiveSlots(m)' = {})
        BY <4>1, <4>2, <4>4, OpenedOnce
      <4> QED
        BY <4>3, <4>4, CountsStep
    <3> QED
      BY <3>2, <3>4, <3>5
  <2> QED
    BY <2>1, <2>2 DEF Unexported
<1> QED
  BY <1>1, <1>2

\* A message sealed to be erased on reading and never exported gives its
\* plaintext once at most, and once it has no copy of its key is left.
THEOREM ReadAtMostOnce == Spec => []ReadOnce
<1> DEFINE AllUnexported == \A m \in Msgs : Unexported(m)
<1>1. Init => AllUnexported
  BY DEF Init, Unexported, LiveSlots, Holders, ErasesOnRead
<1>2. Shape /\ AllUnexported /\ [Next]_vars => AllUnexported'
  BY UnexportedStep
<1>3. Shape /\ AllUnexported => ReadOnce
  BY DEF Unexported, ReadOnce
<1> QED
  BY <1>1, <1>2, <1>3, ShapeInit, ShapeStep, PTL DEF Spec

----------------------------------------------------------------------------
(* Copies are conserved *)

LEMMA SubCount ==
  ASSUME NEW S, IsFiniteSet(S), NEW T \in SUBSET S
  PROVE  /\ IsFiniteSet(T) /\ Cardinality(T) \in Nat /\ Cardinality(S) \in Nat
         /\ Cardinality(T) <= Cardinality(S)
BY FS_Subset, FS_CardinalityType

LEMMA GainCount ==
  ASSUME NEW S, IsFiniteSet(S), NEW x, NEW T \in SUBSET (S \cup {x})
  PROVE  /\ IsFiniteSet(T) /\ Cardinality(T) \in Nat /\ Cardinality(S) \in Nat
         /\ Cardinality(T) <= Cardinality(S) + 1
<1> DEFINE U == S \cup {x}
<1>1. IsFiniteSet(U) /\ (Cardinality(U) = Cardinality(S) \/ Cardinality(U) = Cardinality(S) + 1)
  BY FS_AddElement
<1>2. IsFiniteSet(T) /\ Cardinality(T) <= Cardinality(U)
  BY <1>1, SubCount
<1>3. Cardinality(S) \in Nat /\ Cardinality(T) \in Nat /\ Cardinality(U) \in Nat
  BY <1>1, <1>2, FS_CardinalityType
<1> HIDE DEF U
<1> QED
  BY <1>1, <1>2, <1>3

LEMMA DropCount ==
  ASSUME NEW S, IsFiniteSet(S), NEW x \in S, NEW T \in SUBSET (S \ {x})
  PROVE  /\ IsFiniteSet(T) /\ Cardinality(T) \in Nat /\ Cardinality(S) \in Nat
         /\ Cardinality(T) + 1 <= Cardinality(S)
<1> DEFINE U == S \ {x}
<1>1. IsFiniteSet(U) /\ Cardinality(U) = Cardinality(S) - 1
  BY FS_RemoveElement
<1>2. IsFiniteSet(T) /\ Cardinality(T) <= Cardinality(U)
  BY <1>1, SubCount
<1>3. Cardinality(S) \in Nat /\ Cardinality(T) \in Nat
  BY <1>2, FS_CardinalityType
<1> HIDE DEF U
<1> QED
  BY <1>1, <1>2, <1>3

\* What a step does to the copies of m: at most one goes from one place to the
\* next, an open spends one, an export makes one.
NoGain(m) ==
  /\ LiveSlots(m)' \subseteq LiveSlots(m) /\ Holders(m)' \subseteq Holders(m)
  /\ rows'[m] <= rows[m] /\ reads'[m] = reads[m] /\ exports'[m] = exports[m]
Exports(c, m) ==
  /\ LiveSlots(m)' \subseteq LiveSlots(m) /\ Holders(m)' \subseteq Holders(m) \cup {c}
  /\ rows'[m] = rows[m] /\ reads'[m] = reads[m] /\ exports'[m] = exports[m] + 1
Stages(c, m) ==
  /\ c \in Holders(m)
  /\ LiveSlots(m)' \subseteq LiveSlots(m) /\ Holders(m)' \subseteq Holders(m) \ {c}
  /\ rows'[m] = rows[m] + 1 /\ reads'[m] = reads[m] /\ exports'[m] = exports[m]
Takes(c, m) ==
  /\ LiveSlots(m)' \subseteq LiveSlots(m) /\ Holders(m)' \subseteq Holders(m) \cup {c}
  /\ rows'[m] = rows[m] - 1 /\ reads'[m] = reads[m] /\ exports'[m] = exports[m]
Revives(c, h, m) ==
  /\ c \in Holders(m)
  /\ LiveSlots(m)' \subseteq LiveSlots(m) \cup {h} /\ Holders(m)' \subseteq Holders(m) \ {c}
  /\ rows'[m] = rows[m] /\ reads'[m] = reads[m] /\ exports'[m] = exports[m]
Spends(h, m) ==
  /\ h \in LiveSlots(m)
  /\ ErasesOnRead(sealed[m].mode) => LiveSlots(m)' \subseteq LiveSlots(m) \ {h}
  /\ LiveSlots(m)' \subseteq LiveSlots(m) /\ Holders(m)' \subseteq Holders(m)
  /\ rows'[m] = rows[m] /\ reads'[m] <= reads[m] + 1 /\ exports'[m] = exports[m]
Moves(m) ==
  \/ NoGain(m)
  \/ \E c \in Callers : Exports(c, m) \/ Stages(c, m) \/ Takes(c, m)
  \/ \E c \in Callers, h \in Handles : Revives(c, h, m)
  \/ \E h \in Handles : Spends(h, m)

LEMMA OpenedSpends ==
  ASSUME Shape, NEW m \in Msgs, NEW h \in Handles, slot[h].owned, Opened(h),
         Holders(m)' \subseteq Holders(m), UNCHANGED <<rows, exports, sealed>>
  PROVE  NoGain(m) \/ Spends(h, m)
<1> USE DEF Shape
<1>1. OnlyErases /\ reads[m] \in Nat /\ rows[m] \in Nat
  BY OpenedOnlyErases DEF TypeOK
<1>2. LiveSlots(m)' \subseteq LiveSlots(m)
  BY <1>1 DEF OnlyErases, LiveSlots
<1>3. ASSUME slot[h].live, slot[h].msg = m
      PROVE  Spends(h, m)
  <2>1. h \in LiveSlots(m)
    BY <1>3 DEF LiveSlots
  <2>2. reads'[m] <= reads[m] + 1
    BY <1>1, <1>3 DEF Opened, TypeOK
  <2>3. ErasesOnRead(sealed[m].mode) => ~slot'[h].live
    BY <1>3, EraseOnlyErases DEF Opened
  <2>4. ErasesOnRead(sealed[m].mode) => LiveSlots(m)' \subseteq LiveSlots(m) \ {h}
    BY <1>2, <2>3 DEF LiveSlots
  <2> QED
    BY <1>2, <2>1, <2>2, <2>4 DEF Spends
<1>4. ASSUME ~(slot[h].live /\ slot[h].msg = m)
      PROVE  NoGain(m)
  <2>1. slot[h].msg \in Msgs
    BY DEF SlotOK
  <2>2. reads'[m] = reads[m]
    BY <1>4, <2>1 DEF Opened, TypeOK
  <2> QED
    BY <1>1, <1>2, <2>2 DEF NoGain
<1> QED
  BY <1>3, <1>4

LEMMA MovesStep ==
  ASSUME Shape, [Next]_vars, NEW m \in Msgs, IsSealed(m)
  PROVE  Moves(m) /\ UNCHANGED sealed[m]
<1> USE DEF Shape
<1>0. /\ rows[m] \in Nat /\ exports[m] \in Nat /\ reads[m] \in Nat
      /\ slot \in [Handles -> SlotRecords] /\ caller \in [Callers -> CallerRecords]
      /\ rows \in [Msgs -> Nat] /\ exports \in [Msgs -> Nat] /\ sealed \in [Msgs -> SealedRecords]
  BY DEF TypeOK
\* Steps that give nobody a key, or a state, of m.
<1>1. ASSUME UNCHANGED <<rows, exports, reads, sealed>>,
             \A h \in Handles : slot'[h].live => slot[h].live /\ slot'[h].msg = slot[h].msg,
             \A c \in Callers : caller'[c].m = m => caller[c].m = m
      PROVE  NoGain(m) /\ UNCHANGED sealed[m]
  BY <1>0, <1>1 DEF NoGain, LiveSlots, Holders
<1>2. ASSUME Tick \/ (\E w \in 0..(MaxNow + Epoch) : SetWall(w)) \/ UNCHANGED vars
      PROVE  NoGain(m) /\ UNCHANGED sealed[m]
  BY <1>1, <1>2 DEF Tick, SetWall, vars
<1>3. ASSUME NEW n \in Msgs, NEW h \in Handles, NEW mode \in Modes, Seal(n, h, mode)
      PROVE  NoGain(m) /\ UNCHANGED sealed[m]
  <2>1. n # m /\ sealed'[m] = sealed[m]
    BY <1>0, <1>3 DEF Seal
  <2>2. \A g \in Handles : slot'[g].live /\ slot'[g].msg = m => slot[g].live /\ slot[g].msg = m
    BY <1>0, <1>3, <2>1 DEF Seal, NewSlot
  <2>3. LiveSlots(m)' \subseteq LiveSlots(m)
    BY <2>2 DEF LiveSlots
  <2>4. UNCHANGED <<rows, exports, reads, caller>>
    BY <1>3 DEF Seal
  <2> QED
    BY <1>0, <2>1, <2>3, <2>4 DEF NoGain, Holders
<1>4. ASSUME NEW h \in Handles, Open(h)
      PROVE  Moves(m) /\ UNCHANGED sealed[m]
  <2>1. /\ slot[h].owned /\ Opened(h) /\ UNCHANGED <<rows, exports, sealed, caller>>
    BY <1>4 DEF Open
  <2> QED
    BY <2>1, OpenedSpends DEF Moves, Holders
<1>5. ASSUME NEW h \in Handles, ExpireNow(h)
      PROVE  NoGain(m) /\ UNCHANGED sealed[m]
  <2>1. OnlyErases
    BY <1>5, EraseOnlyErases DEF ExpireNow
  <2> QED
    BY <1>1, <1>5, <2>1 DEF ExpireNow, OnlyErases
<1>6. ASSUME NEW h \in Handles, TimerFire(h) \/ DropHandle(h)
      PROVE  NoGain(m) /\ UNCHANGED sealed[m]
  <2>1. \A g \in Handles : slot'[g].live => slot[g].live /\ slot'[g].msg = slot[g].msg
    <3>1. CASE TimerFire(h)
      BY <3>1 DEF TimerFire, TypeOK, SlotRecords
    <3>2. CASE DropHandle(h)
      BY <3>2 DEF DropHandle, TypeOK, SlotRecords
    <3> QED
      BY <1>6, <3>1, <3>2
  <2> QED
    BY <1>1, <1>6, <2>1 DEF TimerFire, DropHandle
<1>7. ASSUME NEW c \in Callers, NEW h \in Handles, Export(c, h)
      PROVE  Moves(m) /\ UNCHANGED sealed[m]
  <2>1. /\ UNCHANGED <<slot, rows, reads, sealed>> /\ slot[h].msg \in Msgs
        /\ exports' = [exports EXCEPT ![slot[h].msg] = @ + 1]
        /\ \A d \in Callers : d # c => caller'[d] = caller[d]
        /\ caller'[c].m = slot[h].msg
    BY <1>0, <1>7 DEF Export, SlotOK
  <2>2. CASE slot[h].msg = m
    <3>1. Holders(m)' \subseteq Holders(m) \cup {c}
      BY <2>1 DEF Holders
    <3>2. exports'[m] = exports[m] + 1
      BY <1>0, <2>1, <2>2
    <3> QED
      BY <2>1, <3>1, <3>2 DEF Moves, Exports, LiveSlots
  <2>3. CASE slot[h].msg # m
    <3>1. exports'[m] = exports[m]
      BY <1>0, <2>1, <2>3
    <3>2. Holders(m)' \subseteq Holders(m)
      BY <2>1, <2>3 DEF Holders
    <3> QED
      BY <1>0, <2>1, <3>1, <3>2 DEF Moves, NoGain, LiveSlots
  <2> QED
    BY <2>2, <2>3
<1>8. ASSUME NEW c \in Callers, Stage(c)
      PROVE  Moves(m) /\ UNCHANGED sealed[m]
  <2>1. /\ UNCHANGED <<slot, exports, reads, sealed>> /\ caller[c].m \in Msgs
        /\ rows' = [rows EXCEPT ![caller[c].m] = @ + 1]
        /\ \A d \in Callers : d # c => caller'[d] = caller[d]
        /\ caller'[c].m = None
    BY <1>0, <1>8 DEF Stage, CallerOK
  <2>2. Holders(m)' \subseteq Holders(m) \ {c}
    BY <2>1 DEF Holders
  <2>3. CASE caller[c].m = m
    <3>1. c \in Holders(m) /\ rows'[m] = rows[m] + 1
      BY <1>0, <2>1, <2>3 DEF Holders
    <3> QED
      BY <2>1, <2>2, <3>1 DEF Moves, Stages, LiveSlots
  <2>4. CASE caller[c].m # m
    <3>1. rows'[m] = rows[m]
      BY <1>0, <2>1, <2>4
    <3> QED
      BY <1>0, <2>1, <2>2, <3>1 DEF Moves, NoGain, LiveSlots
  <2> QED
    BY <2>3, <2>4
<1>9. ASSUME NEW c \in Callers, NEW n \in Msgs, Take(c, n)
      PROVE  Moves(m) /\ UNCHANGED sealed[m]
  <2>1. /\ UNCHANGED <<slot, exports, reads, sealed>>
        /\ rows' = [rows EXCEPT ![n] = @ - 1]
        /\ \A d \in Callers : d # c => caller'[d] = caller[d]
        /\ caller'[c].m = n
    BY <1>0, <1>9 DEF Take
  <2>2. CASE n = m
    <3>1. Holders(m)' \subseteq Holders(m) \cup {c}
      BY <2>1 DEF Holders
    <3>2. rows'[m] = rows[m] - 1
      BY <1>0, <2>1, <2>2
    <3> QED
      BY <2>1, <3>1, <3>2 DEF Moves, Takes, LiveSlots
  <2>3. CASE n # m
    <3>1. rows'[m] = rows[m]
      BY <1>0, <2>1, <2>3
    <3>2. Holders(m)' \subseteq Holders(m)
      BY <2>1, <2>3 DEF Holders
    <3> QED
      BY <1>0, <2>1, <3>1, <3>2 DEF Moves, NoGain, LiveSlots
  <2> QED
    BY <2>2, <2>3
<1>10. ASSUME NEW c \in Callers, NEW h \in Handles, Revive(c, h)
       PROVE  Moves(m) /\ UNCHANGED sealed[m]
  <2>1. /\ UNCHANGED <<rows, exports, reads, sealed>>
        /\ \A d \in Callers : d # c => caller'[d] = caller[d]
        /\ caller'[c].m = None
        /\ \A g \in Handles : g # h => slot'[g] = slot[g]
        /\ slot'[h].msg = caller[c].m
    BY <1>0, <1>10 DEF Revive, NewSlot
  <2>2. Holders(m)' \subseteq Holders(m) \ {c}
    BY <2>1 DEF Holders
  <2>3. CASE caller[c].m = m
    <3>1. c \in Holders(m) /\ LiveSlots(m)' \subseteq LiveSlots(m) \cup {h}
      BY <2>1, <2>3 DEF Holders, LiveSlots
    <3> QED
      BY <2>1, <2>2, <3>1 DEF Moves, Revives
  <2>4. CASE caller[c].m # m
    <3>1. LiveSlots(m)' \subseteq LiveSlots(m)
      BY <2>1, <2>4 DEF LiveSlots
    <3> QED
      BY <1>0, <2>1, <2>2, <3>1 DEF Moves, NoGain
  <2> QED
    BY <2>3, <2>4
<1>11. ASSUME NEW c \in Callers, FinishGuardedOpen(c)
       PROVE  Moves(m) /\ UNCHANGED sealed[m]
  <2>1. /\ caller[c].h \in Handles /\ slot[caller[c].h].owned
        /\ Opened(caller[c].h) /\ UNCHANGED <<rows, exports, sealed>>
        /\ caller' = [caller EXCEPT ![c] = Idle]
    BY <1>11 DEF FinishGuardedOpen, CallerOK
  <2>2. Holders(m)' \subseteq Holders(m)
    BY <1>0, <2>1 DEF Holders
  <2> QED
    BY <2>1, <2>2, OpenedSpends DEF Moves
<1>12. ASSUME NEW c \in Callers, FailClosed(c)
       PROVE  NoGain(m) /\ UNCHANGED sealed[m]
  <2>1. OnlyErases
    BY <1>12, EraseOnlyErases, UnchangedOnlyErases DEF FailClosed, CallerOK
  <2>2. \A d \in Callers : caller'[d].m = m => caller[d].m = m
    BY <1>0, <1>12 DEF FailClosed
  <2> QED
    BY <1>1, <1>12, <2>1, <2>2 DEF FailClosed, OnlyErases
<1>13. ASSUME NEW c \in Callers,
              \/ StageFails(c) \/ ReadClockToRestore(c) \/ LoadWatermark(c)
              \/ StoreWatermark(c) \/ RefuseExpired(c)
              \/ \E h \in Handles : ReadClockToOpen(c, h)
       PROVE  NoGain(m) /\ UNCHANGED sealed[m]
  <2>1. UNCHANGED <<slot, rows, exports, reads, sealed>>
    BY <1>13 DEF StageFails, ReadClockToRestore, LoadWatermark, StoreWatermark, RefuseExpired, ReadClockToOpen
  <2>2. /\ \A d \in Callers : d # c => caller'[d] = caller[d]
        /\ caller'[c].m \in {caller[c].m, None}
    <3>1. ASSUME StageFails(c) \/ RefuseExpired(c) \/ \E h \in Handles : ReadClockToOpen(c, h)
          PROVE  (\A d \in Callers : d # c => caller'[d] = caller[d]) /\ caller'[c].m = None
      BY <1>0, <3>1 DEF StageFails, RefuseExpired, ReadClockToOpen
    <3>2. ASSUME ReadClockToRestore(c) \/ LoadWatermark(c) \/ StoreWatermark(c)
          PROVE  (\A d \in Callers : d # c => caller'[d] = caller[d]) /\ caller'[c].m = caller[c].m
      <4> DEFINE r == caller[c]
      <4>1. r \in CallerRecords
        BY <1>0
      <4>2. ASSUME NEW s, s.m = r.m, caller' = [caller EXCEPT ![c] = s]
            PROVE  (\A d \in Callers : d # c => caller'[d] = caller[d]) /\ caller'[c].m = caller[c].m
        BY <1>0, <4>2
      <4>3. \A p, t, a : [r EXCEPT !.pc = p].m = r.m /\ [r EXCEPT !.pc = p, !.t = t, !.at = a].m = r.m
        BY <4>1 DEF CallerRecords
      <4>4. \/ \E p : caller' = [caller EXCEPT ![c] = [r EXCEPT !.pc = p]]
            \/ \E p, t, a : caller' = [caller EXCEPT ![c] = [r EXCEPT !.pc = p, !.t = t, !.at = a]]
        BY <3>2 DEF ReadClockToRestore, LoadWatermark, StoreWatermark
      <4>5. ASSUME NEW p, caller' = [caller EXCEPT ![c] = [r EXCEPT !.pc = p]]
            PROVE  (\A d \in Callers : d # c => caller'[d] = caller[d]) /\ caller'[c].m = caller[c].m
        BY <4>2, <4>3, <4>5
      <4>6. ASSUME NEW p, NEW t, NEW a, caller' = [caller EXCEPT ![c] = [r EXCEPT !.pc = p, !.t = t, !.at = a]]
            PROVE  (\A d \in Callers : d # c => caller'[d] = caller[d]) /\ caller'[c].m = caller[c].m
        <5> DEFINE s == [r EXCEPT !.pc = p, !.t = t, !.at = a]
        <5>1. s.m = r.m
          BY <4>3
        <5>2. caller' = [caller EXCEPT ![c] = s]
          BY <4>6
        <5> HIDE DEF s, r
        <5> QED
          BY <4>2, <5>1, <5>2
      <4> QED
        BY <4>4, <4>5, <4>6
    <3> QED
      BY <1>13, <3>1, <3>2
  <2>3. \A d \in Callers : caller'[d].m = m => caller[d].m = m
    BY <2>2
  <2> QED
    BY <1>1, <2>1, <2>3
<1>14. ASSUME Purge
       PROVE  NoGain(m) /\ UNCHANGED sealed[m]
  <2>1. UNCHANGED <<slot, caller, exports, reads, sealed>> /\ rows'[m] <= rows[m]
    BY <1>0, <1>14 DEF Purge
  <2> QED
    BY <2>1 DEF NoGain, LiveSlots, Holders
<1>15. ASSUME Restart
       PROVE  NoGain(m) /\ UNCHANGED sealed[m]
  BY <1>1, <1>15 DEF Restart
<1> QED
  BY <1>2, <1>3, <1>4, <1>5, <1>6, <1>7, <1>8, <1>9, <1>10, <1>11, <1>12, <1>13, <1>14, <1>15
  DEF Next, HandleStep, CallerStep, SealTimeBound, SealReadTriggered, SealCombined, Moves

\* The inductive invariant.  That the sets are finite makes sense of their
\* cardinality whatever the constants are.
Conserved(m) ==
  /\ IsFiniteSet(LiveSlots(m)) /\ IsFiniteSet(Holders(m))
  /\ ErasesOnRead(sealed[m].mode) => reads[m] + Copies(m) <= 1 + exports[m]

LEMMA ConservedMoves ==
  ASSUME Shape, Shape', NEW m \in Msgs, Conserved(m), Moves(m), UNCHANGED sealed[m]
  PROVE  Conserved(m)'
<1> DEFINE L == LiveSlots(m)
           K == LiveSlots(m)'
           H == Holders(m)
           G == Holders(m)'
<1>1. IsFiniteSet(L) /\ IsFiniteSet(H)
  BY DEF Conserved
<1>2. /\ reads[m] \in Nat /\ rows[m] \in Nat /\ exports[m] \in Nat
      /\ reads'[m] \in Nat /\ rows'[m] \in Nat /\ exports'[m] \in Nat
  BY DEF Shape, TypeOK
<1> DEFINE Total == reads[m] + (Cardinality(L) + rows[m] + Cardinality(H))
           Next_ == reads'[m] + (Cardinality(K) + rows'[m] + Cardinality(G))
           Kept_ == /\ IsFiniteSet(K) /\ IsFiniteSet(G)
                    /\ ErasesOnRead(sealed[m].mode) /\ Total <= 1 + exports[m] => Next_ <= 1 + exports'[m]
<1>3. Kept_ => Conserved(m)'
  BY DEF Conserved, Copies
<1> HIDE DEF L, K, H, G
<1>4. CASE NoGain(m)
  <2>1. K \in SUBSET L /\ G \in SUBSET H
    BY <1>4 DEF NoGain, L, K, H, G
  <2>2. /\ IsFiniteSet(K) /\ Cardinality(K) \in Nat /\ Cardinality(L) \in Nat /\ Cardinality(K) <= Cardinality(L)
        /\ IsFiniteSet(G) /\ Cardinality(G) \in Nat /\ Cardinality(H) \in Nat /\ Cardinality(G) <= Cardinality(H)
    BY <1>1, <2>1, SubCount
  <2>3. rows'[m] <= rows[m] /\ reads'[m] = reads[m] /\ exports'[m] = exports[m]
    BY <1>4 DEF NoGain
  <2> QED
    BY <1>2, <1>3, <2>2, <2>3
<1>5. ASSUME NEW c \in Callers, Exports(c, m)
      PROVE  Conserved(m)'
  <2>1. K \in SUBSET L /\ G \in SUBSET (H \cup {c})
    BY <1>5 DEF Exports, L, K, H, G
  <2>2. /\ IsFiniteSet(K) /\ Cardinality(K) \in Nat /\ Cardinality(L) \in Nat /\ Cardinality(K) <= Cardinality(L)
    BY <1>1, <2>1, SubCount
  <2>3. /\ IsFiniteSet(G) /\ Cardinality(G) \in Nat /\ Cardinality(H) \in Nat /\ Cardinality(G) <= Cardinality(H) + 1
    BY <1>1, <2>1, GainCount
  <2>4. rows'[m] = rows[m] /\ reads'[m] = reads[m] /\ exports'[m] = exports[m] + 1
    BY <1>5 DEF Exports
  <2> QED
    BY <1>2, <1>3, <2>2, <2>3, <2>4
<1>6. ASSUME NEW c \in Callers, Stages(c, m)
      PROVE  Conserved(m)'
  <2>1. K \in SUBSET L /\ G \in SUBSET (H \ {c}) /\ c \in H
    BY <1>6 DEF Stages, L, K, H, G
  <2>2. /\ IsFiniteSet(K) /\ Cardinality(K) \in Nat /\ Cardinality(L) \in Nat /\ Cardinality(K) <= Cardinality(L)
    BY <1>1, <2>1, SubCount
  <2>3. /\ IsFiniteSet(G) /\ Cardinality(G) \in Nat /\ Cardinality(H) \in Nat /\ Cardinality(G) + 1 <= Cardinality(H)
    BY <1>1, <2>1, DropCount
  <2>4. rows'[m] = rows[m] + 1 /\ reads'[m] = reads[m] /\ exports'[m] = exports[m]
    BY <1>6 DEF Stages
  <2> QED
    BY <1>2, <1>3, <2>2, <2>3, <2>4
<1>7. ASSUME NEW c \in Callers, Takes(c, m)
      PROVE  Conserved(m)'
  <2>1. K \in SUBSET L /\ G \in SUBSET (H \cup {c})
    BY <1>7 DEF Takes, L, K, H, G
  <2>2. /\ IsFiniteSet(K) /\ Cardinality(K) \in Nat /\ Cardinality(L) \in Nat /\ Cardinality(K) <= Cardinality(L)
    BY <1>1, <2>1, SubCount
  <2>3. /\ IsFiniteSet(G) /\ Cardinality(G) \in Nat /\ Cardinality(H) \in Nat /\ Cardinality(G) <= Cardinality(H) + 1
    BY <1>1, <2>1, GainCount
  <2>4. rows'[m] = rows[m] - 1 /\ reads'[m] = reads[m] /\ exports'[m] = exports[m]
    BY <1>7 DEF Takes
  <2> QED
    BY <1>2, <1>3, <2>2, <2>3, <2>4
<1>8. ASSUME NEW c \in Callers, NEW h \in Handles, Revives(c, h, m)
      PROVE  Conserved(m)'
  <2>1. K \in SUBSET (L \cup {h}) /\ G \in SUBSET (H \ {c}) /\ c \in H
    BY <1>8 DEF Revives, L, K, H, G
  <2>2. /\ IsFiniteSet(K) /\ Cardinality(K) \in Nat /\ Cardinality(L) \in Nat /\ Cardinality(K) <= Cardinality(L) + 1
    BY <1>1, <2>1, GainCount
  <2>3. /\ IsFiniteSet(G) /\ Cardinality(G) \in Nat /\ Cardinality(H) \in Nat /\ Cardinality(G) + 1 <= Cardinality(H)
    BY <1>1, <2>1, DropCount
  <2>4. rows'[m] = rows[m] /\ reads'[m] = reads[m] /\ exports'[m] = exports[m]
    BY <1>8 DEF Revives
  <2> QED
    BY <1>2, <1>3, <2>2, <2>3, <2>4
<1>9. ASSUME NEW h \in Handles, Spends(h, m)
      PROVE  Conserved(m)'
  <2>1. /\ K \in SUBSET L /\ G \in SUBSET H /\ h \in L
        /\ ErasesOnRead(sealed[m].mode) => K \in SUBSET (L \ {h})
    BY <1>9 DEF Spends, L, K, H, G
  <2>2. /\ IsFiniteSet(K) /\ Cardinality(K) \in Nat /\ Cardinality(L) \in Nat
        /\ IsFiniteSet(G) /\ Cardinality(G) \in Nat /\ Cardinality(H) \in Nat /\ Cardinality(G) <= Cardinality(H)
    BY <1>1, <2>1, SubCount
  <2>3. ErasesOnRead(sealed[m].mode) => Cardinality(K) + 1 <= Cardinality(L)
    BY <1>1, <2>1, DropCount
  <2>4. rows'[m] = rows[m] /\ reads'[m] <= reads[m] + 1 /\ exports'[m] = exports[m]
    BY <1>9 DEF Spends
  <2> QED
    BY <1>2, <1>3, <2>2, <2>3, <2>4
<1> QED
  BY <1>4, <1>5, <1>6, <1>7, <1>8, <1>9 DEF Moves

LEMMA ConservedStep ==
  ASSUME Shape, [Next]_vars, NEW m \in Msgs, Unexported(m), Conserved(m)
  PROVE  Conserved(m)'
<1>0. Shape'
  BY ShapeStep
<1>1. CASE IsSealed(m)
  BY <1>0, <1>1, MovesStep, ConservedMoves
<1>2. CASE ~IsSealed(m)
  <2>1. \A c \in Callers : caller[c].m # m
    BY <1>2 DEF Shape, CallerOK, TypeOK, CallerRecords
  <2>2. /\ rows[m] = 0 /\ reads[m] = 0 /\ exports[m] \in Nat /\ Holders(m) = {}
    BY <1>2, <2>1 DEF Shape, RowsOK, TypeOK, Unexported, Holders
  <2>3. ASSUME NEW h \in Handles, NEW mode \in Modes, Seal(m, h, mode)
        PROVE  Conserved(m)'
    <3>1. /\ rows'[m] = 0 /\ reads'[m] = 0 /\ exports'[m] \in Nat /\ Holders(m)' = {}
      BY <2>2, <2>3 DEF Seal, Holders
    <3>2. LiveSlots(m)' \in SUBSET ({} \cup {h})
      <4>1. \A g \in Handles : slot[g].live => slot[g].msg # m
        BY <1>2 DEF Shape, SlotOK
      <4> QED
        BY <2>3, <4>1 DEF Seal, NewSlot, LiveSlots, Shape, TypeOK
    <3>3. IsFiniteSet({}) /\ Cardinality({}) = 0
      BY FS_EmptySet
    <3>4. IsFiniteSet(LiveSlots(m)') /\ Cardinality(LiveSlots(m)') \in Nat /\ Cardinality(LiveSlots(m)') <= 1
      <4> DEFINE K == LiveSlots(m)'
      <4>1. K \in SUBSET ({} \cup {h})
        BY <3>2
      <4> HIDE DEF K
      <4>2. IsFiniteSet(K) /\ Cardinality(K) \in Nat /\ Cardinality(K) <= Cardinality({}) + 1
        BY <3>3, <4>1, GainCount
      <4>3. Cardinality(K) <= 1
        BY <3>3, <4>2
      <4> QED
        BY <4>2, <4>3 DEF K
    <3> QED
      BY <3>1, <3>3, <3>4 DEF Conserved, Copies
  <2>4. ASSUME sealed'[m] = sealed[m]
        PROVE  Conserved(m)'
    <3>1. LiveSlots(m)' = {} /\ Holders(m)' = {} /\ ~ErasesOnRead(sealed'[m].mode)
      <4>1. ~IsSealed(m)'
        BY <1>2, <2>4
      <4> QED
        BY <1>0, <4>1 DEF Shape, SlotOK, CallerOK, TypeOK, CallerRecords, LiveSlots, Holders, ErasesOnRead
    <3> QED
      BY <3>1, FS_EmptySet DEF Conserved
  <2>5. ASSUME NEW n \in Msgs, NEW h \in Handles, NEW mode \in Modes, Seal(n, h, mode), n # m
        PROVE  sealed'[m] = sealed[m]
    BY <2>5 DEF Seal, Shape, TypeOK
  <2>6. UNCHANGED sealed \/ \E n \in Msgs, h \in Handles, mode \in Modes : Seal(n, h, mode)
    BY StepKinds DEF Revive, TimerFire, DropHandle, Restart
  <2> QED
    BY <2>3, <2>4, <2>5, <2>6
<1> QED
  BY <1>1, <1>2

\* A message that erases on read gives its plaintext once for the seal and once
\* for every export, however opens, timers, stages, restores and restarts
\* interleave.
THEOREM KeysAreConserved == Spec => []KeyConservation
<1> DEFINE AllUnexported == \A m \in Msgs : Unexported(m)
           AllConserved == \A m \in Msgs : Conserved(m)
<1>1. Init => AllUnexported
  BY DEF Init, Unexported, LiveSlots, Holders, ErasesOnRead
<1>2. Init => AllConserved
  <2> SUFFICES ASSUME Init, NEW m \in Msgs
               PROVE  Conserved(m)
    OBVIOUS
  <2>1. LiveSlots(m) = {} /\ Holders(m) = {} /\ ~ErasesOnRead(sealed[m].mode)
    BY DEF Init, LiveSlots, Holders, ErasesOnRead
  <2> QED
    BY <2>1, FS_EmptySet DEF Conserved
<1>3. Shape /\ AllUnexported /\ [Next]_vars => AllUnexported'
  BY UnexportedStep
<1>4. Shape /\ AllUnexported /\ AllConserved /\ [Next]_vars => AllConserved'
  BY ConservedStep
<1>5. AllConserved => KeyConservation
  BY DEF Conserved, KeyConservation
<1> QED
  BY <1>1, <1>2, <1>3, <1>4, <1>5, ShapeInit, ShapeStep, PTL DEF Spec

----------------------------------------------------------------------------
(* The clock guard with a single caller *)

\* A reading is no older than the watermark it will be compared with or will
\* replace, because nobody else can advance the watermark meanwhile.
GuardOK ==
  /\ \A c \in Callers : caller[c].pc = "accepted" => watermark <= caller[c].t
  /\ skews = 0 =>
       /\ watermark <= wall
       /\ \A c \in Callers : HasReading(c) => /\ watermark <= caller[c].t
                                              /\ caller[c].t <= wall
                                              /\ caller[c].pc # "rolled_back"

LEMMA GuardStep ==
  ASSUME \A c, d \in Callers : c = d, Shape, GuardOK, [Next]_vars
  PROVE  GuardOK' /\ (watermark' # watermark => watermark' >= watermark)
<1> USE DEF Shape, GuardOK, HasReading
<1> DEFINE Goal == GuardOK' /\ (watermark' # watermark => watermark' >= watermark)
<1>1. CASE Tick
  BY <1>1 DEF Tick, TypeOK, CallerRecords
<1>2. ASSUME NEW w \in 0..(MaxNow + Epoch), SetWall(w)
      PROVE  Goal
  BY <1>2 DEF SetWall, TypeOK
<1>3. ASSUME NEW h \in Handles, HandleStep(h)
      PROVE  Goal
  <2>1. UNCHANGED <<clocks, watermark, caller>>
    BY <1>3 DEF HandleStep, SealTimeBound, SealReadTriggered, SealCombined, Seal, Open, ExpireNow,
                TimerFire, DropHandle
  <2> QED
    BY <2>1
<1>4. ASSUME NEW c \in Callers, CallerStep(c)
      PROVE  Goal
  <2>1. ASSUME NEW h \in Handles, Export(c, h)
        PROVE  Goal
    BY <2>1 DEF Export, TypeOK
  <2>2. ASSUME NEW h \in Handles, ReadClockToOpen(c, h)
        PROVE  Goal
    BY <2>2 DEF ReadClockToOpen, TypeOK
  <2>3. ASSUME NEW h \in Handles, Revive(c, h)
        PROVE  Goal
    BY <2>3 DEF Revive, TypeOK
  <2>4. ASSUME NEW m \in Msgs, Take(c, m)
        PROVE  Goal
    BY <2>4 DEF Take, TypeOK
  <2>5. CASE ReadClockToRestore(c)
    BY <2>5 DEF ReadClockToRestore, TypeOK, CallerRecords
  <2>6. CASE LoadWatermark(c)
    BY <2>6 DEF LoadWatermark, RolledBack, TypeOK, CallerRecords
  <2>7. CASE StoreWatermark(c)
    BY <2>7 DEF StoreWatermark, TypeOK, CallerRecords
  <2>8. CASE Stage(c) \/ StageFails(c) \/ FailClosed(c) \/ FinishGuardedOpen(c) \/ RefuseExpired(c)
    BY <2>8 DEF Stage, StageFails, FailClosed, FinishGuardedOpen, RefuseExpired, TypeOK
  <2> QED
    BY <1>4, <2>1, <2>2, <2>3, <2>4, <2>5, <2>6, <2>7, <2>8 DEF CallerStep
<1>5. CASE Purge \/ Restart \/ UNCHANGED vars
  BY <1>5 DEF Purge, Restart, vars
<1> QED
  BY <1>1, <1>2, <1>3, <1>4, <1>5 DEF Next

\* A single task that checks the clock never moves the watermark back and is
\* never told of a rollback that did not happen.  With two tasks it can be: one
\* task's older reading meets the watermark another has just advanced.
THEOREM OneGuardIsSound ==
  ASSUME \A c, d \in Callers : c = d
  PROVE  Spec => []NoFalseRollback /\ WatermarkMonotone
<1>1. Init => GuardOK
  BY DEF Init, GuardOK, HasReading
<1>2. Shape /\ GuardOK /\ [Next]_vars => GuardOK' /\ [watermark' >= watermark]_watermark
  BY GuardStep
<1>3. GuardOK => NoFalseRollback
  BY DEF GuardOK, HasReading, NoFalseRollback
<1> QED
  BY <1>1, <1>2, <1>3, ShapeInit, ShapeStep, PTL DEF Spec, WatermarkMonotone
=============================================================================
