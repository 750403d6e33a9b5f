---------------------------- MODULE SelfDestruct ----------------------------
(***************************************************************************)
(* Self-destructing messages: the in-process key of a message, its expiry  *)
(* timer, the persisted clock watermark, and the holding area that carries *)
(* a sealed message across a restart.                                      *)
(*                                                                         *)
(*   protocol/src/self_destruct.rs   the handle, its key and its timer     *)
(*   protocol/src/clock_guard.rs     the rollback check                    *)
(*   client-store/src/lib.rs         table pending_self_destruct           *)
(*                                                                         *)
(* A handle is one Arc<Mutex<Option<DerivedKey>>>: sealing and restoring   *)
(* each make a new one, clones share it.  A message can therefore have     *)
(* several copies of its key: live handles, rows of the holding area, and  *)
(* PersistedSelfDestructState values in the hands of a caller.  Ciphertext *)
(* and plaintext are not modelled: a message can be read exactly when a    *)
(* copy of its key can be.                                                 *)
(*                                                                         *)
(* Time is counted twice.  "now" is monotonic real time, what tokio's      *)
(* Instant measures, and it also measures the time the process is down.    *)
(* "wall" is what the operating system reports, which anyone holding the   *)
(* device may set (SetWall).  While nobody has, wall = now + Epoch.        *)
(*                                                                         *)
(* Callers run the operations that are not one critical section, one step  *)
(* per critical section, so that they interleave with each other, with the *)
(* timers and with a crash.                                                *)
(***************************************************************************)
EXTENDS Integers, FiniteSets

CONSTANTS
  Msgs,      \* messages
  Handles,   \* handles that can exist at once
  Callers,   \* tasks using the library
  None,      \* no message, no handle
  Window,    \* expiry_window of every timed message
  Epoch,     \* what the wall clock shows when now = 0
  MaxNow,    \* bound: no seal, clock reading or restore after this time
  MaxSkews,  \* bound: how many times the wall clock is set
  MaxExports,\* bound: exports of one message
  MaxReads   \* bound: counted reads of one message

NoTime == -1   \* Option::None of a time

ASSUME NoneAssumption == None \notin Msgs /\ None \notin Handles
ASSUME TimeAssumption ==
  /\ Window \in Nat \ {0}
  /\ Epoch \in Nat
  /\ MaxNow \in Nat
ASSUME BoundAssumption ==
  MaxSkews \in Nat /\ MaxExports \in Nat /\ MaxReads \in Nat

Modes == {"TimeBound", "ReadTriggered", "Combined"}   \* DestructMode
ErasesOnRead(mode) == mode \in {"ReadTriggered", "Combined"}
Timed(mode) == mode \in {"TimeBound", "Combined"}

VARIABLES
  now,        \* monotonic real time
  wall,       \* SystemTime::now
  skews,      \* how many times the wall clock was set
  watermark,  \* what the ClockWatermarkStore holds
  sealed,     \* per message: mode, wall-clock deadline, and real time of the seal
  slot,       \* per handle: its message, key, timer and history
  rows,       \* per message: its rows in pending_self_destruct
  caller,     \* per caller: what it is doing
  exports,    \* history, per message: exports of its key
  reads       \* history, per message: opens that returned its plaintext

clocks == <<now, wall, skews>>
history == <<exports, reads>>
vars == <<now, wall, skews, watermark, sealed, slot, rows, caller, exports, reads>>

Unsealed == [mode |-> "unsealed", expires |-> NoTime, at |-> 0]

IsSealed(m) == sealed[m].mode # "unsealed"

FreeSlot == [msg |-> None, owned |-> FALSE, live |-> FALSE, timer |-> NoTime,
             born |-> 0, read |-> 0]

\* A key placed in a new handle at time now, its window computed from a clock
\* reading made at time read; timer is the Instant of sleep_until.
NewSlot(m, timer, read) ==
  [msg |-> m, owned |-> TRUE, live |-> TRUE, timer |-> timer,
   born |-> now, read |-> read]

\* What a caller holds.  In "exported" and from "taken" on it owns a
\* PersistedSelfDestructState of m; in a guarded open it borrows handle h.
\* t is the now_ms it passes, at the real time of that reading.
Idle == [pc |-> "idle", m |-> None, h |-> None, t |-> 0, at |-> 0]
Pcs == {"idle", "exported", "taken", "clock_read", "rolled_back", "accepted", "checked"}

Init ==
  /\ now = 0
  /\ wall = Epoch
  /\ skews = 0
  /\ watermark = NoTime
  /\ sealed = [m \in Msgs |-> Unsealed]
  /\ slot = [h \in Handles |-> FreeSlot]
  /\ rows = [m \in Msgs |-> 0]
  /\ caller = [c \in Callers |-> Idle]
  /\ exports = [m \in Msgs |-> 0]
  /\ reads = [m \in Msgs |-> 0]

----------------------------------------------------------------------------
(* The clocks *)

\* Time passes on both clocks, past MaxNow only for as long as a timer waits.
Tick ==
  /\ now < MaxNow \/ \E h \in Handles : slot[h].timer > now
  /\ now' = now + 1
  /\ wall' = wall + 1
  /\ UNCHANGED <<skews, watermark, sealed, slot, rows, caller, history>>

\* The date of the device is changed.
SetWall(w) ==
  /\ skews < MaxSkews
  /\ w # wall
  /\ wall' = w
  /\ skews' = skews + 1
  /\ UNCHANGED <<now, watermark, sealed, slot, rows, caller, history>>

----------------------------------------------------------------------------
(* One handle *)

\* seal_inner: a key under a fresh handle, and the wall-clock deadline that
\* only restore reads; then spawn_expiry_timer for the timed modes.
Seal(m, h, mode) ==
  /\ ~IsSealed(m)
  /\ slot[h] = FreeSlot
  /\ now <= MaxNow
  /\ sealed' = [sealed EXCEPT ![m] =
       [mode |-> mode,
        expires |-> IF Timed(mode) THEN wall + Window ELSE NoTime,
        at |-> now]]
  /\ slot' = [slot EXCEPT ![h] =
       NewSlot(m, IF Timed(mode) THEN now + Window ELSE NoTime, now)]
  /\ UNCHANGED <<clocks, watermark, rows, caller, history>>

SealTimeBound(m, h) == Seal(m, h, "TimeBound")
SealReadTriggered(m, h) == Seal(m, h, "ReadTriggered")
SealCombined(m, h) == Seal(m, h, "Combined")

\* The slot after erase(): the key is zeroized and gone, the timer task, if
\* any, still sleeps and will find nothing.
Erase(h) == [slot EXCEPT ![h].live = FALSE]

\* Faulty variant: open() leaves the erasure of a read message to its timer.
OpenedKeepsKey(h) ==
  /\ reads' = [reads EXCEPT ![slot[h].msg] = IF slot[h].live /\ @ < MaxReads THEN @ + 1 ELSE @]
  /\ UNCHANGED slot

\* open() under the key's mutex: fails on an erased key, otherwise decrypts
\* and, for a mode that erases on read, erases before the mutex is released.
Opened(h) ==
  LET m == slot[h].msg IN
  IF slot[h].live
  THEN /\ reads' = [reads EXCEPT ![m] = IF @ < MaxReads THEN @ + 1 ELSE @]
       /\ slot' = IF ErasesOnRead(sealed[m].mode) THEN Erase(h) ELSE slot
  ELSE UNCHANGED <<reads, slot>>

Open(h) ==
  /\ slot[h].owned
  /\ Opened(h)
  /\ UNCHANGED <<clocks, watermark, sealed, rows, caller, exports>>

ExpireNow(h) ==
  /\ slot[h].owned
  /\ slot' = Erase(h)
  /\ UNCHANGED <<clocks, watermark, sealed, rows, caller, history>>

\* The timer task wakes at or after its deadline (the executor may be late),
\* erases, and drops its clone of the key: the last one if the handle is gone.
TimerFire(h) ==
  /\ slot[h].timer # NoTime
  /\ now >= slot[h].timer
  /\ slot' = [slot EXCEPT ![h] =
       IF slot[h].owned THEN [@ EXCEPT !.live = FALSE, !.timer = NoTime] ELSE FreeSlot]
  /\ UNCHANGED <<clocks, watermark, sealed, rows, caller, history>>

\* The last clone of the handle is dropped.  A pending timer task holds a clone
\* of the key, which then lives on until the timer fires; without one the key
\* is dropped, and DerivedKey::drop zeroizes it.
DropHandle(h) ==
  /\ slot[h].owned
  /\ \A c \in Callers : caller[c].h # h
  /\ slot' = [slot EXCEPT ![h] =
       IF slot[h].timer # NoTime THEN [@ EXCEPT !.owned = FALSE] ELSE FreeSlot]
  /\ UNCHANGED <<clocks, watermark, sealed, rows, caller, history>>

----------------------------------------------------------------------------
(* Export, staging and taking back *)

\* Faulty variant: an erased key is exported as well.
ExportErased(c, h) ==
  /\ caller[c].pc = "idle"
  /\ slot[h].owned
  /\ exports[slot[h].msg] < MaxExports
  /\ exports' = [exports EXCEPT ![slot[h].msg] = @ + 1]
  /\ caller' = [caller EXCEPT ![c] = [Idle EXCEPT !.pc = "exported", !.m = slot[h].msg]]
  /\ UNCHANGED <<clocks, watermark, sealed, slot, rows, reads>>

\* export_for_persistence: a copy of the key leaves the handle, which keeps its own.
Export(c, h) ==
  /\ caller[c].pc = "idle"
  /\ slot[h].owned
  /\ slot[h].live
  /\ exports[slot[h].msg] < MaxExports
  /\ exports' = [exports EXCEPT ![slot[h].msg] = @ + 1]
  /\ caller' = [caller EXCEPT ![c] = [Idle EXCEPT !.pc = "exported", !.m = slot[h].msg]]
  /\ UNCHANGED <<clocks, watermark, sealed, slot, rows, reads>>

\* stage_self_destructing inserts a row, or fails and inserts none; the
\* caller's copy is dropped, and zeroized, either way.
Stage(c) ==
  /\ caller[c].pc = "exported"
  /\ rows' = [rows EXCEPT ![caller[c].m] = @ + 1]
  /\ caller' = [caller EXCEPT ![c] = Idle]
  /\ UNCHANGED <<clocks, watermark, sealed, slot, history>>

StageFails(c) ==
  /\ caller[c].pc = "exported"
  /\ caller' = [caller EXCEPT ![c] = Idle]
  /\ UNCHANGED <<clocks, watermark, sealed, slot, rows, history>>

\* Faulty variants: the row is read and left, or deleted without being found.
TakeAndLeave(c, m) ==
  /\ caller[c].pc = "idle"
  /\ rows[m] > 0
  /\ caller' = [caller EXCEPT ![c] = [Idle EXCEPT !.pc = "taken", !.m = m]]
  /\ UNCHANGED <<clocks, watermark, sealed, slot, rows, history>>
TakeAbsent(c, m) ==
  /\ caller[c].pc = "idle"
  /\ rows' = [rows EXCEPT ![m] = @ - 1]
  /\ caller' = [caller EXCEPT ![c] = [Idle EXCEPT !.pc = "taken", !.m = m]]
  /\ UNCHANGED <<clocks, watermark, sealed, slot, history>>

\* take_self_destructing: read the row and delete it in one transaction.
Take(c, m) ==
  /\ caller[c].pc = "idle"
  /\ rows[m] > 0
  /\ rows' = [rows EXCEPT ![m] = @ - 1]
  /\ caller' = [caller EXCEPT ![c] = [Idle EXCEPT !.pc = "taken", !.m = m]]
  /\ UNCHANGED <<clocks, watermark, sealed, slot, history>>

\* purge_expired_self_destructing with the wall clock as now_ms.
Purge ==
  /\ \E m \in Msgs : rows[m] > 0
  /\ rows' = [m \in Msgs |->
       IF sealed[m].expires # NoTime /\ sealed[m].expires <= wall THEN 0 ELSE rows[m]]
  /\ UNCHANGED <<clocks, watermark, sealed, slot, caller, history>>

----------------------------------------------------------------------------
(* The clock guard, shared by open_with_clock_guard and restore *)

\* The caller reads the wall clock: now_ms is an argument of both operations.
ReadClockToOpen(c, h) ==
  /\ caller[c].pc = "idle"
  /\ slot[h].owned
  /\ now <= MaxNow
  /\ caller' = [caller EXCEPT ![c] =
       [pc |-> "clock_read", m |-> None, h |-> h, t |-> wall, at |-> now]]
  /\ UNCHANGED <<clocks, watermark, sealed, slot, rows, history>>

ReadClockToRestore(c) ==
  /\ caller[c].pc = "taken"
  /\ now <= MaxNow
  /\ caller' = [caller EXCEPT ![c] =
       [@ EXCEPT !.pc = "clock_read", !.t = wall, !.at = now]]
  /\ UNCHANGED <<clocks, watermark, sealed, slot, rows, history>>

\* Faulty variant: equal readings count as a rollback.
RolledBackOrEqual(t) == watermark # NoTime /\ t <= watermark

RolledBack(t) == watermark # NoTime /\ t < watermark

\* check_clock_integrity, first half: load_watermark_ms and the comparison.
LoadWatermark(c) ==
  /\ caller[c].pc = "clock_read"
  /\ caller' = [caller EXCEPT ![c].pc =
       IF RolledBack(caller[c].t) THEN "rolled_back" ELSE "accepted"]
  /\ UNCHANGED <<clocks, watermark, sealed, slot, rows, history>>

\* Second half, a lock acquisition of its own: store_watermark_ms.
StoreWatermark(c) ==
  /\ caller[c].pc = "accepted"
  /\ watermark' = caller[c].t
  /\ caller' = [caller EXCEPT ![c].pc = "checked"]
  /\ UNCHANGED <<clocks, sealed, slot, rows, history>>

\* A rollback was detected: open_with_clock_guard erases the key, restore
\* returns and the caller's taken copy is dropped.
FailClosed(c) ==
  /\ caller[c].pc = "rolled_back"
  /\ slot' = IF caller[c].h # None THEN Erase(caller[c].h) ELSE slot
  /\ caller' = [caller EXCEPT ![c] = Idle]
  /\ UNCHANGED <<clocks, watermark, sealed, rows, history>>

FinishGuardedOpen(c) ==
  /\ caller[c].pc = "checked"
  /\ caller[c].h # None
  /\ Opened(caller[c].h)
  /\ caller' = [caller EXCEPT ![c] = Idle]
  /\ UNCHANGED <<clocks, watermark, sealed, rows, exports>>

\* Faulty variant: a message may be restored at its very deadline.
PastDeadlineOnly(deadline, t) == deadline # NoTime /\ t > deadline

\* No deadline, or a reading before it: nothing to refuse.
Expired(deadline, t) == deadline # NoTime /\ t >= deadline

\* Faulty variants: the restored timer is not armed, or for a full new window.
ArmedNever(deadline, t) == NoTime
ArmedAnew(deadline, t) == IF deadline = NoTime THEN NoTime ELSE now + Window

\* The Instant a restored timer sleeps until: from now, what remained at t.
Armed(deadline, t) == IF deadline = NoTime THEN NoTime ELSE now + (deadline - t)

\* The rest of restore, its deadline passed as of the caller's reading: Expired.
RefuseExpired(c) ==
  /\ caller[c].pc = "checked"
  /\ caller[c].h = None
  /\ Expired(sealed[caller[c].m].expires, caller[c].t)
  /\ caller' = [caller EXCEPT ![c] = Idle]
  /\ UNCHANGED <<clocks, watermark, sealed, slot, rows, history>>

\* Otherwise a new handle, its timer armed from this moment for what remained
\* of the window at that reading.
Revive(c, h) ==
  /\ caller[c].pc = "checked"
  /\ caller[c].h = None
  /\ slot[h] = FreeSlot
  /\ now <= MaxNow
  /\ ~Expired(sealed[caller[c].m].expires, caller[c].t)
  /\ slot' = [slot EXCEPT ![h] =
       NewSlot(caller[c].m, Armed(sealed[caller[c].m].expires, caller[c].t), caller[c].at)]
  /\ caller' = [caller EXCEPT ![c] = Idle]
  /\ UNCHANGED <<clocks, watermark, sealed, rows, history>>

\* The process dies and is started again.  The database and the watermark are
\* on disk; every key, timer and running operation was in memory.
Restart ==
  /\ slot' = [h \in Handles |-> FreeSlot]
  /\ caller' = [c \in Callers |-> Idle]
  /\ UNCHANGED <<clocks, watermark, sealed, rows, history>>

HandleStep(h) ==
  \/ \E m \in Msgs : SealTimeBound(m, h) \/ SealReadTriggered(m, h) \/ SealCombined(m, h)
  \/ Open(h)
  \/ ExpireNow(h)
  \/ TimerFire(h)
  \/ DropHandle(h)

CallerStep(c) ==
  \/ \E h \in Handles : Export(c, h) \/ ReadClockToOpen(c, h) \/ Revive(c, h)
  \/ \E m \in Msgs : Take(c, m)
  \/ Stage(c)
  \/ StageFails(c)
  \/ ReadClockToRestore(c)
  \/ LoadWatermark(c)
  \/ StoreWatermark(c)
  \/ FailClosed(c)
  \/ FinishGuardedOpen(c)
  \/ RefuseExpired(c)

Next ==
  \/ Tick
  \/ \E w \in 0..(MaxNow + Epoch) : SetWall(w)
  \/ \E h \in Handles : HandleStep(h)
  \/ \E c \in Callers : CallerStep(c)
  \/ Purge
  \/ Restart

Spec == Init /\ [][Next]_vars

\* Time goes on and the executor eventually polls a timer that is due.
FairSpec == Spec /\ WF_vars(Tick) /\ \A h \in Handles : WF_vars(TimerFire(h))

----------------------------------------------------------------------------
(* Correctness *)

Times == Nat \cup {NoTime}

SealedRecords == [mode : Modes \cup {"unsealed"}, expires : Times, at : Nat]
SlotRecords == [msg : Msgs \cup {None}, owned : BOOLEAN, live : BOOLEAN,
                timer : Times, born : Nat, read : Nat]
CallerRecords == [pc : Pcs, m : Msgs \cup {None}, h : Handles \cup {None}, t : Nat, at : Nat]

TypeOK ==
  /\ now \in Nat /\ wall \in Nat /\ skews \in Nat
  /\ watermark \in Times
  /\ sealed \in [Msgs -> SealedRecords]
  /\ slot \in [Handles -> SlotRecords]
  /\ rows \in [Msgs -> Nat]
  /\ caller \in [Callers -> CallerRecords]
  /\ exports \in [Msgs -> Nat]
  /\ reads \in [Msgs -> Nat]

\* The three places a copy of the key of m can be.
LiveSlots(m) == {h \in Handles : slot[h].msg = m /\ slot[h].live}
Holders(m) == {c \in Callers : caller[c].m = m}
Copies(m) == Cardinality(LiveSlots(m)) + rows[m] + Cardinality(Holders(m))

\* A message that erases on read gives its plaintext at most once for the seal
\* and once for every export: reading, staging, taking and restoring move a key
\* or spend it, whatever the order of concurrent opens, timers, failed stages,
\* guarded opens and restarts.  Only export_for_persistence copies one.
KeyConservation ==
  \A m \in Msgs : ErasesOnRead(sealed[m].mode) => reads[m] + Copies(m) <= 1 + exports[m]

\* The promise of seal_read_triggered and seal_combined for a message nobody
\* exported: read once, and unreadable from then on by anyone.
ReadOnce ==
  \A m \in Msgs :
    ErasesOnRead(sealed[m].mode) /\ exports[m] = 0 =>
      /\ reads[m] <= 1
      /\ reads[m] = 1 => LiveSlots(m) = {} /\ rows[m] = 0 /\ Holders(m) = {}

\* No immortal key: a live key of a timed message has a timer task ahead of it,
\* in a restored handle as in a sealed one, and a key that no handle can open
\* any more is only there because its timer task has yet to run.
LiveKeysEnd ==
  \A h \in Handles :
    slot[h].live =>
      /\ Timed(sealed[slot[h].msg].mode) => slot[h].timer # NoTime
      /\ ~slot[h].owned => slot[h].timer # NoTime

\* Downtime counts: while the wall clock is left alone, a timer is armed for no
\* more than was left of the message's life when its clock was read, through
\* any number of exports, restarts and restores.
DowntimeCounts ==
  skews = 0 =>
    \A h \in Handles :
      slot[h].timer # NoTime =>
        slot[h].timer - slot[h].born <= sealed[slot[h].msg].at + Window - slot[h].read

\* A timed message is not brought back by a clock reading made after its end.
ReadBeforeDeadline(h) ==
  slot[h].timer # NoTime => slot[h].read < sealed[slot[h].msg].at + Window

\* restore refuses a message that expired while the process was down, as long
\* as nobody sets the clock.
RestoredInTime == skews = 0 => \A h \in Handles : ReadBeforeDeadline(h)

\* Sealed, and no copy of its key is left anywhere.
Gone(m) ==
  /\ IsSealed(m)
  /\ LiveSlots(m) = {}
  /\ rows[m] = 0
  /\ Holders(m) = {}

\* Erasure is permanent: nothing that runs afterwards, an export that raced
\* with the erasure, a late timer, a guarded open or a restore, brings back a
\* message of which no copy is left.
GoneIsForever == [][\A m \in Msgs : Gone(m) => Gone(m)']_vars

\* The persisted watermark never goes back, so what was refused as a rollback
\* is refused again.
WatermarkMonotone == [][watermark' >= watermark]_watermark

\* A rollback is reported only if the clock was set.
NoFalseRollback == skews = 0 => \A c \in Callers : caller[c].pc # "rolled_back"

\* "Gone by T regardless of whether open was ever called": every key of a timed
\* message is erased in the end, if only by its timer.
TimedKeysErased ==
  \A h \in Handles : (slot[h].live /\ Timed(sealed[slot[h].msg].mode)) ~> ~slot[h].live
=============================================================================
