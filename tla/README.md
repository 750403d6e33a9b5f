# PARDA in TLA+

A verification development kept beside the code of PARDA, the metadata-resistant
messaging prototype: TLA+ modules translated from the Rust sources, TLC
configurations that model-check them on small instances, and theorems proved
with TLAPS. Line references are to the repository (`protocol/src/...` and so on).

Contents: [system](#1-the-system) · [models](#2-the-models) ·
[runs and bounds](#3-runs-and-bounds) · [fairness](#4-fairness) ·
[findings](#5-what-the-violations-show) · [proofs](#6-proofs) ·
[not modelled](#7-not-modelled) · [plan](#8-plan)

## 1. The system

A client composes an envelope with a Signal session, optionally wraps the
plaintext in a self-destructing message, and hands the envelope to a transport:
to the relay directly, through a Sphinx mix network, or to the mesh of nearby
devices when there is no network. The recipient polls.

| Component | State it keeps | Operations | Interacts with | Hard behaviour | Correct when |
|---|---|---|---|---|---|
| **Self-destruct** (`protocol/src/self_destruct.rs`, `clock_guard.rs`) | `Arc<Mutex<Option<DerivedKey>>>` per handle, a tokio timer per handle, the persisted watermark | seal ×3, open, guarded open, expire_now, export, restore | holding area (exported key), operating system clock | open, expire, timer, export and restart race for one key; two clocks, one of which can be set; check and update of the watermark in two lock acquisitions | keys are neither copied nor revived, timed keys always die, a rollback is reported when there is one |
| **Client store** (`client-store/src/lib.rs`) | tables `messages`, `pending_self_destruct` | store, history, stage, take, purge | self-destruct, restarts | a row deleted before it is known that it can be restored | a key is lost rather than doubled |
| **Mesh relay** (`mesh/src/relay.rs`, `bundle.rs`) | per device: bundles by hash, byte count; per session: what was asked for, a budget | admit, take_for_addresses, sweep_expired, sync_with_peer | mesh transport (same store), peers over a radio link | concurrent sessions on one store, no roles, no timeouts, broken links, restarts | caps hold, no deadlock, honest peers are not turned away, only live bundles spread |
| **Mesh transport** (`mesh/src/transport.rs`, `protocol/src/dead_drop.rs`) | send counter, low watermark, claimed-ahead set, all in memory | next_send_address, send, receive; scan and accept loops | mesh relay (its own device's store) | late, repeated, lost and reordered bundles; a window polled before and advanced after the claim | nothing is skipped silently or delivered twice |
| **Mesh radios** (`mesh/src/radio/`) | links | advertise, scan, connect, send, recv | mesh relay | links break at either end | in order, or broken |
| **Hybrid transport** (`mesh/src/hybrid.rs`) | none | send with fallback, receive from both | relay transports and mesh | an error may hide a delivery | no duplicate, no loss |
| **Relay server** (`server/src/store.rs`, `routes.rs`) | tables `messages`, `pull_stages`, `prekey_bundles`; certificate authority | enqueue, drain, stage_pull, fetch_pull, delete_message, bundles, certificates | clients, last mix hop, gateway | a drain and its staging are two critical sections; fetching deletes before the client has the response; TTL sweep | at most once, accounted for, to the recipient only |
| **Transports to the relay** (`protocol/src/transport.rs`) | one call | DirectTransport and MixTransport send, receive | relay, mix nodes | two legs of a pull, unordered | a pull returns what it removed |
| **Mix network** (`protocol/src/mixnet.rs`, `mixnode/src/`) | packets being delayed; a node's key, in a file or the environment | start, load or create the key, unwrap, schedule, forward, deliver, stage, cover traffic | relay, clients' topology | fire and forget; processes of one node overlap or stop while they write the key file | each packet acts at most once; a node keeps its identity |
| **Gateway** (`gateway/src/`) | token buckets per client | pass-through routes, API keys, rate limit | relay | buckets of idle callers are dropped and come back full; the clock is read before the lock is taken | a client exceeds its rate by no more than what its requests waited for the lock |
| **Sessions and trust** (`protocol/src/session.rs`, `trust.rs`, `store.rs`) | Signal session state, trust records, burnt sessions | initiate, encrypt, decrypt, verify, forget, burn; publish, certify | relay (bundles, certificates, a new authority at every start) | trust is checked after a ratchet step; peers reinstall; both start a session at once; messages arrive late or twice | pins are never replaced, a verified key only with a refusal, mail stays readable |
| **Mobile bridge** (`mobile-bridge/src/`) | registries of pending calls, scans and plaintexts; the running node | register, resolve, stream, start, stop; copy and release plaintexts | the JVM's threads, mesh loops | early, late, missing and duplicate callbacks; a stop drops tasks wherever they are | an answer goes to the call it is for, nothing is left behind without a cause, and the radio is told to stop scanning unless something named kept it |
| sealed sender, envelopes | certificates | issue, validate, seal | sessions | | in `TrustSession`, as far as they hold state |
| secure memory, TLS, CLI, simulator, mobile app | none, or owned by one caller | | | | outside these models |

The list with each part's status is in `PROJECT.json` (`components`), the hazards
of the code at their lines in `hazards`.

## 2. The models

| Module | Is | Uses |
|---|---|---|
| `SelfDestruct` | handles, timers, clock guard, holding area | – |
| `SelfDestruct_proofs` | the theorems about it | `SelfDestruct`, TLAPS |
| `Gossip` | abstract: bundles spreading between bounded stores | – |
| `MeshRelay` | the store and the sync protocol, message by message | implements `Gossip` |
| `MeshRelay_proofs` | the theorems about it, and the refinement | `MeshRelay`, TLAPS |
| `MeshTransport` | counter, window and watermark of a conversation | built on `Gossip` |
| `MeshTransport_proofs` | the theorems about it | `MeshTransport`, TLAPS |
| `Mailbox` | abstract: an at-most-once mailbox per user | – |
| `RelayPull` | relay tables, direct and two-leg pulls, mix packets | implements `Mailbox` |
| `RelayPull_proofs` | the theorems about it, and the refinement | `RelayPull`, TLAPS |
| `TrustSession` | Signal sessions, pins, verified keys, prekeys, certificates | – |
| `TrustSession_proofs` | the theorems about it | `TrustSession`, TLAPS |
| `RateLimiter` | the gateway's token buckets | – |
| `MixNode` | processes of mix nodes and their keys | – |
| `Servers_proofs` | the theorems about the buckets and the mix nodes | `RateLimiter`, `MixNode`, TLAPS |
| `Uplink` | a message through HybridTransport: gateway or mix hops, then the mesh | extends `RateLimiter` and `MixNode` |
| `Uplink_proofs` | the theorems about it | `Uplink`, and those of its parts, `Servers_proofs` |
| `MobileBridge` | calls into Kotlin, registries, start and stop, plaintext handles | – |
| `MobileBridge_proofs` | the theorems about it | `MobileBridge`, TLAPS |
| `MC*` | instances for TLC | |

Operators called "faulty variant" are wrong versions of the definition after
them. Nothing uses them; `PROJECT.json` (`mutants`) names for each property one
that breaks it, which shows that the property depends on that piece of code.

### SelfDestruct

The state of a handle (`slot[h]`) is the contents of its mutex (`live`), whether
the application still holds a clone (`owned`) and the `Instant` of its timer
task, which holds a clone too: a dropped handle with a pending timer keeps its
key until the timer fires (`DropHandle`, `TimerFire`). `sealed[m]` is what seal
fixed: mode and wall-clock deadline. `rows[m]` counts rows of
`pending_self_destruct`. A `caller` is a task inside an operation that spans
several critical sections, with its own copy of the key where the code has a
`PersistedSelfDestructState` on the stack:

* `Export` → `Stage` or `StageFails`;
* `Take` → `ReadClockToRestore` → `LoadWatermark` → `StoreWatermark` →
  `Revive` or `RefuseExpired`, with `FailClosed` after a detected rollback;
* `ReadClockToOpen` → `LoadWatermark` → `StoreWatermark` → `FinishGuardedOpen`
  or `FailClosed`.

The reading of the clock is a step of its own because `now_ms` is an argument:
it is made before the guard runs. Loading and storing the watermark are two
steps because `check_clock_integrity` takes the store's lock twice. `Restart`
clears memory and keeps table and watermark. `now` is monotonic real time and
includes the time the process is down, `wall` is the settable clock, and the two
advance together.

### Gossip and MeshRelay

`Gossip` says what the layer above may rely on: only composed bundles are
admitted, live when they were looked at and within the cap, and copies travel, are
repeated and get lost. The look comes first: `wrap`, `admit_checked` and `sweep_expired` read
the clock and then take the store's lock (`mesh/src/relay.rs:196` and `:204`, `:294` and `:295`),
so `Readings` are the times a task that has the lock may have read, up to `MaxWait` ago: a bundle
that expired meanwhile gets in, or is not swept yet.
`MeshRelay` is the protocol: an end of a session goes through
`start → have → want → bundles → done` exactly as `sync_with_peer` does, one step
per received message, with its budget decremented for every accepted bundle; the
store keeps `total_bytes` next to the bundles as the code does. Links deliver in
order. `LinkLost`, `PeerGone` and `NodeStops` are the failures the code meets;
the store is in memory, so a stopped device loses it. Sets of hashes are
iterated in any order (they come from a `HashMap`), so `Truncated` and `RecvWant`
choose the cut and the order. The refinement maps `flight[n]` to the bundles in
messages on their way to `n`.

### MeshTransport

Extends `Gossip` with the two ends of a conversation. An address is its index in
the conversation's sequence: the HKDF tag is a function of the shared secret and
the index, collisions aside, and both ends derive the same sequence.
`ComposeEnvelope` reads the next address (`next_send_address`), `Send` admits the
bundle and advances the counter; `receive` is three steps, `ReadWindow`,
`TakeWindow` and `Advance`, since the code locks its state, unlocks it for the
store, and locks it again. Below it the network is any behaviour of `Gossip`.

### Mailbox and RelayPull

A receive call is identified with its rendezvous token and has two program
counters: the client's (`client`: idle, waiting, answered) and leg 1's (`leg1`:
mixing, drained, staged). `DrainToStage` and `Stage` are the two critical
sections of `RelayStore::stage_pull`, the second one sweeping before it inserts;
`Fetch` is the single GET of leg 2 and clears the row in the same critical
section. `DirectReceive` is DirectTransport, the mobile client or the gateway.
Responses in flight can be lost, the relay can restart (tables stay), packets
can be dropped by a hop, a client can give up, and a call can fail although its
packet is on its way. `lost` records, per message, why no call will return it:
*orphaned* (staged for nobody), *dropped* (a fault) or *deleted*. The refinement
maps the mailbox's `waiting` to `OnItsWay`, the places from which a message still
reaches its recipient.

### TrustSession

A session is the number of the X3DH agreement it started from (`made`), since
everything the code tells sessions apart by, the two identity keys and the
one-time prekey, is fixed then; libsignal's ratchet is the set of messages whose
key is used up (`spent`). `session[u][v]` is a record of the store: the session
in use, the archived ones, and those whose prekey message is to be repeated.
`pinned` is `StoreState::trusted_identities`, `verified` the trust store.
`Initiate`, `Encrypt`, `Decrypt` are the calls of `SessionManager` with libsignal's
writes to the store in them; the verified variants add the check where the code
has it: before `process_prekey_bundle` in `initiate_session_verified`, after the
decryption in `decrypt_sealed_verified`. That second one therefore pins, stores
the session and spends the message key even if it refuses (`refused`).
`Reinstall` is a new identity in a new store; the relay's part is the bundle table
and a certificate authority that is new at every start (`RelayRestarts`). A
bundle always carries the first prekey of the pool, as `build_prekey_bundle` does.
`mail` is never consumed: any message may be read late, twice or never.

### RateLimiter, MixNode and Uplink

`RateLimiter` counts in units, `Token` of them to a request, where the code has
`f64`. A request is two steps, because `check_rate_limit` reads the clock
(`gateway/src/auth.rs:243`) before it takes the lock (`:244`): `Arrive` is the reading, which the
worker keeps in `request`, and `TryAcquire` is the whole of `try_acquire` under the lock, eviction
first. So a request with an older reading may come after one with a newer, and sets `last_refill` back
(`:263`). What the caller gains by it is refilled a second time, and a burst
and the refill of the stretch is not the bound; with the time the caller's requests waited
for the lock added to the stretch, it is (`RateBound`). `watched` is an arbitrary caller and `since` an
arbitrary time, both chosen at the start; `granted` and `waited` count from then on.
`MixNode` has one step per system call on the key file (look,
create exclusively, write), because processes of one node may run into each other
there, or stop between two of them. `Uplink` puts a message through both: `Fallback` after
any error of the primary, whatever it means, to a mesh that takes sealed messages only and refuses
those too when its store is full; `ReceivePrimary` and `ReceiveMesh` are
the two halves of one `receive`. A packet is its message and the hops to come; a
hop passes it on if a process serves there with the key the packet was made for.
Which `deployment` it is, is chosen in `Init`: its primary, and as bounds the
messages that are sent and the time. The servers of the other primary
stand still: a deployment has one of them.

### MobileBridge

The tasks are the sync loop, the accept loop, the first advertisement, which is
a task of its own (`start`), the loop that rotates it, and one task per accepted
link. A task registers a channel under a new number (`RegisterOneshot`),
calls into Kotlin (`CallKotlin`, or `JniFails`, which leaves the entry behind as `?`
does) and waits. Between registering and waiting Kotlin may already answer.
`calls` are the requests Kotlin may answer: any of them, at any time, more than
once, also after a stop. `serial` numbers the registrations, so that `OwnAnswer` can
tell a call from a later one under the same number. `StopMesh` drops the runtime: every
task ends where it stands, and nobody clears the registries. A scan is a stream in
the registry, the task that collects it until its deadline, and the channel to the
sync loop, both bounded; and at Kotlin's end an entry of `scanning`, if there is a scanner.
Only the collector tells Kotlin to stop, at its deadline, and does not look at whether that
worked (`radio.rs:95`). So `ScansEnd` is about Kotlin's `scanning`: a scan ends there, or it is
`unstopped` (the mesh was stopped in the middle of it, or the call failed), or the sync
loop waits for an answer that does not come. `CopyLen` and `CopyInto` are the two lock acquisitions of
`nativePlaintextCopyInto`.

### Abstractions common to all

Ciphertexts, hashes and addresses are identities: a property never depends on
their bytes. Time is a small integer, deadlines included. Devices of the mesh
read one clock. Random delays are arbitrary interleavings. Logging, encoding and
padding are left out.

## 3. Runs and bounds

| Run | Question | Instance |
|---|---|---|
| `sd_guard` | Do timers respect what is left of a life across exports, restarts and restores, and is the guard sound for one task, with the clock set at any moment? | 1 message, 2 handles, 1 caller, window 2, time to 3, clock set once |
| `sd_race` | Are keys conserved, erased for good, and always erased, when two tasks interleave? | 1 message, 2 handles, 2 callers, window 1, 2 exports |
| `mesh_sync` | Do two overlapping sessions stay in step, admit what honest peers send, and implement `Gossip` while bundles expire? | 2 devices, 2 bundles, 2 sessions, 1 bundle per session, time to 2, a clock reading up to 1 old |
| `mesh_ends` | Do sessions always end and deliver, and do the caps hold, with faults? | 2 devices, 3 bundles (one more than fits), 1 session, 2 faults, no expiry |
| `mesh_window` | Does the receive window skip, repeat or block anything it should not? | 3 messages one way, window 2, time to 1, 1 restart |
| `mesh_own_mail` | (violation) Is a message only claimed by its recipient? | both ends send and poll |
| `mesh_stuck` | (violation) Does the window tolerate loss? | 3 messages, window 2, no restart |
| `relay_pull` | Is every message accounted for, in one place, returned at most once, and returned at all? | 2 messages for 1 of 2 users, 2 concurrent calls, all faults, any number of them |
| `relay_orphan` | (violation) Is what a receive call removes also returned, without any failure? | 1 message, 2 calls, no faults |
| `trust` | Are pins, verified keys and prekeys kept, and is mail readable unless something named happened? | 2 users, one that verifies and one that seals; 2 prekeys, 2 sessions, 3 messages; one reinstallation, one restart of the relay, time to 1 |
| `uplink` | Is a caller held to its rate, whatever waits for the lock; does a node keep its identity; and what doubles or loses a message? | 2 callers with an API key and one without, 2 worker threads, burst 2, one and a half tokens per tick, room for 1 bucket; 3 nodes with a key file, an environment key and neither; 4 processes, 4 starts, paths of 3. Three deployments: the gateway without messages and time to 3, the gateway with 2 messages and time to 1, the mix with 1 message |
| `bridge` | Do answers and copies reach whom they belong to, are entries left behind only for a cause, and does Kotlin's scan end unless something named keeps it? | 3 numbers, 2 starts, 1 inbound link, channels of 1, 1 plaintext, 1 copying thread |

Bounds are constants whose names say so (`MaxNow`, `MaxExports`, `MaxFaults`,
`MaxRestarts`, `Faulty`, ...). Why they are enough to see the interesting cases:

* Handles and callers of one message interact only through that message's key
  and the one watermark, and no operation touches two messages except `Purge`,
  which treats each alone: one message suffices; two handles are a handle and
  its restored copy. `MaxReads = 0` in `sd_guard` turns a history counter off
  that its properties do not look at.
* A sync session touches two stores. The second session of `mesh_sync` supplies
  every interference a session can meet (admission, expiry, a claim, another
  transfer of the same bundle). Three bundles for room of two make refusal
  happen; bundles of different sizes make the byte cap bind where the count does
  not. In `mesh_ends` time stands still: expiry during a session is the subject
  of `mesh_sync`, and so are tasks that wait for the lock of a store (`MaxWait`): with a life of
  one tick and a reading one tick old, a bundle can be admitted at the instant it expires, and one
  more tick shows that it cannot be later.
* A window of two with three messages lets the window slide, fill and stay.
* Two calls are enough for two pulls of one user, of two users, or a pull and a
  direct fetch, to cross; tokens are used again once nothing of their former call
  is left, so a behaviour has any number of calls. Faults in `RelayPull` are not
  counted: everything they can do is already finite.

* Two sessions are two initiations at once, a second one by the same user, or one
  before and one after a burn or a reinstallation; three messages are one on
  each and one more that follows or answers. Two prekeys let a prekey be taken
  while another is left. A certificate lives for the instant it was issued in
  (`Ttl = 0`), so that one tick makes it expire.
* With room for one bucket, the two callers with a key make each other's bucket go; the
  third has no key, is refused before the limiter and never has one. Two workers are one that
  waits for the lock with its reading and one that overtakes it; they are interchangeable, and the run
  checks invariants only (`SYMMETRY`). A tick refills one and a half tokens, so that amounts are
  fractional and two ticks fill a bucket; three ticks let a bucket fill, go and come back while a
  request waits. How the limiter counts and what an answer means to a message do not depend on
  each other, which is why the deployment with messages has less time.
  The node with a key file has two processes, whose starts overlap, follow each
  other or are cut off. Only one message goes through the mix, where nothing
  relates two packets.
* Three numbers are a call, a scan and a plaintext at once, or a call before and
  after a restart. A channel of one sighting is full at the second.

The instances of `mesh_window` and `RelayPull` were tried larger: two overlapping
receives of one client (`Polls` with two members) are too large to be run with the others, see
[not modelled](#7-not-modelled).

`CHECK_DEADLOCK FALSE` is set for the mesh, `trust`, `uplink` and `bridge`, where an
instance really stops once its sessions, messages, numbers and time are used up.
The other models always have a next step.

## 4. Fairness

* `SelfDestruct!FairSpec`: time passes (`Tick`) and tokio eventually polls a
  timer that is due (`TimerFire`). Nothing is assumed of the application.
* `MeshRelay!FairSpec`: the runtime polls each end's task, which consumes the
  message it waits for or notices that its peer is gone. Links are not assumed
  to stay up.
* `MeshTransport!FairSpec`: clients keep polling (`ReadWindow`, `TakeWindow`,
  `Advance` weakly fair), devices in range keep syncing (`Offer` weakly fair), and
  a copy offered again and again arrives (`Arrive` strongly fair: the radio loses
  copies, but not all of them).
* `RelayPull!FairSpec`: users keep pulling and the mix network delivers a request
  that is sent again and again (strongly fair: either may be held up by others
  or by drops); handlers, clients, other users' pulls and time go on (weakly
  fair). Responses are not assumed to arrive.

* `MobileBridge!FairSpec`: the runtime polls the sync loop (`TaskStep("sync")`,
  `NextSighting`) and the collector's send (weakly fair). `Deadline` is strongly
  fair: `select!` takes a branch that is ready at random, so sightings do not win
  for ever, but a collector that waits for room in the sync loop's channel does
  not look at its deadline. Kotlin owes nothing, which is why `ScansEnd` has
  its second half: a call that is never answered holds the sync loop, and with it the scan.
  Nor is a mesh assumed to run on, or a call that stops a scan to succeed: `unstopped` names those.

`Tick` of `RelayPull` does not pass the TTL while a waiting call's row is staged:
a client sleeps for at most 300 ms (`protocol/src/transport.rs:164`) before its GET and the TTL
is five minutes. A device suspended in between is not covered by `NoneForgotten`.

## 5. What the violations show

Each is a disagreement between what a comment or a design note says and what the
code does; `PROJECT.json` (`findings`) quotes both.

* `mesh_own_mail`: both directions of a conversation share one address sequence;
  a sender that polls claims its own message, and its watermark moves past it.
* `mesh_stuck`: the window is anchored at the oldest missing index; one message
  that is lost for good blocks all but the next `WINDOW - 1`.
* `relay_orphan`: leg 2 asks once, and leg 1 drains the queue and inserts the row in two
  critical sections. In the trace (`Submit`, `Ask`, `DrainToStage`, `Fetch`, `Stage`) the GET comes
  between them (`server/src/store.rs:324`), finds nothing, and the row is inserted for
  nobody. Any GET that is served before the insertion ends this way; since leg 2 waits 50 to 300 ms only
  (`protocol/src/transport.rs:273`) while leg 1 has random delays ahead of it, that is no rare case.

`OnlyLossBlocks` and `Fetched` say the other half of the last two: nothing else
blocks or loses a message.

Seen while modelling, and kept in the models as the code has it, without a run
that shows it:

* Sealing records no watermark and nothing records one periodically, so a clock
  set back before the next check goes unnoticed and `restore` revives a message past its
  deadline (`protocol/src/self_destruct.rs:484`, where `:634` calls that exactly the failure
  to prevent); `DowntimeCounts` and `RestoredInTime` are therefore about clocks nobody set.
* The clock guard compares a reading made earlier with a watermark that another
  task may have advanced since (`protocol/src/clock_guard.rs:99`): a slow task is told of
  a rollback that did not happen, and its key is erased. `NoFalseRollback` holds
  for one task, and `OneGuardIsSound` assumes one.
* A verified user that burns the conversation and then refuses a message of another
  key has that key pinned, and `encrypt` uses it: `OnlyARefusalRepins` names this
  as the one way. Forgetting the verification alone does not let a peer that
  reinstalled back in, the pin has to be burned too.
* `build_prekey_bundle` always publishes the first one-time prekey: everyone who asks
  gets the same, and of several sessions made from it only the first can be opened
  (`PrekeyTaken`).
* The relay's certificate authority is new at every start: certificates issued
  before are refused by a client that has fetched the new trust root (`CertificateStale`).
* The limiter judges an idle bucket with a refill of at least 0.001 per second;
  with a slower one it is judged full too early, which the comment there calls
  behaviourally identical. `LimiterAssumption` excludes it.
* The limiter is called a classic token bucket (`gateway/src/auth.rs:224`), which grants no more than a burst
  and the refill of a stretch. It grants more: of two requests that read the clock one after
  the other (`:243`) the first may get the lock last (`:244`), and takes `last_refill` back to its
  reading (`:263`), so the time between is refilled twice. Without `waited` in `RateBound` TLC finds this in
  eight states; with it, it is bounded by the time requests wait for a lock, which is short.
* `HybridTransport` calls the two paths structurally disjoint. After an answer of the
  primary that was lost, both have the message (`DuplicateForCause`).
* `DirectTransport` posts to `/v1/...`, the gateway serves `/api/v1/...`: `Uplink` takes
  a transport configured with the prefix.
* An Android device advertises the token with the protocol tag in front, 18 bytes,
  and a scan there accepts 16, which is what BlueZ advertises (`ScanResult`).
* Stopping the mesh stops neither Kotlin's scanner nor its advertiser, although
  `mobile-bridge/src/lifecycle.rs:129-130` says that dropping the radio makes the Kotlin side stop both: the radio has
  no `Drop`, a scan is only stopped by `stopScan` (`MeshBridge.kt:220`), which only the
  collector calls, and that was a task of the runtime. A scan that was under way goes on for good, as it does
  when `stop_scan` fails, which is ignored (`mobile-bridge/src/radio.rs:95`); `ScansEnd` names both as causes. It also
  leaves entries in the registries; a pending accept among them takes the first
  incoming link after the next start. `EntriesAccounted` names the stop as a cause.

## 6. Proofs

The theorems hold for any finite or infinite sets and any bounds the
modules' own assumptions allow; those are listed with each module.

**`SelfDestruct_proofs`**, for any messages, handles and callers, any window and epoch.
Assumptions: `NoneAssumption` (`None` is neither a message nor a handle),
`TimeAssumption`, `BoundAssumption` (times are natural numbers, the window positive).

| Theorem | Property | Inductive invariant |
|---|---|---|
| `TypeCorrect` | `TypeOK` | `Shape` |
| `KeysEnd` | `LiveKeysEnd` | `Shape`, and the property itself |
| `LifeIsBounded`, `RestoredOnlyInTime` | `DowntimeCounts`, `RestoredInTime` | `Shape`, `HonestClocks` |
| `ErasureIsPermanent` | `GoneIsForever` | `Shape` |
| `ReadAtMostOnce` | `ReadOnce` | `Shape`, `Unexported` |
| `OneGuardIsSound` | `NoFalseRollback`, `WatermarkMonotone` | `Shape`, `HonestClocks`, `GuardOK` |
| `KeysAreConserved` | `KeyConservation` | `Shape`, `Unexported`, `Conserved` |

`TypeOK` alone is not inductive: that `rows` stays a natural number, or that the
message of a live slot is one, depends on how the parts fit. `Shape` adds that a
sealed message has a deadline exactly if it is timed (`SealedOK`), that a slot is
free or belongs to a sealed message (`SlotOK`), what a caller holds at each
program counter (`CallerOK`), and that only sealed messages have rows (`RowsOK`).
`HonestClocks` relates every reading still in use to the real time it was made
at, as long as nobody set the clock; without it nothing links a restored timer
to the seal. `Unexported` says that a never exported message of a mode that
erases on read has at most one live slot, no row and no holder, and is unread as
long as that slot lives. `Conserved` says that the live slots, holders and rows of a message are
finitely many and, with its reads, no more than one and its exports: a step moves one copy from
one place to another, spends it, or makes one more and counts it (`Moves`). `GuardOK` says that the watermark is not ahead of the
readings that are yet to be compared with it, which holds for a single caller
only.

**`Servers_proofs`** has the two servers by themselves. `RateIsBounded` (`RateBound`), for any callers, workers, burst, limit on
buckets, and any refill from `Floor` up (`LimiterAssumption`), however long requests wait for the lock and in
whatever order they get it. The invariant is `Budget`: types, no reading and no bucket is ahead
of the clock (`Dated`), and what the watched caller was
granted from `since` on and what its bucket holds fit into the bound as it was when the
bucket was last refilled, or it has no bucket, which comes back full, and was
granted no more than what was refilled since (`Fits`). An older reading takes the bucket's time back, and
by as much at most as the request has waited (`TryAcquireBudget`). That a dropped bucket
leaves the room of a full one (`RetainedFits`) is where `PerTick >= Floor` is needed (`JudgedByRefill`).

`IdentityOutlives` (`IdentityStays`) is for any nodes, processes
and number of starts (`NodesAssumption`). `Agreed` says that every process that has loaded a key,
and the topology, have the key in the file or the environment (`AgreedOn`), and
that only one process writes a file, which is not whole until it has (`WritersOK`).

**`Uplink_proofs`**, for any messages, callers, nodes and path lengths (`UplinkAssumption`):

| Theorem | Property | Inductive invariant |
|---|---|---|
| `DeploymentRateIsBounded` | `RateBound` | every step is one of `LimiterNext` or leaves the limiter alone, also of a gateway that turns keys away first |
| `DeploymentIdentityOutlives` | `IdentityStays` | every step is one of `MixNodeNext` or leaves the nodes alone |
| `NothingLost` | `LossForCause` | `Shape` and `Kept`: a message whose sender was told that it was sent is with the relay, a hop, the mesh or a receive under way, returned or lost |
| `TypeCorrect` | `TypeOK` | the four of the other rows, and `TwoPaths`, `Routed` |
| `NothingDoubled` | `DuplicateForCause` | `Shape` and `Single`: unless its sender is unsure, a message is in one place only, was not returned yet, and is nowhere when it was not sent or its send failed |

The part of `TypeOK` worth a proof is that `receive` returns a message at most twice and
that no packet comes to a hop again. `TwoPaths` counts: a message is in at most one place of the
primary path, and what it was returned together with that place and the mesh is at most two. `Routed`
says that the hops to come are distinct, so that there are no more of them than nodes.

**`TrustSession_proofs`**, for any users, verifying and sealing or not, any pool of prekeys
and any bounds (`UsersAssumption`, `BatchAssumption`, `BoundAssumption`, `NoneAssumption`):

| Theorem | Property | Inductive invariant |
|---|---|---|
| `TypeCorrect` | `TypeOK` | `Shape`: types of what is on the wire and in the store, and that every message belongs to an agreement (`Belongs`) |
| `PinsAreKept` | `NeverRepinned` | `Shape` |
| `VerifiedKeysHold` | `OnlyARefusalRepins` | `Shape`, and the property itself |
| `PrekeysOpenOnce` | `PrekeyOnce` | `Shape`, the property, and `Consumed`: a prekey that opened a session is not in the store any more |
| `OnlyForCause` | `UnreadableForCause` | `Shape` and `Traced`: below |

Encrypting writes the pin as well; that it writes what is there already is the last
conjunct of `TypeOK` (the session in use is with the pinned key), which is why
`PinsAreKept` and `VerifiedKeysHold` need `Shape` although they do not mention sessions.

`UnreadableForCause` speaks of one user and one letter; what makes it inductive is what the
*other* user still has. `Traced` follows every session to its two ends, where a session
counts that an end has discarded: its initiator has it, and once a prekey message need not be
repeated the peer has it too (`SessionsTraced`). So a letter that is no prekey message is of a
session its recipient has or has discarded, and a prekey message comes from the initiator
(`MailTraced`); of a prekey no longer in the store, the session it opened is known
(`PrekeysTraced`), and it is either the letter's own or the one that took the prekey. Each part
survives a step because a session is never forgotten silently (`Grown`).

**`RelayPull_proofs`**, for any users, messages, tokens and lifetime of a staged row, with and
without faults (`ToAssumption`, `TTLAssumption`):

| Theorem | Property | Inductive invariant |
|---|---|---|
| `TypeCorrect` | `TypeOK` | `Shape`: what a call may hold in which pair of its two program counters, that its mail is for the user who asks, and that no sweep takes a row somebody is about to fetch (`CallOK`, `OwnMail`) |
| `NothingForgotten` | `NoneForgotten` | `Custody` |
| `AtMostOneCustodian` | `OneCustodian` | `Custody` |
| `Implements` | `ImplementsMailbox` | `Custody` |

`Custody` is `Shape` with three facts: a message that was sent is on its way, returned or lost
(`Kept`); none that is lost is still on its way (`NotLost`); and the queue, the packets, the rows and the
responses of all calls and what users have got are pairwise disjoint (`Apart`). `Kept` without `Apart` is
not inductive: a drain that hands over one copy would forget the other. To the messages a step
does one of three things, whatever handler it is of: one is posted, those of a response are
handed over, or some are given up with a cause (`Moves`). That is proved
action by action, and `Kept`, `NotLost` and the step of `Mailbox` follow from it.

**`MeshRelay_proofs`**, for any devices, bundles, sessions, links and caps
(`StoreAssumption`, `SizeAssumption`, `CapAssumption`, `LinkAssumption`):

| Theorem | Property | Inductive invariant |
|---|---|---|
| `NeverOutOfOrder` | `InStep` | `Synced` |
| `CapNeverBites` | `BudgetSuffices` | `Synced` |
| `Implements` | `ImplementsGossip` | `Synced` |
| `CapsHold` | `StoreBounded` | `Synced`, `Counted` |
| `TypeCorrect` | `TypeOK` | `Synced`, `Counted` |
| `SyncsAreWhole` | `SyncComplete` | `Synced`, `Counted`, `Promises` |

`Synced` looks at one direction of a session at a time. What the receiver has read and what is still in
its inbox, in a row, is what the sender has sent so far (`Stream`): a `Have`, a `Want`, as many bundles as
were wanted, and a `Done`. So the receiver's program counter fixes the type at the head of
its inbox, which is `InStep`, and the bundles to come never exceed the budget, which is `BudgetSuffices`.
For the refinement the bundles in an inbox are what is in `flight`; a step is shown to be
a stutter of `Gossip`, or `Offer`, `Arrive`, `Lost`, `Leave`, `Crash` and so on. `Composed` then is proved from
`Gossip`'s steps alone, for any implementation of it. `Counted` says that `total_bytes` is the sum
of the sizes in the store. That sum is a fold, defined by recursion over a finite set, and
induction is out of reach (below); `BytesAdd` and `BytesRemove` are instead proved by a
counterexample of least cardinality, with the library's theorem that the natural numbers
below a bound are well-founded.

`Promises` is about both directions at once. What an end was offered and what it asks for, its peer has in
its store, or it is gone for a reason, until the peer serves it; a request
on its way is the one the asker remembers, and no longer than a session may be; from the moment the peer has served,
every bundle asked for has come, is gone, or is in the asker's inbox. The three parts hand over to each
other: `Start` offers what is in the store, `RecvHave` asks for part of the offer, and `RecvWant` cuts nothing off
(`NotTruncated`) and serves all of it (`ServesAll`). `Stays` is why concurrent sessions on the same
store do no harm: whatever another task does, a bundle leaves a store only expired, claimed, or with
its device, and then the end has failed too. When an end is done, `Stream` says that its
inbox is empty, and what remains is `SyncComplete`.

**`MeshTransport_proofs`**, for any network, conversations, senders, restarts and window sizes
(`EndsAssumption`, `RoutesAssumption`, `WindowAssumption`, which asks for finitely many bundles,
as there are in any run of the program, because `Fresh` and the counters are bounded by their number):

| Theorem | Property | Inductive invariant |
|---|---|---|
| `TypeCorrect` | `TypeOK` | `Talking` |
| `UsesGossip` | `GossipSpec`, which `MeshRelay` implements | `Talking` |
| `NothingSkipped` | `NoSilentSkip` | `Talking` |
| `WindowBounds` | `AheadInWindow`, with one receiving task (`OneReceiver`) | `Windowed` |
| `NotTwice` | `NeverBehind`, with one receiving task (`OneReceiver`) | `Talking`, `Windowed` |

`Talking` is the network's invariant (`Carried`), the types of the conversation (`Conversing`), that a bundle
keeps the address it was composed for (`Addressed`), that whatever the watermark has passed or
`claimed_ahead` contains was returned (`Accounted`), and that there are as many bundles as a counter
counts (`Numbered`). `Accounted` rests on what `PastContiguous` computes: it stops
at the first index that is not claimed, which exists because finitely many are (`StopsAtGap`). It holds
however receives overlap. `Windowed`, that the watermark a call has read is the current one,
does not: that is why the last two theorems have the hypothesis `OneReceiver`. The code has no lock that
would make it true by itself; the callers in the repository, which are tests, receive from one task.

**`MobileBridge_proofs`**, for any numbers of tasks, threads, calls, sightings and starts, and whatever
Kotlin answers and when (`BridgeAssumption`):

| Theorem | Property | Inductive invariant |
|---|---|---|
| `TypeCorrect` | `TypeOK` | `Bridged` |
| `NoEntryUnexplained` | `EntriesAccounted` | `Bridged` |
| `NumbersAreNotMistaken` | `OwnAnswer` | `Bridged` |

`Bridged` has in it that the number of a registration tells which one it was, since `NEXT_ID` never gives
a number twice (`Numbered`), and so for every copy of a number: plaintexts (`Owned`), what a task waits for
(`Waits`), what Kotlin was asked (`Known`). `Entered` says that an entry belongs to a task that waits for it
or to a cause, and `Collected` the same for the streams of scans, which takes that the sync loop does
not start over while it collects (`Busy`). `MaxIds` is any
bound on the numbers handed out; a wrap of the 64 bits of `NEXT_ID` is beyond it.

Each preservation lemma has one step per action, or per group of actions that do the same to
the state the lemma is about. The temporal steps are PTL's. `Mailbox` and `Gossip` are
implemented in the sense of their safety formulas (`Init /\ [][Next]_vars`).

Every safety property of the passing runs is a theorem. Model-checked only is liveness (`TimedKeysErased`,
`SessionsEnd`, `OnlyLossBlocks`, `Fetched`, `ScansEnd`), which is out of the prover's reach, as are
`ENABLED` and what a recursive definition computes, where no argument by a least counterexample
was found.

## 7. Not modelled

Cryptography (Signal's ratchet, Sphinx, HKDF, AEAD, signatures), byte formats
and padding; SQLite's own crash safety; TLS set-up; BlueZ and the mobile
platforms beyond their callbacks; locking and zeroizing of memory, which are
writes nobody reads afterwards; the mesh simulator, a measuring harness; the CLI's
demonstration and its stub relay; the mobile app's user interface. Drop cover
traffic changes no state; pull cover is modelled for its effect on the relay's
sweep. Decoy addresses in a poll set match nothing. In `RelayPull` the hops of
a mix path are not told apart, they are in `Uplink`, where in turn relay and mesh
are sets.

Two hazards have no property. Two receives of one client that overlap deliver an
index a second time (`mesh/src/transport.rs:247`): `AheadInWindow` and `NeverBehind` are about
one receiving task, and say so as theorems (`OneReceiver`); an instance with two was too large to be
run with the others. What holds of both is that nothing is skipped (`NothingSkipped`). A bundle that
expires in the recipient's own store is delivered by the next poll (`:265`), as
`TakeWindow` has it. `delete_message`, documented as an acknowledgement that no
client relies on (`server/src/routes.rs:258`), is modelled and asked nothing of.

## 8. Plan

Proofs: what remains true of `AheadInWindow` and `NeverBehind` when receives of one client
overlap, next to `NothingSkipped`, which is proved without the hypothesis `OneReceiver`.

Models: `MeshTransport` with two composing and two receiving tasks of one client,
on a smaller `Gossip`; the stub relay of the CLI next to `RelayPull`, against `Mailbox`.
