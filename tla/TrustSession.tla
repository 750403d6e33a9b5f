---------------------------- MODULE TrustSession ----------------------------
(***************************************************************************)
(* Signal sessions between users, the identity keys they pin and verify,   *)
(* and the relay's part in both: prekey bundles and sender certificates.   *)
(*                                                                         *)
(*   protocol/src/session.rs, store.rs   SessionManager and its store      *)
(*   protocol/src/trust.rs               fingerprints verified by a user   *)
(*   protocol/src/identity.rs            an installation's keys            *)
(*   protocol/src/sealed_sender.rs       certificates, issued by           *)
(*   server/src/routes.rs, store.rs      the relay, which restarts         *)
(*   cli/src/peer.rs                     a peer that reinstalls            *)
(*                                                                         *)
(* An identity key is its user and the number of the installation.  A      *)
(* session is the X3DH agreement it started from; ratchet keys are the     *)
(* numbers of the messages.  A call that fails changes nothing and is no   *)
(* step, except where the code has changed something before it fails.      *)
(* Every user is honest; mail may stay unread, arrive late or twice.       *)
(***************************************************************************)
EXTENDS Integers, Sequences, FiniteSets

CONSTANTS
  Users,
  Careful,      \* users that only call the ..._verified methods
  Sealing,      \* users that use sealed sender; the CLI's peer does not
  Batch,        \* ids of the one-time prekeys, ONE_TIME_PREKEY_BATCH of them
  Ttl,          \* lifetime of a sender certificate, after the relay's clamp
  None,         \* an absent entry of a map
  Installs,     \* bound, per user: number of reinstallations
  MaxSessions,  \* bound: sessions ever initiated
  MaxMail,      \* bound: messages ever encrypted
  MaxRestarts,  \* bound: restarts of the relay
  MaxNow        \* bound: time

ASSUME UsersAssumption == Careful \cup Sealing \subseteq Users /\ Installs \in [Users -> Nat]
ASSUME BatchAssumption == 0 \in Batch /\ Batch \subseteq Nat
ASSUME BoundAssumption == Ttl \in Nat /\ MaxRestarts \in Nat
ASSUME NoneAssumption == None \notin (Users \X Nat) \cup Nat

VARIABLES
  install,   \* per user: number of the installation
  prekeys,   \* per user: one-time prekeys in the store
  pinned,    \* per user and peer: StoreState::trusted_identities
  session,   \* per user and peer: StoreState::sessions
  spent,     \* per user: messages whose key the sessions have used up
  verified,  \* per user and peer: the trust store
  cert,      \* per user: its sender certificate
  anchor,    \* per user: the trust root it validates certificates with
  bundle,    \* relay, per user: prekey_bundles
  root,      \* relay: trust root of its certificate authority
  now,
  made,      \* history: the sessions initiated
  mail,      \* history: the envelopes sent
  opened,    \* history, per user: sessions opened with one of its prekeys
  gone,      \* history, per user: sessions it has discarded
  refused    \* history, per user and peer: a decrypted message was refused

relay == <<bundle, root>>
store == <<pinned, session, spent>>
history == <<made, mail, opened, gone, refused>>
vars == <<install, prekeys, store, verified, cert, anchor, relay, now, history>>

Key(u) == <<u, install[u]>>
IdentityKeys == Users \X Nat

\* Symmetric in the two keys: both sides compute the same one.
Fingerprint(local, remote) == {local, remote}

\* cur: the session in use; kept: it and the archived ones; pending: those
\* whose prekey message the peer has not answered.
NoSession == [cur |-> None, kept |-> {}, pending |-> {}]

Sessions == 1..Len(made)

Init ==
  /\ install = [u \in Users |-> 0]
  /\ prekeys = [u \in Users |-> Batch]
  /\ pinned = [u \in Users |-> [v \in Users |-> None]]
  /\ session = [u \in Users |-> [v \in Users |-> NoSession]]
  /\ spent = [u \in Users |-> {}]
  /\ verified = [u \in Users |-> [v \in Users |-> None]]
  /\ cert = [u \in Users |-> None]
  /\ anchor = [u \in Users |-> 0]
  /\ bundle = [u \in Users |-> None]
  /\ root = 0 /\ now = 0
  /\ made = <<>> /\ mail = <<>>
  /\ opened = [u \in Users |-> <<>>]
  /\ gone = [u \in Users |-> {}]
  /\ refused = [u \in Users |-> {}]

----------------------------------------------------------------------------
(* The trust store, and the identities libsignal pins *)

RecordVerified(u, v, fingerprint) == verified' = [verified EXCEPT ![u][v] = fingerprint]

ForgetVerification(u, v) ==
  /\ verified[u][v] # None
  /\ verified' = [verified EXCEPT ![u][v] = None]
  /\ UNCHANGED <<install, prekeys, store, cert, anchor, relay, now, history>>

\* The two users compare fingerprints out of band: the key u has pinned for v
\* is v's.
Verify(u, v) ==
  /\ pinned[u][v] = Key(v) /\ verified[u][v] = None
  /\ RecordVerified(u, v, Fingerprint(Key(u), Key(v)))
  /\ UNCHANGED <<install, prekeys, store, cert, anchor, relay, now, history>>

\* check_identity: nothing on file, or the fingerprint on file.
CheckIdentity(u, v, key) == verified[u][v] \in {None, Fingerprint(Key(u), key)}

\* Faulty variant: any key is as good as the pinned one.
TrustAny(u, v, key) == key \in IdentityKeys

\* Trust on first use.
IsTrustedIdentity(u, v, key) == pinned[u][v] \in {None, key}

SaveIdentity(u, v, key) == pinned' = [pinned EXCEPT ![u][v] = key]

----------------------------------------------------------------------------
(* Installations and what they publish *)

\* A new identity, in a new store.  The trust store and the certificate are
\* as much in memory as the sessions; the trust root is configuration.
Reinstall(u) ==
  /\ install[u] < Installs[u]
  /\ install' = [install EXCEPT ![u] = @ + 1]
  /\ prekeys' = [prekeys EXCEPT ![u] = Batch]
  /\ pinned' = [pinned EXCEPT ![u] = [v \in Users |-> None]]
  /\ session' = [session EXCEPT ![u] = [v \in Users |-> NoSession]]
  /\ spent' = [spent EXCEPT ![u] = {}]
  /\ verified' = [verified EXCEPT ![u] = [v \in Users |-> None]]
  /\ cert' = [cert EXCEPT ![u] = None]
  /\ gone' = [gone EXCEPT ![u] = @ \cup UNION {session[u][v].kept : v \in Users}]
  /\ opened' = [opened EXCEPT ![u] = <<>>]
  /\ refused' = [refused EXCEPT ![u] = {}]
  /\ UNCHANGED <<anchor, relay, now, made, mail>>

\* Faulty variant: a prekey that was never stored.
BundleOfUnknown(u) == [key |-> Key(u), prekey |-> -1]

\* build_prekey_bundle: the first of the pool, which it does not shorten.
BundleOf(u) == [key |-> Key(u), prekey |-> 0]

PutBundle(u) == bundle' = [bundle EXCEPT ![u] = BundleOf(u)]

\* upload_prekey_bundle, at the request of u.
Publish(u) ==
  /\ bundle[u] # BundleOf(u)
  /\ PutBundle(u)
  /\ UNCHANGED <<install, prekeys, store, verified, cert, anchor, root, now, history>>

----------------------------------------------------------------------------
(* Starting and ending a session *)

\* get_bundle reads: the same bundle, and prekey, for everyone who asks.
GetBundle(v) == bundle[v]

\* process_prekey_bundle: the session in use, if any, is archived.
Initiate(u, v, b) ==
  LET s == Len(made) + 1 IN
  /\ IsTrustedIdentity(u, v, b.key)
  /\ SaveIdentity(u, v, b.key)
  /\ session' = [session EXCEPT ![u][v] =
       [cur |-> s, kept |-> @.kept \cup {s}, pending |-> @.pending \cup {s}]]
  /\ made' = Append(made, [by |-> u, byKey |-> Key(u), to |-> v, toKey |-> b.key,
                           prekey |-> b.prekey])

\* Faulty variant: the check is left to the caller.
MayInitiateAny(u, v, b) == b.key[1] = v

\* initiate_session_verified checks before it writes anything.
MayInitiate(u, v, b) == u \in Careful => CheckIdentity(u, v, b.key)

InitiateSession(u, v) ==
  LET b == GetBundle(v) IN
  /\ u # v /\ b # None /\ Len(made) < MaxSessions
  /\ MayInitiate(u, v, b)
  /\ Initiate(u, v, b)
  /\ UNCHANGED <<install, prekeys, spent, verified, cert, anchor, relay, now,
                 mail, opened, gone, refused>>

HasConversationState(u, v) == session[u][v] # NoSession \/ pinned[u][v] # None

\* Faulty variant: the session stays.
BurnIdentity(u, v) == pinned' = [pinned EXCEPT ![u][v] = None] /\ UNCHANGED session

\* Both maps lose the peer's entry; the trust store is not asked.
BurnSession(u, v) ==
  /\ session' = [session EXCEPT ![u][v] = NoSession]
  /\ pinned' = [pinned EXCEPT ![u][v] = None]

BurnConversation(u, v) ==
  LET s == session[u][v].kept IN
  /\ HasConversationState(u, v)
  /\ BurnSession(u, v)
  /\ spent' = [spent EXCEPT ![u] = {i \in @ : mail[i].sid \notin s}]
  /\ gone' = [gone EXCEPT ![u] = @ \cup s]
  /\ refused' = [refused EXCEPT ![u] = @ \ {v}]
  /\ UNCHANGED <<install, prekeys, verified, cert, anchor, relay, now, made, mail, opened>>

----------------------------------------------------------------------------
(* Sealed-sender certificates *)

\* The relay binds the key it is shown, for at most MAX_SENDER_CERT_TTL.
IssueSenderCertificate(u) ==
  /\ u \in Sealing
  /\ cert' = [cert EXCEPT ![u] = [root |-> root, until |-> now + Ttl]]
  /\ cert' # cert
  /\ UNCHANGED <<install, prekeys, store, verified, anchor, relay, now, history>>

\* get_trust_root: a client that (again) asks the relay.
FetchTrustRoot(u) ==
  /\ Sealing \ {u} # {} /\ anchor[u] # root
  /\ anchor' = [anchor EXCEPT ![u] = root]
  /\ UNCHANGED <<install, prekeys, store, verified, cert, relay, now, history>>

\* CertificateAuthority::new at every start; the tables stay.
RelayRestarts ==
  /\ root < MaxRestarts
  /\ root' = root + 1
  /\ UNCHANGED <<install, prekeys, store, verified, cert, anchor, bundle, now, history>>

ValidCertificate(u, c) == c.root = anchor[u] /\ now <= c.until

Tick ==
  /\ now < MaxNow
  /\ now' = now + 1
  /\ UNCHANGED <<install, prekeys, store, verified, cert, anchor, relay, history>>

----------------------------------------------------------------------------
(* Messages *)

EnvelopeTypes == {"PreKey", "Ratchet", "SealedSender"}

\* What is on the wire; prekey and sid are inside the ciphertext.
Envelope(u, v, type, c) ==
  LET s == session[u][v] IN
  [from |-> u, to |-> v, type |-> type, sid |-> s.cur,
   prekey |-> s.cur \in s.pending, cert |-> c]

SenderKey(e) ==
  LET s == made[e.sid] IN IF s.by = e.from THEN s.byKey ELSE s.toKey
RecipientKey(e) ==
  LET s == made[e.sid] IN IF s.by = e.to THEN s.byKey ELSE s.toKey
PeerKey(u, v) ==
  LET s == made[session[u][v].cur] IN IF s.by = v THEN s.byKey ELSE s.toKey

Sendable(u, v) ==
  /\ session[u][v].cur # None
  /\ IsTrustedIdentity(u, v, PeerKey(u, v))
  /\ Len(mail) < MaxMail

\* A prekey message until the peer has answered on the session.
Encrypt(u, v) ==
  /\ Sendable(u, v)
  /\ SaveIdentity(u, v, PeerKey(u, v))
  /\ mail' = Append(mail, Envelope(u, v,
       IF session[u][v].cur \in session[u][v].pending THEN "PreKey" ELSE "Ratchet", None))
  /\ UNCHANGED <<install, prekeys, session, spent, verified, cert, anchor, relay, now,
                 made, opened, gone, refused>>

EncryptSealed(u, v) ==
  /\ Sendable(u, v)
  /\ cert[u] # None
  /\ SaveIdentity(u, v, PeerKey(u, v))
  /\ mail' = Append(mail, Envelope(u, v, "SealedSender", cert[u]))
  /\ UNCHANGED <<install, prekeys, session, spent, verified, cert, anchor, relay, now,
                 made, opened, gone, refused>>

\* A one-time prekey that is still in the store.
GetPreKey(u, e) == made[e.sid].toKey = Key(u) /\ made[e.sid].prekey \in prekeys[u]

\* libsignal can decrypt: a known session, or a prekey message for the keys
\* u has, from an identity u may trust.
CanDecrypt(u, i) ==
  LET e == mail[i] IN
  /\ e.to = u /\ i \notin spent[u]
  /\ IsTrustedIdentity(u, e.from, SenderKey(e))
  /\ e.sid \in session[u][e.from].kept \/ (e.prekey /\ GetPreKey(u, e))

\* Faulty variant: the prekey stays in the store.
KeepPreKey(u, p) == p \in Batch /\ prekeys' = prekeys

RemovePreKey(u, p) == prekeys' = [prekeys EXCEPT ![u] = @ \ {p}]

\* What it leaves in the store.  The session the message came on is the one
\* used from now on, and its prekey message need not be repeated.
Decrypted(u, i) ==
  LET e == mail[i]  known == e.sid \in session[u][e.from].kept IN
  /\ session' = [session EXCEPT ![u][e.from] =
       [cur |-> e.sid, kept |-> @.kept \cup {e.sid}, pending |-> @.pending \ {e.sid}]]
  /\ SaveIdentity(u, e.from, SenderKey(e))
  /\ spent' = [spent EXCEPT ![u] = @ \cup {i}]
  /\ IF known THEN UNCHANGED <<prekeys, opened>>
     ELSE /\ RemovePreKey(u, made[e.sid].prekey)
          /\ opened' = [opened EXCEPT ![u] = Append(@, e.sid)]

Decrypt(u, i) ==
  /\ u \notin Careful
  /\ mail[i].type \in {"PreKey", "Ratchet"}
  /\ CanDecrypt(u, i)
  /\ Decrypted(u, i)
  /\ UNCHANGED <<install, verified, cert, anchor, relay, now, made, mail, gone, refused>>

\* The certificate is validated before anything is decrypted.
DecryptSealed(u, i) ==
  /\ mail[i].type = "SealedSender"
  /\ ValidCertificate(u, mail[i].cert)
  /\ CanDecrypt(u, i)
  /\ Decrypted(u, i)

\* The sender's key is checked when the decryption has already pinned it,
\* stored the session and used the keys up; only the plaintext is held back.
\* For a user that verifies nobody this is decrypt_sealed.
DecryptSealedVerified(u, i) ==
  LET v == mail[i].from IN
  /\ DecryptSealed(u, i)
  /\ refused' = IF CheckIdentity(u, v, pinned'[u][v]) THEN refused
                ELSE [refused EXCEPT ![u] = @ \cup {v}]
  /\ UNCHANGED <<install, verified, cert, anchor, relay, now, made, mail, gone>>

----------------------------------------------------------------------------

\* What the CLI's peer does: it enrolls at every start, publishes, decrypts
\* what it polls and answers.
Peer(u) ==
  \/ Reinstall(u) \/ Publish(u)
  \/ \E i \in DOMAIN mail : Decrypt(u, i)
  \/ \E v \in Users : Encrypt(u, v)

Client(u) ==
  \/ IssueSenderCertificate(u) \/ FetchTrustRoot(u)
  \/ \E i \in DOMAIN mail : DecryptSealedVerified(u, i)
  \/ \E v \in Users :
       \/ InitiateSession(u, v) \/ BurnConversation(u, v) \/ EncryptSealed(u, v)
       \/ u \in Careful /\ (Verify(u, v) \/ ForgetVerification(u, v))

Next == Tick \/ RelayRestarts \/ \E u \in Users : Peer(u) \/ Client(u)

Spec == Init /\ [][Next]_vars

----------------------------------------------------------------------------
(* Properties *)

CertType == [root : 0..MaxRestarts, until : Nat]
SessionType ==
  [cur : Sessions \cup {None}, kept : SUBSET Sessions, pending : SUBSET Sessions]

\* Types; a session in use is kept, a pending one is kept and was initiated
\* here, and the key pinned for a peer is the one its session is with.
TypeOK ==
  /\ install \in [Users -> Nat] /\ prekeys \in [Users -> SUBSET Batch]
  /\ pinned \in [Users -> [Users -> IdentityKeys \cup {None}]]
  /\ session \in [Users -> [Users -> SessionType]]
  /\ spent \in [Users -> SUBSET DOMAIN mail]
  /\ cert \in [Users -> CertType \cup {None}]
  /\ anchor \in [Users -> 0..MaxRestarts] /\ root \in 0..MaxRestarts /\ now \in Nat
  /\ \A i \in DOMAIN mail : mail[i].type \in EnvelopeTypes
  /\ \A u, v \in Users : LET s == session[u][v] IN
       /\ s.pending \subseteq {k \in s.kept : made[k].by = u}
       /\ s.cur # None => s.cur \in s.kept /\ PeerKey(u, v) = pinned[u][v]

\* Trust on first use pins: the key known for a peer is never replaced by
\* another one, only removed, by burning the conversation or reinstalling.
\* save_identity overwrites, so every path to it has to have asked first.
NeverRepinned ==
  [][\A u, v \in Users : pinned[u][v] # None => pinned'[u][v] \in {pinned[u][v], None}]_vars

\* A one-time prekey opens one session: a prekey message that arrives again,
\* after the conversation it started was burned too, opens nothing, nor does
\* another one that was made from the same bundle.
PrekeyOnce ==
  \A u \in Users : \A i, j \in DOMAIN opened[u] :
    made[opened[u][i]].prekey = made[opened[u][j]].prekey => i = j

\* The promise of TrustLevel::Verified is that a different key is a hard
\* failure, not a silent re-pin.  A user that only calls the verified methods
\* has another key than the verified one pinned for a peer only if it burned
\* the conversation and the check then refused a message of the new key,
\* which by then was pinned: every other path stops before it writes.
OnlyARefusalRepins ==
  \A u \in Careful, v \in Users :
    /\ verified[u][v] # None /\ pinned[u][v] # None
    /\ Fingerprint(Key(u), pinned[u][v]) # verified[u][v]
    => v \in refused[u]

\* Why an envelope that was not decrypted cannot be: one of the two has
\* reinstalled or burned, another key came first, another session took the
\* prekey, or the certificate has expired or is of another run of the relay
\* than the recipient's trust root.
Reinstalled(e) == RecipientKey(e) # Key(e.to)
OtherKeyPinned(e) == pinned[e.to][e.from] \notin {None, SenderKey(e)}
PrekeyTaken(e) ==
  /\ e.prekey
  /\ \E i \in DOMAIN opened[e.to] : LET k == opened[e.to][i] IN
       k # e.sid /\ made[k].prekey = made[e.sid].prekey
CertificateStale(e) ==
  e.type = "SealedSender" /\ (e.cert.until < now \/ e.cert.root # anchor[e.to])

\* Nothing else makes mail unreadable: both ends may initiate at once,
\* initiate again, or answer on any of their sessions, in any order.
UnreadableForCause ==
  \A i \in DOMAIN mail : LET e == mail[i] IN
    \/ i \in spent[e.to]
    \/ CanDecrypt(e.to, i) /\ (e.type = "SealedSender" => ValidCertificate(e.to, e.cert))
    \/ Reinstalled(e) \/ e.sid \in gone[e.to] \/ OtherKeyPinned(e)
    \/ PrekeyTaken(e) \/ CertificateStale(e)
=============================================================================
