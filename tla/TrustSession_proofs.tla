------------------------ MODULE TrustSession_proofs ------------------------
(***************************************************************************)
(* Pins are kept, verified keys are only ever displaced by a refusal, a    *)
(* one-time prekey opens one session, and mail is unreadable only for a    *)
(* cause: for any users, verifying and sealing or not, any pool of prekeys *)
(* and any number of installations, sessions, messages and restarts of the *)
(* relay.                                                                  *)
(***************************************************************************)
EXTENDS TrustSession, TLAPS

Agreements ==
  [by : Users, byKey : IdentityKeys, to : Users, toKey : IdentityKeys, prekey : Batch]
Mails ==
  [from : Users, to : Users, type : EnvelopeTypes, sid : Nat, prekey : BOOLEAN,
   cert : CertType \cup {None}]
Bundles == [key : IdentityKeys, prekey : Batch]

Types ==
  /\ install \in [Users -> Nat] /\ prekeys \in [Users -> SUBSET Batch]
  /\ pinned \in [Users -> [Users -> IdentityKeys \cup {None}]]
  /\ session \in [Users -> [Users -> SessionType]]
  /\ spent \in [Users -> SUBSET DOMAIN mail]
  /\ verified \in [Users -> [Users -> (SUBSET IdentityKeys) \cup {None}]]
  /\ cert \in [Users -> CertType \cup {None}]
  /\ anchor \in [Users -> 0..MaxRestarts] /\ root \in 0..MaxRestarts /\ now \in Nat
  /\ bundle \in [Users -> Bundles \cup {None}]
  /\ made \in Seq(Agreements) /\ mail \in Seq(Mails)
  /\ opened \in [Users -> Seq(Sessions)]
  /\ refused \in [Users -> SUBSET Users]

\* What the mail and the sessions say of the agreements they belong to.
Belongs ==
  /\ \A i \in DOMAIN mail : mail[i].sid \in Sessions
  /\ \A u, v \in Users :
       /\ \A k \in session[u][v].pending : k \in session[u][v].kept /\ made[k].by = u
       /\ session[u][v].cur # None =>
            session[u][v].cur \in session[u][v].kept /\ PeerKey(u, v) = pinned[u][v]

\* The inductive invariant behind the types.
Shape == Types /\ Belongs

LEMMA KeyType ==
  ASSUME Types, NEW u \in Users
  PROVE  Key(u) \in IdentityKeys /\ BundleOf(u) \in Bundles
BY BatchAssumption DEF Types, Key, IdentityKeys, BundleOf, Bundles

LEMMA InitShape == Init => Shape
<1> SUFFICES ASSUME Init PROVE Shape
  OBVIOUS
<1>1. made = <<>> /\ mail = <<>> /\ Sessions = {} /\ DOMAIN mail = {}
  BY DEF Init, Sessions
<1>2. NoSession \in SessionType /\ NoSession.pending = {} /\ NoSession.cur = None
  BY DEF NoSession, SessionType
<1>3. made \in Seq(Agreements) /\ mail \in Seq(Mails) /\ <<>> \in Seq(Sessions)
  BY <1>1
<1>4. Types
  BY <1>1, <1>2, <1>3, BoundAssumption DEF Init, Types
<1>5. Belongs
  BY <1>1, <1>2 DEF Init, Belongs
<1> QED
  BY <1>4, <1>5 DEF Shape

\* Sessions, mail, pins and prekeys are left alone by the trust store and by
\* what the relay hands out and keeps.
Aside(u) ==
  \/ \E v \in Users : Verify(u, v) \/ ForgetVerification(u, v)
  \/ Publish(u) \/ IssueSenderCertificate(u) \/ FetchTrustRoot(u)

LEMMA AsideUnchanged ==
  ASSUME NEW u \in Users, Aside(u)
  PROVE  UNCHANGED <<install, prekeys, pinned, session, spent, made, mail, opened, gone, refused>>
BY DEF Aside, Verify, ForgetVerification, Publish, IssueSenderCertificate, FetchTrustRoot,
       store, history, relay

LEMMA AsideShape ==
  ASSUME Shape, NEW u \in Users, Aside(u)
  PROVE  Shape'
<1> USE DEF Shape
<1>1. UNCHANGED <<install, prekeys, pinned, session, spent, made, mail, opened, refused>>
  BY AsideUnchanged
<1>2. verified' \in [Users -> [Users -> (SUBSET IdentityKeys) \cup {None}]]
  <2>1. ASSUME NEW v \in Users, Verify(u, v)
        PROVE  verified' \in [Users -> [Users -> (SUBSET IdentityKeys) \cup {None}]]
    <3>1. Fingerprint(Key(u), Key(v)) \in SUBSET IdentityKeys
      BY KeyType DEF Fingerprint
    <3>2. verified' = [verified EXCEPT ![u][v] = Fingerprint(Key(u), Key(v))]
      BY <2>1 DEF Verify, RecordVerified
    <3> QED
      BY <3>1, <3>2 DEF Types
  <2>2. ASSUME NEW v \in Users, ForgetVerification(u, v)
        PROVE  verified' \in [Users -> [Users -> (SUBSET IdentityKeys) \cup {None}]]
    BY <2>2 DEF ForgetVerification, Types
  <2> QED
    BY <2>1, <2>2 DEF Aside, Publish, IssueSenderCertificate, FetchTrustRoot, Types
<1>3. bundle' \in [Users -> Bundles \cup {None}]
  <2>1. CASE Publish(u)
    BY <2>1, KeyType DEF Publish, PutBundle, Types
  <2>2. CASE ~Publish(u)
    <3>1. UNCHANGED bundle
      BY <2>2 DEF Aside, Verify, ForgetVerification, IssueSenderCertificate, FetchTrustRoot, relay
    <3> QED BY <3>1 DEF Types
  <2> QED
    BY <2>1, <2>2
<1>4. /\ cert' \in [Users -> CertType \cup {None}] /\ now' \in Nat
      /\ anchor' \in [Users -> 0..MaxRestarts] /\ root' \in 0..MaxRestarts
  <2>1. CASE IssueSenderCertificate(u)
    <3>1. [root |-> root, until |-> now + Ttl] \in CertType
      BY BoundAssumption DEF Types, CertType
    <3> QED
      BY <2>1, <3>1 DEF IssueSenderCertificate, Types, relay
  <2>2. CASE FetchTrustRoot(u)
    BY <2>2 DEF FetchTrustRoot, Types, relay
  <2>3. CASE Publish(u) \/ \E v \in Users : Verify(u, v) \/ ForgetVerification(u, v)
    BY <2>3 DEF Publish, Verify, ForgetVerification, Types, relay
  <2> QED
    BY <2>1, <2>2, <2>3 DEF Aside
<1>5. Types'
  BY <1>1, <1>2, <1>3, <1>4 DEF Types, SessionType, Sessions
<1>6. Belongs'
  BY <1>1 DEF Belongs, PeerKey, Sessions
<1> QED
  BY <1>5, <1>6

LEMMA RelayShape ==
  ASSUME Shape, Tick \/ RelayRestarts
  PROVE  Shape'
<1> USE DEF Shape
<1>1. UNCHANGED <<install, prekeys, pinned, session, spent, verified, cert, anchor, bundle, made, mail,
                  opened, refused>>
  BY DEF Tick, RelayRestarts, store, history, relay
<1>2. now' \in Nat /\ root' \in 0..MaxRestarts
  BY BoundAssumption DEF Tick, RelayRestarts, Types, relay
<1>3. Types'
  BY <1>1, <1>2 DEF Types, SessionType, Sessions
<1>4. Belongs'
  BY <1>1 DEF Belongs, PeerKey, Sessions
<1> QED
  BY <1>3, <1>4

LEMMA ReinstallShape ==
  ASSUME Shape, NEW u \in Users, Reinstall(u)
  PROVE  Shape'
<1> USE DEF Shape
<1>1. NoSession \in SessionType /\ NoSession.pending = {} /\ NoSession.cur = None /\ <<>> \in Seq(Sessions)
  BY DEF NoSession, SessionType
<1>2. UNCHANGED <<anchor, bundle, root, now, made, mail>>
  BY DEF Reinstall, relay
<1>3. Types'
  <2>1. /\ install' \in [Users -> Nat] /\ prekeys' \in [Users -> SUBSET Batch]
        /\ pinned' \in [Users -> [Users -> IdentityKeys \cup {None}]]
        /\ verified' \in [Users -> [Users -> (SUBSET IdentityKeys) \cup {None}]]
        /\ cert' \in [Users -> CertType \cup {None}]
        /\ refused' \in [Users -> SUBSET Users]
    BY DEF Reinstall, Types
  <2>2. session' \in [Users -> [Users -> SessionType]] /\ opened' \in [Users -> Seq(Sessions)]
    BY <1>1 DEF Reinstall, Types
  <2>3. spent' \in [Users -> SUBSET DOMAIN mail]
    BY DEF Reinstall, Types
  <2> QED
    BY <1>2, <2>1, <2>2, <2>3 DEF Types, SessionType, Sessions
<1>4. Belongs'
  <2>1. ASSUME NEW x \in Users, NEW y \in Users
        PROVE  \/ session'[x][y] = NoSession
               \/ session'[x][y] = session[x][y] /\ pinned'[x][y] = pinned[x][y]
    BY DEF Reinstall, Types
  <2> QED
    BY <1>1, <1>2, <2>1 DEF Belongs, PeerKey, Sessions
<1> QED
  BY <1>3, <1>4

LEMMA BurnShape ==
  ASSUME Shape, NEW u \in Users, NEW v \in Users, BurnConversation(u, v)
  PROVE  Shape'
<1> USE DEF Shape
<1>1. NoSession \in SessionType /\ NoSession.pending = {} /\ NoSession.cur = None
  BY DEF NoSession, SessionType
<1>2. UNCHANGED <<install, prekeys, verified, cert, anchor, bundle, root, now, made, mail, opened>>
  BY DEF BurnConversation, relay
<1>3. Types'
  BY <1>1, <1>2 DEF BurnConversation, BurnSession, Types, SessionType, Sessions
<1>4. Belongs'
  <2>1. ASSUME NEW x \in Users, NEW y \in Users
        PROVE  \/ session'[x][y] = NoSession
               \/ session'[x][y] = session[x][y] /\ pinned'[x][y] = pinned[x][y]
    BY DEF BurnConversation, BurnSession, Types
  <2> QED
    BY <1>1, <1>2, <2>1 DEF Belongs, PeerKey, Sessions
<1> QED
  BY <1>3, <1>4

\* A new agreement leaves the others as they are.
LEMMA Agreed ==
  ASSUME Shape, NEW a \in Agreements, made' = Append(made, a)
  PROVE  /\ made' \in Seq(Agreements) /\ Len(made') = Len(made) + 1
         /\ Sessions \subseteq Sessions' /\ Len(made') \in Sessions'
         /\ made'[Len(made')] = a
         /\ \A k \in Sessions : made'[k] = made[k]
         /\ \A k \in Sessions : made[k] \in Agreements
BY DEF Shape, Types, Sessions

LEMMA InitiateShape ==
  ASSUME Shape, NEW u \in Users, NEW v \in Users, InitiateSession(u, v)
  PROVE  Shape'
<1> USE DEF Shape
<1> DEFINE b == bundle[v]
           s == Len(made) + 1
           a == [by |-> u, byKey |-> Key(u), to |-> v, toKey |-> b.key, prekey |-> b.prekey]
           old == session[u][v]
           new == [cur |-> s, kept |-> old.kept \cup {s}, pending |-> old.pending \cup {s}]
<1>1. b \in Bundles /\ b.key \in IdentityKeys /\ b.prekey \in Batch /\ u # v
  BY DEF InitiateSession, GetBundle, Types, Bundles
<1>2. a \in Agreements
  BY <1>1, KeyType DEF Agreements
<1>3. /\ UNCHANGED <<install, prekeys, spent, verified, cert, anchor, bundle, root, now, mail, opened, refused>>
      /\ pinned' = [pinned EXCEPT ![u][v] = b.key]
      /\ session' = [session EXCEPT ![u][v] = new]
      /\ made' = Append(made, a)
  BY DEF InitiateSession, Initiate, GetBundle, SaveIdentity, relay
<1> HIDE DEF a, b
<1>4. made' \in Seq(Agreements) /\ Sessions \subseteq Sessions' /\ s \in Sessions' /\ made'[s] = a
      /\ \A k \in Sessions : made'[k] = made[k]
  BY <1>2, <1>3, Agreed
<1>5. old \in SessionType /\ SessionType \subseteq SessionType' /\ new \in SessionType'
  BY <1>4 DEF Types, SessionType
<1>6. Types'
  <2>1. session' \in [Users -> [Users -> SessionType']]
    <3> HIDE DEF new
    <3> QED BY <1>3, <1>5 DEF Types
  <2>2. opened' \in [Users -> Seq(Sessions')]
    BY <1>3, <1>4 DEF Types
  <2>3. pinned' \in [Users -> [Users -> IdentityKeys \cup {None}]]
    BY <1>1, <1>3 DEF Types
  <2> QED
    BY <1>3, <1>4, <2>1, <2>2, <2>3 DEF Types
<1>7. Belongs'
  <2>1. \A i \in DOMAIN mail' : mail'[i].sid \in Sessions'
    BY <1>3, <1>4 DEF Belongs
  <2>2. ASSUME NEW x \in Users, NEW y \in Users, x # u \/ y # v
        PROVE  /\ \A k \in session'[x][y].pending : k \in session'[x][y].kept /\ made'[k].by = x
               /\ session'[x][y].cur # None =>
                    session'[x][y].cur \in session'[x][y].kept /\ PeerKey(x, y)' = pinned'[x][y]
    <3>1. session'[x][y] = session[x][y] /\ pinned'[x][y] = pinned[x][y] /\ session[x][y] \in SessionType
      BY <1>3, <2>2 DEF Types
    <3> QED
      BY <1>4, <3>1 DEF Belongs, PeerKey, SessionType
  <2>3. session'[u][v] = new /\ pinned'[u][v] = b.key
    BY <1>1, <1>3 DEF Types
  <2>4. /\ \A k \in new.pending : k \in new.kept /\ made'[k].by = u
        /\ new.cur \in new.kept
    BY <1>4, <1>5 DEF Belongs, SessionType, a
  <2>5. PeerKey(u, v)' = b.key
    BY <1>1, <1>4, <2>3 DEF PeerKey, a
  <2> QED
    BY <2>1, <2>2, <2>3, <2>4, <2>5 DEF Belongs
<1> QED
  BY <1>6, <1>7

\* The key a session is with is a key, and the pinned one.
LEMMA KeyOfSession ==
  ASSUME Shape, NEW u \in Users, NEW v \in Users, session[u][v].cur # None
  PROVE  /\ session[u][v].cur \in Sessions
         /\ PeerKey(u, v) = pinned[u][v] /\ PeerKey(u, v) \in IdentityKeys
         /\ SaveIdentity(u, v, PeerKey(u, v)) => pinned' = pinned
<1> USE DEF Shape
<1>1. session[u][v].cur \in Sessions
  BY DEF Types, SessionType
<1>2. PeerKey(u, v) = pinned[u][v]
  BY DEF Belongs
<1>3. made[session[u][v].cur] \in Agreements
  BY <1>1 DEF Types, Sessions
<1>4. PeerKey(u, v) \in IdentityKeys
  BY <1>3 DEF PeerKey, Agreements
<1>5. SaveIdentity(u, v, PeerKey(u, v)) => pinned' = pinned
  BY <1>2 DEF SaveIdentity, Types
<1> QED
  BY <1>1, <1>2, <1>4, <1>5

LEMMA EncryptShape ==
  ASSUME Shape, NEW u \in Users, NEW v \in Users, Encrypt(u, v) \/ EncryptSealed(u, v)
  PROVE  Shape'
<1> USE DEF Shape
<1>1. session[u][v].cur # None
  BY DEF Encrypt, EncryptSealed, Sendable
<1>2. UNCHANGED <<install, prekeys, session, spent, verified, cert, anchor, bundle, root, now,
                  made, opened, refused, pinned>>
  BY <1>1, KeyOfSession DEF Encrypt, EncryptSealed, relay
<1>3. PICK e \in Mails : mail' = Append(mail, e) /\ e.sid = session[u][v].cur
  <2>1. ASSUME NEW t \in EnvelopeTypes, NEW c \in CertType \cup {None}
        PROVE  Envelope(u, v, t, c) \in Mails /\ Envelope(u, v, t, c).sid = session[u][v].cur
    BY <1>1, KeyOfSession DEF Envelope, Mails, Sessions
  <2>2. CASE Encrypt(u, v)
    <3> DEFINE t == IF session[u][v].cur \in session[u][v].pending THEN "PreKey" ELSE "Ratchet"
    <3>1. t \in EnvelopeTypes /\ mail' = Append(mail, Envelope(u, v, t, None))
      BY <2>2 DEF Encrypt, EnvelopeTypes
    <3> QED
      BY <2>1, <3>1
  <2>3. CASE EncryptSealed(u, v)
    <3>1. cert[u] \in CertType /\ mail' = Append(mail, Envelope(u, v, "SealedSender", cert[u]))
      BY <2>3 DEF EncryptSealed, Types
    <3> QED
      BY <2>1, <3>1 DEF EnvelopeTypes
  <2> QED
    BY <2>2, <2>3
<1>4. /\ mail' \in Seq(Mails) /\ DOMAIN mail \subseteq DOMAIN mail'
      /\ \A i \in DOMAIN mail' : mail'[i].sid \in Sessions
  <2>1. mail \in Seq(Mails) /\ e.sid \in Sessions
    BY <1>1, <1>3, KeyOfSession DEF Types
  <2>2. /\ mail' \in Seq(Mails) /\ DOMAIN mail \subseteq DOMAIN mail'
        /\ \A i \in DOMAIN mail' : mail'[i] = e \/ (i \in DOMAIN mail /\ mail'[i] = mail[i])
    BY <1>3, <2>1
  <2> QED
    BY <2>1, <2>2 DEF Belongs
<1>5. Types'
  BY <1>2, <1>4 DEF Types, SessionType, Sessions
<1>6. Belongs'
  BY <1>2, <1>4 DEF Belongs, PeerKey, Sessions
<1> QED
  BY <1>5, <1>6

\* A message is of an agreement, and the key it comes with is a key.
LEMMA KeyOfMail ==
  ASSUME Shape, NEW i \in DOMAIN mail
  PROVE  /\ mail[i].from \in Users /\ mail[i].to \in Users /\ mail[i].sid \in Sessions
         /\ made[mail[i].sid] \in Agreements /\ SenderKey(mail[i]) \in IdentityKeys
<1> USE DEF Shape
<1>1. mail[i] \in Mails /\ mail[i].sid \in Sessions
  BY DEF Types, Belongs
<1>2. made[mail[i].sid] \in Agreements
  BY <1>1 DEF Types, Sessions
<1> QED
  BY <1>1, <1>2 DEF Mails, SenderKey, Agreements

\* Any decryption, refused afterwards or not.
Reads(u, i) ==
  /\ i \in DOMAIN mail /\ CanDecrypt(u, i) /\ Decrypted(u, i)
  /\ refused' = refused \/ refused' = [refused EXCEPT ![u] = @ \cup {mail[i].from}]
  /\ UNCHANGED <<install, verified, cert, anchor, relay, now, made, mail, gone>>

LEMMA DecryptReads ==
  ASSUME NEW u \in Users, NEW i \in DOMAIN mail, Decrypt(u, i) \/ DecryptSealedVerified(u, i)
  PROVE  Reads(u, i)
BY DEF Decrypt, DecryptSealedVerified, DecryptSealed, Reads

LEMMA ReadShape ==
  ASSUME Shape, NEW u \in Users, NEW i \in DOMAIN mail, Reads(u, i)
  PROVE  Shape'
<1> USE DEF Shape
<1> DEFINE v == mail[i].from
           d == mail[i].sid
           old == session[u][v]
           new == [cur |-> d, kept |-> old.kept \cup {d}, pending |-> old.pending \ {d}]
           key == SenderKey(mail[i])
<1>1. v \in Users /\ d \in Sessions /\ key \in IdentityKeys /\ old \in SessionType
  BY KeyOfMail DEF Types
<1>2. /\ UNCHANGED <<install, verified, cert, anchor, bundle, root, now, made, mail>>
      /\ session' = [session EXCEPT ![u][v] = new]
      /\ pinned' = [pinned EXCEPT ![u][v] = key]
      /\ spent' = [spent EXCEPT ![u] = @ \cup {i}]
  BY DEF Reads, Decrypted, SaveIdentity, relay
<1>3. prekeys' \in [Users -> SUBSET Batch] /\ opened' \in [Users -> Seq(Sessions)]
  <2>1. CASE UNCHANGED <<prekeys, opened>>
    BY <2>1 DEF Types
  <2>2. CASE /\ prekeys' = [prekeys EXCEPT ![u] = @ \ {made[d].prekey}]
             /\ opened' = [opened EXCEPT ![u] = Append(@, d)]
    <3>1. Append(opened[u], d) \in Seq(Sessions)
      BY <1>1 DEF Types
    <3>2. prekeys' \in [Users -> SUBSET Batch]
      BY <2>2 DEF Types
    <3> HIDE DEF d
    <3>3. opened' \in [Users -> Seq(Sessions)]
      BY <2>2, <3>1 DEF Types
    <3> QED
      BY <3>2, <3>3
  <2> QED
    BY <2>1, <2>2 DEF Reads, Decrypted, RemovePreKey
<1>4. refused' \in [Users -> SUBSET Users]
  <2>1. CASE refused' = refused
    BY <2>1 DEF Types
  <2>2. CASE refused' = [refused EXCEPT ![u] = @ \cup {v}]
    <3>1. refused[u] \cup {v} \in SUBSET Users
      BY <1>1 DEF Types
    <3> HIDE DEF v
    <3> QED
      BY <2>2, <3>1 DEF Types
  <2> QED
    BY <2>1, <2>2 DEF Reads
<1>5. new \in SessionType
  BY <1>1 DEF SessionType
<1> HIDE DEF v, d, key, new, old
<1>6. Types'
  <2>1. /\ session' \in [Users -> [Users -> SessionType]]
        /\ pinned' \in [Users -> [Users -> IdentityKeys \cup {None}]]
        /\ spent' \in [Users -> SUBSET DOMAIN mail]
    BY <1>1, <1>2, <1>5 DEF Types
  <2> QED
    BY <1>2, <1>3, <1>4, <2>1 DEF Types, SessionType, Sessions
<1>7. Belongs'
  <2>1. ASSUME NEW x \in Users, NEW y \in Users, x # u \/ y # v
        PROVE  /\ \A k \in session'[x][y].pending : k \in session'[x][y].kept /\ made[k].by = x
               /\ session'[x][y].cur # None =>
                    session'[x][y].cur \in session'[x][y].kept /\ PeerKey(x, y)' = pinned'[x][y]
    <3>1. session'[x][y] = session[x][y] /\ pinned'[x][y] = pinned[x][y]
      BY <1>2, <2>1 DEF Types
    <3> QED
      BY <1>2, <3>1 DEF Belongs, PeerKey
  <2>2. session'[u][v] = new /\ pinned'[u][v] = key
    BY <1>1, <1>2 DEF Types
  <2>3. new.cur \in new.kept /\ \A k \in new.pending : k \in new.kept /\ made[k].by = u
    BY <1>1 DEF Belongs, new, old
  <2>4. PeerKey(u, v)' = key
    BY <1>2, <2>2 DEF PeerKey, SenderKey, key, new, d, v
  <2>5. \A j \in DOMAIN mail' : mail'[j].sid \in Sessions'
    BY <1>2 DEF Belongs, Sessions
  <2>6. \A x, y \in Users :
          /\ \A k \in session'[x][y].pending : k \in session'[x][y].kept /\ made'[k].by = x
          /\ session'[x][y].cur # None =>
               session'[x][y].cur \in session'[x][y].kept /\ PeerKey(x, y)' = pinned'[x][y]
    <3> SUFFICES ASSUME NEW x \in Users, NEW y \in Users
                 PROVE  /\ \A k \in session'[x][y].pending : k \in session'[x][y].kept /\ made[k].by = x
                        /\ session'[x][y].cur # None =>
                             session'[x][y].cur \in session'[x][y].kept /\ PeerKey(x, y)' = pinned'[x][y]
      BY <1>2
    <3>1. CASE x # u \/ y # v
      BY <2>1, <3>1
    <3>2. CASE x = u /\ y = v
      <4>1. \A k \in session'[u][v].pending : k \in session'[u][v].kept /\ made[k].by = u
        BY <2>2, <2>3
      <4>2. session'[u][v].cur \in session'[u][v].kept /\ PeerKey(u, v)' = pinned'[u][v]
        BY <2>2, <2>3, <2>4
      <4>3. session'[x][y] = session'[u][v] /\ pinned'[x][y] = pinned'[u][v]
        BY <3>2
      <4>4. PeerKey(x, y)' = PeerKey(u, v)'
        BY <1>2, <3>2 DEF PeerKey, v
      <4>5. \A k \in session'[x][y].pending : k \in session'[x][y].kept /\ made[k].by = x
        BY <3>2, <4>1, <4>3
      <4>6. session'[x][y].cur \in session'[x][y].kept /\ PeerKey(x, y)' = pinned'[x][y]
        BY <4>2, <4>3, <4>4
      <4> QED
        BY <4>5, <4>6
    <3> QED
      BY <3>1, <3>2
  <2> QED
    BY <2>5, <2>6 DEF Belongs
<1> QED
  BY <1>6, <1>7

\* Every step is one of these.
LEMMA StepKinds ==
  ASSUME [Next]_vars
  PROVE  \/ UNCHANGED vars
         \/ Tick \/ RelayRestarts
         \/ \E u \in Users :
              \/ Aside(u) \/ Reinstall(u)
              \/ \E v \in Users :
                   InitiateSession(u, v) \/ BurnConversation(u, v) \/ Encrypt(u, v) \/ EncryptSealed(u, v)
              \/ \E i \in DOMAIN mail : Decrypt(u, i) \/ DecryptSealedVerified(u, i)
BY DEF Next, Peer, Client, Aside

LEMMA ShapeStep == Shape /\ [Next]_vars => Shape'
<1>1. ASSUME Shape, UNCHANGED vars
      PROVE  Shape'
  BY <1>1 DEF vars, store, history, relay, Shape, Types, Belongs, TypeOK, PeerKey, SessionType, Sessions
<1> QED
  BY <1>1, StepKinds, AsideShape, RelayShape, ReinstallShape, BurnShape, InitiateShape, EncryptShape,
     DecryptReads, ReadShape

\* Types, and that the key pinned for a peer is the one the session with it
\* was made with, whatever was burned, initiated or received in between.
THEOREM TypeCorrect == Spec => []TypeOK
<1>1. Shape => TypeOK
  <2> SUFFICES ASSUME Types, Belongs
               PROVE  TypeOK
    BY DEF Shape
  <2>1. \A i \in DOMAIN mail : mail[i].type \in EnvelopeTypes
    <3>1. \A i \in DOMAIN mail : mail[i] \in Mails
      BY DEF Types
    <3> QED BY <3>1 DEF Mails
  <2>2. \A u, v \in Users : LET s == session[u][v] IN
          /\ s.pending \subseteq {k \in s.kept : made[k].by = u}
          /\ s.cur # None => s.cur \in s.kept /\ PeerKey(u, v) = pinned[u][v]
    BY DEF Belongs
  <2> QED
    BY <2>1, <2>2 DEF Types, TypeOK
<1> QED
  BY <1>1, InitShape, ShapeStep, PTL DEF Spec

----------------------------------------------------------------------------
(* Pins *)

\* No pin is replaced.
Pins == \A u, v \in Users : pinned[u][v] # None => pinned'[u][v] \in {pinned[u][v], None}

LEMMA SavedPins ==
  ASSUME Shape, NEW u \in Users, NEW v \in Users, NEW key,
         IsTrustedIdentity(u, v, key), SaveIdentity(u, v, key)
  PROVE  Pins
BY DEF Shape, Types, IsTrustedIdentity, SaveIdentity, Pins

LEMMA PinsStep == Shape /\ [Next]_vars => Pins
<1> SUFFICES ASSUME Shape, [Next]_vars
             PROVE  Pins
  OBVIOUS
<1>1. CASE UNCHANGED pinned
  BY <1>1 DEF Pins
<1>2. ASSUME NEW u \in Users, Reinstall(u)
      PROVE  Pins
  BY <1>2 DEF Reinstall, Shape, Types, Pins
<1>3. ASSUME NEW u \in Users, NEW v \in Users, BurnConversation(u, v)
      PROVE  Pins
  BY <1>3 DEF BurnConversation, BurnSession, Shape, Types, Pins
<1>4. ASSUME NEW u \in Users, NEW v \in Users, InitiateSession(u, v)
      PROVE  Pins
  BY <1>4, SavedPins DEF InitiateSession, Initiate
<1>5. ASSUME NEW u \in Users, NEW v \in Users, Encrypt(u, v) \/ EncryptSealed(u, v)
      PROVE  Pins
  BY <1>5, SavedPins DEF Encrypt, EncryptSealed, Sendable
<1>6. ASSUME NEW u \in Users, NEW i \in DOMAIN mail, Decrypt(u, i) \/ DecryptSealedVerified(u, i)
      PROVE  Pins
  BY <1>6, DecryptReads, KeyOfMail, SavedPins DEF Reads, CanDecrypt, Decrypted
<1> QED
  BY <1>1, <1>2, <1>3, <1>4, <1>5, <1>6, StepKinds, AsideUnchanged
     DEF vars, store, Tick, RelayRestarts

\* Trust on first use: the key known for a peer is removed, by burning or by
\* reinstalling, and never replaced.
THEOREM PinsAreKept == Spec => NeverRepinned
<1>1. Shape /\ [Next]_vars => [Pins]_vars
  BY PinsStep
<1> QED
  BY <1>1, InitShape, ShapeStep, PTL DEF Spec, NeverRepinned, Pins

----------------------------------------------------------------------------
(* Verified keys *)

\* Another key than the verified one is pinned.
Displaced(u, v) ==
  /\ verified[u][v] # None /\ pinned[u][v] # None
  /\ Fingerprint(Key(u), pinned[u][v]) # verified[u][v]

Excused(u, v) == Displaced(u, v) => v \in refused[u]

\* Nothing that concerns the two has changed.
LEMMA Untouched ==
  ASSUME NEW x \in Users, NEW y \in Users, Excused(x, y),
         install'[x] = install[x], verified'[x][y] = verified[x][y],
         pinned'[x][y] = pinned[x][y], y \in refused[x] => y \in refused'[x]
  PROVE  Excused(x, y)'
BY DEF Excused, Displaced, Fingerprint, Key

\* A key that passes the check displaces nothing.
LEMMA CheckedKey ==
  ASSUME NEW u \in Users, NEW v \in Users, NEW key, UNCHANGED <<install, verified>>,
         pinned'[u][v] = key, CheckIdentity(u, v, key)
  PROVE  ~Displaced(u, v)'
BY DEF Displaced, CheckIdentity, Fingerprint, Key

LEMMA ExcusedStep ==
  ASSUME Shape, [Next]_vars, NEW x \in Careful, NEW y \in Users, Excused(x, y)
  PROVE  Excused(x, y)'
<1> USE DEF Shape
<1>0. x \in Users
  BY UsersAssumption
<1>1. CASE UNCHANGED <<install, verified, pinned, refused>>
  BY <1>0, <1>1, Untouched
<1>2. ASSUME NEW u \in Users, Aside(u)
      PROVE  Excused(x, y)'
  <2>1. UNCHANGED <<install, pinned, refused>>
    BY <1>2, AsideUnchanged
  <2>2. ASSUME NEW v \in Users, Verify(u, v)
        PROVE  Excused(x, y)'
    <3>1. CASE x = u /\ y = v
      BY <2>1, <2>2, <3>1 DEF Verify, RecordVerified, Types, Excused, Displaced, Fingerprint, Key
    <3>2. CASE x # u \/ y # v
      <4>1. verified'[x][y] = verified[x][y]
        BY <1>0, <2>2, <3>2 DEF Verify, RecordVerified, Types
      <4> QED
        BY <1>0, <2>1, <4>1, Untouched
    <3> QED
      BY <3>1, <3>2
  <2>3. ASSUME NEW v \in Users, ForgetVerification(u, v)
        PROVE  Excused(x, y)'
    <3>1. verified'[x][y] \in {verified[x][y], None}
      BY <1>0, <2>3 DEF ForgetVerification, Types
    <3> QED
      BY <2>1, <3>1 DEF Excused, Displaced, Fingerprint, Key
  <2>4. CASE Publish(u) \/ IssueSenderCertificate(u) \/ FetchTrustRoot(u)
    <3>1. UNCHANGED verified
      BY <2>4 DEF Publish, IssueSenderCertificate, FetchTrustRoot
    <3> QED
      BY <1>0, <2>1, <3>1, Untouched
  <2> QED
    BY <1>2, <2>2, <2>3, <2>4 DEF Aside
<1>3. ASSUME NEW u \in Users, Reinstall(u)
      PROVE  Excused(x, y)'
  <2>1. CASE x = u
    <3>1. verified'[x][y] = None
      BY <1>3, <2>1 DEF Reinstall, Types
    <3> QED
      BY <3>1 DEF Excused, Displaced
  <2>2. CASE x # u
    <3>1. /\ install'[x] = install[x] /\ verified'[x] = verified[x]
          /\ pinned'[x] = pinned[x] /\ refused'[x] = refused[x]
      BY <1>0, <1>3, <2>2 DEF Reinstall, Types
    <3> QED
      BY <1>0, <3>1, Untouched
  <2> QED
    BY <2>1, <2>2
<1>4. ASSUME NEW u \in Users, NEW v \in Users, BurnConversation(u, v)
      PROVE  Excused(x, y)'
  <2>1. UNCHANGED <<install, verified>>
    BY <1>4 DEF BurnConversation
  <2>2. CASE x = u /\ y = v
    <3>1. pinned'[x][y] = None
      BY <1>0, <1>4, <2>2 DEF BurnConversation, BurnSession, Types
    <3> QED
      BY <3>1 DEF Excused, Displaced
  <2>3. CASE x # u \/ y # v
    <3>1. pinned'[x][y] = pinned[x][y] /\ (y \in refused[x] => y \in refused'[x])
      BY <1>0, <1>4, <2>3 DEF BurnConversation, BurnSession, Types
    <3> QED
      BY <1>0, <2>1, <3>1, Untouched
  <2> QED
    BY <2>2, <2>3
<1>5. ASSUME NEW u \in Users, NEW v \in Users, InitiateSession(u, v)
      PROVE  Excused(x, y)'
  <2>1. /\ UNCHANGED <<install, verified, refused>>
        /\ pinned' = [pinned EXCEPT ![u][v] = bundle[v].key]
        /\ u \in Careful => CheckIdentity(u, v, bundle[v].key)
    BY <1>5 DEF InitiateSession, Initiate, GetBundle, SaveIdentity, MayInitiate
  <2>2. CASE x = u /\ y = v
    <3>1. pinned'[u][v] = bundle[v].key
      BY <2>1 DEF Types
    <3> QED
      BY <2>1, <2>2, <3>1, CheckedKey DEF Excused
  <2>3. CASE x # u \/ y # v
    <3>1. pinned'[x][y] = pinned[x][y]
      BY <1>0, <2>1, <2>3 DEF Types
    <3> QED
      BY <1>0, <2>1, <3>1, Untouched
  <2> QED
    BY <2>2, <2>3
<1>6. ASSUME NEW u \in Users, NEW v \in Users, Encrypt(u, v) \/ EncryptSealed(u, v)
      PROVE  Excused(x, y)'
  <2>1. UNCHANGED <<install, verified, pinned, refused>>
    BY <1>6, KeyOfSession DEF Encrypt, EncryptSealed, Sendable
  <2> QED
    BY <1>1, <2>1
<1>7. ASSUME NEW u \in Users, NEW i \in DOMAIN mail, Decrypt(u, i) \/ DecryptSealedVerified(u, i)
      PROVE  Excused(x, y)'
  <2> DEFINE v == mail[i].from
             key == SenderKey(mail[i])
  <2>1. v \in Users /\ pinned' = [pinned EXCEPT ![u][v] = key] /\ UNCHANGED <<install, verified>>
    BY <1>7, DecryptReads, KeyOfMail DEF Reads, Decrypted, SaveIdentity
  <2>2. y \in refused[x] => y \in refused'[x]
    <3>1. refused' = refused \/ refused' = [refused EXCEPT ![u] = @ \cup {v}]
      BY <1>7, DecryptReads DEF Reads
    <3> HIDE DEF v
    <3>2. refused \in [Users -> SUBSET Users]
      BY DEF Types
    <3> QED
      BY <1>0, <3>1, <3>2
  <2>3. CASE x = u /\ y = v
    <3>1. DecryptSealedVerified(u, i)
      BY <1>7, <2>3 DEF Decrypt
    <3>2. CASE CheckIdentity(u, v, pinned'[u][v])
      <4>1. ~Displaced(x, y)'
        BY <2>1, <2>3, <3>2, CheckedKey
      <4> QED
        BY <4>1 DEF Excused
    <3>3. CASE ~CheckIdentity(u, v, pinned'[u][v])
      <4>1. v \in refused'[u]
        BY <3>1, <3>3 DEF DecryptSealedVerified, Types
      <4> QED
        BY <2>3, <4>1 DEF Excused
    <3> QED
      BY <3>2, <3>3
  <2>4. CASE x # u \/ y # v
    <3>1. pinned'[x][y] = pinned[x][y]
      BY <1>0, <2>1, <2>4 DEF Types
    <3> QED
      BY <1>0, <2>1, <2>2, <3>1, Untouched
  <2> QED
    BY <2>3, <2>4
<1> QED
  BY <1>1, <1>2, <1>3, <1>4, <1>5, <1>6, <1>7, StepKinds
     DEF vars, store, history, Tick, RelayRestarts

\* A user that only calls the verified methods has another key than the
\* verified one pinned only after a message of the new key was refused.
THEOREM VerifiedKeysHold == Spec => []OnlyARefusalRepins
<1> DEFINE I == Shape /\ OnlyARefusalRepins
<1>1. OnlyARefusalRepins <=> \A u \in Careful, v \in Users : Excused(u, v)
  BY DEF OnlyARefusalRepins, Excused, Displaced
<1>2. OnlyARefusalRepins' <=> \A u \in Careful, v \in Users : Excused(u, v)'
  BY DEF OnlyARefusalRepins, Excused, Displaced
<1>3. Init => I
  BY InitShape, UsersAssumption DEF Init, OnlyARefusalRepins
<1>4. I /\ [Next]_vars => I'
  BY <1>1, <1>2, ShapeStep, ExcusedStep
<1> QED
  BY <1>3, <1>4, PTL DEF Spec

----------------------------------------------------------------------------
(* One-time prekeys *)

\* Each prekey that opened a session has left the store, and opened no other:
\* what the store still has is what may be opened.
Consumed ==
  \A u \in Users : \A i \in DOMAIN opened[u] : made[opened[u][i]].prekey \notin prekeys[u]

LEMMA OpenedSession ==
  ASSUME Shape, NEW u \in Users, NEW i \in DOMAIN opened[u]
  PROVE  opened[u][i] \in Sessions
BY DEF Shape, Types

LEMMA ReadConsumes ==
  ASSUME Shape, Consumed, PrekeyOnce, NEW u \in Users, NEW i \in DOMAIN mail, Reads(u, i)
  PROVE  Consumed' /\ PrekeyOnce'
<1> USE DEF Shape
<1>1. PICK d \in Sessions : d = mail[i].sid
  BY KeyOfMail
<1>2. CASE UNCHANGED <<prekeys, opened>>
  <2>1. UNCHANGED made
    BY DEF Reads
  <2> QED
    BY <1>2, <2>1 DEF Consumed, PrekeyOnce
<1>3. CASE /\ prekeys' = [prekeys EXCEPT ![u] = @ \ {made[d].prekey}]
           /\ opened' = [opened EXCEPT ![u] = Append(@, d)]
           /\ made[d].prekey \in prekeys[u]
  <2>1. UNCHANGED made
    BY DEF Reads
  <2>2. ASSUME NEW x \in Users, x # u
        PROVE  opened'[x] = opened[x] /\ prekeys'[x] = prekeys[x]
    BY <1>3, <2>2 DEF Types
  <2>3. /\ opened'[u] = Append(opened[u], d) /\ opened[u] \in Seq(Sessions)
        /\ prekeys'[u] = prekeys[u] \ {made[d].prekey}
    BY <1>3 DEF Types
  <2>4. \A k \in DOMAIN opened'[u] :
          \/ k \in DOMAIN opened[u] /\ opened'[u][k] = opened[u][k]
          \/ k = Len(opened[u]) + 1 /\ opened'[u][k] = d
    BY <2>3
  <2>5. \A k \in DOMAIN opened[u] :
          made[opened[u][k]].prekey \notin prekeys[u] /\ made[opened[u][k]].prekey # made[d].prekey
    BY <1>3 DEF Consumed
  <2>6. \A k \in DOMAIN opened'[u] : made[opened'[u][k]].prekey \notin prekeys'[u]
    BY <2>3, <2>4, <2>5
  <2>7. \A j, k \in DOMAIN opened'[u] :
          made[opened'[u][j]].prekey = made[opened'[u][k]].prekey => j = k
    BY <2>4, <2>5 DEF PrekeyOnce
  <2>8. Consumed'
    BY <2>1, <2>2, <2>6 DEF Consumed
  <2>9. PrekeyOnce'
    BY <2>1, <2>2, <2>7 DEF PrekeyOnce
  <2> QED
    BY <2>8, <2>9
<1> QED
  BY <1>1, <1>2, <1>3 DEF Reads, CanDecrypt, Decrypted, GetPreKey, RemovePreKey

LEMMA ConsumedStep ==
  ASSUME Shape, Consumed, PrekeyOnce, [Next]_vars
  PROVE  Consumed' /\ PrekeyOnce'
<1> USE DEF Shape
<1>1. CASE UNCHANGED <<prekeys, opened, made>>
  BY <1>1 DEF Consumed, PrekeyOnce
<1>2. ASSUME NEW u \in Users, Reinstall(u)
      PROVE  Consumed' /\ PrekeyOnce'
  <2>1. UNCHANGED made /\ opened'[u] = <<>>
    BY <1>2 DEF Reinstall, Types
  <2>2. \A x \in Users : x # u => opened'[x] = opened[x] /\ prekeys'[x] = prekeys[x]
    BY <1>2 DEF Reinstall, Types
  <2> QED
    BY <2>1, <2>2 DEF Consumed, PrekeyOnce
<1>3. ASSUME NEW u \in Users, NEW v \in Users, InitiateSession(u, v)
      PROVE  Consumed' /\ PrekeyOnce'
  <2>1. \A x \in Users : \A i \in DOMAIN opened[x] : made'[opened[x][i]] = made[opened[x][i]]
    <3>1. PICK a : made' = Append(made, a)
      BY <1>3 DEF InitiateSession, Initiate
    <3>2. \A k \in Sessions : made'[k] = made[k]
      BY <3>1 DEF Types, Sessions
    <3> QED
      BY <3>2, OpenedSession
  <2>2. UNCHANGED <<prekeys, opened>>
    BY <1>3 DEF InitiateSession
  <2> QED
    BY <2>1, <2>2 DEF Consumed, PrekeyOnce
<1>4. ASSUME NEW u \in Users, NEW i \in DOMAIN mail, Decrypt(u, i) \/ DecryptSealedVerified(u, i)
      PROVE  Consumed' /\ PrekeyOnce'
  BY <1>4, DecryptReads, ReadConsumes
<1> QED
  BY <1>1, <1>2, <1>3, <1>4, StepKinds, AsideUnchanged
     DEF vars, store, history, Tick, RelayRestarts, BurnConversation, Encrypt, EncryptSealed

\* A one-time prekey opens one session, however often the bundle it was
\* published in is handed out and its messages arrive.
THEOREM PrekeysOpenOnce == Spec => []PrekeyOnce
<1> DEFINE I == Shape /\ Consumed /\ PrekeyOnce
<1>1. Init => I
  BY InitShape DEF Init, Consumed, PrekeyOnce
<1>2. I /\ [Next]_vars => I'
  BY ShapeStep, ConsumedStep
<1> QED
  BY <1>1, <1>2, PTL DEF Spec

----------------------------------------------------------------------------
(* Unreadable mail *)

\* What u has of the agreement k with v, or has had and discarded.
Has(u, v, k) == k \in session[u][v].kept \/ k \in gone[u]

Between(k, u, v) ==
  \/ made[k].by = u /\ made[k].to = v
  \/ made[k].by = v /\ made[k].to = u

\* Who initiates a session with another user has it; a session is with one of
\* the two that agreed on it, and once it is not pending the other has it too.
SessionsTraced ==
  /\ \A k \in Sessions : made[k].by # made[k].to /\ Has(made[k].by, made[k].to, k)
  /\ \A u, v \in Users : \A k \in session[u][v].kept :
       Between(k, u, v) /\ (k \notin session[u][v].pending => Has(v, u, k))

\* Mail is of a session its sender has; the recipient has it too, unless it is
\* a prekey message, which only the initiator sends.
LetterTraced(e) ==
  /\ Between(e.sid, e.from, e.to) /\ Has(e.from, e.to, e.sid)
  /\ IF e.prekey THEN made[e.sid].by = e.from ELSE Has(e.to, e.from, e.sid)
  /\ e.type = "SealedSender" => e.cert # None

MailTraced == \A i \in DOMAIN mail : LetterTraced(mail[i])

\* A prekey that has left the store opened a session, which is not forgotten.
PrekeysTraced ==
  \A u \in Users :
    /\ \A i \in DOMAIN opened[u] : Has(u, made[opened[u][i]].by, opened[u][i])
    /\ \A p \in Batch :
         p \in prekeys[u] \/ \E i \in DOMAIN opened[u] : made[opened[u][i]].prekey = p

Traced == gone \in [Users -> SUBSET Nat] /\ SessionsTraced /\ MailTraced /\ PrekeysTraced

\* What mail and sessions are traced by stays: what is discarded is recorded.
Grown == \A x, y \in Users, k \in Nat : Has(x, y, k) => Has(x, y, k)'

LEMMA InitTraced == Init => Traced
<1> SUFFICES ASSUME Init PROVE Traced
  OBVIOUS
<1>1. Sessions = {} /\ DOMAIN mail = {} /\ gone \in [Users -> SUBSET Nat]
  BY DEF Init, Sessions
<1>2. \A u, v \in Users : session[u][v].kept = {}
  BY DEF Init, NoSession
<1>3. \A u \in Users : DOMAIN opened[u] = {} /\ prekeys[u] = Batch
  BY DEF Init
<1> QED
  BY <1>1, <1>2, <1>3 DEF Traced, SessionsTraced, MailTraced, PrekeysTraced

\* Sessions and prekeys stay traced when nothing happens to them, mail too.
LEMMA QuietSessions ==
  ASSUME Traced, UNCHANGED <<session, gone, made, opened, prekeys>>
  PROVE  gone' \in [Users -> SUBSET Nat] /\ SessionsTraced' /\ PrekeysTraced'
<1>1. SessionsTraced'
  BY DEF Traced, SessionsTraced, Has, Between, Sessions
<1>2. PrekeysTraced'
  BY DEF Traced, PrekeysTraced, Has
<1> QED
  BY <1>1, <1>2 DEF Traced

LEMMA QuietTraced ==
  ASSUME Traced, UNCHANGED <<session, gone, made, mail, opened, prekeys>>
  PROVE  Traced'
<1>1. MailTraced'
  BY DEF Traced, MailTraced, LetterTraced, Has, Between
<1> QED
  BY <1>1, QuietSessions DEF Traced

\* Mail already sent stays traced when sessions grow and agreements are added.
LEMMA MailStays ==
  ASSUME Shape, MailTraced, Grown, UNCHANGED mail, \A k \in Sessions : made'[k] = made[k]
  PROVE  MailTraced'
<1> SUFFICES ASSUME NEW i \in DOMAIN mail
             PROVE  LetterTraced(mail[i])'
  BY DEF MailTraced
<1> PICK e \in Mails : e = mail[i]
  BY DEF Shape, Types
<1>1. e.from \in Users /\ e.to \in Users /\ e.sid \in Sessions /\ e.sid \in Nat
  BY KeyOfMail DEF Sessions, Shape, Types
<1>2. LetterTraced(e)
  BY DEF MailTraced
<1>3. made'[e.sid] = made[e.sid]
  BY <1>1
<1>4. Between(e.sid, e.from, e.to)'
  BY <1>2, <1>3 DEF LetterTraced, Between
<1>5. /\ Has(e.from, e.to, e.sid)'
      /\ ~e.prekey => Has(e.to, e.from, e.sid)'
  BY <1>1, <1>2 DEF LetterTraced, Grown
<1>6. e.prekey => made'[e.sid].by = e.from
  BY <1>2, <1>3 DEF LetterTraced
<1>7. e.type = "SealedSender" => e.cert # None
  BY <1>2 DEF LetterTraced
<1>8. LetterTraced(e)'
  BY <1>4, <1>5, <1>6, <1>7 DEF LetterTraced
<1> QED
  BY <1>8 DEF LetterTraced, Between, Has

\* Discarding sessions, all of a user's or those with one peer, records them.
LEMMA LossTraced ==
  ASSUME Shape, Traced, NEW u \in Users,
         Reinstall(u) \/ \E v \in Users : BurnConversation(u, v)
  PROVE  Traced'
<1> USE DEF Shape
<1>1. UNCHANGED <<made, mail>> /\ Sessions' = Sessions
  BY DEF Reinstall, BurnConversation, Sessions
<1>2. /\ gone' \in [Users -> SUBSET Nat]
      /\ \A x \in Users : gone[x] \subseteq gone'[x]
  <2>1. \A x, y \in Users : session[x][y].kept \subseteq Nat
    BY DEF Types, SessionType, Sessions
  <2>2. CASE Reinstall(u)
    <3> DEFINE lost == UNION {session[u][y].kept : y \in Users}
    <3>1. gone' = [gone EXCEPT ![u] = @ \cup lost]
      BY <2>2 DEF Reinstall
    <3>2. lost \subseteq Nat
      BY <2>1
    <3> HIDE DEF lost
    <3> QED
      BY <3>1, <3>2 DEF Traced
  <2>3. ASSUME NEW v \in Users, BurnConversation(u, v)
        PROVE  gone' \in [Users -> SUBSET Nat] /\ \A x \in Users : gone[x] \subseteq gone'[x]
    BY <2>1, <2>3 DEF BurnConversation, Traced
  <2> QED
    BY <2>2, <2>3
<1>3. ASSUME NEW x \in Users, NEW y \in Users
      PROVE  \/ session'[x][y] = session[x][y]
             \/ session'[x][y].kept = {} /\ session[x][y].kept \subseteq gone'[x]
  <2>1. CASE Reinstall(u)
    <3>1. CASE x = u
      BY <2>1, <3>1 DEF Reinstall, Types, Traced, NoSession
    <3>2. CASE x # u
      BY <2>1, <3>2 DEF Reinstall, Types
    <3> QED
      BY <3>1, <3>2
  <2>2. ASSUME NEW v \in Users, BurnConversation(u, v)
        PROVE  \/ session'[x][y] = session[x][y]
               \/ session'[x][y].kept = {} /\ session[x][y].kept \subseteq gone'[x]
    <3>1. CASE x = u /\ y = v
      BY <2>2, <3>1 DEF BurnConversation, BurnSession, Types, Traced, NoSession
    <3>2. CASE x # u \/ y # v
      BY <2>2, <3>2 DEF BurnConversation, BurnSession, Types
    <3> QED
      BY <3>1, <3>2
  <2> QED
    BY <2>1, <2>2
<1>4. Grown
  BY <1>2, <1>3 DEF Grown, Has
<1>5. MailTraced'
  BY <1>1, <1>4, MailStays DEF Traced
<1>6. SessionsTraced'
  <2>1. ASSUME NEW k \in Sessions
        PROVE  made[k].by # made[k].to /\ Has(made[k].by, made[k].to, k)'
    <3>1. made[k] \in Agreements /\ k \in Nat
      BY DEF Types, Sessions
    <3> QED
      BY <1>1, <1>4, <3>1 DEF Traced, SessionsTraced, Grown, Agreements
  <2>2. ASSUME NEW x \in Users, NEW y \in Users, NEW k \in session'[x][y].kept
        PROVE  Between(k, x, y) /\ (k \notin session'[x][y].pending => Has(y, x, k)')
    <3>1. session'[x][y] = session[x][y] /\ k \in session[x][y].kept /\ k \in Nat
      BY <1>3, <2>2 DEF Types, SessionType, Sessions
    <3> QED
      BY <1>4, <3>1 DEF Traced, SessionsTraced, Grown
  <2> QED
    BY <1>1, <2>1, <2>2 DEF SessionsTraced, Between, Has
<1>7. PrekeysTraced'
  <2>1. ASSUME NEW x \in Users
        PROVE  \/ opened'[x] = opened[x] /\ prekeys'[x] = prekeys[x]
               \/ opened'[x] = <<>> /\ prekeys'[x] = Batch
    BY DEF Reinstall, BurnConversation, Types
  <2>2. ASSUME NEW x \in Users, NEW i \in DOMAIN opened'[x]
        PROVE  Has(x, made[opened[x][i]].by, opened[x][i])'
    <3>1. opened'[x] = opened[x] /\ i \in DOMAIN opened[x]
      BY <2>1, <2>2
    <3> PICK k \in Sessions : k = opened[x][i]
      BY <3>1, OpenedSession
    <3>1a. made[k] \in Agreements /\ k \in Nat
      BY DEF Types, Sessions
    <3>2. made[k].by \in Users /\ k \in Nat
      BY <3>1a DEF Agreements
    <3>3. Has(x, made[k].by, k)
      BY <3>1 DEF Traced, PrekeysTraced
    <3>4. Has(x, made[k].by, k)'
      BY <1>1, <1>4, <3>2, <3>3 DEF Grown, Has
    <3> QED
      BY <1>1, <3>1, <3>4 DEF Has
  <2>3. ASSUME NEW x \in Users, NEW p \in Batch
        PROVE  p \in prekeys'[x] \/ \E i \in DOMAIN opened'[x] : made[opened'[x][i]].prekey = p
    BY <2>1 DEF Traced, PrekeysTraced
  <2> QED
    BY <1>1, <2>2, <2>3 DEF PrekeysTraced, Has
<1> QED
  BY <1>2, <1>5, <1>6, <1>7 DEF Traced

\* A new session is pending, and the user that initiates it has it.
LEMMA InitiateTraced ==
  ASSUME Shape, Traced, NEW u \in Users, NEW v \in Users, InitiateSession(u, v)
  PROVE  Traced'
<1> USE DEF Shape
<1>0. bundle[v] \in Bundles /\ u # v
  BY DEF InitiateSession, GetBundle, Types
<1> PICK a \in Agreements :
      /\ a = [by |-> u, byKey |-> Key(u), to |-> v, toKey |-> bundle[v].key, prekey |-> bundle[v].prekey]
      /\ a.by = u /\ a.to = v
  <2>1. Key(u) \in IdentityKeys /\ bundle[v].key \in IdentityKeys /\ bundle[v].prekey \in Batch
    BY <1>0, KeyType DEF Bundles
  <2>2. [by |-> u, byKey |-> Key(u), to |-> v, toKey |-> bundle[v].key, prekey |-> bundle[v].prekey]
          \in Agreements
    BY <2>1 DEF Agreements
  <2> QED
    BY <2>2
<1> PICK s \in Nat : s = Len(made) + 1
  BY DEF Types
<1> PICK new : new = [cur |-> s, kept |-> session[u][v].kept \cup {s},
                      pending |-> session[u][v].pending \cup {s}]
  OBVIOUS
<1>1. /\ UNCHANGED <<mail, gone, opened, prekeys>>
      /\ session' = [session EXCEPT ![u][v] = new] /\ made' = Append(made, a)
  BY DEF InitiateSession, Initiate, GetBundle
<1>2. /\ Sessions' = Sessions \cup {s} /\ made'[s] = a /\ s \notin Sessions
      /\ \A k \in Sessions : made'[k] = made[k] /\ made[k] \in Agreements /\ k \in Nat
  BY <1>1 DEF Types, Sessions
<1>3. ASSUME NEW x \in Users, NEW y \in Users
      PROVE  /\ x # u \/ y # v => session'[x][y] = session[x][y]
             /\ x = u /\ y = v => session'[x][y] = new
             /\ session[x][y].kept \subseteq Sessions
  <2>1. session[x][y] \in SessionType
    BY DEF Types
  <2>2. session[x][y].kept \subseteq Sessions
    BY <2>1 DEF SessionType
  <2>3. /\ x # u \/ y # v => session'[x][y] = session[x][y]
        /\ x = u /\ y = v => session'[x][y] = new
    BY <1>1 DEF Types
  <2> QED
    BY <2>2, <2>3
<1>4. Grown
  BY <1>1, <1>3 DEF Grown, Has
<1>5. MailTraced'
  BY <1>1, <1>2, <1>4, MailStays DEF Traced
<1>6. SessionsTraced'
  <2>1. Has(u, v, s)'
    BY <1>3 DEF Has
  <2>2. ASSUME NEW k \in Sessions'
        PROVE  made'[k].by # made'[k].to /\ Has(made[k].by, made[k].to, k)'
    <3>1. CASE k = s
      <4>1. made'[k].by = u /\ made'[k].to = v
        BY <1>2, <3>1
      <4> QED
        BY <1>0, <2>1, <3>1, <4>1 DEF Has
    <3>2. CASE k # s
      <4> PICK x \in Users, y \in Users : x = made[k].by /\ y = made[k].to
        BY <1>2, <3>2 DEF Agreements
      <4>1. made'[k] = made[k] /\ k \in Nat /\ x # y /\ Has(x, y, k)
        BY <1>2, <3>2 DEF Traced, SessionsTraced
      <4>2. Has(x, y, k)'
        BY <1>4, <4>1 DEF Grown
      <4> QED
        BY <4>1, <4>2 DEF Has
    <3> QED
      BY <3>1, <3>2
  <2>3. ASSUME NEW x \in Users, NEW y \in Users, NEW k \in session'[x][y].kept
        PROVE  Between(k, x, y)' /\ (k \notin session'[x][y].pending => Has(y, x, k)')
    <3>1. CASE k = s
      <4>1. x = u /\ y = v
        BY <1>2, <1>3, <3>1
      <4>2. k \in session'[x][y].pending /\ made'[k] = a
        BY <1>2, <1>3, <3>1, <4>1
      <4> QED
        BY <4>1, <4>2 DEF Between
    <3>2. CASE k # s
      <4>1. k \in session[x][y].kept /\ (k \in session[x][y].pending => k \in session'[x][y].pending)
        BY <1>3, <3>2
      <4>2. k \in Nat /\ made'[k] = made[k]
        BY <1>2, <1>3, <4>1
      <4> QED
        BY <1>4, <4>1, <4>2 DEF Traced, SessionsTraced, Between, Grown
    <3> QED
      BY <3>1, <3>2
  <2> QED
    BY <2>2, <2>3 DEF SessionsTraced
<1>7. PrekeysTraced'
  <2>1. ASSUME NEW x \in Users, NEW i \in DOMAIN opened[x]
        PROVE  /\ made'[opened[x][i]] = made[opened[x][i]]
               /\ Has(x, made[opened[x][i]].by, opened[x][i])'
    <3> PICK k \in Sessions : k = opened[x][i]
      BY OpenedSession
    <3> PICK y \in Users : y = made[k].by
      BY <1>2 DEF Agreements
    <3>1. Has(x, y, k) /\ k \in Nat /\ made'[k] = made[k]
      BY <1>2 DEF Traced, PrekeysTraced
    <3>2. Has(x, y, k)'
      BY <1>4, <3>1 DEF Grown
    <3> QED
      BY <1>1, <3>1, <3>2 DEF Has
  <2>2. ASSUME NEW x \in Users, NEW p \in Batch
        PROVE  p \in prekeys'[x] \/ \E i \in DOMAIN opened'[x] : made'[opened'[x][i]].prekey = p
    <3>1. CASE p \in prekeys[x]
      BY <1>1, <3>1
    <3>2. CASE p \notin prekeys[x]
      <4> PICK i \in DOMAIN opened[x] : made[opened[x][i]].prekey = p
        BY <3>2 DEF Traced, PrekeysTraced
      <4> QED
        BY <1>1, <2>1
    <3> QED
      BY <3>1, <3>2
  <2> QED
    <3>1. \A x \in Users : \A i \in DOMAIN opened'[x] :
            Has(x, made[opened[x][i]].by, opened[x][i])'
      BY <1>1, <2>1
    <3>2. \A x \in Users : \A p \in Batch :
            p \in prekeys'[x] \/ \E i \in DOMAIN opened'[x] : made'[opened'[x][i]].prekey = p
      BY <2>2
    <3> QED
      BY <3>1, <3>2 DEF PrekeysTraced
<1> QED
  BY <1>1, <1>5, <1>6, <1>7 DEF Traced

\* A letter is of a session in use, and a prekey message as long as that one
\* is pending.
LEMMA EncryptTraced ==
  ASSUME Shape, Traced, NEW u \in Users, NEW v \in Users, Encrypt(u, v) \/ EncryptSealed(u, v)
  PROVE  Traced'
<1> USE DEF Shape
<1> PICK s \in Sessions : s = session[u][v].cur /\ s \in session[u][v].kept
  BY KeyOfSession DEF Encrypt, EncryptSealed, Sendable, Belongs
<1>1. UNCHANGED <<session, gone, made, opened, prekeys>>
  BY DEF Encrypt, EncryptSealed
<1>2. PICK e : /\ mail' = Append(mail, e) /\ e.from = u /\ e.to = v /\ e.sid = s
               /\ e.prekey = (s \in session[u][v].pending)
               /\ e.type = "SealedSender" => e.cert # None
  <2>1. CASE Encrypt(u, v)
    BY <2>1 DEF Encrypt, Envelope
  <2>2. CASE EncryptSealed(u, v)
    BY <2>2 DEF EncryptSealed, Envelope
  <2> QED
    BY <2>1, <2>2
<1>3. LetterTraced(e)
  <2>1. Between(s, u, v) /\ Has(u, v, s)
    BY DEF Traced, SessionsTraced, Has
  <2>2. IF s \in session[u][v].pending THEN made[s].by = u ELSE Has(v, u, s)
    BY DEF Traced, SessionsTraced, Belongs
  <2> QED
    BY <1>2, <2>1, <2>2 DEF LetterTraced
<1>4. \A i \in DOMAIN mail' : mail'[i] = e \/ (i \in DOMAIN mail /\ mail'[i] = mail[i])
  BY <1>2 DEF Types
<1>5. \A i \in DOMAIN mail' : LetterTraced(mail'[i])
  BY <1>3, <1>4 DEF Traced, MailTraced
<1>6. MailTraced'
  BY <1>1, <1>5 DEF MailTraced, LetterTraced, Has, Between
<1> QED
  BY <1>1, <1>6, QuietSessions DEF Traced

\* A session a message is read on is known to its sender.
LEMMA ReadTraced ==
  ASSUME Shape, Traced, NEW u \in Users, NEW i \in DOMAIN mail, Reads(u, i)
  PROVE  Traced'
<1> USE DEF Shape
<1> PICK e \in Mails : e = mail[i]
  BY DEF Types
<1> PICK v \in Users, d \in Sessions : v = e.from /\ d = e.sid
  BY KeyOfMail
<1> PICK new : new = [cur |-> d, kept |-> session[u][v].kept \cup {d},
                      pending |-> session[u][v].pending \ {d}]
  OBVIOUS
<1>1. /\ UNCHANGED <<mail, gone, made>> /\ Sessions' = Sessions /\ e.to = u
      /\ session' = [session EXCEPT ![u][v] = new]
  BY DEF Reads, CanDecrypt, Decrypted, Sessions
<1>2. ASSUME NEW x \in Users, NEW y \in Users
      PROVE  /\ x # u \/ y # v => session'[x][y] = session[x][y]
             /\ x = u /\ y = v => session'[x][y] = new
  BY <1>1 DEF Types
<1>3. Grown
  BY <1>1, <1>2 DEF Grown, Has
<1>4. \A k \in Sessions : made[k] \in Agreements /\ k \in Nat
  BY DEF Types, Sessions
<1>5. LetterTraced(e) /\ Has(u, v, d)'
  <2>1. LetterTraced(e)
    BY DEF Traced, MailTraced
  <2>2. Has(u, v, d)'
    BY <1>2 DEF Has
  <2> QED
    BY <2>1, <2>2
<1>6. MailTraced'
  BY <1>1, <1>3, MailStays DEF Traced
<1>7. SessionsTraced'
  <2>1. ASSUME NEW k \in Sessions
        PROVE  made[k].by # made[k].to /\ Has(made[k].by, made[k].to, k)'
    <3> PICK x \in Users, y \in Users : x = made[k].by /\ y = made[k].to
      BY <1>4 DEF Agreements
    <3>1. x # y /\ Has(x, y, k) /\ k \in Nat
      BY <1>4 DEF Traced, SessionsTraced
    <3>2. Has(x, y, k)'
      BY <1>3, <3>1 DEF Grown
    <3> QED
      BY <1>1, <3>1, <3>2 DEF Has
  <2>2. ASSUME NEW x \in Users, NEW y \in Users, NEW k \in session'[x][y].kept
        PROVE  Between(k, x, y) /\ (k \notin session'[x][y].pending => Has(y, x, k)')
    <3>1. CASE x = u /\ y = v /\ k = d
      <4>1. Between(d, v, u) /\ Has(v, u, d) /\ d \in Nat
        BY <1>1, <1>4, <1>5 DEF LetterTraced
      <4>2. Has(v, u, d)'
        BY <1>3, <4>1 DEF Grown
      <4> QED
        BY <3>1, <4>1, <4>2 DEF Between
    <3>2. CASE ~(x = u /\ y = v /\ k = d)
      <4>1. k \in session[x][y].kept /\ (k \in session[x][y].pending => k \in session'[x][y].pending)
        BY <1>2, <3>2
      <4>2. session[x][y] \in SessionType
        BY DEF Types
      <4>3. k \in Nat
        BY <1>4, <4>1, <4>2 DEF SessionType
      <4> QED
        BY <1>3, <4>1, <4>3 DEF Traced, SessionsTraced, Grown
    <3> QED
      BY <3>1, <3>2
  <2>3. \A k \in Sessions' : made'[k].by # made'[k].to /\ Has(made[k].by, made[k].to, k)'
    BY <1>1, <2>1
  <2>4. \A x, y \in Users : \A k \in session'[x][y].kept :
          Between(k, x, y)' /\ (k \notin session'[x][y].pending => Has(y, x, k)')
    BY <1>1, <2>2 DEF Between
  <2> QED
    BY <2>3, <2>4 DEF SessionsTraced
<1>8. PrekeysTraced'
  <2>1. ASSUME NEW x \in Users, NEW j \in DOMAIN opened[x]
        PROVE  Has(x, made[opened[x][j]].by, opened[x][j]) /\ opened[x][j] \in Nat
               /\ made[opened[x][j]].by \in Users
    BY <1>4, OpenedSession DEF Traced, PrekeysTraced, Agreements
  <2>2. CASE UNCHANGED <<prekeys, opened>>
    <3>1. ASSUME NEW x \in Users, NEW j \in DOMAIN opened[x]
          PROVE  Has(x, made[opened[x][j]].by, opened[x][j])'
      <4> PICK k \in Nat, y \in Users : k = opened[x][j] /\ y = made[k].by
        BY <2>1
      <4>1. Has(x, y, k)'
        BY <1>3, <2>1 DEF Grown
      <4> QED
        BY <1>1, <2>2, <4>1 DEF Has
    <3>2. \A x \in Users : \A j \in DOMAIN opened'[x] :
            Has(x, made[opened[x][j]].by, opened[x][j])'
      BY <2>2, <3>1
    <3>3. \A x \in Users : \A p \in Batch :
            p \in prekeys'[x] \/ \E j \in DOMAIN opened'[x] : made'[opened'[x][j]].prekey = p
      BY <1>1, <2>2 DEF Traced, PrekeysTraced
    <3> QED
      BY <3>2, <3>3 DEF PrekeysTraced
  <2>3. CASE /\ prekeys' = [prekeys EXCEPT ![u] = @ \ {made[d].prekey}]
             /\ opened' = [opened EXCEPT ![u] = Append(@, d)] /\ e.prekey
    <3>1. ASSUME NEW x \in Users, x # u
          PROVE  opened'[x] = opened[x] /\ prekeys'[x] = prekeys[x]
      BY <2>3, <3>1 DEF Types
    <3>2. /\ opened'[u] = Append(opened[u], d) /\ opened[u] \in Seq(Sessions)
          /\ prekeys'[u] = prekeys[u] \ {made[d].prekey}
      BY <2>3 DEF Types
    <3>3. /\ \A j \in DOMAIN opened'[u] :
               (j \in DOMAIN opened[u] /\ opened'[u][j] = opened[u][j]) \/ opened'[u][j] = d
          /\ \A j \in DOMAIN opened[u] : j \in DOMAIN opened'[u] /\ opened'[u][j] = opened[u][j]
          /\ \E j \in DOMAIN opened'[u] : opened'[u][j] = d
      <4>1. Len(opened[u]) + 1 \in DOMAIN opened'[u] /\ opened'[u][Len(opened[u]) + 1] = d
        BY <3>2
      <4>2. \A j \in DOMAIN opened[u] : j \in DOMAIN opened'[u] /\ opened'[u][j] = opened[u][j]
        BY <3>2
      <4>3. \A j \in DOMAIN opened'[u] :
              (j \in DOMAIN opened[u] /\ opened'[u][j] = opened[u][j]) \/ opened'[u][j] = d
        BY <3>2
      <4> QED
        BY <4>1, <4>2, <4>3
    <3>4. made[d].by = v
      BY <1>5, <2>3 DEF LetterTraced
    <3>5. ASSUME NEW x \in Users, NEW k \in Nat,
                 (k = d /\ x = u) \/ \E j \in DOMAIN opened[x] : opened[x][j] = k
          PROVE  Has(x, made[k].by, k)'
      <4>1. CASE k = d /\ x = u
        BY <1>1, <1>5, <3>4, <4>1 DEF Has
      <4>2. ASSUME NEW j \in DOMAIN opened[x], opened[x][j] = k
            PROVE  Has(x, made[k].by, k)'
        <5> PICK y \in Users : y = made[k].by
          BY <2>1, <4>2
        <5>1. Has(x, y, k)'
          BY <1>3, <2>1, <4>2 DEF Grown
        <5> QED
          BY <1>1, <5>1 DEF Has
      <4> QED
        BY <3>5, <4>1, <4>2
    <3>6. ASSUME NEW x \in Users, NEW j \in DOMAIN opened'[x]
          PROVE  Has(x, made[opened[x][j]].by, opened[x][j])'
      <4> PICK k \in Nat : /\ k = opened'[x][j]
                           /\ (k = d /\ x = u) \/ \E h \in DOMAIN opened[x] : opened[x][h] = k
        BY <1>4, <2>1, <3>1, <3>3
      <4>1. Has(x, made[k].by, k)'
        BY <3>5
      <4> QED
        BY <4>1 DEF Has
    <3>7. ASSUME NEW x \in Users, NEW p \in Batch
          PROVE  p \in prekeys'[x] \/ \E j \in DOMAIN opened'[x] : made[opened'[x][j]].prekey = p
      <4>1. p \in prekeys[x] \/ \E j \in DOMAIN opened[x] : made[opened[x][j]].prekey = p
        BY DEF Traced, PrekeysTraced
      <4>2. CASE x # u
        BY <3>1, <4>1, <4>2
      <4>3. CASE x = u /\ p = made[d].prekey
        BY <3>3, <4>3
      <4>4. CASE x = u /\ p # made[d].prekey
        <5>1. CASE p \in prekeys[u]
          BY <3>2, <4>4, <5>1
        <5>2. ASSUME NEW j \in DOMAIN opened[u], made[opened[u][j]].prekey = p
              PROVE  \E h \in DOMAIN opened'[u] : made[opened'[u][h]].prekey = p
          BY <3>3, <5>2
        <5> QED
          BY <4>1, <4>4, <5>1, <5>2
      <4> QED
        BY <4>2, <4>3, <4>4
    <3>8. \A x \in Users : \A p \in Batch :
            p \in prekeys'[x] \/ \E j \in DOMAIN opened'[x] : made'[opened'[x][j]].prekey = p
      BY <1>1, <3>7
    <3> QED
      BY <3>6, <3>8 DEF PrekeysTraced
  <2> QED
    BY <2>2, <2>3 DEF Reads, CanDecrypt, Decrypted, RemovePreKey
<1> QED
  BY <1>1, <1>6, <1>7, <1>8 DEF Traced

LEMMA TracedStep == Shape /\ Traced /\ [Next]_vars => Traced'
<1> SUFFICES ASSUME Shape, Traced, [Next]_vars
             PROVE  Traced'
  OBVIOUS
<1>1. CASE UNCHANGED <<session, gone, made, mail, opened, prekeys>>
  BY <1>1, QuietTraced
<1> QED
  BY <1>1, StepKinds, AsideUnchanged, LossTraced, InitiateTraced, EncryptTraced, DecryptReads, ReadTraced
     DEF vars, store, history, Tick, RelayRestarts

LEMMA TracedReadable == Shape /\ Traced => UnreadableForCause
<1> SUFFICES ASSUME Shape, Traced, NEW i \in DOMAIN mail, i \notin spent[mail[i].to],
                    ~Reinstalled(mail[i]), mail[i].sid \notin gone[mail[i].to],
                    ~OtherKeyPinned(mail[i]), ~PrekeyTaken(mail[i]), ~CertificateStale(mail[i])
             PROVE  /\ CanDecrypt(mail[i].to, i)
                    /\ mail[i].type = "SealedSender" => ValidCertificate(mail[i].to, mail[i].cert)
  BY DEF UnreadableForCause
<1> USE DEF Shape
<1> PICK e \in Mails : e = mail[i]
  BY DEF Types
<1> PICK u \in Users, v \in Users, d \in Sessions : u = e.to /\ v = e.from /\ d = e.sid
  BY KeyOfMail
<1>1. LetterTraced(e) /\ made[d] \in Agreements
  BY KeyOfMail DEF Traced, MailTraced
<1>2. IsTrustedIdentity(u, v, SenderKey(e))
  BY DEF OtherKeyPinned, IsTrustedIdentity
<1>3. Has(u, v, d) => d \in session[u][v].kept
  BY DEF Has
<1>4. d \in session[u][v].kept \/ (e.prekey /\ GetPreKey(u, e))
  <2>1. CASE ~e.prekey
    BY <1>1, <1>3, <2>1 DEF LetterTraced
  <2>2. CASE e.prekey
    <3>1. made[d].by = v /\ u # v
      BY <1>1, <2>2 DEF LetterTraced, Between, Traced, SessionsTraced
    <3>2. made[d].toKey = Key(u)
      BY <3>1 DEF Reinstalled, RecipientKey
    <3>3. made[d].prekey \in Batch
      BY <1>1 DEF Agreements
    <3>4. CASE made[d].prekey \in prekeys[u]
      BY <2>2, <3>2, <3>4 DEF GetPreKey
    <3>5. ASSUME NEW j \in DOMAIN opened[u], made[opened[u][j]].prekey = made[d].prekey
          PROVE  d \in session[u][v].kept
      <4>1. opened[u][j] = d
        BY <2>2, <3>5 DEF PrekeyTaken
      <4>2. Has(u, v, d)
        BY <3>1, <4>1 DEF Traced, PrekeysTraced
      <4> QED
        BY <1>3, <4>2
    <3>6. \/ made[d].prekey \in prekeys[u]
          \/ \E j \in DOMAIN opened[u] : made[opened[u][j]].prekey = made[d].prekey
      BY <3>3 DEF Traced, PrekeysTraced
    <3> QED
      BY <3>4, <3>5, <3>6
  <2> QED
    BY <2>1, <2>2
<1>5. CanDecrypt(u, i)
  BY <1>2, <1>4 DEF CanDecrypt
<1>6. ASSUME e.type = "SealedSender"
      PROVE  ValidCertificate(u, e.cert)
  <2>1. e.cert \in CertType
    BY <1>1, <1>6 DEF LetterTraced, Mails
  <2>2. e.cert.until \in Nat /\ now \in Nat
    BY <2>1 DEF CertType, Types
  <2>3. ~(e.cert.until < now) /\ e.cert.root = anchor[u]
    BY <1>6 DEF CertificateStale
  <2> QED
    BY <2>2, <2>3 DEF ValidCertificate
<1> QED
  BY <1>5, <1>6

\* A message that was delivered and cannot be read has one of the named
\* causes: simultaneous, repeated and answered sessions are none of them.
THEOREM OnlyForCause == Spec => []UnreadableForCause
<1> DEFINE I == Shape /\ Traced
<1>1. Init => I
  BY InitShape, InitTraced
<1>2. I /\ [Next]_vars => I'
  BY ShapeStep, TracedStep
<1>3. I => UnreadableForCause
  BY TracedReadable
<1> QED
  BY <1>1, <1>2, <1>3, PTL DEF Spec
=============================================================================
