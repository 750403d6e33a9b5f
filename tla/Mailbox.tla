------------------------------ MODULE Mailbox ------------------------------
(***************************************************************************)
(* What the relay promises to the clients: a message posted for a user     *)
(* waits until it is handed over to that user, once, or is given up.       *)
(* Several waiting messages can be handed over together, in any grouping.  *)
(* RelayPull, the relay with its direct and its mix-routed clients,        *)
(* implements this module.                                                 *)
(***************************************************************************)
EXTENDS Integers

CONSTANTS
  Users,
  Msgs,
  To      \* the recipient of a message: a function from Msgs to Users

VARIABLES
  posted,     \* messages some transport has accepted
  waiting,    \* messages not handed over and not given up
  delivered   \* per user: the messages handed over

mailbox == <<posted, waiting, delivered>>

MailboxInit ==
  /\ posted = {}
  /\ waiting = {}
  /\ delivered = [u \in Users |-> {}]

Post(m) ==
  /\ m \notin posted
  /\ posted' = posted \cup {m}
  /\ waiting' = waiting \cup {m}
  /\ UNCHANGED delivered

HandOver(u, batch) ==
  /\ batch \subseteq {m \in waiting : To[m] = u}
  /\ waiting' = waiting \ batch
  /\ delivered' = [delivered EXCEPT ![u] = @ \cup batch]
  /\ UNCHANGED posted

GiveUp(batch) ==
  /\ batch \subseteq waiting
  /\ waiting' = waiting \ batch
  /\ UNCHANGED <<posted, delivered>>

MailboxNext ==
  \/ \E m \in Msgs : Post(m)
  \/ \E u \in Users, batch \in SUBSET Msgs : HandOver(u, batch)
  \/ \E batch \in SUBSET Msgs : GiveUp(batch)

MailboxSpec == MailboxInit /\ [][MailboxNext]_mailbox
=============================================================================
