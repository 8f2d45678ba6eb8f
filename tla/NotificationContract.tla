------------------------- MODULE NotificationContract ------------------------
(***************************************************************************)
(* What the ledger promises about a message nobody can look for: it is     *)
(* attempted, and may then arrive at any time until somebody has proof     *)
(* that it was not sent.  Only that proof opens the action again.  An      *)
(* attempt that is taken for rejected without it is closed, and its        *)
(* message may arrive nevertheless.  A closed action stays what it is.     *)
(* SlackDelivery is shown to implement this module.                        *)
(***************************************************************************)

CONSTANT Message        \* messages that may be sent

VARIABLES standing,     \* what the ledger says of the action
          channel       \* the messages that arrived

Standing == {"open", "attempted", "unknown", "rejected", "delivered", "refused"}

NotificationInit == standing = "open" /\ channel = {}

Becomes(before, after) == standing = before /\ standing' = after /\ UNCHANGED channel

\* The one write that is under way; nothing has arrived.
Attempt == channel = {} /\ Becomes("open", "attempted")

\* A message arrives, perhaps long after its sender gave up.
Arrive(m) ==
  /\ standing \in {"attempted", "unknown", "rejected"}
  /\ channel = {}
  /\ channel' = {m}
  /\ UNCHANGED standing

Confirm == channel # {} /\ Becomes("attempted", "delivered")

\* Nobody knows: the action is closed without an answer.
GiveUp == Becomes("attempted", "unknown")

\* The answer sounds like a rejection: closed, without proof of anything.
TakeForRejected == Becomes("attempted", "rejected")

\* It is certain that nothing was sent and nothing will arrive.
Retract == channel = {} /\ Becomes("attempted", "open")

\* Closed before any attempt.
Refuse == channel = {} /\ Becomes("open", "refused")

NotificationNext ==
  Attempt \/ Confirm \/ GiveUp \/ TakeForRejected \/ Retract \/ Refuse
  \/ \E m \in Message : Arrive(m)

NotificationSpec == NotificationInit /\ [][NotificationNext]_<<standing, channel>>
=============================================================================
