---------------------------- MODULE AttemptFence ----------------------------
(***************************************************************************)
(* What an integration handler may rely on about the attempts of its task: *)
(* attempts begin in order and at most once each, one begins only when no  *)
(* earlier one is fenced any more, and a lost fence never comes back.      *)
(* WorkerExecution is shown to implement this module; the models of the    *)
(* GitHub and Slack handlers take their claims and losses from it.         *)
(***************************************************************************)
EXTENDS Naturals

CONSTANTS Task,         \* task identifiers
          MaxAttempts   \* max_attempts of every task

VARIABLES begun,        \* the attempts <<t, n>> that were ever claimed
          fenced        \* the attempts whose lease token is on the row of their task

FenceInit == begun = {} /\ fenced = {}

\* claim_one commits attempt n of task t.
Begin(t, n) ==
  /\ <<t, n>> \notin begun
  /\ \A m \in 1 .. n - 1 : <<t, m>> \in begun \ fenced
  /\ begun' = begun \cup {<<t, n>>}
  /\ fenced' = fenced \cup {<<t, n>>}

\* The attempt is finalised, or recovered after its lease lapsed.
Lose(t, n) ==
  /\ <<t, n>> \in fenced
  /\ fenced' = fenced \ {<<t, n>>}
  /\ UNCHANGED begun

FenceNext == \E t \in Task : \E n \in 1 .. MaxAttempts : Begin(t, n) \/ Lose(t, n)

FenceSpec == FenceInit /\ [][FenceNext]_<<begun, fenced>>
=============================================================================
