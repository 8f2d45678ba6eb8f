--------------------------- MODULE IdempotentCreate --------------------------
(***************************************************************************)
(* What an idempotency key promises: one of the requests that carry it     *)
(* creates the task, in one indivisible step, and every request is told at *)
(* most once, and nothing but the truth about that task.  TaskSubmission   *)
(* is shown to implement this module.                                      *)
(***************************************************************************)

CONSTANTS Request,      \* requests that carry the key
          Invalid,      \* the fingerprint of input that is refused
          None

VARIABLES wanted,       \* the fingerprint of each request
          task,         \* the task of the key
          answer        \* what each request was told

Untold == [kind |-> "none", id |-> None]

CreateInit == task = None /\ answer = [r \in Request |-> Untold]

Create(r) ==
  /\ task = None
  /\ wanted[r] # Invalid
  /\ task' = [id |-> r, fingerprint |-> wanted[r]]
  /\ UNCHANGED <<wanted, answer>>

Tell(r, kind, id) ==
  /\ answer[r] = Untold
  /\ answer' = [answer EXCEPT ![r] = [kind |-> kind, id |-> id]]
  /\ UNCHANGED <<wanted, task>>

TellCreated(r) == task # None /\ task.id = r /\ Tell(r, "created", r)

TellReplayed(r) ==
  /\ task # None /\ task.id # r
  /\ task.fingerprint = wanted[r]
  /\ Tell(r, "replayed", task.id)

TellConflict(r) ==
  /\ task # None
  /\ task.fingerprint # wanted[r]
  /\ Tell(r, "conflict", None)

TellInvalid(r) == wanted[r] = Invalid /\ Tell(r, "invalid", None)

CreateNext ==
  \E r \in Request :
    Create(r) \/ TellCreated(r) \/ TellReplayed(r) \/ TellConflict(r) \/ TellInvalid(r)

CreateSpec == CreateInit /\ [][CreateNext]_<<wanted, task, answer>>
=============================================================================
