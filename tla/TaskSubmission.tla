--------------------------- MODULE TaskSubmission ---------------------------
(***************************************************************************)
(* POST /tasks under one idempotency key (tasks/api.py, tasks/service.py,  *)
(* tasks/repository.py): requests that carry the key, each in a PostgreSQL *)
(* transaction of its own at READ COMMITTED, race to create the task.      *)
(* Statements, the commit and the reply are separate steps; a request may  *)
(* lose its process, its connection or its reply at every one of them and  *)
(* the caller may send it again.  What becomes of the task afterwards is   *)
(* WorkerExecution's; nothing there touches the key or the fingerprint.    *)
(***************************************************************************)
EXTENDS Naturals

CONSTANTS Caller,       \* callers that use the key
          MaxSends,     \* how often a caller sends its request
          Payload,      \* request bodies
          Canonical,    \* payload |-> its fingerprint after normalisation
          Invalid,      \* stands for input that normalize_task_input refuses
          None

Request == Caller \X (1 .. MaxSends)
Fingerprint == {Canonical[p] : p \in Payload} \ {Invalid}

\* A task is named by the request that inserted it.
TaskRow == [id : Request, fingerprint : Fingerprint]

ASSUME SubmissionAssumption ==
  /\ MaxSends \in Nat \ {0}
  /\ Canonical \in [Payload -> Fingerprint \cup {Invalid}]
  /\ None \notin Request \cup Fingerprint \cup {Invalid} \cup TaskRow

VARIABLES
  row,      \* the committed row of tasks with the key
  pending,  \* the inserted row of a transaction that is still open
  pc,       \* where each request is
  payload,  \* what its caller asks for
  held,     \* the task the service holds for the request
  answer    \* what the caller was told

vars == <<row, pending, pc, payload, held, answer>>

-----------------------------------------------------------------------------
(* Answers *)

NoAnswer == [kind |-> "none", id |-> None]
Answer == [kind : {"none", "created", "replayed", "conflict", "invalid", "error"},
           id : Request \cup {None}]

ProgramPoint ==
  {"idle", "received", "insert", "conflicted", "inserted", "found", "committed", "over"}

\* Faulty variant: the fingerprint is taken of the input as it was sent.
FingerprintAsSent(r) == payload[r]

\* task_request_fingerprint of the normalised input.
FingerprintOf(r) == Canonical[payload[r]]

Init ==
  /\ row = None
  /\ pending = None
  /\ pc = [r \in Request |-> "idle"]
  /\ payload \in [Request -> Payload]
  /\ \A c \in Caller, m, n \in 1 .. MaxSends : payload[<<c, m>>] = payload[<<c, n>>]
  /\ held = [r \in Request |-> None]
  /\ answer = [r \in Request |-> NoAnswer]

-----------------------------------------------------------------------------
(* The caller *)

\* A caller sends its request; it sends it again when the last one is over
\* for it without an answer it can use.
Send(c, n) ==
  /\ pc[<<c, n>>] = "idle"
  /\ n > 1 => /\ pc[<<c, n - 1>>] # "idle"
              /\ answer[<<c, n - 1>>].kind \in {"none", "error"}
  /\ pc' = [pc EXCEPT ![<<c, n>>] = "received"]
  /\ UNCHANGED <<row, pending, payload, held, answer>>

Tell(r, kind, id) ==
  /\ pc' = [pc EXCEPT ![r] = "over"]
  /\ answer' = [answer EXCEPT ![r] = [kind |-> kind, id |-> id]]

-----------------------------------------------------------------------------
(* TaskService.create_task *)

\* normalize_task_input raises before any transaction is begun.
Refuse(r) ==
  /\ pc[r] = "received"
  /\ FingerprintOf(r) = Invalid
  /\ Tell(r, "invalid", None)
  /\ UNCHANGED <<row, pending, payload, held>>

Begin(r) ==
  /\ pc[r] = "received"
  /\ FingerprintOf(r) # Invalid
  /\ pc' = [pc EXCEPT ![r] = "insert"]
  /\ UNCHANGED <<row, pending, payload, held, answer>>

\* Faulty variant: the statement takes a row it cannot see yet for a conflict
\* instead of waiting for it.
InsertEffectNoWait ==
  IF pending # None \/ row # None THEN "nothing" ELSE "row"

\* Faulty variant: a conflict overwrites the row.
InsertEffectUpsert == IF pending # None THEN "wait" ELSE "row"

\* INSERT ... ON CONFLICT (uq_tasks_idempotency_key) DO NOTHING waits for an
\* open transaction that inserted the key, then inserts unless the key is
\* there, whether or not its own snapshot sees it.
InsertEffect ==
  CASE pending # None -> "wait"
    [] pending = None /\ row # None -> "nothing"
    [] OTHER -> "row"

\* insert_if_absent returns the new task.
Insert(r) ==
  /\ pc[r] = "insert"
  /\ InsertEffect = "row"
  /\ pending' = [id |-> r, fingerprint |-> FingerprintOf(r)]
  /\ held' = [held EXCEPT ![r] = r]
  /\ pc' = [pc EXCEPT ![r] = "inserted"]
  /\ UNCHANGED <<row, payload, answer>>

\* insert_if_absent returns nothing.
InsertNothing(r) ==
  /\ pc[r] = "insert"
  /\ InsertEffect = "nothing"
  /\ pc' = [pc EXCEPT ![r] = "conflicted"]
  /\ UNCHANGED <<row, pending, payload, held, answer>>

\* Faulty variant: requests are compared before they are normalised.
SameAsSent(r) == payload[row.id] = payload[r]

\* Faulty variant: any task of the key is a replay.
SameKey(r) == row.id = row.id

SameRequest(r) == row.fingerprint = FingerprintOf(r)

\* get_by_idempotency_key is a statement of its own and reads what is
\* committed by then.
Find(r) ==
  /\ pc[r] = "conflicted"
  /\ row # None
  /\ SameRequest(r)
  /\ held' = [held EXCEPT ![r] = row.id]
  /\ pc' = [pc EXCEPT ![r] = "found"]
  /\ UNCHANGED <<row, pending, payload, answer>>

\* IdempotencyConflictError, or "Idempotency conflict did not resolve to a
\* persisted task": the transaction rolls back, the caller gets 409 or 500.
Mismatch(r) ==
  /\ pc[r] = "conflicted"
  /\ row = None \/ ~SameRequest(r)
  /\ Tell(r, IF row = None THEN "error" ELSE "conflict", None)
  /\ UNCHANGED <<row, pending, payload, held>>

\* The block of session.begin() ends: what was inserted is there for all.
Commit(r) ==
  /\ pc[r] \in {"inserted", "found"}
  /\ IF pc[r] = "inserted" THEN row' = pending /\ pending' = None
                           ELSE UNCHANGED <<row, pending>>
  /\ pc' = [pc EXCEPT ![r] = "committed"]
  /\ UNCHANGED <<payload, held, answer>>

\* Faulty variant: the reply is sent from inside the transaction.
RepliesAtOnce(r) == pc[r] \in {"inserted", "found", "committed"}

\* create_task returns after the commit.
Replies(r) == pc[r] = "committed"

\* 201 for a task this request inserted, 200 for one it found.
Reply(r) ==
  /\ Replies(r)
  /\ Tell(r, IF held[r] = r THEN "created" ELSE "replayed", held[r])
  /\ UNCHANGED <<row, pending, payload, held>>

\* Faulty variant: an abandoned transaction stays open.
LeftOpen(r) == pending

RolledBack(r) == IF pc[r] = "inserted" THEN None ELSE pending

\* The process dies or a connection breaks.  An open transaction rolls back;
\* a committed one stays, and the caller learns nothing.
Break(r) ==
  /\ pc[r] \notin {"idle", "over"}
  /\ pc' = [pc EXCEPT ![r] = "over"]
  /\ pending' = RolledBack(r)
  /\ UNCHANGED <<row, payload, held, answer>>

-----------------------------------------------------------------------------

Serve(r) ==
  \/ Refuse(r) \/ Begin(r) \/ Insert(r) \/ InsertNothing(r) \/ Find(r) \/ Mismatch(r)
  \/ Commit(r) \/ Reply(r)

Next ==
  \/ \E c \in Caller, n \in 1 .. MaxSends : Send(c, n)
  \/ \E r \in Request : Serve(r) \/ Break(r)

\* The server goes on with every request it has; breaks are not promised.
Fairness == \A r \in Request : WF_vars(Serve(r))

Spec == Init /\ [][Next]_vars /\ Fairness

-----------------------------------------------------------------------------
(* Properties *)

\* The variables have the shape of the row, the transactions and the replies.
TypeOK ==
  /\ row \in TaskRow \cup {None}
  /\ pending \in TaskRow \cup {None}
  /\ pc \in [Request -> ProgramPoint]
  /\ payload \in [Request -> Payload]
  /\ held \in [Request -> Request \cup {None}]
  /\ answer \in [Request -> Answer]

\* A task a caller has been told of exists for good, is the only one of the
\* key, was made from the request the caller sent, and was created by exactly
\* the request that was told so.
AnsweredTaskStands ==
  \A r \in Request : answer[r].kind \in {"created", "replayed"} =>
    /\ row # None /\ row.id = answer[r].id
    /\ row.fingerprint = FingerprintOf(r)
    /\ answer[r].kind = "created" <=> row.id = r

\* A caller is refused with a conflict only when the key really belongs to a
\* different request, after both have been normalised.
ConflictIsTrue ==
  \A r \in Request : answer[r].kind = "conflict" =>
    row # None /\ row.fingerprint # FingerprintOf(r)

\* The read that follows an insert without effect always finds the task: the
\* RuntimeError of create_task is never raised.
AlwaysResolved == \A r \in Request : answer[r].kind # "error"

\* The task of the key is never replaced or rewritten by a later request.
TaskIsForGood ==
  [][row # None => /\ row' # None
                   /\ row'.id = row.id /\ row'.fingerprint = row.fingerprint]_row

\* No request waits for ever: an abandoned transaction lets the next one in.
RequestsEnd == \A r \in Request : pc[r] = "received" ~> pc[r] = "over"

OnceOnly == INSTANCE IdempotentCreate WITH
  wanted <- [r \in Request |-> FingerprintOf(r)], task <- row

\* However the statements of the transactions interleave, creating a task is
\* one indivisible step, and no request is told anything else about it.
ImplementsCreate == OnceOnly!CreateSpec
=============================================================================
