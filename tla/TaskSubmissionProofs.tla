------------------------ MODULE TaskSubmissionProofs ------------------------
(***************************************************************************)
(* Proofs about TaskSubmission for every set of callers, number of sends,  *)
(* set of payloads and normalisation.                                      *)
(***************************************************************************)
EXTENDS TaskSubmission, TLAPS

-----------------------------------------------------------------------------
(* The inductive invariant *)

\* An open insert is the one of the request that is between its insert and
\* its commit, and no committed row is there yet.
OpenInsert ==
  /\ pending # None => /\ pending.id \in Request /\ pc[pending.id] = "inserted"
                       /\ pending.fingerprint = FingerprintOf(pending.id)
                       /\ row = None
  /\ \A r \in Request : pc[r] = "inserted" => pending # None /\ pending.id = r

\* Who was told to look has something to find.
SomethingToFind == \A r \in Request : pc[r] = "conflicted" => row # None

\* What the service holds for a request is the row it is about to answer.
HeldRow ==
  \A r \in Request :
    /\ pc[r] = "inserted" => held[r] = r
    /\ pc[r] \in {"found", "committed"} =>
         row # None /\ row.id = held[r] /\ row.fingerprint = FingerprintOf(r)

\* The row was made from the request of the task's creator.
RowOrigin == row # None => row.id \in Request /\ row.fingerprint = FingerprintOf(row.id)

\* Only a request with a fingerprint begins a transaction.
FingerprintKnown ==
  \A r \in Request : pc[r] \notin {"idle", "received", "over"} => FingerprintOf(r) # Invalid

SubmissionInv ==
  /\ TypeOK /\ OpenInsert /\ SomethingToFind /\ HeldRow /\ RowOrigin /\ FingerprintKnown
  /\ AnsweredTaskStands /\ ConflictIsTrue /\ AlwaysResolved

\* NULL is none of the values it stands beside.
LEMMA NoneApart == None \notin Request /\ None \notin TaskRow
BY SubmissionAssumption

\* A request that was not refused asks for a fingerprint.
LEMMA RequestFingerprint ==
  ASSUME TypeOK, NEW r \in Request, FingerprintOf(r) # Invalid
  PROVE  FingerprintOf(r) \in Fingerprint
BY SubmissionAssumption DEF TypeOK, FingerprintOf

LEMMA InitInv == Init => SubmissionInv
<1> SUFFICES ASSUME Init PROVE SubmissionInv
  OBVIOUS
<1>1. TypeOK
  BY DEF Init, TypeOK, ProgramPoint, Answer, NoAnswer
<1>2. OpenInsert /\ SomethingToFind /\ HeldRow /\ RowOrigin /\ FingerprintKnown
  BY DEF Init, OpenInsert, SomethingToFind, HeldRow, RowOrigin, FingerprintKnown
<1>3. AnsweredTaskStands /\ ConflictIsTrue /\ AlwaysResolved
  BY DEF Init, AnsweredTaskStands, ConflictIsTrue, AlwaysResolved, NoAnswer
<1> QED BY <1>1, <1>2, <1>3 DEF SubmissionInv

-----------------------------------------------------------------------------
(* The steps *)

\* Steps of one request that leave the two rows alone: what it does to its own
\* program point, task and answer decides.
LEMMA OwnStep ==
  ASSUME SubmissionInv, NEW r \in Request, NEW p \in ProgramPoint \ {"inserted"},
         NEW h \in Request \cup {None}, NEW a \in Answer,
         pc[r] # "inserted", UNCHANGED <<row, pending, payload>>,
         pc' = [pc EXCEPT ![r] = p], held' = [held EXCEPT ![r] = h],
         answer' = [answer EXCEPT ![r] = a],
         p = "conflicted" => row # None,
         p \notin {"idle", "received", "over"} => FingerprintOf(r) # Invalid,
         p \in {"found", "committed"} =>
           row # None /\ row.id = h /\ row.fingerprint = FingerprintOf(r),
         a.kind \in {"created", "replayed"} =>
           /\ row # None /\ row.id = a.id /\ row.fingerprint = FingerprintOf(r)
           /\ a.kind = "created" <=> row.id = r,
         a.kind = "conflict" => row # None /\ row.fingerprint # FingerprintOf(r),
         a.kind # "error"
  PROVE  SubmissionInv'
<1>1. TypeOK'
  BY DEF SubmissionInv, TypeOK
<1>2. /\ pc \in [Request -> ProgramPoint] /\ held \in [Request -> Request \cup {None}]
      /\ answer \in [Request -> Answer]
  BY DEF SubmissionInv, TypeOK
<1>3. OpenInsert'
  BY <1>2 DEF SubmissionInv, OpenInsert, FingerprintOf
<1>4. SomethingToFind' /\ FingerprintKnown'
  BY <1>2 DEF SubmissionInv, SomethingToFind, FingerprintKnown, FingerprintOf
<1>5. HeldRow'
  BY <1>2 DEF SubmissionInv, HeldRow, FingerprintOf
<1>6. RowOrigin'
  BY DEF SubmissionInv, RowOrigin, FingerprintOf
<1>7. AnsweredTaskStands'
  BY <1>2 DEF SubmissionInv, AnsweredTaskStands, FingerprintOf
<1>8. ConflictIsTrue' /\ AlwaysResolved'
  BY <1>2 DEF SubmissionInv, ConflictIsTrue, AlwaysResolved, FingerprintOf
<1> QED BY <1>1, <1>3, <1>4, <1>5, <1>6, <1>7, <1>8 DEF SubmissionInv

\* A transaction begins with its insert, commits it, or loses it.
LEMMA InsertKeeps ==
  ASSUME SubmissionInv, NEW r \in Request, Insert(r)
  PROVE  SubmissionInv'
<1>1. /\ pc[r] = "insert" /\ pending = None /\ row = None
      /\ pending' = [id |-> r, fingerprint |-> FingerprintOf(r)]
      /\ pc' = [pc EXCEPT ![r] = "inserted"] /\ held' = [held EXCEPT ![r] = r]
      /\ UNCHANGED <<row, payload, answer>>
  BY DEF Insert, InsertEffect
<1>2. FingerprintOf(r) # Invalid
  BY <1>1 DEF SubmissionInv, FingerprintKnown
<1>3. pending' \in TaskRow /\ pending' # None
  BY <1>1, <1>2, RequestFingerprint, NoneApart DEF SubmissionInv, TaskRow
<1>4. TypeOK'
  BY <1>1, <1>3 DEF SubmissionInv, TypeOK, ProgramPoint
<1>5. pc \in [Request -> ProgramPoint] /\ held \in [Request -> Request \cup {None}]
  BY DEF SubmissionInv, TypeOK
<1>6. OpenInsert'
  BY <1>1, <1>3, <1>5 DEF SubmissionInv, OpenInsert, FingerprintOf
<1>7. SomethingToFind' /\ FingerprintKnown'
  BY <1>1, <1>2, <1>5 DEF SubmissionInv, SomethingToFind, FingerprintKnown, FingerprintOf
<1>8. HeldRow'
  BY <1>1, <1>5 DEF SubmissionInv, HeldRow, FingerprintOf
<1>9. RowOrigin' /\ AnsweredTaskStands' /\ ConflictIsTrue' /\ AlwaysResolved'
  BY <1>1 DEF SubmissionInv, RowOrigin, AnsweredTaskStands, ConflictIsTrue, AlwaysResolved,
              FingerprintOf
<1> QED BY <1>4, <1>6, <1>7, <1>8, <1>9 DEF SubmissionInv

LEMMA CommitKeeps ==
  ASSUME SubmissionInv, NEW r \in Request, Commit(r)
  PROVE  SubmissionInv'
<1>0. pc \in [Request -> ProgramPoint]
  BY DEF SubmissionInv, TypeOK
<1>1. CASE pc[r] = "inserted"
  <2>1. /\ row' = pending /\ pending' = None /\ pc' = [pc EXCEPT ![r] = "committed"]
        /\ UNCHANGED <<payload, held, answer>>
    BY <1>1 DEF Commit
  <2>2. /\ pending # None /\ pending.id = r /\ pending.fingerprint = FingerprintOf(r)
        /\ row = None /\ held[r] = r
    BY <1>1 DEF SubmissionInv, OpenInsert, HeldRow
  <2>3. TypeOK'
    BY <2>1 DEF SubmissionInv, TypeOK, ProgramPoint
  <2>4. OpenInsert'
    BY <1>0, <2>1, <2>2 DEF SubmissionInv, OpenInsert
  <2>5. SomethingToFind' /\ FingerprintKnown'
    BY <1>0, <1>1, <2>1, <2>2 DEF SubmissionInv, SomethingToFind, FingerprintKnown, FingerprintOf
  <2>6. HeldRow'
    BY <1>0, <2>1, <2>2 DEF SubmissionInv, HeldRow, FingerprintOf
  <2>7. RowOrigin'
    BY <2>1, <2>2 DEF RowOrigin, FingerprintOf
  <2>8. AnsweredTaskStands' /\ ConflictIsTrue' /\ AlwaysResolved'
    BY <2>1, <2>2 DEF SubmissionInv, AnsweredTaskStands, ConflictIsTrue, AlwaysResolved,
                      FingerprintOf
  <2> QED BY <2>3, <2>4, <2>5, <2>6, <2>7, <2>8 DEF SubmissionInv
<1>2. CASE pc[r] = "found"
  <2>1. /\ UNCHANGED <<row, pending, payload, held, answer>>
        /\ pc' = [pc EXCEPT ![r] = "committed"]
    BY <1>2 DEF Commit
  <2>2. /\ held \in [Request -> Request \cup {None}] /\ answer \in [Request -> Answer]
        /\ row # None /\ row.id = held[r] /\ row.fingerprint = FingerprintOf(r)
        /\ FingerprintOf(r) # Invalid
    BY <1>2 DEF SubmissionInv, TypeOK, HeldRow, FingerprintKnown
  <2>3. /\ held' = [held EXCEPT ![r] = held[r]] /\ answer' = [answer EXCEPT ![r] = answer[r]]
        /\ held[r] \in Request \cup {None} /\ answer[r] \in Answer
    BY <2>1, <2>2
  <2>4. /\ answer[r].kind \in {"created", "replayed"} =>
             /\ row # None /\ row.id = answer[r].id /\ row.fingerprint = FingerprintOf(r)
             /\ answer[r].kind = "created" <=> row.id = r
        /\ answer[r].kind = "conflict" => row # None /\ row.fingerprint # FingerprintOf(r)
        /\ answer[r].kind # "error"
    BY DEF SubmissionInv, AnsweredTaskStands, ConflictIsTrue, AlwaysResolved
  <2> QED BY <1>2, <2>1, <2>2, <2>3, <2>4, OwnStep DEF ProgramPoint
<1> QED BY <1>1, <1>2 DEF Commit

LEMMA BreakKeeps ==
  ASSUME SubmissionInv, NEW r \in Request, Break(r)
  PROVE  SubmissionInv'
<1>1. /\ pc' = [pc EXCEPT ![r] = "over"] /\ UNCHANGED <<row, payload, held, answer>>
      /\ pending' = IF pc[r] = "inserted" THEN None ELSE pending
      /\ pc \in [Request -> ProgramPoint]
  BY DEF Break, RolledBack, SubmissionInv, TypeOK
<1>2. TypeOK'
  BY <1>1 DEF SubmissionInv, TypeOK, ProgramPoint
<1>3. OpenInsert'
  BY <1>1 DEF SubmissionInv, OpenInsert, FingerprintOf
<1>4. SomethingToFind' /\ HeldRow' /\ FingerprintKnown'
  BY <1>1 DEF SubmissionInv, SomethingToFind, HeldRow, FingerprintKnown, FingerprintOf
<1>5. RowOrigin' /\ AnsweredTaskStands' /\ ConflictIsTrue' /\ AlwaysResolved'
  BY <1>1 DEF SubmissionInv, RowOrigin, AnsweredTaskStands, ConflictIsTrue, AlwaysResolved,
              FingerprintOf
<1> QED BY <1>2, <1>3, <1>4, <1>5 DEF SubmissionInv
-----------------------------------------------------------------------------

\* A step of a request that touches neither row, by OwnStep.
LEMMA QuietKeeps ==
  ASSUME SubmissionInv, NEW r \in Request,
         Refuse(r) \/ Begin(r) \/ InsertNothing(r) \/ Find(r) \/ Mismatch(r) \/ Reply(r)
  PROVE  SubmissionInv'
<1>1. /\ held \in [Request -> Request \cup {None}] /\ answer \in [Request -> Answer]
      /\ held' = [held EXCEPT ![r] = held[r]] <=> held' = held
      /\ answer' = [answer EXCEPT ![r] = answer[r]] <=> answer' = answer
      /\ held[r] \in Request \cup {None} /\ answer[r] \in Answer
  BY DEF SubmissionInv, TypeOK
<1>2. /\ answer[r].kind \in {"created", "replayed"} =>
           /\ row # None /\ row.id = answer[r].id /\ row.fingerprint = FingerprintOf(r)
           /\ answer[r].kind = "created" <=> row.id = r
      /\ answer[r].kind = "conflict" => row # None /\ row.fingerprint # FingerprintOf(r)
      /\ answer[r].kind # "error"
  BY DEF SubmissionInv, AnsweredTaskStands, ConflictIsTrue, AlwaysResolved
<1>3. CASE Refuse(r)
  <2> DEFINE a == [kind |-> "invalid", id |-> None]
  <2>1. a \in Answer /\ a.kind = "invalid"
    BY DEF Answer
  <2>2. /\ pc[r] # "inserted" /\ UNCHANGED <<row, pending, payload>>
        /\ pc' = [pc EXCEPT ![r] = "over"] /\ held' = held
        /\ answer' = [answer EXCEPT ![r] = a]
    BY <1>3 DEF Refuse, Tell
  <2> HIDE DEF a
  <2> QED BY <1>1, <2>1, <2>2, OwnStep DEF ProgramPoint
<1>4. CASE Begin(r)
  <2>1. /\ pc[r] # "inserted" /\ UNCHANGED <<row, pending, payload, held, answer>>
        /\ pc' = [pc EXCEPT ![r] = "insert"] /\ FingerprintOf(r) # Invalid
    BY <1>4 DEF Begin
  <2> QED BY <1>1, <1>2, <2>1, OwnStep DEF ProgramPoint
<1>5. CASE InsertNothing(r)
  <2>1. /\ pc[r] = "insert" /\ UNCHANGED <<row, pending, payload, held, answer>>
        /\ pc' = [pc EXCEPT ![r] = "conflicted"] /\ row # None
    BY <1>5 DEF InsertNothing, InsertEffect
  <2>2. FingerprintOf(r) # Invalid
    BY <2>1 DEF SubmissionInv, FingerprintKnown
  <2> QED BY <1>1, <1>2, <2>1, <2>2, OwnStep DEF ProgramPoint
<1>6. CASE Find(r)
  <2>1. /\ pc[r] = "conflicted" /\ UNCHANGED <<row, pending, payload, answer>>
        /\ pc' = [pc EXCEPT ![r] = "found"] /\ held' = [held EXCEPT ![r] = row.id]
        /\ row # None /\ row.fingerprint = FingerprintOf(r)
    BY <1>6 DEF Find, SameRequest
  <2>2. FingerprintOf(r) # Invalid /\ row.id \in Request
    BY <2>1 DEF SubmissionInv, FingerprintKnown, RowOrigin
  <2> QED BY <1>1, <1>2, <2>1, <2>2, OwnStep DEF ProgramPoint
<1>7. CASE Mismatch(r)
  <2> DEFINE a == [kind |-> "conflict", id |-> None]
  <2>1. a \in Answer /\ a.kind = "conflict"
    BY DEF Answer
  <2>2. row # None
    BY <1>7 DEF Mismatch, SubmissionInv, SomethingToFind
  <2>3. /\ pc[r] # "inserted" /\ UNCHANGED <<row, pending, payload>>
        /\ pc' = [pc EXCEPT ![r] = "over"] /\ held' = held
        /\ answer' = [answer EXCEPT ![r] = a] /\ row.fingerprint # FingerprintOf(r)
    BY <1>7, <2>2 DEF Mismatch, Tell, SameRequest
  <2> HIDE DEF a
  <2> QED BY <1>1, <2>1, <2>2, <2>3, OwnStep DEF ProgramPoint
<1>8. CASE Reply(r)
  <2> DEFINE a == [kind |-> IF held[r] = r THEN "created" ELSE "replayed", id |-> held[r]]
  <2>1. /\ pc[r] = "committed" /\ UNCHANGED <<row, pending, payload, held>>
        /\ pc' = [pc EXCEPT ![r] = "over"] /\ answer' = [answer EXCEPT ![r] = a]
    BY <1>8 DEF Reply, Replies, Tell
  <2>2. row # None /\ row.id = held[r] /\ row.fingerprint = FingerprintOf(r)
    BY <2>1 DEF SubmissionInv, HeldRow
  <2>3. a \in Answer /\ a.kind \in {"created", "replayed"} /\ a.id = held[r]
        /\ (a.kind = "created" <=> held[r] = r)
    BY <1>1 DEF Answer
  <2> HIDE DEF a
  <2>4. /\ "over" \in ProgramPoint \ {"inserted"} /\ pc[r] # "inserted"
        /\ held[r] \in Request \cup {None} /\ held' = [held EXCEPT ![r] = held[r]]
    BY <1>1, <2>1 DEF ProgramPoint
  <2>5. a.kind \notin {"conflict", "error"} /\ row.id = a.id /\ (a.kind = "created" <=> row.id = r)
    BY <2>2, <2>3
  <2> QED BY <2>1, <2>2, <2>3, <2>4, <2>5, OwnStep, <1>1
<1> QED BY <1>3, <1>4, <1>5, <1>6, <1>7, <1>8

\* The whole invariant survives every step.
LEMMA InvStep == SubmissionInv /\ [Next]_vars => SubmissionInv'
<1> SUFFICES ASSUME SubmissionInv, [Next]_vars PROVE SubmissionInv'
  OBVIOUS
<1>1. ASSUME NEW c \in Caller, NEW n \in 1 .. MaxSends, Send(c, n) PROVE SubmissionInv'
  <2> DEFINE r == <<c, n>>
  <2>1. /\ r \in Request /\ pc[r] = "idle" /\ pc' = [pc EXCEPT ![r] = "received"]
        /\ UNCHANGED <<row, pending, payload, held, answer>>
    BY <1>1 DEF Send, Request
  <2> HIDE DEF r
  <2>2. /\ held \in [Request -> Request \cup {None}] /\ answer \in [Request -> Answer]
    BY DEF SubmissionInv, TypeOK
  <2>3. /\ held' = [held EXCEPT ![r] = held[r]] /\ answer' = [answer EXCEPT ![r] = answer[r]]
        /\ held[r] \in Request \cup {None} /\ answer[r] \in Answer
    BY <2>1, <2>2
  <2>4. /\ answer[r].kind \in {"created", "replayed"} =>
             /\ row # None /\ row.id = answer[r].id /\ row.fingerprint = FingerprintOf(r)
             /\ answer[r].kind = "created" <=> row.id = r
        /\ answer[r].kind = "conflict" => row # None /\ row.fingerprint # FingerprintOf(r)
        /\ answer[r].kind # "error"
    BY <2>1 DEF SubmissionInv, AnsweredTaskStands, ConflictIsTrue, AlwaysResolved
  <2> QED BY <2>1, <2>3, <2>4, OwnStep DEF ProgramPoint
<1>2. ASSUME NEW r \in Request, Serve(r) PROVE SubmissionInv'
  BY <1>2, QuietKeeps, InsertKeeps, CommitKeeps DEF Serve
<1>3. ASSUME NEW r \in Request, Break(r) PROVE SubmissionInv'
  BY <1>3, BreakKeeps
<1>4. CASE UNCHANGED vars
  BY <1>4 DEF vars, SubmissionInv, TypeOK, OpenInsert, SomethingToFind, HeldRow, RowOrigin,
              FingerprintKnown, AnsweredTaskStands, ConflictIsTrue, AlwaysResolved, FingerprintOf
<1> QED BY <1>1, <1>2, <1>3, <1>4 DEF Next

-----------------------------------------------------------------------------
(* The theorems *)

\* The invariant holds throughout.
THEOREM SubmissionInvariant == Spec => []SubmissionInv
BY InitInv, InvStep, PTL DEF Spec

\* The row, the open transaction and the replies keep their shape.
THEOREM SubmissionTypeCorrect == Spec => []TypeOK
<1>1. SubmissionInv => TypeOK
  BY DEF SubmissionInv
<1> QED BY <1>1, SubmissionInvariant, PTL

\* Whatever a caller was told of the task of its key stays true, for every
\* number of callers, sends and payloads.
THEOREM AnsweredTasksStand == Spec => []AnsweredTaskStands
<1>1. SubmissionInv => AnsweredTaskStands
  BY DEF SubmissionInv
<1> QED BY <1>1, SubmissionInvariant, PTL

\* A 409 is only ever given to a different request.
THEOREM ConflictsAreTrue == Spec => []ConflictIsTrue
<1>1. SubmissionInv => ConflictIsTrue
  BY DEF SubmissionInv
<1> QED BY <1>1, SubmissionInvariant, PTL

\* The RuntimeError of create_task cannot be raised.
THEOREM ConflictsResolve == Spec => []AlwaysResolved
<1>1. SubmissionInv => AlwaysResolved
  BY DEF SubmissionInv
<1> QED BY <1>1, SubmissionInvariant, PTL

\* No request replaces the task of the key.
THEOREM TaskStays == Spec => TaskIsForGood
<1>1. SubmissionInv /\ [Next]_vars => (row # None => row' = row)
  <2> SUFFICES ASSUME SubmissionInv, [Next]_vars, row # None PROVE row' = row
    OBVIOUS
  <2>1. ASSUME NEW c \in Caller, NEW n \in 1 .. MaxSends, Send(c, n) PROVE row' = row
    BY <2>1 DEF Send
  <2>2. ASSUME NEW r \in Request, Commit(r) PROVE row' = row
    BY <2>2 DEF Commit, SubmissionInv, OpenInsert
  <2>3. ASSUME NEW r \in Request, Serve(r), ~Commit(r) PROVE row' = row
    BY <2>3 DEF Serve, Refuse, Begin, Insert, InsertNothing, Find, Mismatch, Reply
  <2>4. ASSUME NEW r \in Request, Break(r) PROVE row' = row
    BY <2>4 DEF Break
  <2>5. CASE UNCHANGED vars
    BY <2>5 DEF vars
  <2> QED BY <2>1, <2>2, <2>3, <2>4, <2>5 DEF Next
<1>2. SubmissionInv /\ [Next]_vars =>
        [row # None => /\ row' # None
                       /\ row'.id = row.id /\ row'.fingerprint = row.fingerprint]_row
  BY <1>1
<1> QED BY <1>2, SubmissionInvariant, PTL DEF Spec, TaskIsForGood

-----------------------------------------------------------------------------
(* Refinement: the service implements IdempotentCreate *)

\* A request that is not over has been told nothing.
Unanswered == \A r \in Request : pc[r] # "over" => answer[r] = NoAnswer

\* Only Tell answers, and it ends the request.
LEMMA UnansweredStep ==
  ASSUME TypeOK, Unanswered, [Next]_vars PROVE Unanswered'
<1>1. ASSUME NEW c \in Caller, NEW n \in 1 .. MaxSends, Send(c, n) PROVE Unanswered'
  <2>1. <<c, n>> \in Request
    BY DEF Request
  <2> QED BY <1>1, <2>1 DEF TypeOK, Send, Unanswered
<1>2. ASSUME NEW r \in Request, NEW k, NEW i, Tell(r, k, i) PROVE Unanswered'
  BY <1>2 DEF TypeOK, Tell, Unanswered
<1>3. ASSUME NEW r \in Request, Refuse(r) \/ Mismatch(r) \/ Reply(r) PROVE Unanswered'
  BY <1>2, <1>3 DEF Refuse, Mismatch, Reply
<1>4. ASSUME NEW r \in Request,
             Begin(r) \/ Insert(r) \/ InsertNothing(r) \/ Find(r) \/ Commit(r) \/ Break(r)
      PROVE  Unanswered'
  BY <1>4 DEF TypeOK, Begin, Insert, InsertNothing, Find, Commit, Break, Unanswered
<1>5. CASE UNCHANGED vars
  BY <1>5 DEF vars, Unanswered
<1> QED BY <1>1, <1>3, <1>4, <1>5 DEF Next, Serve

\* The fingerprints the requests ask for.
Wanted == [r \in Request |-> FingerprintOf(r)]

\* The commit of an insert creates the task, the answers are those of the
\* contract, and nothing else is seen.
LEMMA CreateStep ==
  ASSUME SubmissionInv, Unanswered, [Next]_vars
  PROVE  OnceOnly!CreateNext \/ UNCHANGED <<Wanted, row, answer>>
<1>1. TypeOK /\ (\A r \in Request : Wanted[r] = FingerprintOf(r)) /\ OnceOnly!Untold = NoAnswer
  BY DEF SubmissionInv, Wanted, OnceOnly!Untold, NoAnswer
<1>2. UNCHANGED payload
  BY DEF Next, Serve, Send, Refuse, Begin, Insert, InsertNothing, Find, Mismatch, Commit, Reply,
         Break, vars
<1>3. Wanted' = Wanted
  BY <1>2 DEF Wanted, FingerprintOf
<1>4. ASSUME NEW r \in Request, NEW k, NEW i, Tell(r, k, i), pc[r] # "over", UNCHANGED row
      PROVE  OnceOnly!Tell(r, k, i)
  BY <1>1, <1>3, <1>4 DEF Tell, Unanswered, OnceOnly!Tell, Wanted
<1>5. ASSUME NEW r \in Request, Refuse(r) PROVE OnceOnly!TellInvalid(r)
  BY <1>1, <1>4, <1>5 DEF Refuse, OnceOnly!TellInvalid, Wanted
<1>6. ASSUME NEW r \in Request, Mismatch(r) PROVE OnceOnly!TellConflict(r)
  <2>1. row # None
    BY <1>6 DEF SubmissionInv, SomethingToFind, Mismatch
  <2>2. row.fingerprint # FingerprintOf(r) /\ Tell(r, "conflict", None)
    BY <1>6, <2>1 DEF Mismatch, SameRequest
  <2> QED BY <1>1, <1>4, <1>6, <2>1, <2>2 DEF Mismatch, OnceOnly!TellConflict, Wanted
<1>7. ASSUME NEW r \in Request, Reply(r) PROVE OnceOnly!TellCreated(r) \/ OnceOnly!TellReplayed(r)
  <2>1. row # None /\ row.id = held[r] /\ row.fingerprint = FingerprintOf(r)
    BY <1>7 DEF SubmissionInv, HeldRow, Reply, Replies
  <2>2. CASE held[r] = r
    BY <1>4, <1>7, <2>1, <2>2 DEF Reply, Replies, OnceOnly!TellCreated
  <2>3. CASE held[r] # r
    BY <1>1, <1>4, <1>7, <2>1, <2>3 DEF Reply, Replies, OnceOnly!TellReplayed, Wanted
  <2> QED BY <2>2, <2>3
<1>8. ASSUME NEW r \in Request, Commit(r), pc[r] = "inserted" PROVE OnceOnly!Create(r)
  <2>1. /\ pending # None /\ pending.id = r /\ pending.fingerprint = FingerprintOf(r)
        /\ pending \in TaskRow /\ row = None
    BY <1>8 DEF SubmissionInv, OpenInsert, TypeOK
  <2>2. pending = [id |-> r, fingerprint |-> FingerprintOf(r)]
    BY <2>1 DEF TaskRow
  <2>3. FingerprintOf(r) # Invalid
    BY <1>8 DEF SubmissionInv, FingerprintKnown
  <2> QED BY <1>1, <1>3, <1>8, <2>1, <2>2, <2>3 DEF Commit, OnceOnly!Create, Wanted
<1>9. ASSUME NEW r \in Request,
             \/ Begin(r) \/ Insert(r) \/ InsertNothing(r) \/ Find(r) \/ Break(r)
             \/ Commit(r) /\ pc[r] # "inserted"
      PROVE  UNCHANGED <<row, answer>>
  BY <1>9 DEF Begin, Insert, InsertNothing, Find, Break, Commit
<1>10. ASSUME NEW c \in Caller, NEW n \in 1 .. MaxSends, Send(c, n) PROVE UNCHANGED <<row, answer>>
  BY <1>10 DEF Send
<1> QED BY <1>3, <1>5, <1>6, <1>7, <1>8, <1>9, <1>10 DEF Next, Serve, vars, OnceOnly!CreateNext

\* Creating a task is one indivisible step: the insert that may wait, the read
\* after it, the commit, the reply and every broken connection are not seen.
THEOREM CreateImplemented == Spec => ImplementsCreate
<1>1. Init => OnceOnly!CreateInit /\ Unanswered
  BY DEF Init, OnceOnly!CreateInit, OnceOnly!Untold, NoAnswer, Unanswered
<1>2. SubmissionInv /\ Unanswered /\ [Next]_vars => Unanswered'
  BY UnansweredStep DEF SubmissionInv
<1>3. SubmissionInv /\ Unanswered /\ [Next]_vars =>
        [OnceOnly!CreateNext]_<<Wanted, row, answer>>
  BY CreateStep
<1> QED BY <1>1, <1>2, <1>3, SubmissionInvariant, PTL
        DEF Spec, ImplementsCreate, OnceOnly!CreateSpec, Wanted
=============================================================================
