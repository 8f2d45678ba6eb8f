------------------------ MODULE SlackDeliveryProofs -------------------------
(***************************************************************************)
(* Proofs about SlackDelivery for every set of tasks, retry budget and set *)
(* of evidence: the notification is posted at most once, the row is opened *)
(* again only when nothing was sent, and a success names its message.      *)
(***************************************************************************)
EXTENDS SlackDelivery, TLAPS

-----------------------------------------------------------------------------
(* The inductive invariant *)

\* Program points before the request of an execution is sent.
Early == {"idle", "reserve", "unresolved", "delay", "identity", "unidentified", "start", "post"}

\* What one execution knows about its message agrees with the channel.
KnowsMessage(e) ==
  /\ pc[e] \in Early => wire[e] = "none" /\ e \notin messages
  /\ wire[e] \in {"flying", "rejected"} => e \notin messages
  /\ wire[e] = "accepted" => e \in messages
  /\ pc[e] = "posted" =>
       /\ goal[e] \in {"retryable_failure", "permanent_failure", "outcome_unknown", "succeeded"}
       /\ goal[e] = "retryable_failure" => wire[e] # "flying" /\ e \notin messages
       /\ goal[e] = "succeeded" => e \in messages
  /\ pc[e] = "unidentified" =>
       goal[e] \in {"retryable_failure", "permanent_failure", "needs_human_review"}

\* The write belongs to an execution until its answer is recorded.
Occupied(e) == Posting(e) \/ pc[e] = "posted"

\* What the row says while the write is anybody's.
WriteTaken ==
  action.status \in {"executing", "outcome_unknown", "succeeded"} \/ RejectedPost(action)

\* While the write is anybody's, nobody else can start one.
OneWriter ==
  /\ \A e \in Execution : Occupied(e) => WriteTaken
  /\ \A e, other \in Execution : Occupied(e) /\ Occupied(other) => e = other

RowInv ==
  /\ action.status \in {"executing", "outcome_unknown", "succeeded"} => action.started
  /\ action.status = "succeeded" => action.receipt \in messages

SlackInv ==
  /\ TypeOK
  /\ \A e \in Execution : KnowsMessage(e)
  /\ OneWriter
  /\ RowInv
-----------------------------------------------------------------------------
(* Type correctness *)

\* The field updates of the transitions make rows of rows.
LEMMA UpdatedRow ==
  ASSUME NEW row \in ActionRow
  PROVE  /\ \A s \in ActionStatus : [row EXCEPT !.status = s] \in ActionRow
         /\ \A s \in ActionStatus, v \in Evidence :
              [row EXCEPT !.status = s, !.evidence = v] \in ActionRow
         /\ \A s \in ActionStatus, b \in BOOLEAN, d \in {"null", "pending", "passed"} :
              [row EXCEPT !.status = s, !.started = b, !.delay = d] \in ActionRow
         /\ \A s \in ActionStatus, e \in Execution :
              [row EXCEPT !.status = s, !.receipt = e] \in ActionRow
         /\ [row EXCEPT !.delay = "passed"] \in ActionRow
<1>1. ASSUME NEW s \in ActionStatus PROVE [row EXCEPT !.status = s] \in ActionRow
  BY DEF ActionRow
<1>2. ASSUME NEW s \in ActionStatus, NEW v \in Evidence
      PROVE  [row EXCEPT !.status = s, !.evidence = v] \in ActionRow
  BY DEF ActionRow
<1>3. ASSUME NEW s \in ActionStatus, NEW b \in BOOLEAN, NEW d \in {"null", "pending", "passed"}
      PROVE  [row EXCEPT !.status = s, !.started = b, !.delay = d] \in ActionRow
  BY DEF ActionRow
<1>4. ASSUME NEW s \in ActionStatus, NEW e \in Execution
      PROVE  [row EXCEPT !.status = s, !.receipt = e] \in ActionRow
  BY DEF ActionRow
<1>5. [row EXCEPT !.delay = "passed"] \in ActionRow
  BY DEF ActionRow
<1> QED BY <1>1, <1>2, <1>3, <1>4, <1>5

\* Leaving keeps the shape of what belongs to the execution.
LEMMA LeaveType ==
  ASSUME TypeOK, NEW e \in Execution, NEW p \in ProgramPoint, Leave(e, p),
         action' \in ActionRow, UNCHANGED <<messages, fenced>>
  PROVE  TypeOK'
BY DEF TypeOK, Leave

\* Going on keeps the shape of every variable.
LEMMA GoToType ==
  ASSUME TypeOK, NEW e \in Execution, NEW p \in ProgramPoint, GoTo(e, p),
         action' \in ActionRow
  PROVE  TypeOK'
BY DEF TypeOK, GoTo

\* So does an answer to the write.
LEMMA AnsweredType ==
  ASSUME TypeOK, NEW e \in Execution, NEW s \in ActionStatus, Answered(e, s)
  PROVE  TypeOK'
BY DEF TypeOK, Answered, ProgramPoint

\* The shape of every variable survives every step.
LEMMA TypeStep == SlackInv /\ [Next]_vars => TypeOK'
<1> SUFFICES ASSUME SlackInv, [Next]_vars PROVE TypeOK'
  OBVIOUS
<1>0. TypeOK /\ action \in ActionRow
  BY DEF SlackInv, TypeOK
<1>1. ASSUME NEW t \in Task, NEW n \in 1 .. MaxAttempts, Claim(t, n) PROVE TypeOK'
  <2>1. <<t, n>> \in Execution
    BY DEF Execution
  <2> QED BY <1>0, <1>1, <2>1 DEF TypeOK, Claim, ProgramPoint
<1>2. ASSUME NEW e \in Execution, FenceLost(e) \/ StateRefuses(e) PROVE TypeOK'
  BY <1>0, <1>2 DEF TypeOK, FenceLost, StateRefuses, ProgramPoint
<1>3. ASSUME NEW e \in Execution, Abandon(e) \/ FenceRefuses(e) \/ DelayHolds(e)
      PROVE  TypeOK'
  BY <1>0, <1>3, LeaveType DEF Abandon, FenceRefuses, DelayHolds, ProgramPoint
<1>4. ASSUME NEW e \in Execution, NEW seen \in Evidence, Reserve(e, seen) PROVE TypeOK'
  <2>1. [action EXCEPT !.status = "reserved", !.evidence = seen] \in ActionRow
    BY <1>0, UpdatedRow DEF ActionStatus
  <2>2. AfterReplay(action.status) \in ProgramPoint /\ "identity" \in ProgramPoint
    BY DEF AfterReplay, ProgramPoint
  <2> QED BY <1>0, <1>4, <2>1, <2>2, GoToType DEF Reserve
<1>5. ASSUME NEW e \in Execution, NEW seen \in Evidence, ReserveEnds(e, seen) PROVE TypeOK'
  BY <1>0, <1>5, LeaveType DEF ReserveEnds, ProgramPoint
<1>6. ASSUME NEW e \in Execution, Unresolved(e) PROVE TypeOK'
  <2>1. [action EXCEPT !.status = "outcome_unknown"] \in ActionRow
    BY <1>0, UpdatedRow DEF ActionStatus
  <2> QED BY <1>0, <1>6, <2>1, LeaveType DEF Unresolved, ProgramPoint
<1>7. ASSUME NEW e \in Execution, DelayOver(e) \/ IdentityVerified(e) PROVE TypeOK'
  BY <1>0, <1>7, GoToType DEF DelayOver, IdentityVerified, ProgramPoint
<1>8. ASSUME NEW e \in Execution, IdentityFails(e) PROVE TypeOK'
  BY <1>0, <1>8 DEF TypeOK, IdentityFails, ProgramPoint, ActionStatus
<1>9. ASSUME NEW e \in Execution, RecordIdentity(e) PROVE TypeOK'
  <2>1. goal[e] \in ActionStatus
    BY <1>9 DEF SlackInv, KnowsMessage, RecordIdentity, MayTransition, ActionStatus
  <2>2. action' \in ActionRow
    BY <1>0, <1>9, <2>1, UpdatedRow DEF RecordIdentity
  <2> QED BY <1>0, <1>9, <2>2, LeaveType DEF RecordIdentity, ProgramPoint
<1>10. ASSUME NEW e \in Execution, StartWrite(e) PROVE TypeOK'
  <2>1. action' \in ActionRow
    BY <1>0, <1>10, UpdatedRow DEF StartWrite, ActionStatus
  <2> QED BY <1>0, <1>10, <2>1, GoToType DEF StartWrite, ProgramPoint
<1>11. ASSUME NEW e \in Execution, Post(e) PROVE TypeOK'
  BY <1>0, <1>11 DEF TypeOK, Post, ProgramPoint
<1>12. ASSUME NEW e \in Execution,
              PostFails(e) \/ PostConfirmed(e) \/ PostUnknown(e) \/ PostRejected(e)
       PROVE  TypeOK'
  BY <1>0, <1>12, AnsweredType
     DEF PostFails, PostConfirmed, PostUnknown, PostRejected, ActionStatus
<1>13. ASSUME NEW e \in Execution, Record(e) PROVE TypeOK'
  <2>1. goal[e] \in ActionStatus
    BY <1>13 DEF SlackInv, KnowsMessage, Record, MayTransition, ActionStatus
  <2>2. Recorded(e) \in ActionRow
    BY <1>0, <2>1, UpdatedRow DEF Recorded, ActionStatus
  <2> QED BY <1>0, <1>13, <2>2, LeaveType DEF Record, ProgramPoint
<1>14. ASSUME NEW e \in Execution, Land(e) \/ Reject(e) PROVE TypeOK'
  BY <1>0, <1>14 DEF TypeOK, Land, Reject, Answer
<1>15. CASE DelayPasses
  BY <1>0, <1>15, UpdatedRow DEF TypeOK, DelayPasses
<1>16. CASE UNCHANGED vars
  BY <1>0, <1>16 DEF TypeOK, vars
<1> QED
  BY <1>1, <1>2, <1>3, <1>4, <1>5, <1>6, <1>7, <1>8, <1>9, <1>10, <1>11, <1>12, <1>13, <1>14,
     <1>15, <1>16 DEF Next, Prepare, Write
-----------------------------------------------------------------------------
(* One writer *)

\* A step of an execution leaves the others and their messages alone.
Only(e) ==
  \A other \in Execution \ {e} :
    /\ pc'[other] = pc[other] /\ goal'[other] = goal[other] /\ wire'[other] = wire[other]
    /\ other \in messages' <=> other \in messages

\* The steps of one execution, and Slack's on its behalf.
StepOf(e) ==
  \/ FenceLost(e) \/ Abandon(e) \/ FenceRefuses(e) \/ StateRefuses(e)
  \/ Prepare(e) \/ Write(e) \/ Land(e) \/ Reject(e)

\* Every step of an execution is a step of its own.
LEMMA StepsAreOnly ==
  ASSUME TypeOK, NEW e \in Execution, StepOf(e)
  PROVE  Only(e)
<1>1. ASSUME NEW p, Leave(e, p), UNCHANGED messages PROVE Only(e)
  BY <1>1 DEF TypeOK, Leave, Only
<1>2. ASSUME NEW p, GoTo(e, p) PROVE Only(e)
  BY <1>2 DEF TypeOK, GoTo, Only
<1>3. ASSUME NEW s, Answered(e, s) PROVE Only(e)
  BY <1>3 DEF TypeOK, Answered, Only
<1>4. ASSUME FenceLost(e) \/ StateRefuses(e) \/ IdentityFails(e) \/ Post(e) PROVE Only(e)
  BY <1>4 DEF TypeOK, FenceLost, StateRefuses, IdentityFails, Post, Only
<1>5. ASSUME Land(e) \/ Reject(e) PROVE Only(e)
  BY <1>5 DEF TypeOK, Land, Reject, Answer, Only
<1>6. ASSUME Prepare(e) PROVE Only(e)
  BY <1>1, <1>2, <1>4, <1>6
     DEF Prepare, Reserve, ReserveEnds, Unresolved, DelayHolds, DelayOver, IdentityVerified,
         RecordIdentity
<1>7. ASSUME Write(e) PROVE Only(e)
  BY <1>1, <1>2, <1>3, <1>4, <1>7
     DEF Write, StartWrite, PostFails, PostConfirmed, PostUnknown, PostRejected, Record
<1>8. ASSUME Abandon(e) \/ FenceRefuses(e) PROVE Only(e)
  BY <1>1, <1>8 DEF Abandon, FenceRefuses
<1> QED BY <1>4, <1>5, <1>6, <1>7, <1>8 DEF StepOf

\* Leaving forgets the request unless it is on its way.
LEMMA LeaveKnows ==
  ASSUME TypeOK, NEW e \in Execution, NEW p \in {"ended", "surprised"}, Leave(e, p),
         KnowsMessage(e), UNCHANGED messages
  PROVE  KnowsMessage(e)' /\ (Occupied(e)' => wire[e] = "flying" \/ e \in messages)
BY DEF TypeOK, Leave, KnowsMessage, Occupied, Posting, Early

\* What an execution knows about its message survives its own steps.
LEMMA KnowsStep ==
  ASSUME TypeOK, NEW e \in Execution, StepOf(e), KnowsMessage(e)
  PROVE  KnowsMessage(e)'
<1>1. ASSUME FenceLost(e) \/ StateRefuses(e) PROVE KnowsMessage(e)'
  BY <1>1 DEF TypeOK, FenceLost, StateRefuses, KnowsMessage, Early
<1>2. ASSUME Abandon(e) \/ FenceRefuses(e) PROVE KnowsMessage(e)'
  BY <1>2, LeaveKnows DEF Abandon, FenceRefuses
<1>3. ASSUME NEW seen \in Evidence, Reserve(e, seen) PROVE KnowsMessage(e)'
  BY <1>3 DEF TypeOK, Reserve, AfterReplay, GoTo, KnowsMessage, Early
<1>4. ASSUME NEW seen \in Evidence, ReserveEnds(e, seen) PROVE KnowsMessage(e)'
  BY <1>4, LeaveKnows DEF ReserveEnds
<1>5. ASSUME Unresolved(e) \/ DelayHolds(e) \/ RecordIdentity(e) \/ Record(e)
      PROVE  KnowsMessage(e)'
  BY <1>5, LeaveKnows DEF Unresolved, DelayHolds, RecordIdentity, Record
<1>6. ASSUME DelayOver(e) \/ IdentityVerified(e) \/ StartWrite(e) PROVE KnowsMessage(e)'
  BY <1>6 DEF TypeOK, DelayOver, IdentityVerified, StartWrite, MayTransition, GoTo,
              KnowsMessage, Early
<1>7. ASSUME IdentityFails(e) PROVE KnowsMessage(e)'
  BY <1>7 DEF TypeOK, IdentityFails, KnowsMessage, Early
<1>8. ASSUME Post(e) PROVE KnowsMessage(e)'
  BY <1>8 DEF TypeOK, Post, KnowsMessage, Early
<1>9. ASSUME PostFails(e) \/ PostConfirmed(e) \/ PostUnknown(e) \/ PostRejected(e)
      PROVE  KnowsMessage(e)'
  BY <1>9 DEF TypeOK, PostFails, PostConfirmed, PostUnknown, PostRejected, RateLimited, Answered,
              KnowsMessage, Early
<1>10. ASSUME Land(e) \/ Reject(e) PROVE KnowsMessage(e)'
  BY <1>10 DEF TypeOK, Land, Reject, Answer, KnowsMessage, Early
<1> QED
  BY <1>1, <1>2, <1>3, <1>4, <1>5, <1>6, <1>7, <1>8, <1>9, <1>10 DEF StepOf, Prepare, Write

\* An execution that does not get hold of the write leaves OneWriter alone as
\* long as the row keeps its status.
LEMMA WriterKept ==
  ASSUME OneWriter, NEW e \in Execution, Only(e), Occupied(e)' => Occupied(e),
         action'.status = action.status, action'.started = action.started
  PROVE  OneWriter'
<1>1. \A other \in Execution : Occupied(other)' => Occupied(other)
  BY DEF Only, Occupied, Posting
<1> QED BY <1>1 DEF OneWriter, WriteTaken, RejectedPost

\* While the row is unsent nobody holds the write.
LEMMA WriteIsFree ==
  ASSUME OneWriter, action.status \in Unsent \cup {"absent"}, NEW e \in Execution
  PROVE  ~Occupied(e)
BY DEF OneWriter, WriteTaken, RejectedPost, Unsent

\* The write has one holder after every step of an execution.
LEMMA WriterStep ==
  ASSUME SlackInv, TypeOK', NEW e \in Execution, StepOf(e)
  PROVE  OneWriter'
<1>1. TypeOK /\ OneWriter /\ KnowsMessage(e) /\ Only(e) /\ KnowsMessage(e)'
  BY StepsAreOnly, KnowsStep DEF SlackInv
<1>2. ASSUME FenceLost(e) \/ StateRefuses(e) PROVE OneWriter'
  <2>1. Occupied(e)' => Occupied(e)
    BY <1>1, <1>2 DEF TypeOK, FenceLost, StateRefuses, Occupied, Posting
  <2> QED BY <1>1, <1>2, <2>1, WriterKept DEF FenceLost, StateRefuses
<1>3. ASSUME NEW p \in {"ended", "surprised"}, Leave(e, p), UNCHANGED messages
      PROVE  Occupied(e)' => Occupied(e)
  BY <1>1, <1>3, LeaveKnows DEF Occupied, Posting
<1>4. ASSUME Abandon(e) \/ FenceRefuses(e) \/ DelayHolds(e) PROVE OneWriter'
  BY <1>1, <1>3, <1>4, WriterKept DEF Abandon, FenceRefuses, DelayHolds
<1>5. ASSUME NEW seen \in Evidence, Reserve(e, seen) PROVE OneWriter'
  <2>1. Occupied(e)' => Occupied(e)
    BY <1>1, <1>5 DEF TypeOK, Reserve, GoTo, AfterReplay, Occupied, Posting
  <2>2. CASE action.status = "absent"
    <3>1. \A other \in Execution : ~Occupied(other)
      BY <1>1, <2>2, WriteIsFree
    <3>2. \A other \in Execution : ~Occupied(other)'
      BY <1>1, <2>1, <3>1 DEF Only, Occupied, Posting
    <3> QED BY <3>2 DEF OneWriter
  <2>3. CASE action.status # "absent"
    BY <1>1, <1>5, <2>1, <2>3, WriterKept DEF Reserve
  <2> QED BY <2>2, <2>3
<1>6. ASSUME NEW seen \in Evidence, ReserveEnds(e, seen) PROVE OneWriter'
  BY <1>1, <1>3, <1>6, WriterKept DEF ReserveEnds
<1>7. ASSUME Unresolved(e) PROVE OneWriter'
  <2>1. \A other \in Execution : Occupied(other)' => Occupied(other)
    BY <1>1, <1>3, <1>7 DEF Unresolved, Only, Occupied, Posting
  <2>2. action'.status = "outcome_unknown"
    BY <1>1, <1>7 DEF Unresolved, TypeOK, ActionRow
  <2> QED BY <1>1, <2>1, <2>2 DEF OneWriter, WriteTaken
<1>8. ASSUME DelayOver(e) \/ IdentityVerified(e) \/ IdentityFails(e) PROVE OneWriter'
  <2>1. Occupied(e)' => Occupied(e)
    BY <1>1, <1>8 DEF TypeOK, DelayOver, IdentityVerified, IdentityFails, GoTo, Occupied, Posting
  <2> QED BY <1>1, <1>8, <2>1, WriterKept DEF DelayOver, IdentityVerified, IdentityFails
<1>9. ASSUME RecordIdentity(e) PROVE OneWriter'
  <2>1. \A other \in Execution : ~Occupied(other)
    BY <1>1, <1>9, WriteIsFree DEF RecordIdentity, MayTransition, Expected
  <2>2. \A other \in Execution : ~Occupied(other)'
    BY <1>1, <1>3, <1>9, <2>1 DEF RecordIdentity, Only, Occupied, Posting
  <2> QED BY <2>2 DEF OneWriter
<1>10. ASSUME StartWrite(e) PROVE OneWriter'
  <2>1. \A other \in Execution : ~Occupied(other)
    BY <1>1, <1>10, WriteIsFree DEF StartWrite, MayTransition, Expected
  <2>2. \A other \in Execution \ {e} : ~Occupied(other)'
    BY <1>1, <2>1 DEF Only, Occupied, Posting
  <2>3. action'.status = "executing"
    BY <1>1, <1>10 DEF StartWrite, TypeOK, ActionRow
  <2> QED BY <2>2, <2>3 DEF OneWriter, WriteTaken
<1>11. ASSUME Post(e) \/ PostFails(e) \/ PostConfirmed(e) \/ PostUnknown(e) \/ PostRejected(e)
       PROVE  OneWriter'
  <2>1. Occupied(e) /\ action' = action
    BY <1>11 DEF Post, PostFails, PostConfirmed, PostUnknown, PostRejected, Answered,
                 Occupied, Posting
  <2> QED BY <1>1, <2>1, WriterKept
<1>12. ASSUME Record(e) PROVE OneWriter'
  <2>1. Occupied(e)
    BY <1>12 DEF Record, MayTransition, Occupied
  <2>2. \A other \in Execution \ {e} : ~Occupied(other)'
    BY <1>1, <2>1 DEF OneWriter, Only, Occupied, Posting
  <2>3. CASE goal[e] = "retryable_failure"
    <3>1. ~Occupied(e)'
      BY <1>1, <1>12, <2>3, LeaveKnows DEF Record, MayTransition, KnowsMessage
    <3> QED BY <2>2, <3>1 DEF OneWriter
  <2>4. CASE goal[e] \in {"outcome_unknown", "succeeded", "permanent_failure"}
    <3>1. action'.status = goal[e] /\ action'.started = action.started
      BY <1>1, <1>12, <2>4 DEF Record, Recorded, TypeOK, ActionRow
    <3>2. action.started
      BY <1>12 DEF SlackInv, RowInv, Record, MayTransition, Expected
    <3> QED BY <2>2, <2>4, <3>1, <3>2 DEF OneWriter, WriteTaken, RejectedPost
  <2> QED BY <1>1, <1>12, <2>3, <2>4 DEF KnowsMessage, Record, MayTransition
<1>13. ASSUME Land(e) \/ Reject(e) PROVE OneWriter'
  <2>1. Occupied(e) /\ action' = action
    BY <1>13 DEF Land, Reject, Occupied, Posting
  <2> QED BY <1>1, <2>1, WriterKept
<1> QED
  BY <1>2, <1>4, <1>5, <1>6, <1>7, <1>8, <1>9, <1>10, <1>11, <1>12, <1>13
     DEF StepOf, Prepare, Write

-----------------------------------------------------------------------------
(* The row, and the invariant as a whole *)

\* What the row says stays true through every step of an execution.
LEMMA RowStep ==
  ASSUME SlackInv, NEW e \in Execution, StepOf(e)
  PROVE  RowInv'
<1>1. TypeOK /\ RowInv /\ KnowsMessage(e) /\ action \in ActionRow
  BY DEF SlackInv, TypeOK
<1>2. messages \subseteq messages'
  BY DEF StepOf, Prepare, Write, FenceLost, Abandon, FenceRefuses, StateRefuses, Reserve, GoTo,
         ReserveEnds, Unresolved, DelayHolds, DelayOver, IdentityVerified, IdentityFails,
         RecordIdentity, StartWrite, Post, PostFails, PostConfirmed, PostUnknown, PostRejected,
         Answered, Record, Land, Reject
<1>3. CASE UNCHANGED action
  BY <1>1, <1>2, <1>3 DEF RowInv
<1>4. ASSUME NEW seen \in Evidence, Reserve(e, seen) PROVE RowInv'
  BY <1>1, <1>3, <1>4 DEF Reserve, RowInv, ActionRow
<1>5. ASSUME Unresolved(e) PROVE RowInv'
  BY <1>1, <1>5 DEF Unresolved, MayTransition, Expected, RowInv, ActionRow
<1>6. ASSUME RecordIdentity(e) PROVE RowInv'
  BY <1>1, <1>6 DEF RecordIdentity, MayTransition, KnowsMessage, RowInv, ActionRow
<1>7. ASSUME StartWrite(e) PROVE RowInv'
  BY <1>1, <1>7 DEF StartWrite, RowInv, ActionRow
<1>8. ASSUME Record(e) PROVE RowInv'
  BY <1>1, <1>2, <1>8 DEF Record, Recorded, MayTransition, Expected, KnowsMessage, RowInv, ActionRow
<1>9. ASSUME FenceLost(e) \/ Abandon(e) \/ FenceRefuses(e) \/ StateRefuses(e) \/ DelayHolds(e)
             \/ DelayOver(e) \/ IdentityVerified(e) \/ IdentityFails(e) \/ Post(e)
             \/ PostFails(e) \/ PostConfirmed(e) \/ PostUnknown(e) \/ PostRejected(e)
             \/ Land(e) \/ Reject(e) \/ (\E seen \in Evidence : ReserveEnds(e, seen))
      PROVE  UNCHANGED action
  BY <1>9 DEF FenceLost, Abandon, FenceRefuses, StateRefuses, DelayHolds, DelayOver,
              IdentityVerified, IdentityFails, Post, PostFails, PostConfirmed, PostUnknown,
              PostRejected, Answered, Land, Reject, ReserveEnds
<1> QED BY <1>3, <1>4, <1>5, <1>6, <1>7, <1>8, <1>9 DEF StepOf, Prepare, Write

\* SlackInv holds at first.
LEMMA SlackInit == Init => SlackInv
BY SlackAssumption
   DEF Init, SlackInv, TypeOK, ActionRow, ProgramPoint, KnowsMessage, Early, OneWriter, Occupied,
       Posting, RowInv

\* SlackInv survives every step.
LEMMA SlackStep == SlackInv /\ [Next]_vars => SlackInv'
<1> SUFFICES ASSUME SlackInv, [Next]_vars PROVE SlackInv'
  OBVIOUS
<1>1. TypeOK'
  BY TypeStep
<1>2. ASSUME NEW e \in Execution, StepOf(e) PROVE SlackInv'
  <2>1. Only(e) /\ KnowsMessage(e)'
    BY <1>2, StepsAreOnly, KnowsStep DEF SlackInv
  <2>2. \A other \in Execution : KnowsMessage(other)'
    BY <2>1 DEF SlackInv, Only, KnowsMessage
  <2> QED BY <1>1, <1>2, <2>2, WriterStep, RowStep DEF SlackInv
<1>3. ASSUME NEW t \in Task, NEW n \in 1 .. MaxAttempts, Claim(t, n) PROVE SlackInv'
  <2>1. <<t, n>> \in Execution
    BY DEF Execution
  <2>2. \A e \in Execution : KnowsMessage(e)' /\ (Occupied(e)' => Occupied(e))
    BY <1>3, <2>1 DEF SlackInv, TypeOK, Claim, KnowsMessage, Early, Occupied, Posting
  <2> QED BY <1>1, <1>3, <2>2
          DEF SlackInv, OneWriter, WriteTaken, RejectedPost, RowInv, Claim
<1>4. CASE DelayPasses
  <2>1. /\ action'.status = action.status /\ action'.started = action.started
        /\ action'.receipt = action.receipt
    BY <1>4 DEF SlackInv, TypeOK, ActionRow, DelayPasses
  <2> QED BY <1>1, <1>4, <2>1
          DEF SlackInv, DelayPasses, KnowsMessage, OneWriter, WriteTaken, RejectedPost, Occupied,
              Posting, RowInv
<1>5. CASE UNCHANGED vars
  BY <1>1, <1>5 DEF SlackInv, vars, KnowsMessage, OneWriter, WriteTaken, RejectedPost,
                    Occupied, Posting, RowInv
<1> QED BY <1>2, <1>3, <1>4, <1>5 DEF Next, StepOf

\* The invariant of the delivery (SlackDeliveryService.deliver).
THEOREM SlackInvariance == Spec => []SlackInv
BY SlackInit, SlackStep, PTL DEF Spec

-----------------------------------------------------------------------------
(* What follows *)

\* The row and the locals of deliver keep their shape.
THEOREM SlackTypeCorrect == Spec => []TypeOK
BY SlackInvariance, PTL DEF SlackInv

\* No transition of the delivery violates a CHECK constraint of external_actions.
THEOREM SlackRowConstraints == Spec => []RowConstraints
<1>1. SlackInv => RowConstraints
  BY SlackAssumption DEF SlackInv, TypeOK, RowInv, RowConstraints
<1> QED BY <1>1, SlackInvariance, PTL

\* However many tasks share a scope, and whenever they crash or lose their
\* lease, post_notification reaches the channel at most once.
THEOREM PostedOnce == Spec => []AtMostOnePost
<1>1. SlackInv => AtMostOnePost
  BY DEF SlackInv, OneWriter, Occupied, AtMostOnePost
<1> QED BY <1>1, SlackInvariance, PTL

\* A row that may be sent, waits for a review or has no write_started_at is
\* right that nothing was sent, and a success names a message in the channel.
THEOREM RowIsTruthful == Spec => []TruthfulRow
<1>1. SlackInv => TruthfulRow
  <2> SUFFICES ASSUME SlackInv PROVE TruthfulRow
    OBVIOUS
  <2>1. ASSUME action.status \in Unsent \cup {"needs_human_review"} \/ ~action.started
        PROVE  ~WriteTaken
    BY <2>1 DEF SlackInv, RowInv, WriteTaken, RejectedPost, Unsent
  <2> QED BY <2>1 DEF SlackInv, TypeOK, OneWriter, Occupied, Posting, RowInv, TruthfulRow
<1> QED BY <1>1, SlackInvariance, PTL

\* A closed row is replayed and never changed by deliver.
THEOREM ClosedRowsStay == Spec => ClosedForGood
<1>1. SlackInv /\ [Next]_vars =>
        [action.status \in Closed =>
           action'.status = action.status /\ action'.receipt = action.receipt]_action
  <2> SUFFICES ASSUME SlackInv, [Next]_vars, action.status \in Closed, action' # action
               PROVE  action'.status = action.status /\ action'.receipt = action.receipt
    OBVIOUS
  <2>1. ASSUME NEW e \in Execution, StepOf(e) PROVE FALSE
    BY <2>1 DEF StepOf, Prepare, Write, Closed, Unsent, Expected, MayTransition,
         FenceLost, Abandon, FenceRefuses, StateRefuses, Reserve,
         ReserveEnds, Unresolved, DelayHolds, DelayOver, IdentityVerified, IdentityFails,
         RecordIdentity, StartWrite, Post, PostFails, PostConfirmed, PostUnknown, PostRejected,
         Answered, Record, Land, Reject
  <2>2. CASE DelayPasses
    BY <2>2 DEF SlackInv, TypeOK, ActionRow, DelayPasses
  <2>3. ASSUME NEW t \in Task, NEW n \in 1 .. MaxAttempts, Claim(t, n) PROVE FALSE
    BY <2>3 DEF Claim
  <2> QED BY <2>1, <2>2, <2>3 DEF Next, StepOf, vars
<1> QED BY <1>1, SlackInvariance, PTL DEF Spec, ClosedForGood

-----------------------------------------------------------------------------
(* Refinement: the delivery implements NotificationContract *)

\* Row and standing agree.
LEMMA StandingAs ==
  ASSUME NEW row
  PROVE  /\ row.status = "executing" => StandingOf(row) = "attempted"
         /\ row.status = "outcome_unknown" => StandingOf(row) = "unknown"
         /\ row.status = "succeeded" => StandingOf(row) = "delivered"
         /\ row.status = "permanent_failure" /\ row.started => StandingOf(row) = "rejected"
         /\ row.status \in {"permanent_failure", "needs_human_review"} /\ ~row.started =>
              StandingOf(row) = "refused"
         /\ row.status \in Unsent \cup {"absent", "reconciling"} => StandingOf(row) = "open"
BY DEF StandingOf, RejectedPost, Unsent

\* A message in the channel or on its way belongs to the one writer.
LEMMA ChannelOf ==
  ASSUME SlackInv, NEW e \in Execution
  PROVE  /\ action.status \in Unsent \cup {"absent"} => messages = {}
         /\ Occupied(e) /\ e \notin messages => messages = {} /\ action.status # "succeeded"
<1>1. messages \subseteq Execution /\ \A x \in messages : Occupied(x)
  BY DEF SlackInv, TypeOK, Occupied, Posting
<1>2. CASE action.status \in Unsent \cup {"absent"}
  <2>1. \A x \in Execution : ~Occupied(x)
    BY <1>2, WriteIsFree DEF SlackInv
  <2>2. action.status # "succeeded"
    BY <1>2 DEF Unsent
  <2> QED BY <1>1, <2>1, <2>2
<1>3. CASE Occupied(e) /\ e \notin messages
  <2>1. messages = {}
    BY <1>1, <1>3 DEF SlackInv, OneWriter
  <2>2. action.status # "succeeded"
    BY <2>1 DEF SlackInv, RowInv
  <2>3. action.status \notin Unsent \cup {"absent"}
    BY <1>3, WriteIsFree DEF SlackInv
  <2> QED BY <2>1, <2>2, <2>3
<1> QED BY <1>2, <1>3

\* A step that leaves the channel and the standing alone is not seen.
Unseen == StandingOf(action)' = StandingOf(action) /\ messages' = messages

\* What each transition of the row, and each arrival, is to the contract.
LEMMA NotificationStepOf ==
  ASSUME SlackInv, NEW e \in Execution, StepOf(e)
  PROVE  Notification!NotificationNext \/ Unseen
<1>1. TypeOK /\ KnowsMessage(e) /\ action \in ActionRow
  BY DEF SlackInv, TypeOK
<1>2. CASE UNCHANGED <<action, messages>>
  BY <1>2 DEF Unseen
<1>3. ASSUME NEW seen \in Evidence, Reserve(e, seen) PROVE Unseen
  <2>1. CASE action.status = "absent"
    <3>1. action'.status = "reserved" /\ messages' = messages
      BY <1>1, <1>3, <2>1 DEF Reserve, GoTo, ActionRow, ActionStatus
    <3> QED BY <2>1, <3>1, StandingAs DEF Unseen, Unsent
  <2>2. CASE action.status # "absent"
    BY <1>3, <2>2 DEF Reserve, GoTo, Unseen
  <2> QED BY <2>1, <2>2
<1>4. ASSUME Unresolved(e) PROVE Notification!GiveUp
  <2>1. /\ action.status = "executing" /\ action'.status = "outcome_unknown"
        /\ messages' = messages
    BY <1>1, <1>4 DEF Unresolved, MayTransition, Expected, ActionRow
  <2> QED BY <2>1, StandingAs DEF Notification!GiveUp, Notification!Becomes
<1>5. ASSUME RecordIdentity(e) PROVE Notification!Refuse \/ Unseen
  <2>1. /\ action.status \in Unsent /\ action'.status = goal[e] /\ messages' = messages
        /\ goal[e] \in {"retryable_failure", "permanent_failure", "needs_human_review"}
        /\ ~action'.started
    BY <1>1, <1>5 DEF RecordIdentity, MayTransition, Expected, KnowsMessage, ActionRow
  <2>2. messages = {} /\ StandingOf(action) = "open"
    BY <2>1, ChannelOf, StandingAs
  <2>3. CASE goal[e] = "retryable_failure"
    BY <2>1, <2>2, <2>3, StandingAs DEF Unseen, Unsent
  <2>4. CASE goal[e] # "retryable_failure"
    BY <2>1, <2>2, <2>4, StandingAs DEF Notification!Refuse, Notification!Becomes
  <2> QED BY <2>3, <2>4
<1>6. ASSUME StartWrite(e) PROVE Notification!Attempt
  <2>1. /\ action.status \in Unsent /\ action'.status = "executing" /\ messages' = messages
    BY <1>1, <1>6 DEF StartWrite, GoTo, MayTransition, Expected, ActionRow
  <2> QED BY <2>1, ChannelOf, StandingAs DEF Notification!Attempt, Notification!Becomes
<1>7. ASSUME Record(e)
      PROVE  \/ Notification!Confirm \/ Notification!GiveUp
             \/ Notification!TakeForRejected \/ Notification!Retract
  <2>1. /\ action.status = "executing" /\ action'.status = goal[e] /\ messages' = messages
        /\ goal[e] \in {"retryable_failure", "permanent_failure", "outcome_unknown", "succeeded"}
    BY <1>1, <1>7 DEF Record, Recorded, MayTransition, Expected, KnowsMessage, ActionRow
  <2>2. CASE goal[e] = "succeeded"
    <3>1. e \in messages
      BY <1>1, <1>7, <2>2 DEF Record, MayTransition, KnowsMessage
    <3> QED BY <2>1, <2>2, <3>1, StandingAs DEF Notification!Confirm, Notification!Becomes
  <2>3. CASE goal[e] = "outcome_unknown"
    BY <2>1, <2>3, StandingAs DEF Notification!GiveUp, Notification!Becomes
  <2>4. CASE goal[e] = "permanent_failure"
    <3>1. action.started /\ action'.started = action.started
      BY <1>1, <1>7, <2>1, <2>4 DEF SlackInv, RowInv, Record, Recorded, ActionRow
    <3> QED BY <2>1, <2>4, <3>1, StandingAs
            DEF Notification!TakeForRejected, Notification!Becomes
  <2>5. CASE goal[e] = "retryable_failure"
    <3>1. messages = {}
      BY <1>1, <1>7, <2>5, ChannelOf DEF Record, MayTransition, KnowsMessage, Occupied
    <3> QED BY <2>1, <2>5, <3>1, StandingAs
            DEF Notification!Retract, Notification!Becomes, Unsent
  <2> QED BY <2>1, <2>2, <2>3, <2>4, <2>5
<1>8. ASSUME Land(e) PROVE Notification!Arrive(e)
  <2>1. Occupied(e) /\ e \notin messages
    BY <1>1, <1>8 DEF Land, KnowsMessage, Occupied, Posting
  <2>2. /\ messages = {}
        /\ action.status \in {"executing", "outcome_unknown"} \/ RejectedPost(action)
    BY <2>1, ChannelOf DEF SlackInv, OneWriter, WriteTaken
  <2>3. messages' = {e} /\ action' = action
    BY <1>8, <2>2 DEF Land
  <2> QED BY <2>2, <2>3, StandingAs DEF RejectedPost, Notification!Arrive
<1>9. ASSUME FenceLost(e) \/ Abandon(e) \/ FenceRefuses(e) \/ StateRefuses(e) \/ DelayHolds(e)
             \/ DelayOver(e) \/ IdentityVerified(e) \/ IdentityFails(e) \/ Post(e)
             \/ PostFails(e) \/ PostConfirmed(e) \/ PostUnknown(e) \/ PostRejected(e)
             \/ Reject(e) \/ (\E seen \in Evidence : ReserveEnds(e, seen))
      PROVE  UNCHANGED <<action, messages>>
  BY <1>9 DEF FenceLost, Abandon, FenceRefuses, StateRefuses, DelayHolds, DelayOver, GoTo,
              IdentityVerified, IdentityFails, Post, PostFails, PostConfirmed, PostUnknown,
              PostRejected, Answered, Reject, ReserveEnds
<1> QED BY <1>2, <1>3, <1>4, <1>5, <1>6, <1>7, <1>8, <1>9
        DEF StepOf, Prepare, Write, Notification!NotificationNext

\* However many tasks deliver, crash and retry, the ledger keeps its word: a
\* message is attempted, may arrive until there is proof that it will not, and
\* only that proof opens the action again; a post that was taken for rejected
\* stays closed, though its message may arrive.
THEOREM NotificationImplemented == Spec => ImplementsNotification
<1>1. Init => Notification!NotificationInit
  BY StandingAs DEF Init, Notification!NotificationInit
<1>2. SlackInv /\ [Next]_vars =>
        [Notification!NotificationNext]_<<StandingOf(action), messages>>
  <2> SUFFICES ASSUME SlackInv, [Next]_vars PROVE Notification!NotificationNext \/ Unseen
    BY DEF Unseen
  <2>1. ASSUME NEW t \in Task, NEW n \in 1 .. MaxAttempts, Claim(t, n) PROVE Unseen
    BY <2>1 DEF Claim, Unseen
  <2>2. CASE DelayPasses
    <3>1. action'.status = action.status /\ action'.started = action.started
      BY <2>2 DEF SlackInv, TypeOK, ActionRow, DelayPasses
    <3> QED BY <2>2, <3>1 DEF DelayPasses, Unseen, StandingOf, RejectedPost
  <2>3. CASE UNCHANGED vars
    BY <2>3 DEF vars, Unseen
  <2> QED BY <2>1, <2>2, <2>3, NotificationStepOf DEF Next, StepOf
<1> QED BY <1>1, <1>2, SlackInvariance, PTL
        DEF Spec, ImplementsNotification, Notification!NotificationSpec
=============================================================================
