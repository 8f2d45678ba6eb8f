------------------------- MODULE GithubActionProofs -------------------------
(***************************************************************************)
(* Proofs about GithubAction for every set of tasks, retry budget and set  *)
(* of bodies, with and without automatic updates, settled writes and       *)
(* people who edit comments.                                               *)
(***************************************************************************)
EXTENDS GithubAction, TLAPS

USE DEF local

-----------------------------------------------------------------------------
(* Type correctness *)

\* NULL is neither an attempt of a task nor the body of a comment.
LEMMA NotNone == None \notin Execution /\ None \notin Body
BY GithubAssumption

\* What a transaction hands back to the workflow is a copy.
LEMMA CopyType ==
  ASSUME NEW row \in ActionRow
  PROVE  CopyOf(row) \in Copy
BY DEF ActionRow, Copy, CopyOf

\* The fields of the row, one by one.
LEMMA RowFields ==
  ASSUME NEW row \in ActionRow
  PROVE  /\ row.status \in ActionStatus \cup {"absent"} /\ row.revision \in Nat
         /\ row.desired \in Body \cup {None} /\ row.snapshot \in Snapshot \cup {None}
         /\ row.applied \in Body \cup {None} /\ row.resource \in Execution \cup {None}
         /\ row.holdoff \in {"null", "pending", "passed"}
BY DEF ActionRow

\* The field updates of the transitions make rows of rows.
LEMMA UpdatedRow ==
  ASSUME NEW row \in ActionRow, NEW s \in ActionStatus \cup {"absent"}, NEW n \in Nat,
         NEW b \in Body \cup {None}, NEW h \in Snapshot \cup {None},
         NEW r \in Execution \cup {None}
  PROVE  /\ [row EXCEPT !.status = s] \in ActionRow
         /\ [row EXCEPT !.status = s, !.holdoff = "pending"] \in ActionRow
         /\ [row EXCEPT !.holdoff = "passed"] \in ActionRow
         /\ [row EXCEPT !.status = s, !.resource = r, !.applied = b] \in ActionRow
         /\ [row EXCEPT !.status = s, !.revision = n, !.desired = b, !.snapshot = h] \in ActionRow
<1>1. [row EXCEPT !.status = s] \in ActionRow
  BY DEF ActionRow
<1>2. [row EXCEPT !.status = s, !.holdoff = "pending"] \in ActionRow
  BY DEF ActionRow
<1>3. [row EXCEPT !.holdoff = "passed"] \in ActionRow
  BY DEF ActionRow
<1>4. [row EXCEPT !.status = s, !.resource = r, !.applied = b] \in ActionRow
  BY DEF ActionRow
<1>5. [row EXCEPT !.status = s, !.revision = n, !.desired = b, !.snapshot = h] \in ActionRow
  BY DEF ActionRow
<1> QED BY <1>1, <1>2, <1>3, <1>4, <1>5

\* The empty values of a coroutine that is over have their types.
LEMMA EmptyTypes == NoEvidence \in Evidence /\ NoCopy \in Copy /\ NoRequest \in Request
BY DEF NoEvidence, NoCopy, NoRequest, Evidence, Copy, Request

\* Leaving keeps the shape of what belongs to the execution.
LEMMA LeaveType ==
  ASSUME TypeOK, NEW e \in Execution, NEW p \in ProgramPoint, Leave(e, p)
  PROVE  /\ pc' \in [Execution -> ProgramPoint]
         /\ evidence' \in [Execution -> Evidence]
         /\ copy' \in [Execution -> Copy]
         /\ goal' \in [Execution -> ActionStatus \cup {"absent"}]
         /\ found' \in [Execution -> Execution \cup {None}]
         /\ wire' \in [Execution -> Request]
BY EmptyTypes DEF TypeOK, Leave

\* Going on with a row keeps the shape of everything but the evidence.
LEMMA GoOnType ==
  ASSUME TypeOK, NEW e \in Execution, NEW row \in ActionRow, NEW p \in ProgramPoint,
         GoOn(e, row, p), evidence' \in [Execution -> Evidence]
  PROVE  TypeOK'
BY CopyType DEF TypeOK, GoOn

\* A conclusion about the comment keeps the shape of every variable.
LEMMA ConcludeType ==
  ASSUME TypeOK, NEW e \in Execution, NEW s \in ActionStatus, NEW id \in Execution \cup {None},
         Conclude(e, s, id) \/ Answered(e, s, id)
  PROVE  TypeOK'
BY DEF TypeOK, Conclude, Answered, ProgramPoint

\* So does a judgement.
LEMMA JudgeType ==
  ASSUME TypeOK, NEW e \in Execution, NEW id \in Execution, Judge(e, id)
  PROVE  TypeOK'
BY ConcludeType DEF Judge, ActionStatus

\* The row a conclusion writes is a row.
LEMMA ConcludedType ==
  ASSUME TypeOK, NEW e \in Execution
  PROVE  Concluded(e) \in ActionRow
<1>1. /\ evidence[e].body \in Body \cup {None} /\ found[e] \in Execution \cup {None}
      /\ goal[e] \in ActionStatus \cup {"absent"} /\ action \in ActionRow
  BY DEF TypeOK, Evidence
<1> QED BY <1>1, UpdatedRow DEF Concluded

\* The shape of every variable survives every step.
LEMMA TypeStep == TypeOK /\ [Next]_vars => TypeOK'
<1> SUFFICES ASSUME TypeOK, [Next]_vars PROVE TypeOK'
  OBVIOUS
<1> USE GithubAssumption
<1>1. ASSUME NEW t \in Task, NEW n \in 1 .. MaxAttempts, Claim(t, n) PROVE TypeOK'
  <2>1. <<t, n>> \in Execution
    BY DEF Execution
  <2> QED BY <1>1, <2>1 DEF TypeOK, Claim, ProgramPoint
<1>2. ASSUME NEW e \in Execution, FenceLost(e) \/ Tamper(e) PROVE TypeOK'
  <2>1. CASE FenceLost(e)
    BY <2>1 DEF TypeOK, FenceLost
  <2>2. CASE Tamper(e)
    BY <2>2 DEF TypeOK, Tamper
  <2> QED BY <1>2, <2>1, <2>2
<1>3. ASSUME NEW e \in Execution, NEW p \in ProgramPoint, Leave(e, p),
             action' \in ActionRow, UNCHANGED <<comments, fenced>>
      PROVE  TypeOK'
  BY <1>3, LeaveType DEF TypeOK
<1>4. ASSUME NEW e \in Execution, Abandon(e) \/ FenceRefuses(e) \/ StateRefuses(e) PROVE TypeOK'
  <2>1. action' \in ActionRow
    BY <1>4 DEF TypeOK, Abandon, FenceRefuses, StateRefuses
  <2> QED BY <1>3, <1>4, <2>1 DEF Abandon, FenceRefuses, StateRefuses, ProgramPoint
<1>5. ASSUME NEW e \in Execution, NEW seen \in [body : Body, snapshot : Snapshot], Reserve(e, seen)
      PROVE  TypeOK'
  <2>1. Reserved(seen) \in ActionRow /\ action \in ActionRow /\ seen \in Evidence
    BY DEF TypeOK, Reserved, ActionRow, ActionStatus, Evidence
  <2>2. evidence' \in [Execution -> Evidence]
    BY <1>5, <2>1 DEF TypeOK, Reserve
  <2>3. {"begin", "lookup", "inspect"} \subseteq ProgramPoint
    BY DEF ProgramPoint
  <2> QED BY <1>5, <2>1, <2>2, <2>3, GoOnType DEF Reserve
<1>6. ASSUME NEW e \in Execution, NEW seen \in [body : Body, snapshot : Snapshot], ReserveEnds(e, seen)
      PROVE  TypeOK'
  <2>1. action' \in ActionRow
    BY <1>6 DEF TypeOK, ReserveEnds
  <2> QED BY <1>3, <1>6, <2>1 DEF ReserveEnds, ProgramPoint
<1>7. ASSUME NEW e \in Execution, Inspect(e) PROVE TypeOK'
  <2>1. CASE copy[e].resource \in Marked
    BY <1>7, <2>1 DEF TypeOK, Inspect, ProgramPoint
  <2>2. CASE copy[e].resource \notin Marked
    <3>1. action' \in ActionRow
      BY <1>7 DEF TypeOK, Inspect
    <3> QED BY <1>3, <1>7, <2>2, <3>1 DEF Inspect, ProgramPoint
  <2> QED BY <2>1, <2>2
<1>8. ASSUME NEW e \in Execution, Revise(e) \/ Begin(e) \/ Reconcile(e) \/ StartWrite(e) PROVE TypeOK'
  <2>1. action \in ActionRow /\ evidence[e] \in Evidence /\ evidence \in [Execution -> Evidence]
    BY DEF TypeOK
  <2>2. /\ action.revision + 1 \in Nat /\ evidence[e].body \in Body \cup {None}
        /\ evidence[e].snapshot \in Snapshot \cup {None}
    BY <2>1, RowFields DEF Evidence
  <2>3. /\ [action EXCEPT !.status = "reserved", !.revision = action.revision + 1,
                          !.desired = evidence[e].body, !.snapshot = evidence[e].snapshot] \in ActionRow
        /\ [action EXCEPT !.status = "reconciling"] \in ActionRow
        /\ Started(action) \in ActionRow
        /\ Concluded(e) \in ActionRow
    BY <2>1, <2>2, UpdatedRow, ConcludedType DEF Started, ActionStatus
  <2>4. {"begin", "lookup", "write", "send"} \subseteq ProgramPoint
    BY DEF ProgramPoint
  <2>5. CASE Revise(e)
    BY <2>1, <2>3, <2>4, <2>5, GoOnType DEF Revise
  <2>6. CASE Begin(e)
    BY <2>1, <2>3, <2>4, <2>6, GoOnType DEF Begin
  <2>7. CASE Reconcile(e)
    BY <2>1, <2>3, <2>4, <2>7, GoOnType DEF Reconcile
  <2>8. CASE StartWrite(e)
    BY <2>1, <2>3, <2>4, <2>8, GoOnType DEF StartWrite
  <2> QED BY <1>8, <2>5, <2>6, <2>7, <2>8
<1>9. ASSUME NEW e \in Execution, LookUpBound(e) \/ Search(e) PROVE TypeOK'
  <2>1. Marked \subseteq Execution
    BY DEF Marked
  <2>2. CASE LookUpBound(e)
    BY <2>1, <2>2, JudgeType, ConcludeType DEF LookUpBound, ActionStatus
  <2>3. CASE Search(e)
    BY <2>1, <2>3, JudgeType, ConcludeType DEF Search, ActionStatus
  <2> QED BY <1>9, <2>2, <2>3
<1>10. ASSUME NEW e \in Execution, HoldOff(e) \/ SearchFails(e) PROVE TypeOK'
  BY <1>10, ConcludeType DEF HoldOff, SearchFails, ActionStatus
<1>11. ASSUME NEW e \in Execution, PassHoldoff(e) PROVE TypeOK'
  BY <1>11 DEF TypeOK, PassHoldoff, ProgramPoint
<1>12. ASSUME NEW e \in Execution, ReconcileEnds(e) \/ RecordWrite(e) PROVE TypeOK'
  BY <1>3, <1>12, ConcludedType DEF ReconcileEnds, RecordWrite, ProgramPoint
<1>13. ASSUME NEW e \in Execution, Send(e) PROVE TypeOK'
  <2>1. copy[e].resource \in Execution \cup {None} /\ evidence[e].body \in Body \cup {None}
    BY DEF TypeOK, Copy, Evidence
  <2>2. wire' \in [Execution -> Request]
    BY <1>13, <2>1 DEF TypeOK, Send, Request
  <2> QED BY <1>13, <2>2 DEF TypeOK, Send, ProgramPoint
<1>14. ASSUME NEW e \in Execution, WriteSucceeds(e) PROVE TypeOK'
  <2>1. BoundComment(e) \in Execution \cup {None}
    BY DEF TypeOK, BoundComment, Copy
  <2> QED BY <1>14, <2>1, ConcludeType DEF WriteSucceeds, ActionStatus
<1>15. ASSUME NEW e \in Execution, SendFails(e) \/ WriteUnknown(e) \/ WriteRefused(e) PROVE TypeOK'
  BY <1>15, ConcludeType DEF SendFails, WriteUnknown, WriteRefused, ActionStatus
<1>16. ASSUME NEW e \in Execution, Land(e) \/ Refuse(e) PROVE TypeOK'
  <2>1. ASSUME NEW s \in {"landed", "refused"}, Answer(e, s) PROVE wire' \in [Execution -> Request]
    BY <2>1, EmptyTypes DEF TypeOK, Answer, NoRequest, Request
  <2>2. wire[e].body \in Body \cup {None} /\ wire[e].target \in Execution \cup {None}
    BY DEF TypeOK, Request
  <2>3. CASE Land(e)
    BY <2>1, <2>2, <2>3 DEF TypeOK, Land
  <2>4. CASE Refuse(e)
    BY <2>1, <2>4 DEF TypeOK, Refuse
  <2> QED BY <1>16, <2>3, <2>4
<1>17. CASE HoldoffPasses
  <2>1. [action EXCEPT !.holdoff = "passed"] \in ActionRow
    BY DEF TypeOK, ActionRow
  <2> QED BY <1>17, <2>1 DEF TypeOK, HoldoffPasses
<1>18. CASE UNCHANGED vars
  BY <1>18 DEF TypeOK, vars
<1> QED
  BY <1>1, <1>2, <1>4, <1>5, <1>6, <1>7, <1>8, <1>9, <1>10, <1>11, <1>12, <1>13, <1>14, <1>15,
     <1>16, <1>17, <1>18 DEF Next, Prepare, Reconciliation, Write

\* Every execution starts from empty values.
LEMMA TypeInit == Init => TypeOK
BY EmptyTypes, GithubAssumption DEF Init, TypeOK, ActionRow, ProgramPoint

\* The row, the workflow's locals and GitHub keep their shape.
THEOREM ActionTypeCorrect == Spec => []TypeOK
BY TypeInit, TypeStep, PTL DEF Spec

-----------------------------------------------------------------------------
(* The CHECK constraints *)

\* What an execution is about to write fits the point it has reached: the
\* strengthening that makes the constraints of the row inductive.
Conclusion(e) ==
  /\ pc[e] \in {"revise", "inspect", "begin", "lookup", "search", "reconciled", "write", "send",
                "await", "written"} => evidence[e].body \in Body
  /\ pc[e] = "reconciled" =>
       goal[e] \in {"succeeded", "retryable_failure", "needs_human_review", "ready_to_execute"}
  /\ pc[e] = "written" =>
       goal[e] \in {"succeeded", "retryable_failure", "permanent_failure", "outcome_unknown"}
  /\ (pc[e] \in {"reconciled", "written"} /\ goal[e] = "succeeded") => found[e] \in Execution

ConclusionInv == \A e \in Execution : Conclusion(e)

ActionInv == TypeOK /\ ConclusionInv /\ RowConstraints

\* A step of one execution leaves the conclusions of the others alone.
LEMMA OthersKeep ==
  ASSUME ConclusionInv, NEW e \in Execution,
         \A x \in Execution \ {e} : /\ pc'[x] = pc[x] /\ evidence'[x] = evidence[x]
                                    /\ goal'[x] = goal[x] /\ found'[x] = found[x],
         Conclusion(e)'
  PROVE  ConclusionInv'
BY DEF ConclusionInv, Conclusion

\* An execution that is over concludes nothing.
LEMMA LeaveConcludes ==
  ASSUME TypeOK, ConclusionInv, NEW e \in Execution, NEW p \in {"ended", "surprised"}, Leave(e, p)
  PROVE  ConclusionInv'
<1>1. Conclusion(e)'
  BY DEF TypeOK, Leave, Conclusion
<1> QED BY <1>1, OthersKeep DEF TypeOK, Leave

\* Between the transactions there is only the evidence to account for.
LEMMA GoOnConcludes ==
  ASSUME TypeOK, ConclusionInv, NEW e \in Execution, NEW row,
         NEW p \in {"inspect", "begin", "lookup", "write", "send"}, GoOn(e, row, p),
         evidence' \in [Execution -> Evidence], evidence'[e].body \in Body,
         \A x \in Execution \ {e} : evidence'[x] = evidence[x]
  PROVE  ConclusionInv'
<1>1. Conclusion(e)'
  BY DEF TypeOK, GoOn, Conclusion
<1> QED BY <1>1, OthersKeep DEF TypeOK, GoOn

\* A conclusion of the reconciliation fits the transition that writes it.
LEMMA ConcludeConcludes ==
  ASSUME TypeOK, ConclusionInv, NEW e \in Execution, evidence[e].body \in Body,
         NEW s \in {"succeeded", "retryable_failure", "needs_human_review", "ready_to_execute"},
         NEW id \in Execution \cup {None}, s = "succeeded" => id \in Execution,
         Conclude(e, s, id)
  PROVE  ConclusionInv'
<1>1. Conclusion(e)'
  BY DEF TypeOK, Conclude, Conclusion
<1> QED BY <1>1, OthersKeep DEF TypeOK, Conclude

\* So does the answer to a write.
LEMMA AnsweredConcludes ==
  ASSUME TypeOK, ConclusionInv, NEW e \in Execution, evidence[e].body \in Body,
         NEW s \in {"succeeded", "retryable_failure", "permanent_failure", "outcome_unknown"},
         NEW id \in Execution \cup {None}, s = "succeeded" => id \in Execution,
         Answered(e, s, id)
  PROVE  ConclusionInv'
<1>1. Conclusion(e)'
  BY DEF TypeOK, Answered, Conclusion
<1> QED BY <1>1, OthersKeep DEF TypeOK, Answered

\* A comment that is found is judged for the status it justifies.
LEMMA JudgeConcludes ==
  ASSUME TypeOK, ConclusionInv, NEW e \in Execution, evidence[e].body \in Body,
         NEW id \in Execution, Judge(e, id)
  PROVE  ConclusionInv'
BY ConcludeConcludes DEF Judge

\* Every step keeps every execution's conclusion fitting its point.
LEMMA ConclusionStep == TypeOK /\ ConclusionInv /\ [Next]_vars => ConclusionInv'
<1> SUFFICES ASSUME TypeOK, ConclusionInv, [Next]_vars PROVE ConclusionInv'
  OBVIOUS
<1>1. ASSUME NEW e \in Execution,
             pc[e] \in {"revise", "begin", "lookup", "search", "reconciled", "write", "send", "await"}
      PROVE  evidence[e].body \in Body
  BY <1>1 DEF ConclusionInv, Conclusion
<1>2. ASSUME NEW t \in Task, NEW n \in 1 .. MaxAttempts, Claim(t, n) PROVE ConclusionInv'
  <2>1. <<t, n>> \in Execution
    BY DEF Execution
  <2>2. Conclusion(<<t, n>>)'
    BY <1>2, <2>1 DEF TypeOK, Claim, Conclusion
  <2> QED BY <1>2, <2>1, <2>2, OthersKeep DEF TypeOK, Claim
<1>3. ASSUME UNCHANGED <<pc, evidence, goal, found>> PROVE ConclusionInv'
  BY <1>3 DEF ConclusionInv, Conclusion
<1>4. ASSUME NEW e \in Execution, FenceLost(e) \/ Tamper(e) \/ Land(e) \/ Refuse(e)
      PROVE  ConclusionInv'
  BY <1>3, <1>4 DEF FenceLost, Tamper, Land, Refuse
<1>5. ASSUME NEW e \in Execution,
             \/ Abandon(e) \/ FenceRefuses(e) \/ StateRefuses(e)
             \/ \E seen \in [body : Body, snapshot : Snapshot] : ReserveEnds(e, seen)
             \/ ReconcileEnds(e) \/ RecordWrite(e)
      PROVE  ConclusionInv'
  BY <1>5, LeaveConcludes
     DEF Abandon, FenceRefuses, StateRefuses, ReserveEnds, ReconcileEnds, RecordWrite
<1>6. ASSUME NEW e \in Execution, NEW seen \in [body : Body, snapshot : Snapshot], Reserve(e, seen)
      PROVE  ConclusionInv'
  <2>1. /\ evidence' \in [Execution -> Evidence] /\ evidence'[e].body \in Body
        /\ \A x \in Execution \ {e} : evidence'[x] = evidence[x]
    BY <1>6 DEF TypeOK, Reserve, Evidence
  <2> QED BY <1>6, <2>1, GoOnConcludes DEF Reserve
<1>7. ASSUME NEW e \in Execution, Inspect(e) PROVE ConclusionInv'
  <2>1. CASE copy[e].resource \in Marked
    <3>1. Conclusion(e)'
      BY <1>7, <2>1 DEF TypeOK, Inspect, ConclusionInv, Conclusion
    <3> QED BY <1>7, <2>1, <3>1, OthersKeep DEF TypeOK, Inspect
  <2>2. CASE copy[e].resource \notin Marked
    BY <1>7, <2>2, LeaveConcludes DEF Inspect
  <2> QED BY <2>1, <2>2
<1>8. ASSUME NEW e \in Execution, Revise(e) \/ Begin(e) \/ Reconcile(e) \/ StartWrite(e)
      PROVE  ConclusionInv'
  <2>1. evidence[e].body \in Body
    BY <1>1, <1>8 DEF Revise, Begin, Reconcile, StartWrite, MayTransition
  <2>2. evidence' = evidence /\ evidence \in [Execution -> Evidence]
    BY <1>8 DEF TypeOK, Revise, Begin, Reconcile, StartWrite
  <2> QED BY <1>8, <2>1, <2>2, GoOnConcludes DEF Revise, Begin, Reconcile, StartWrite
<1>9. ASSUME NEW e \in Execution, LookUpBound(e) \/ Search(e) PROVE ConclusionInv'
  <2>1. Marked \subseteq Execution /\ evidence[e].body \in Body
    BY <1>1, <1>9 DEF Marked, LookUpBound, Search
  <2>2. CASE LookUpBound(e)
    BY <2>1, <2>2, JudgeConcludes, ConcludeConcludes DEF LookUpBound
  <2>3. CASE Search(e)
    BY <2>1, <2>3, JudgeConcludes, ConcludeConcludes DEF Search
  <2> QED BY <1>9, <2>2, <2>3
<1>10. ASSUME NEW e \in Execution, HoldOff(e) \/ SearchFails(e) PROVE ConclusionInv'
  <2>1. evidence[e].body \in Body
    BY <1>1, <1>10 DEF HoldOff, SearchFails
  <2> QED BY <1>10, <2>1, ConcludeConcludes DEF HoldOff, SearchFails
<1>11. ASSUME NEW e \in Execution, PassHoldoff(e) \/ Send(e) PROVE ConclusionInv'
  <2>1. Conclusion(e)'
    BY <1>1, <1>11 DEF TypeOK, PassHoldoff, Send, Conclusion
  <2> QED BY <1>11, <2>1, OthersKeep DEF TypeOK, PassHoldoff, Send
<1>12. ASSUME NEW e \in Execution,
              WriteSucceeds(e) \/ SendFails(e) \/ WriteUnknown(e) \/ WriteRefused(e)
       PROVE  ConclusionInv'
  <2>1. evidence[e].body \in Body
    BY <1>1, <1>12 DEF WriteSucceeds, SendFails, WriteUnknown, WriteRefused
  <2>2. BoundComment(e) \in Execution
    BY DEF BoundComment, TypeOK, Copy
  <2> QED BY <1>12, <2>1, <2>2, AnsweredConcludes
          DEF WriteSucceeds, SendFails, WriteUnknown, WriteRefused
<1>13. CASE HoldoffPasses
  BY <1>3, <1>13 DEF HoldoffPasses
<1>14. CASE UNCHANGED vars
  BY <1>3, <1>14 DEF vars
<1> QED
  BY <1>2, <1>4, <1>5, <1>6, <1>7, <1>8, <1>9, <1>10, <1>11, <1>12, <1>13, <1>14
     DEF Next, Prepare, Reconciliation, Write

\* Every transition writes a row that PostgreSQL accepts.
LEMMA RowStep == ActionInv /\ [Next]_vars => RowConstraints'
<1> SUFFICES ASSUME TypeOK, ConclusionInv, RowConstraints, [Next]_vars PROVE RowConstraints'
  BY DEF ActionInv
<1>1. action \in ActionRow
  BY DEF TypeOK
<1>2. ASSUME action' = action PROVE RowConstraints'
  BY <1>2 DEF RowConstraints
<1>3. ASSUME NEW e \in Execution, NEW seen, Reserve(e, seen) PROVE RowConstraints'
  <2>1. action' = action \/ action' = Reserved(seen)
    BY <1>3 DEF Reserve, GoOn
  <2> QED BY <1>2, <2>1 DEF RowConstraints, Reserved
<1>4. ASSUME NEW e \in Execution, Revise(e) PROVE RowConstraints'
  <2>1. action.status = "succeeded"
    BY <1>4 DEF Revise, MayTransition, Expected
  <2>2. /\ action'.status = "reserved"
        /\ action'.resource = action.resource /\ action'.applied = action.applied
    BY <1>1, <1>4 DEF Revise, GoOn, ActionRow
  <2> QED BY <2>1, <2>2 DEF RowConstraints
<1>5. ASSUME NEW e \in Execution, Begin(e) PROVE RowConstraints'
  BY <1>1, <1>5 DEF Begin, GoOn, ActionRow, RowConstraints
<1>6. ASSUME NEW e \in Execution, StartWrite(e) PROVE RowConstraints'
  BY <1>1, <1>6 DEF StartWrite, Started, GoOn, ActionRow, RowConstraints
<1>7. ASSUME NEW e \in Execution, Reconcile(e) \/ ReconcileEnds(e) PROVE RowConstraints'
  <2>1. /\ action' = Concluded(e)
        /\ goal[e] \in {"succeeded", "retryable_failure", "needs_human_review", "ready_to_execute"}
        /\ evidence[e].body \in Body
        /\ goal[e] = "succeeded" => found[e] \in Execution
    BY <1>7 DEF Reconcile, ReconcileEnds, GoOn, MayTransition, ConclusionInv, Conclusion
  <2>2. CASE goal[e] = "succeeded"
    <3>1. /\ action'.status = "succeeded" /\ action'.resource = found[e]
          /\ action'.applied = evidence[e].body
      BY <1>1, <2>1, <2>2 DEF Concluded, ActionRow
    <3>2. found[e] # None /\ evidence[e].body # None
      BY <2>1, <2>2, NotNone
    <3> QED BY <3>1, <3>2 DEF RowConstraints
  <2>3. CASE goal[e] # "succeeded"
    <3>1. /\ action'.status = goal[e] /\ action'.resource = action.resource
          /\ action'.applied = action.applied /\ action'.holdoff = action.holdoff
          /\ action'.revision = action.revision
      BY <1>1, <2>1, <2>3 DEF Concluded, ActionRow
    <3> QED BY <2>1, <2>3, <3>1 DEF RowConstraints
  <2> QED BY <2>2, <2>3
<1>8. ASSUME NEW e \in Execution, RecordWrite(e) PROVE RowConstraints'
  <2>1. /\ action' = Concluded(e) /\ action.status = "executing"
        /\ goal[e] \in {"succeeded", "retryable_failure", "permanent_failure", "outcome_unknown"}
        /\ evidence[e].body \in Body
        /\ goal[e] = "succeeded" => found[e] \in Execution
    BY <1>8 DEF RecordWrite, MayTransition, Expected, ConclusionInv, Conclusion
  <2>2. CASE goal[e] = "succeeded"
    <3>1. /\ action'.status = "succeeded" /\ action'.resource = found[e]
          /\ action'.applied = evidence[e].body
      BY <1>1, <2>1, <2>2 DEF Concluded, ActionRow
    <3>2. found[e] # None /\ evidence[e].body # None
      BY <2>1, <2>2, NotNone
    <3> QED BY <3>1, <3>2 DEF RowConstraints
  <2>3. CASE goal[e] # "succeeded"
    <3>1. /\ action'.status = goal[e] /\ action'.resource = action.resource
          /\ action'.applied = action.applied /\ action'.holdoff = action.holdoff
          /\ action'.revision = action.revision
      BY <1>1, <2>1, <2>3 DEF Concluded, ActionRow
    <3> QED BY <2>1, <2>3, <3>1 DEF RowConstraints
  <2> QED BY <2>2, <2>3
<1>9. CASE HoldoffPasses
  BY <1>1, <1>9 DEF HoldoffPasses, ActionRow, RowConstraints
<1>10. CASE UNCHANGED vars
  BY <1>2, <1>10 DEF vars
<1>11. ASSUME NEW e \in Execution,
              \/ FenceLost(e) \/ Abandon(e) \/ FenceRefuses(e) \/ StateRefuses(e)
              \/ \E seen \in [body : Body, snapshot : Snapshot] : ReserveEnds(e, seen)
              \/ Inspect(e) \/ PassHoldoff(e) \/ Send(e) \/ Land(e) \/ Refuse(e) \/ Tamper(e)
       PROVE  RowConstraints'
  BY <1>2, <1>11 DEF FenceLost, Abandon, FenceRefuses, StateRefuses, ReserveEnds, Inspect,
     PassHoldoff, Send, Land, Refuse, Tamper
<1>12. ASSUME NEW e \in Execution, LookUpBound(e) \/ HoldOff(e) \/ Search(e) \/ SearchFails(e)
       PROVE  RowConstraints'
  BY <1>2, <1>12 DEF LookUpBound, HoldOff, Search, SearchFails, Judge, Conclude
<1>13. ASSUME NEW e \in Execution,
              SendFails(e) \/ WriteSucceeds(e) \/ WriteUnknown(e) \/ WriteRefused(e)
       PROVE  RowConstraints'
  BY <1>2, <1>13 DEF SendFails, WriteSucceeds, WriteUnknown, WriteRefused, Answered
<1>14. ASSUME NEW t \in Task, NEW n \in 1 .. MaxAttempts, Claim(t, n) PROVE RowConstraints'
  BY <1>2, <1>14 DEF Claim
<1> QED
  BY <1>3, <1>4, <1>5, <1>6, <1>7, <1>8, <1>9, <1>10, <1>11, <1>12, <1>13, <1>14
     DEF Next, Prepare, Reconciliation, Write

\* The strengthened invariant holds throughout.
THEOREM ActionInvariance == Spec => []ActionInv
<1>1. Init => ActionInv
  BY TypeInit DEF Init, ActionInv, ConclusionInv, Conclusion, RowConstraints
<1>2. ActionInv /\ [Next]_vars => ActionInv'
  BY TypeStep, ConclusionStep, RowStep DEF ActionInv
<1> QED BY <1>1, <1>2, PTL DEF Spec

\* PostgreSQL never refuses a row of external_actions, with any number of
\* tasks and attempts at work on the scope.
THEOREM RowConstraintsHold == Spec => []RowConstraints
<1>1. ActionInv => RowConstraints
  BY DEF ActionInv
<1> QED BY <1>1, ActionInvariance, PTL

-----------------------------------------------------------------------------
(* Parked actions *)

\* The statuses that need a person are never left.
Parked == {"needs_human_review", "permanent_failure"}

\* No step takes an action out of a parked status.
LEMMA ParkedStep ==
  TypeOK /\ [Next]_vars => (action.status \in Parked => action'.status = action.status)
<1> SUFFICES ASSUME TypeOK, [Next]_vars, action.status \in Parked
             PROVE  action'.status = action.status
  OBVIOUS
<1>1. action \in ActionRow
  BY DEF TypeOK
<1>2. ASSUME NEW e \in Execution, NEW p \in {"revise", "begin", "reconciled", "write", "written"},
             MayTransition(e, p)
      PROVE  FALSE
  BY <1>2 DEF MayTransition, Expected, Parked
<1>3. ASSUME NEW e \in Execution, NEW seen, Reserve(e, seen) PROVE action' = action
  BY <1>3 DEF Reserve, GoOn, Parked
<1>4. ASSUME NEW e \in Execution,
             \/ Revise(e) \/ Begin(e) \/ StartWrite(e) \/ Reconcile(e) \/ ReconcileEnds(e)
             \/ RecordWrite(e)
      PROVE  FALSE
  BY <1>2, <1>4 DEF Revise, Begin, StartWrite, Reconcile, ReconcileEnds, RecordWrite
<1>5. CASE HoldoffPasses
  BY <1>1, <1>5 DEF HoldoffPasses, ActionRow
<1>6. CASE UNCHANGED vars
  BY <1>6 DEF vars
<1>7. ASSUME NEW e \in Execution,
             \/ FenceLost(e) \/ Abandon(e) \/ FenceRefuses(e) \/ StateRefuses(e)
             \/ \E seen \in [body : Body, snapshot : Snapshot] : ReserveEnds(e, seen)
             \/ Inspect(e) \/ PassHoldoff(e) \/ Send(e) \/ Land(e) \/ Refuse(e) \/ Tamper(e)
      PROVE  action' = action
  BY <1>7 DEF FenceLost, Abandon, FenceRefuses, StateRefuses, ReserveEnds, Inspect,
     PassHoldoff, Send, Land, Refuse, Tamper
<1>8. ASSUME NEW e \in Execution,
             \/ LookUpBound(e) \/ HoldOff(e) \/ Search(e) \/ SearchFails(e)
             \/ SendFails(e) \/ WriteSucceeds(e) \/ WriteUnknown(e) \/ WriteRefused(e)
      PROVE  action' = action
  BY <1>8 DEF LookUpBound, HoldOff, Search, SearchFails, Judge, Conclude,
     SendFails, WriteSucceeds, WriteUnknown, WriteRefused, Answered
<1>9. ASSUME NEW t \in Task, NEW n \in 1 .. MaxAttempts, Claim(t, n) PROVE action' = action
  BY <1>9 DEF Claim
<1> QED
  BY <1>3, <1>4, <1>5, <1>6, <1>7, <1>8, <1>9 DEF Next, Prepare, Reconciliation, Write

\* However many executions were under way when an action was parked, none of
\* them takes it up again.
THEOREM ParkedForGoodHolds == Spec => ParkedForGood
<1>1. TypeOK /\ [Next]_vars =>
        [action.status \in {"needs_human_review", "permanent_failure"}
           => action'.status = action.status]_action
  BY ParkedStep DEF Parked
<1> QED BY <1>1, ActionTypeCorrect, PTL DEF Spec, ParkedForGood
=============================================================================
