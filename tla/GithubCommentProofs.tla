-------------------------- MODULE GithubCommentProofs --------------------------
(***************************************************************************)
(* One task works on the scope, in any number of successive attempts, and  *)
(* no write outlives its settlement delay: then the issue never carries    *)
(* two comments of the scope, and a recorded success is what it shows for  *)
(* the comment and its first update.  Neither hypothesis can be dropped.   *)
(***************************************************************************)
EXTENDS GithubActionProofs, FiniteSetTheorems

USE DEF local

\* The situation the workflow's replay rules are made for.
OneTask == SettlementCovers /\ \E t : Task = {t}

-----------------------------------------------------------------------------
(* The invariant *)

\* Attempts follow each other: one begins after the earlier ones have lost
\* their fence.
Successive ==
  \A t \in Task : \A m, n \in 1 .. MaxAttempts :
    /\ fenced[<<t, m>>] => pc[<<t, m>>] # "idle"
    /\ m < n /\ pc[<<t, n>>] # "idle" => pc[<<t, m>>] # "idle" /\ ~fenced[<<t, m>>]

\* A write that is started and may still reach GitHub, and what it writes.
InFlight(e) == pc[e] = "send" \/ wire[e].state = "flying"
Target(e) == IF pc[e] = "send" THEN copy[e].resource ELSE wire[e].target

AllQuiet == \A e \in Execution : ~InFlight(e)

\* A request exists once it is sent, and is addressed as the copy says.
Addressed(e) ==
  /\ wire[e].state # "none" => pc[e] \in {"await", "written", "ended", "surprised"}
  /\ pc[e] = "await" /\ wire[e].state = "flying" => wire[e].target = copy[e].resource

\* What is in flight is covered by the holdoff; a create is alone, and an
\* update goes to the bound comment.
Flight(e) ==
  InFlight(e) =>
    /\ action.holdoff = "pending"
    /\ Target(e) = None => action.resource = None /\ Marked = {}
                             /\ \A x \in Execution \ {e} : ~InFlight(x)
    /\ Target(e) # None => Target(e) = action.resource

\* The copy of an execution that holds the fence is the row.
Follows(e) ==
  /\ pc[e] \in {"inspect", "revise", "begin", "lookup", "search", "reconciled", "write", "send",
                "await", "written"} => copy[e] = CopyOf(action)
  /\ pc[e] \in {"begin", "lookup", "search", "reconciled", "write", "send", "await", "written"}
       => evidence[e].body = action.desired

\* Nothing is in flight, nor was since the execution searched.
Settled == action.resource = None /\ action.holdoff # "pending"

\* What an execution that holds the fence knows of the comments when it acts.
Informed(e) ==
  /\ pc[e] = "search" => Settled
  /\ pc[e] = "write" \/ (pc[e] = "reconciled" /\ goal[e] = "ready_to_execute")
       => action.resource # None \/ (Settled /\ Marked = {})
  /\ pc[e] = "reconciled" /\ goal[e] = "succeeded"
       => action.resource = found[e] \/ (Settled /\ Marked \subseteq {found[e]})
  /\ pc[e] = "await" /\ wire[e].state = "landed"
       => action.resource # None \/ (AllQuiet /\ Marked \subseteq {e})
  /\ pc[e] = "written" /\ goal[e] = "succeeded"
       => action.resource = found[e]
            \/ (action.resource = None /\ AllQuiet /\ Marked \subseteq {found[e]})

\* The row against GitHub.
Bound ==
  /\ action.status = "absent" => action.holdoff = "null" /\ action.resource = None
  /\ action.resource # None => Marked \subseteq {action.resource}
  /\ \A x, y \in Marked : x = y
  /\ SuccessIsCurrent

Knowledge ==
  /\ \A e \in Execution : Addressed(e) /\ Flight(e)
  /\ \A e \in Execution : fenced[e] => Follows(e) /\ Informed(e)
  /\ Bound

CommentInv == ActionInv /\ Successive /\ Knowledge

-----------------------------------------------------------------------------
(* Attempts of one task *)

\* With a single task no two executions hold the fence.
LEMMA OneFenced ==
  ASSUME OneTask, Successive, NEW e \in Execution, NEW x \in Execution, fenced[e], fenced[x]
  PROVE  e = x
<1>1. PICK t \in Task, m \in 1 .. MaxAttempts : e = <<t, m>>
  BY DEF Execution
<1>2. PICK n \in 1 .. MaxAttempts : x = <<t, n>>
  BY <1>1 DEF Execution, OneTask
<1>3. m \in Nat /\ n \in Nat
  BY GithubAssumption
<1>4. ~ m < n
  BY <1>1, <1>2 DEF Successive
<1>5. ~ n < m
  BY <1>1, <1>2 DEF Successive
<1> QED BY <1>1, <1>2, <1>3, <1>4, <1>5

\* A step that begins no attempt and gives nobody the fence keeps the order.
LEMMA SuccessiveKept ==
  ASSUME TypeOK, Successive,
         \A x \in Execution : /\ fenced'[x] => fenced[x]
                              /\ pc'[x] = "idle" <=> pc[x] = "idle"
  PROVE  Successive'
<1>1. \A t \in Task, n \in 1 .. MaxAttempts : <<t, n>> \in Execution
  BY DEF Execution
<1> QED BY <1>1 DEF Successive

\* Every step keeps the order of the attempts.
LEMMA SuccessiveStep == TypeOK /\ Successive /\ [Next]_vars => Successive'
<1> SUFFICES ASSUME TypeOK, Successive, [Next]_vars PROVE Successive'
  OBVIOUS
<1>1. ASSUME NEW t \in Task, NEW n \in 1 .. MaxAttempts, Claim(t, n) PROVE Successive'
  <2>1. \A s \in Task, k \in 1 .. MaxAttempts : <<s, k>> \in Execution
    BY DEF Execution
  <2>2. SUFFICES ASSUME NEW s \in Task, NEW k \in 1 .. MaxAttempts, NEW l \in 1 .. MaxAttempts
                 PROVE  /\ fenced'[<<s, k>>] => pc'[<<s, k>>] # "idle"
                        /\ k < l /\ pc'[<<s, l>>] # "idle" =>
                             pc'[<<s, k>>] # "idle" /\ ~fenced'[<<s, k>>]
    BY DEF Successive
  <2>3. \A x \in Execution :
          /\ fenced'[x] = IF x = <<t, n>> THEN TRUE ELSE fenced[x]
          /\ pc'[x] = IF x = <<t, n>> THEN "reserve" ELSE pc[x]
    BY <1>1, <2>1 DEF Claim, TypeOK
  <2>4. fenced'[<<s, k>>] => pc'[<<s, k>>] # "idle"
    BY <2>1, <2>3 DEF Successive
  <2>5. ASSUME k < l, pc'[<<s, l>>] # "idle"
        PROVE  pc'[<<s, k>>] # "idle" /\ ~fenced'[<<s, k>>]
    <3>1. CASE <<s, l>> = <<t, n>>
      <4>1. s = t /\ l = n /\ n \in Nat /\ k \in Nat
        BY <3>1
      <4>2. n > 1 /\ n - 1 \in 1 .. MaxAttempts /\ (k = n - 1 \/ k < n - 1)
        <5>1. MaxAttempts \in Nat /\ k < n /\ 1 <= k /\ n <= MaxAttempts
          BY <2>5, <4>1, GithubAssumption
        <5> QED BY <4>1, <5>1
      <4>3. pc[<<t, n - 1>>] # "idle" /\ ~fenced[<<t, n - 1>>]
        BY <1>1, <4>2 DEF Claim
      <4>4. pc[<<s, k>>] # "idle" /\ ~fenced[<<s, k>>]
        BY <4>1, <4>2, <4>3 DEF Successive
      <4>5. k # n
        BY <2>5, <4>1
      <4> QED BY <2>1, <2>3, <4>4, <4>5
    <3>2. CASE <<s, l>> # <<t, n>>
      <4>1. pc[<<s, k>>] # "idle" /\ ~fenced[<<s, k>>]
        BY <2>1, <2>3, <2>5, <3>2 DEF Successive
      <4>2. <<s, k>> # <<t, n>>
        BY <1>1, <4>1 DEF Claim
      <4> QED BY <2>1, <2>3, <4>1, <4>2
    <3> QED BY <3>1, <3>2
  <2> QED BY <2>4, <2>5
<1>2. ASSUME NEW e \in Execution, NEW p \in ProgramPoint \ {"idle"}, pc[e] # "idle",
             pc' = [pc EXCEPT ![e] = p], fenced' = fenced
      PROVE  Successive'
  <2>1. \A x \in Execution : /\ fenced'[x] => fenced[x]
                             /\ pc'[x] = "idle" <=> pc[x] = "idle"
    BY <1>2 DEF TypeOK
  <2> QED BY <2>1, SuccessiveKept
<1>3. ASSUME NEW e \in Execution,
             \/ Abandon(e) \/ FenceRefuses(e) \/ StateRefuses(e)
             \/ \E seen \in [body : Body, snapshot : Snapshot] : Reserve(e, seen) \/ ReserveEnds(e, seen)
             \/ Inspect(e) \/ Revise(e)
      PROVE  Successive'
  BY <1>2, <1>3 DEF Abandon, Live, FenceRefuses, StateRefuses, Reserve, ReserveEnds, Inspect,
     Revise, MayTransition, GoOn, Leave, ProgramPoint
<1>4. ASSUME NEW e \in Execution, Reconciliation(e) PROVE Successive'
  <2>1. CASE Begin(e) \/ Reconcile(e) \/ ReconcileEnds(e) \/ PassHoldoff(e)
    BY <1>2, <2>1 DEF Begin, Reconcile, ReconcileEnds, PassHoldoff, MayTransition, GoOn, Leave,
       ProgramPoint
  <2>2. CASE LookUpBound(e) \/ HoldOff(e) \/ Search(e) \/ SearchFails(e)
    BY <1>2, <2>2 DEF LookUpBound, HoldOff, Search, SearchFails, Judge, Conclude, ProgramPoint
  <2> QED BY <1>4, <2>1, <2>2 DEF Reconciliation
<1>5. ASSUME NEW e \in Execution, Write(e) PROVE Successive'
  BY <1>2, <1>5 DEF Write, StartWrite, Send, SendFails, WriteSucceeds, WriteUnknown,
     WriteRefused, RecordWrite, MayTransition, GoOn, Answered, Leave, ProgramPoint
<1>6. ASSUME NEW e \in Execution, FenceLost(e) \/ Land(e) \/ Refuse(e) \/ Tamper(e)
      PROVE  Successive'
  <2>1. \A x \in Execution : /\ fenced'[x] => fenced[x]
                             /\ pc'[x] = "idle" <=> pc[x] = "idle"
    <3>1. CASE FenceLost(e)
      BY <3>1 DEF TypeOK, FenceLost
    <3>2. CASE Land(e) \/ Refuse(e) \/ Tamper(e)
      BY <3>2 DEF Land, Refuse, Tamper
    <3> QED BY <1>6, <3>1, <3>2
  <2> QED BY <2>1, SuccessiveKept
<1>7. CASE HoldoffPasses
  <2>1. fenced' = fenced /\ pc' = pc
    BY <1>7 DEF HoldoffPasses
  <2> QED BY <2>1, SuccessiveKept
<1>8. CASE UNCHANGED vars
  BY <1>8, SuccessiveKept DEF vars
<1> QED BY <1>1, <1>3, <1>4, <1>5, <1>6, <1>7, <1>8 DEF Next, Prepare

-----------------------------------------------------------------------------
(* Steps that leave the row alone *)

\* A step of another execution does not touch what belongs to this one.
Same(x) ==
  /\ pc'[x] = pc[x] /\ evidence'[x] = evidence[x] /\ copy'[x] = copy[x]
  /\ goal'[x] = goal[x] /\ found'[x] = found[x] /\ wire'[x] = wire[x]

\* No write is started.
Shrinks == \A x \in Execution : InFlight(x)' => InFlight(x) /\ Target(x)' = Target(x)

\* What holds of the writes in flight holds of those that remain.
LEMMA FlightKept ==
  ASSUME \A x \in Execution : Flight(x), action' = action, Marked' \subseteq Marked, Shrinks,
         NEW x \in Execution
  PROVE  Flight(x)'
<1>1. Flight(x) /\ \A y \in Execution : InFlight(y)' => InFlight(y) /\ Target(y)' = Target(y)
  BY DEF Shrinks
<1>2. SUFFICES ASSUME InFlight(x)'
               PROVE  /\ action'.holdoff = "pending"
                      /\ Target(x)' = None => action'.resource = None /\ Marked' = {}
                                              /\ \A y \in Execution \ {x} : ~InFlight(y)'
                      /\ Target(x)' # None => Target(x)' = action'.resource
  BY DEF Flight
<1> HIDE DEF InFlight, Target
<1> QED BY <1>1, <1>2 DEF Flight

\* A comment more or less: what holds of the row holds with fewer of them.
LEMMA BoundKept ==
  ASSUME Bound, action' = action, Marked' \subseteq Marked
  PROVE  Bound'
BY DEF Bound, SuccessIsCurrent

\* What an execution knows stays true while others read and fail.
LEMMA InformedKept ==
  ASSUME NEW x \in Execution, Same(x), action' = action, Marked' \subseteq Marked, Shrinks,
         Follows(x), Informed(x)
  PROVE  Follows(x)' /\ Informed(x)'
<1>1. Follows(x)'
  BY DEF Follows, Same, CopyOf
<1>2. AllQuiet => AllQuiet'
  BY DEF AllQuiet, Shrinks
<1>3. Settled' = Settled
  BY DEF Settled
<1>4. Informed(x)'
  BY <1>2, <1>3 DEF Informed, Same
<1> QED BY <1>1, <1>4

\* A step of one execution that leaves the row alone and adds no comment.
LEMMA QuietStep ==
  ASSUME Knowledge, NEW e \in Execution, action' = action, Marked' \subseteq Marked,
         \A x \in Execution \ {e} : Same(x) /\ fenced'[x] = fenced[x],
         InFlight(e)' => InFlight(e) /\ Target(e)' = Target(e),
         Addressed(e)',
         fenced'[e] => Follows(e)' /\ Informed(e)'
  PROVE  Knowledge'
<1>1. Shrinks
  BY DEF Shrinks, Same, InFlight, Target
<1>2. \A x \in Execution : Flight(x)'
  BY <1>1, FlightKept DEF Knowledge
<1>3. \A x \in Execution : Addressed(x)'
  BY DEF Knowledge, Addressed, Same
<1>4. ASSUME NEW x \in Execution, fenced'[x] PROVE Follows(x)' /\ Informed(x)'
  <2>1. CASE x = e
    BY <1>4, <2>1
  <2>2. CASE x # e
    <3>1. Same(x) /\ Follows(x) /\ Informed(x)
      BY <1>4, <2>2 DEF Knowledge
    <3> QED BY <1>1, <3>1, InformedKept
  <2> QED BY <2>1, <2>2
<1>5. Bound'
  BY BoundKept DEF Knowledge
<1> QED BY <1>2, <1>3, <1>4, <1>5 DEF Knowledge

\* A coroutine that is over starts nothing, and its request stays as it was.
LEMMA LeaveQuiet ==
  ASSUME TypeOK, NEW e \in Execution, Addressed(e), NEW p \in {"ended", "surprised"}, Leave(e, p)
  PROVE  /\ \A x \in Execution \ {e} : Same(x)
         /\ InFlight(e)' => InFlight(e) /\ Target(e)' = Target(e)
         /\ Addressed(e)' /\ Follows(e)' /\ Informed(e)'
<1>1. \A x \in Execution \ {e} : Same(x)
  BY DEF TypeOK, Leave, Same
<1>2. /\ pc'[e] = p
      /\ wire'[e] = IF wire[e].state = "flying" THEN wire[e] ELSE NoRequest
  BY DEF TypeOK, Leave
<1>3. wire[e].state = "flying" => pc[e] # "send"
  BY DEF Addressed
<1>4. InFlight(e)' => InFlight(e) /\ Target(e)' = Target(e)
  BY <1>2, <1>3 DEF InFlight, Target, NoRequest
<1>5. Addressed(e)' /\ Follows(e)' /\ Informed(e)'
  BY <1>2 DEF Addressed, Follows, Informed
<1> QED BY <1>1, <1>4, <1>5

\* A conclusion of the reconciliation is kept as what the execution knows.
LEMMA ConcludeQuiet ==
  ASSUME CommentInv, NEW e \in Execution, pc[e] \in {"lookup", "search"},
         NEW s \in ActionStatus, NEW id, Conclude(e, s, id),
         fenced[e] /\ s = "ready_to_execute" =>
           action.resource # None \/ (Settled /\ Marked = {}),
         fenced[e] /\ s = "succeeded" =>
           action.resource = id \/ (Settled /\ Marked \subseteq {id})
  PROVE  Knowledge'
<1>1. /\ pc' = [pc EXCEPT ![e] = "reconciled"] /\ goal' = [goal EXCEPT ![e] = s]
      /\ found' = [found EXCEPT ![e] = id]
      /\ UNCHANGED <<action, comments, fenced, evidence, copy, wire>>
  BY DEF Conclude
<1>2. /\ pc'[e] = "reconciled" /\ goal'[e] = s /\ found'[e] = id
      /\ \A x \in Execution \ {e} : Same(x)
  BY <1>1 DEF CommentInv, ActionInv, TypeOK, Same
<1>3. Marked' = Marked /\ Settled' = Settled
  BY <1>1 DEF Marked, Settled
<1>4. wire[e].state = "none"
  BY DEF CommentInv, Knowledge, Addressed, ActionInv, TypeOK, Request
<1>5. ~InFlight(e)' /\ Addressed(e)'
  BY <1>1, <1>2, <1>4 DEF InFlight, Addressed
<1>6. fenced'[e] => Follows(e)'
  BY <1>1, <1>2 DEF CommentInv, Knowledge, Follows, CopyOf
<1>7. fenced'[e] => Informed(e)'
  BY <1>1, <1>2, <1>3 DEF Informed
<1> QED BY <1>1, <1>2, <1>3, <1>5, <1>6, <1>7, QuietStep DEF CommentInv

\* So is the answer to a write.
LEMMA AnsweredQuiet ==
  ASSUME CommentInv, NEW e \in Execution, pc[e] \in {"send", "await"},
         NEW s \in ActionStatus, NEW id, Answered(e, s, id),
         fenced[e] /\ s = "succeeded" =>
           \/ action.resource = id
           \/ (action.resource = None /\ AllQuiet /\ Marked \subseteq {id})
  PROVE  Knowledge'
<1>1. /\ pc' = [pc EXCEPT ![e] = "written"] /\ goal' = [goal EXCEPT ![e] = s]
      /\ found' = [found EXCEPT ![e] = id]
      /\ UNCHANGED <<action, comments, fenced, evidence, copy, wire>>
  BY DEF Answered
<1>2. /\ pc'[e] = "written" /\ goal'[e] = s /\ found'[e] = id
      /\ \A x \in Execution \ {e} : Same(x)
  BY <1>1 DEF CommentInv, ActionInv, TypeOK, Same
<1>3. Marked' = Marked
  BY <1>1 DEF Marked
<1>4. Addressed(e)
  BY DEF CommentInv, Knowledge
<1>5. InFlight(e)' => InFlight(e) /\ Target(e)' = Target(e)
  BY <1>1, <1>2, <1>4 DEF InFlight, Target, Addressed
<1>6. Addressed(e)'
  BY <1>1, <1>2 DEF Addressed
<1>7. fenced'[e] => Follows(e)'
  BY <1>1, <1>2 DEF CommentInv, Knowledge, Follows, CopyOf
<1>8. AllQuiet => AllQuiet'
  BY <1>1, <1>2, <1>5 DEF AllQuiet, Same, InFlight
<1>9. fenced'[e] => Informed(e)'
  BY <1>1, <1>2, <1>3, <1>8 DEF Informed
<1> QED BY <1>1, <1>2, <1>3, <1>5, <1>6, <1>7, <1>9, QuietStep DEF CommentInv

\* A comment that is found is the bound one, or the only one.
LEMMA JudgeQuiet ==
  ASSUME CommentInv, NEW e \in Execution, pc[e] \in {"lookup", "search"},
         NEW id \in Execution, Judge(e, id),
         fenced[e] => action.resource = id \/ (Settled /\ Marked \subseteq {id})
  PROVE  Knowledge'
<1>1. {"succeeded", "ready_to_execute", "needs_human_review"} \subseteq ActionStatus
  BY DEF ActionStatus
<1>2. CASE comments[id] = evidence[e].body
  BY <1>1, <1>2, ConcludeQuiet DEF Judge
<1>3. CASE comments[id] # evidence[e].body /\ copy[e].revision > 1
  <2>1. fenced[e] => copy[e] = CopyOf(action)
    BY DEF CommentInv, Knowledge, Follows
  <2>2. fenced[e] => action.resource # None
    BY <1>3, <2>1 DEF CopyOf, CommentInv, ActionInv, RowConstraints
  <2> QED BY <1>1, <1>3, <2>2, ConcludeQuiet DEF Judge
<1>4. CASE comments[id] # evidence[e].body /\ ~ copy[e].revision > 1
  BY <1>1, <1>4, ConcludeQuiet DEF Judge
<1> QED BY <1>2, <1>3, <1>4

\* The reads of the reconciliation tell an execution what it goes on to assume.
LEMMA ReadStep ==
  ASSUME CommentInv, NEW e \in Execution,
         LookUpBound(e) \/ HoldOff(e) \/ PassHoldoff(e) \/ Search(e) \/ SearchFails(e)
  PROVE  Knowledge'
<1>1. {"needs_human_review", "ready_to_execute", "retryable_failure"} \subseteq ActionStatus
  BY DEF ActionStatus
<1>2. Marked \subseteq Execution
  BY DEF Marked
<1>3. fenced[e] /\ pc[e] \in {"lookup", "search"} => copy[e] = CopyOf(action)
  BY DEF CommentInv, Knowledge, Follows
<1>4. CASE LookUpBound(e)
  <2>1. fenced[e] => action.resource = copy[e].resource
    BY <1>3, <1>4 DEF LookUpBound, CopyOf
  <2>2. CASE copy[e].resource \in Marked
    BY <1>2, <1>4, <2>1, <2>2, JudgeQuiet DEF LookUpBound
  <2>3. CASE copy[e].resource \notin Marked
    BY <1>1, <1>4, <2>3, ConcludeQuiet DEF LookUpBound
  <2> QED BY <2>2, <2>3
<1>5. CASE HoldOff(e) \/ SearchFails(e)
  BY <1>1, <1>5, ConcludeQuiet DEF HoldOff, SearchFails
<1>6. CASE PassHoldoff(e)
  <2>1. /\ pc'[e] = "search" /\ \A x \in Execution \ {e} : Same(x)
        /\ UNCHANGED <<action, comments, fenced, evidence, copy, goal, found, wire>>
    BY <1>6 DEF PassHoldoff, CommentInv, ActionInv, TypeOK, Same
  <2>2. wire[e].state = "none" /\ pc[e] = "lookup"
    BY <1>6 DEF PassHoldoff, CommentInv, Knowledge, Addressed, ActionInv, TypeOK, Request
  <2>3. ~InFlight(e)' /\ Addressed(e)' /\ Marked' = Marked
    BY <2>1, <2>2 DEF InFlight, Addressed, Marked
  <2>4. fenced'[e] => Settled'
    <3>1. SUFFICES ASSUME fenced[e] PROVE action.resource = None /\ action.holdoff # "pending"
      BY <2>1 DEF Settled
    <3>2. copy[e] = CopyOf(action) /\ copy[e].resource = None
      BY <1>3, <1>6, <2>2, <3>1 DEF PassHoldoff
    <3>3. CopyOf(action).held = (action.holdoff # "null") /\ CopyOf(action).resource = action.resource
      BY DEF CopyOf
    <3>4. ~(copy[e].held /\ action.holdoff = "pending")
      BY <1>6 DEF PassHoldoff, HeldOff
    <3> QED BY <3>2, <3>3, <3>4
  <2>5. fenced'[e] => Follows(e)'
    BY <2>1, <2>2 DEF CommentInv, Knowledge, Follows, CopyOf
  <2>6. fenced'[e] => Informed(e)'
    BY <2>1, <2>4 DEF Informed
  <2> QED BY <2>1, <2>3, <2>5, <2>6, QuietStep DEF CommentInv
<1>7. CASE Search(e)
  <2>1. pc[e] = "search" /\ (fenced[e] => Settled)
    BY <1>7 DEF Search, CommentInv, Knowledge, Informed
  <2>2. CASE Cardinality(Marked) > 1
    BY <1>1, <1>7, <2>1, <2>2, ConcludeQuiet DEF Search
  <2>3. CASE ~ Cardinality(Marked) > 1 /\ Marked = {}
    BY <1>1, <1>7, <2>1, <2>3, ConcludeQuiet DEF Search
  <2>4. CASE ~ Cardinality(Marked) > 1 /\ Marked # {}
    <3>1. PICK id \in Marked : Judge(e, id)
      BY <1>7, <2>4 DEF Search
    <3>2. Marked \subseteq {id}
      BY DEF CommentInv, Knowledge, Bound
    <3> QED BY <1>2, <2>1, <3>1, <3>2, JudgeQuiet
  <2> QED BY <2>2, <2>3, <2>4
<1> QED BY <1>4, <1>5, <1>6, <1>7

\* Executions that end before or instead of a transition.
LEMMA EndStep ==
  ASSUME CommentInv, NEW e \in Execution, NEW p \in {"ended", "surprised"}, Leave(e, p),
         UNCHANGED <<action, comments, fenced>>
  PROVE  Knowledge'
<1>1. TypeOK /\ Addressed(e) /\ Knowledge
  BY DEF CommentInv, ActionInv, Knowledge
<1>2. Marked' = Marked
  BY DEF Marked
<1> QED BY <1>1, <1>2, LeaveQuiet, QuietStep

\* Executions begin, lose their fence and read the comment they are to revise.
LEMMA FenceStep ==
  ASSUME CommentInv, NEW e \in Execution,
         FenceLost(e) \/ Inspect(e) \/ \E t \in Task, n \in 1 .. MaxAttempts : e = <<t, n>> /\ Claim(t, n)
  PROVE  Knowledge'
<1>1. /\ Knowledge /\ TypeOK /\ Addressed(e)
      /\ fenced[e] => Follows(e) /\ Informed(e)
  BY DEF CommentInv, ActionInv, Knowledge
<1>2. CASE FenceLost(e)
  <2>1. /\ UNCHANGED <<action, comments, local, wire>> /\ ~fenced'[e]
        /\ \A x \in Execution \ {e} : fenced'[x] = fenced[x]
    BY <1>1, <1>2 DEF FenceLost, TypeOK
  <2>2. Marked' = Marked /\ \A x \in Execution : Same(x)
    BY <2>1 DEF Marked, Same
  <2>3. Addressed(e)' /\ (InFlight(e)' => InFlight(e) /\ Target(e)' = Target(e))
    BY <1>1, <2>1 DEF Addressed, InFlight, Target
  <2> QED BY <1>1, <2>1, <2>2, <2>3, QuietStep
<1>3. CASE Inspect(e) /\ copy[e].resource \in Marked
  <2>1. /\ pc[e] = "inspect" /\ pc' = [pc EXCEPT ![e] = "revise"]
        /\ UNCHANGED <<action, comments, fenced, evidence, copy, goal, found, wire>>
    BY <1>3 DEF Inspect
  <2>2. pc'[e] = "revise" /\ Marked' = Marked /\ \A x \in Execution \ {e} : Same(x)
    BY <1>1, <2>1 DEF TypeOK, Marked, Same
  <2>3. wire[e].state = "none"
    BY <1>1, <2>1 DEF Addressed, TypeOK, Request
  <2>4. ~InFlight(e)' /\ Addressed(e)'
    BY <2>1, <2>2, <2>3 DEF InFlight, Addressed
  <2>5. fenced'[e] => Follows(e)' /\ Informed(e)'
    BY <1>1, <2>1, <2>2 DEF Follows, Informed, CopyOf
  <2> QED BY <1>1, <2>1, <2>2, <2>4, <2>5, QuietStep
<1>4. CASE Inspect(e) /\ copy[e].resource \notin Marked
  BY <1>4, EndStep DEF Inspect
<1>5. ASSUME NEW t \in Task, NEW n \in 1 .. MaxAttempts, e = <<t, n>>, Claim(t, n) PROVE Knowledge'
  <2>1. /\ pc[e] = "idle" /\ pc' = [pc EXCEPT ![e] = "reserve"]
        /\ fenced' = [fenced EXCEPT ![e] = TRUE]
        /\ UNCHANGED <<action, comments, evidence, copy, goal, found, wire>>
    BY <1>5 DEF Claim
  <2>2. /\ pc'[e] = "reserve" /\ Marked' = Marked
        /\ \A x \in Execution \ {e} : Same(x) /\ fenced'[x] = fenced[x]
    BY <1>1, <2>1 DEF TypeOK, Marked, Same
  <2>3. wire[e].state = "none"
    BY <1>1, <2>1 DEF Addressed, TypeOK, Request
  <2>4. ~InFlight(e)' /\ Addressed(e)'
    BY <2>1, <2>2, <2>3 DEF InFlight, Addressed
  <2>5. Follows(e)' /\ Informed(e)'
    BY <2>2 DEF Follows, Informed
  <2> QED BY <1>1, <2>1, <2>2, <2>4, <2>5, QuietStep
<1> QED BY <1>2, <1>3, <1>4, <1>5

\* A request is sent and its answer arrives, or does not.
LEMMA CallStep ==
  ASSUME CommentInv, NEW e \in Execution,
         \/ Send(e) \/ SendFails(e) \/ WriteSucceeds(e) \/ WriteUnknown(e) \/ WriteRefused(e)
         \/ Refuse(e)
  PROVE  Knowledge'
<1>1. /\ Knowledge /\ TypeOK /\ Addressed(e)
      /\ fenced[e] => Follows(e) /\ Informed(e)
  BY DEF CommentInv, ActionInv, Knowledge
<1>2. {"retryable_failure", "outcome_unknown", "permanent_failure", "succeeded"} \subseteq ActionStatus
  BY DEF ActionStatus
<1>3. CASE Send(e)
  <2>1. /\ pc[e] = "send" /\ pc' = [pc EXCEPT ![e] = "await"]
        /\ wire' = [wire EXCEPT ![e] = [state |-> "flying", target |-> copy[e].resource,
                                        body |-> evidence[e].body]]
        /\ UNCHANGED <<action, comments, fenced, evidence, copy, goal, found>>
    BY <1>3 DEF Send
  <2>2. /\ pc'[e] = "await" /\ Marked' = Marked
        /\ wire'[e].state = "flying" /\ wire'[e].target = copy[e].resource
        /\ \A x \in Execution \ {e} : Same(x)
    BY <1>1, <2>1 DEF TypeOK, Marked, Same
  <2>3. Addressed(e)' /\ (InFlight(e)' => InFlight(e) /\ Target(e)' = Target(e))
    BY <2>1, <2>2 DEF Addressed, InFlight, Target
  <2>4. fenced'[e] => Follows(e)' /\ Informed(e)'
    BY <1>1, <2>1, <2>2 DEF Follows, Informed, CopyOf
  <2> QED BY <1>1, <2>1, <2>2, <2>3, <2>4, QuietStep
<1>4. CASE SendFails(e) \/ WriteUnknown(e) \/ WriteRefused(e)
  BY <1>2, <1>4, AnsweredQuiet DEF SendFails, WriteUnknown, WriteRefused
<1>5. CASE WriteSucceeds(e)
  <2>1. /\ pc[e] = "await" /\ wire[e].state = "landed"
        /\ Answered(e, "succeeded", BoundComment(e))
    BY <1>5 DEF WriteSucceeds
  <2>2. fenced[e] => copy[e].resource = action.resource
    BY <1>1, <2>1 DEF Follows, CopyOf
  <2>3. fenced[e] => \/ action.resource = BoundComment(e)
                     \/ (action.resource = None /\ AllQuiet /\ Marked \subseteq {BoundComment(e)})
    BY <1>1, <2>1, <2>2 DEF Informed, BoundComment
  <2> QED BY <1>2, <2>1, <2>3, AnsweredQuiet
<1>6. CASE Refuse(e)
  <2>1. /\ wire[e].state = "flying" /\ Answer(e, "refused")
        /\ UNCHANGED <<action, comments, fenced, local>>
    BY <1>6 DEF Refuse
  <2>2. /\ wire'[e].state = IF pc[e] = "await" THEN "refused" ELSE "none"
        /\ Marked' = Marked /\ \A x \in Execution \ {e} : Same(x)
    BY <1>1, <2>1 DEF TypeOK, Answer, NoRequest, Marked, Same
  <2>3. ~InFlight(e)' /\ Addressed(e)'
    BY <1>1, <2>1, <2>2 DEF Addressed, InFlight
  <2>4. fenced'[e] => Follows(e)'
    BY <1>1, <2>1 DEF Follows, CopyOf
  <2>5. pc[e] \in {"await", "written", "ended", "surprised"}
    BY <1>1, <2>1 DEF Addressed
  <2>6. AllQuiet => FALSE
    BY <2>1 DEF AllQuiet, InFlight
  <2>7. fenced'[e] => Informed(e)'
    BY <1>1, <2>1, <2>2, <2>5, <2>6 DEF Informed
  <2> QED BY <1>1, <2>1, <2>2, <2>3, <2>4, <2>7, QuietStep
<1> QED BY <1>3, <1>4, <1>5, <1>6

\* Someone deletes or edits a comment, or nothing happens.
LEMMA TamperStep ==
  ASSUME CommentInv, (\E id \in Execution : Tamper(id)) \/ UNCHANGED vars
  PROVE  Knowledge'
<1>1. /\ UNCHANGED <<action, fenced, local, wire>> /\ Marked' \subseteq Marked
  <2>1. ASSUME NEW id \in Execution, Tamper(id)
        PROVE  UNCHANGED <<action, fenced, local, wire>> /\ Marked' \subseteq Marked
    <3>1. /\ UNCHANGED <<action, fenced, local, wire>> /\ comments[id] \in Body
          /\ \A x \in Execution \ {id} : comments'[x] = comments[x]
      BY <2>1 DEF Tamper, CommentInv, ActionInv, TypeOK
    <3> QED BY <3>1 DEF Marked
  <2>2. CASE UNCHANGED vars
    BY <2>2 DEF vars, Marked
  <2> QED BY <2>1, <2>2
<1>2. Shrinks /\ \A x \in Execution : Same(x)
  BY <1>1 DEF Shrinks, Same, InFlight, Target
<1>3. \A x \in Execution : Addressed(x)'
  BY <1>1 DEF CommentInv, Knowledge, Addressed
<1>4. \A x \in Execution : Flight(x)'
  BY <1>1, <1>2, FlightKept DEF CommentInv, Knowledge
<1>5. \A x \in Execution : fenced'[x] => Follows(x)' /\ Informed(x)'
  BY <1>1, <1>2, InformedKept DEF CommentInv, Knowledge
<1>6. Bound'
  BY <1>1, BoundKept DEF CommentInv, Knowledge
<1> QED BY <1>3, <1>4, <1>5, <1>6 DEF Knowledge

-----------------------------------------------------------------------------
(* Transitions *)

\* A transition that starts no write.  Only the execution that makes it holds
\* the fence, so nobody else relies on the row as it was.
LEMMA ActStep ==
  ASSUME OneTask, CommentInv, NEW e \in Execution, fenced[e], UNCHANGED <<comments, fenced>>,
         \A x \in Execution \ {e} : Same(x),
         InFlight(e)' => InFlight(e) /\ Target(e)' = Target(e),
         AllQuiet \/ (action'.holdoff = action.holdoff /\ action'.resource = action.resource),
         Addressed(e)', Follows(e)', Informed(e)', Bound'
  PROVE  Knowledge'
<1>1. Shrinks
  BY DEF Shrinks, Same, InFlight, Target
<1>2. \A x \in Execution : Addressed(x)'
  BY DEF CommentInv, Knowledge, Addressed, Same
<1>3. ASSUME NEW x \in Execution PROVE Flight(x)'
  <2>1. SUFFICES ASSUME InFlight(x)' PROVE Flight(x)'
    BY DEF Flight
  <2>2. InFlight(x) /\ Target(x)' = Target(x) /\ Flight(x)
    BY <1>1, <2>1 DEF Shrinks, CommentInv, Knowledge
  <2>3. action'.holdoff = action.holdoff /\ action'.resource = action.resource
    BY <2>2 DEF AllQuiet
  <2>4. Marked' = Marked
    BY DEF Marked
  <2>5. \A y \in Execution : InFlight(y)' => InFlight(y)
    BY <1>1 DEF Shrinks
  <2> HIDE DEF InFlight, Target
  <2> QED BY <2>2, <2>3, <2>4, <2>5 DEF Flight
<1>4. ASSUME NEW x \in Execution, fenced'[x] PROVE Follows(x)' /\ Informed(x)'
  <2>1. x = e
    BY <1>4, OneFenced DEF CommentInv
  <2> QED BY <2>1
<1> QED BY <1>2, <1>3, <1>4 DEF Knowledge

\* What a transition leaves an execution that goes on to reconcile.
LEMMA GoOnActs ==
  ASSUME CommentInv, NEW e \in Execution, NEW row,
         pc[e] \in {"reserve", "inspect", "revise", "begin", "reconciled", "write"},
         NEW p \in {"inspect", "begin", "lookup", "write", "send"}, GoOn(e, row, p),
         evidence' \in [Execution -> Evidence],
         \A x \in Execution \ {e} : evidence'[x] = evidence[x]
  PROVE  /\ action' = row /\ pc'[e] = p /\ copy'[e] = CopyOf(row)
         /\ \A x \in Execution \ {e} : Same(x)
         /\ p # "send" => ~InFlight(e)'
         /\ Addressed(e)' /\ UNCHANGED <<comments, fenced, wire, goal, found>>
         /\ wire'[e].state = "none"
<1>1. TypeOK /\ Addressed(e)
  BY DEF CommentInv, ActionInv, Knowledge
<1>2. wire[e].state = "none"
  BY <1>1 DEF Addressed, TypeOK, Request
<1>3. /\ action' = row /\ pc'[e] = p /\ copy'[e] = CopyOf(row)
      /\ UNCHANGED <<comments, fenced, wire, goal, found>>
      /\ \A x \in Execution \ {e} : Same(x)
  BY <1>1 DEF TypeOK, GoOn, Same
<1> QED BY <1>2, <1>3 DEF InFlight, Addressed

\* The row is reserved, replayed, or found to need a revision.
LEMMA ReserveStep ==
  ASSUME OneTask, CommentInv, NEW e \in Execution,
         NEW seen \in [body : Body, snapshot : Snapshot], Reserve(e, seen)
  PROVE  Knowledge'
<1>1. PICK row \in {action, Reserved(seen)}, p \in {"begin", "lookup", "inspect"} :
        /\ GoOn(e, row, p)
        /\ \/ action.status = "absent" /\ row = Reserved(seen) /\ p = "begin"
           \/ row = action /\ action.status # "absent" /\ (p = "inspect" \/ action.desired = seen.body)
  <2>1. CASE action.status = "absent" /\ GoOn(e, Reserved(seen), "begin")
    BY <2>1
  <2>2. CASE /\ action.status \in ActionStatus /\ Replays(seen)
             /\ GoOn(e, action, IF action.status \in Resumed THEN "lookup" ELSE "begin")
    <3>1. action.status # "absent" /\ action.desired = seen.body
      BY <2>2 DEF ActionStatus, Replays
    <3>2. GoOn(e, action, "lookup") \/ GoOn(e, action, "begin")
      BY <2>2
    <3> QED BY <3>1, <3>2
  <2>3. CASE action.status # "absent" /\ GoOn(e, action, "inspect")
    BY <2>3
  <2> QED BY <2>1, <2>2, <2>3 DEF Reserve
<1>2. /\ pc[e] = "reserve" /\ fenced[e] /\ evidence' = [evidence EXCEPT ![e] = seen]
      /\ TypeOK /\ Bound
  BY DEF Reserve, CommentInv, ActionInv, Knowledge
<1>3. /\ evidence' \in [Execution -> Evidence] /\ evidence'[e] = seen
      /\ \A x \in Execution \ {e} : evidence'[x] = evidence[x]
  BY <1>2 DEF TypeOK, Evidence
<1>4. /\ action' = row /\ pc'[e] = p /\ copy'[e] = CopyOf(row)
      /\ \A x \in Execution \ {e} : Same(x)
      /\ ~InFlight(e)' /\ Addressed(e)' /\ UNCHANGED <<comments, fenced>>
  BY <1>1, <1>2, <1>3, GoOnActs
<1>5. p # "inspect" => action'.desired = seen.body
  BY <1>1, <1>4 DEF Reserved
<1>6. Follows(e)' /\ Informed(e)'
  BY <1>1, <1>3, <1>4, <1>5 DEF Follows, Informed
<1>7. AllQuiet \/ (action'.holdoff = action.holdoff /\ action'.resource = action.resource)
  <2>1. CASE action.status = "absent"
    BY <1>2, <2>1 DEF AllQuiet, CommentInv, Knowledge, Flight, Bound
  <2>2. CASE action.status # "absent"
    BY <1>1, <1>4, <2>2
  <2> QED BY <2>1, <2>2
<1>8. Bound'
  <2>1. Marked' = Marked
    BY <1>4 DEF Marked
  <2>2. CASE row = action
    BY <1>2, <1>4, <2>1, <2>2, BoundKept
  <2>3. CASE row = Reserved(seen)
    <3>1. action'.status = "reserved" /\ action'.resource = None
      BY <1>4, <2>3 DEF Reserved
    <3> QED BY <1>2, <2>1, <3>1 DEF Bound, SuccessIsCurrent
  <2> QED BY <1>1, <2>2, <2>3
<1> QED BY <1>2, <1>4, <1>6, <1>7, <1>8, ActStep

\* The transitions on the way to a write.
LEMMA AdvanceStep ==
  ASSUME OneTask, CommentInv, NEW e \in Execution, Revise(e) \/ Begin(e) \/ Reconcile(e)
  PROVE  Knowledge'
<1>1. PICK row \in ActionRow, p \in {"begin", "lookup", "write"} :
        /\ GoOn(e, row, p)
        /\ row.status \in {"reserved", "reconciling", "ready_to_execute"}
        /\ row.resource = action.resource /\ row.holdoff = action.holdoff
        /\ row.desired = evidence[e].body
        /\ p = "write" => pc[e] = "reconciled" /\ goal[e] = "ready_to_execute"
  <2>1. /\ action \in ActionRow /\ evidence[e] \in Evidence /\ TypeOK
        /\ fenced[e] => Follows(e)
    BY DEF CommentInv, ActionInv, TypeOK, Knowledge
  <2>2. CASE Revise(e)
    <3> DEFINE row == [action EXCEPT !.status = "reserved", !.revision = @ + 1,
                          !.desired = evidence[e].body, !.snapshot = evidence[e].snapshot]
    <3>1. GoOn(e, row, "begin")
      BY <2>2 DEF Revise
    <3>2. row \in ActionRow
      <4>1. /\ action.revision + 1 \in Nat /\ evidence[e].body \in Body \cup {None}
            /\ evidence[e].snapshot \in Snapshot \cup {None}
            /\ "reserved" \in ActionStatus
        BY <2>1, RowFields DEF Evidence, ActionStatus
      <4> QED BY <2>1, <4>1, UpdatedRow
    <3>3. /\ row.status = "reserved" /\ row.resource = action.resource
          /\ row.holdoff = action.holdoff /\ row.desired = evidence[e].body
      BY <2>1 DEF ActionRow
    <3> HIDE DEF row
    <3> QED BY <3>1, <3>2, <3>3
  <2>3. CASE Begin(e)
    <3> DEFINE row == [action EXCEPT !.status = "reconciling"]
    <3>1. GoOn(e, row, "lookup")
      BY <2>3 DEF Begin
    <3>2. action.desired = evidence[e].body
      BY <2>1, <2>3 DEF Begin, MayTransition, Follows
    <3>3. /\ row \in ActionRow /\ row.status = "reconciling" /\ row.resource = action.resource
          /\ row.holdoff = action.holdoff /\ row.desired = evidence[e].body
      BY <2>1, <3>2 DEF ActionRow, ActionStatus
    <3> HIDE DEF row
    <3> QED BY <3>1, <3>3
  <2>4. CASE Reconcile(e)
    <3> DEFINE row == [action EXCEPT !.status = "ready_to_execute"]
    <3>1. GoOn(e, row, "write") /\ pc[e] = "reconciled" /\ goal[e] = "ready_to_execute"
      BY <2>4 DEF Reconcile, MayTransition, Concluded
    <3>2. action.desired = evidence[e].body
      BY <2>1, <2>4 DEF Reconcile, MayTransition, Follows
    <3>3. /\ row \in ActionRow /\ row.status = "ready_to_execute" /\ row.resource = action.resource
          /\ row.holdoff = action.holdoff /\ row.desired = evidence[e].body
      BY <2>1, <3>2 DEF ActionRow, ActionStatus
    <3> HIDE DEF row
    <3> QED BY <3>1, <3>3
  <2> QED BY <2>2, <2>3, <2>4
<1>2. /\ pc[e] \in {"revise", "begin", "reconciled"} /\ fenced[e]
      /\ evidence' = evidence /\ evidence \in [Execution -> Evidence]
      /\ TypeOK /\ Bound /\ Informed(e)
  BY DEF Revise, Begin, Reconcile, MayTransition, CommentInv, ActionInv, TypeOK, Knowledge
<1>3. /\ action' = row /\ pc'[e] = p /\ copy'[e] = CopyOf(row)
      /\ \A x \in Execution \ {e} : Same(x)
      /\ ~InFlight(e)' /\ Addressed(e)' /\ UNCHANGED <<comments, fenced>>
  BY <1>1, <1>2, GoOnActs
<1>4. Marked' = Marked
  BY <1>3 DEF Marked
<1>5. Follows(e)'
  BY <1>1, <1>2, <1>3 DEF Follows
<1>6. Informed(e)'
  <2>1. p = "write" => action.resource # None \/ (Settled /\ Marked = {})
    BY <1>1, <1>2 DEF Informed
  <2>2. Settled' = Settled
    BY <1>1, <1>3 DEF Settled
  <2> QED BY <1>1, <1>3, <1>4, <2>1, <2>2 DEF Informed
<1>7. Bound'
  BY <1>1, <1>2, <1>3, <1>4 DEF Bound, SuccessIsCurrent
<1> QED BY <1>1, <1>2, <1>3, <1>5, <1>6, <1>7, ActStep

\* The status a transition ends with, and the comment it binds: a comment is
\* bound when nothing can create another.
LEMMA RecordStep ==
  ASSUME OneTask, CommentInv, NEW e \in Execution, ReconcileEnds(e) \/ RecordWrite(e)
  PROVE  Knowledge'
<1>1. /\ fenced[e] /\ pc[e] \in {"reconciled", "written"}
      /\ action' = Concluded(e) /\ Leave(e, "ended") /\ UNCHANGED <<comments, fenced>>
  BY DEF ReconcileEnds, RecordWrite, MayTransition
<1>2. /\ TypeOK /\ Bound /\ Addressed(e) /\ Follows(e) /\ Informed(e) /\ Conclusion(e)
      /\ action \in ActionRow /\ \A x \in Execution : Flight(x)
  BY <1>1 DEF CommentInv, ActionInv, ConclusionInv, TypeOK, Knowledge
<1>3. /\ \A x \in Execution \ {e} : Same(x)
      /\ InFlight(e)' => InFlight(e) /\ Target(e)' = Target(e)
      /\ Addressed(e)' /\ Follows(e)' /\ Informed(e)'
  BY <1>1, <1>2, LeaveQuiet
<1>4. Marked' = Marked
  BY <1>1 DEF Marked
<1>5. CASE goal[e] = "succeeded"
  <2>1. /\ action'.status = "succeeded" /\ action'.resource = found[e]
        /\ action'.applied = evidence[e].body /\ action'.desired = action.desired
        /\ action'.holdoff = action.holdoff
    BY <1>1, <1>2, <1>5 DEF Concluded, ActionRow
  <2>2. evidence[e].body = action.desired
    BY <1>1, <1>2 DEF Follows
  <2>3. action.resource = found[e] \/ (action.resource = None /\ AllQuiet /\ Marked \subseteq {found[e]})
    <3>1. Settled => AllQuiet /\ action.resource = None
      BY <1>2 DEF Settled, AllQuiet, Flight
    <3> QED BY <1>1, <1>2, <1>5, <3>1 DEF Informed
  <2>4. found[e] \in Execution /\ found[e] # None
    BY <1>1, <1>2, <1>5, NotNone DEF Conclusion
  <2>5. Marked \subseteq {found[e]}
    BY <1>2, <2>3, <2>4 DEF Bound
  <2>6. Bound'
    BY <1>4, <2>1, <2>2, <2>5 DEF Bound, SuccessIsCurrent
  <2> QED BY <1>1, <1>3, <2>1, <2>3, <2>6, ActStep
<1>6. CASE goal[e] # "succeeded"
  <2>1. /\ action'.status = goal[e] /\ action'.resource = action.resource
        /\ action'.holdoff = action.holdoff
    BY <1>1, <1>2, <1>6 DEF Concluded, ActionRow
  <2>2. goal[e] # "absent"
    BY <1>1, <1>2 DEF Conclusion
  <2>3. Bound'
    BY <1>2, <1>4, <1>6, <2>1, <2>2 DEF Bound, SuccessIsCurrent
  <2> QED BY <1>1, <1>3, <2>1, <2>3, ActStep
<1> QED BY <1>5, <1>6

\* A write is started: a create only when nothing is in flight.
LEMMA StartStep ==
  ASSUME OneTask, CommentInv, NEW e \in Execution, StartWrite(e)
  PROVE  Knowledge'
<1>1. /\ pc[e] = "write" /\ fenced[e] /\ GoOn(e, Started(action), "send") /\ evidence' = evidence
      /\ evidence \in [Execution -> Evidence] /\ action \in ActionRow
      /\ Bound /\ Follows(e) /\ Informed(e) /\ \A x \in Execution : Flight(x)
  BY DEF StartWrite, MayTransition, CommentInv, ActionInv, TypeOK, Knowledge
<1>2. /\ action' = Started(action) /\ pc'[e] = "send" /\ copy'[e] = CopyOf(Started(action))
      /\ \A x \in Execution \ {e} : Same(x)
      /\ Addressed(e)' /\ UNCHANGED <<comments, fenced>>
  BY <1>1, GoOnActs
<1>3. /\ action'.status = "executing" /\ action'.holdoff = "pending"
      /\ action'.resource = action.resource /\ action'.desired = action.desired
  BY <1>1, <1>2 DEF Started, ActionRow
<1>4. action.resource # None \/ (Settled /\ Marked = {})
  BY <1>1 DEF Informed
<1>5. Marked' = Marked
  BY <1>2 DEF Marked
<1>6. Settled => \A x \in Execution : ~InFlight(x)
  BY <1>1 DEF Settled, Flight
<1>7. \A x \in Execution \ {e} : InFlight(x)' = InFlight(x) /\ Target(x)' = Target(x)
  BY <1>2 DEF InFlight, Target, Same
<1>8. Flight(e)'
  <2>1. Target(e)' = action'.resource
    BY <1>2 DEF Target, CopyOf
  <2> QED BY <1>3, <1>4, <1>5, <1>6, <1>7, <2>1 DEF Flight
<1>9. ASSUME NEW x \in Execution \ {e} PROVE Flight(x)'
  <2>1. SUFFICES ASSUME InFlight(x)' PROVE Flight(x)'
    BY DEF Flight
  <2>2. InFlight(x) /\ Target(x)' = Target(x) /\ action.resource # None
    BY <1>4, <1>6, <1>7, <2>1
  <2>3. Target(x) = action.resource
    BY <1>1, <2>2 DEF Flight
  <2> HIDE DEF InFlight, Target
  <2> QED BY <1>3, <2>2, <2>3 DEF Flight
<1>10. \A x \in Execution : Addressed(x)'
  BY <1>2 DEF CommentInv, Knowledge, Addressed, Same
<1>11. ASSUME NEW x \in Execution, fenced'[x] PROVE Follows(x)' /\ Informed(x)'
  <2>1. x = e
    BY <1>1, <1>2, <1>11, OneFenced DEF CommentInv
  <2>2. evidence'[e].body = action'.desired
    BY <1>1, <1>3 DEF Follows
  <2> QED BY <1>2, <2>1, <2>2 DEF Follows, Informed
<1>12. Bound'
  BY <1>1, <1>3, <1>5 DEF Bound, SuccessIsCurrent
<1> QED BY <1>8, <1>9, <1>10, <1>11, <1>12 DEF Knowledge

-----------------------------------------------------------------------------
(* GitHub and the clock *)

\* A request arrives.  A create is the only write in flight and makes the only
\* comment; an update rewrites the bound one.
LEMMA LandStep ==
  ASSUME CommentInv, NEW e \in Execution, Land(e)
  PROVE  Knowledge'
<1>1. /\ wire[e].state = "flying" /\ Answer(e, "landed")
      /\ UNCHANGED <<action, fenced, local>>
      /\ TypeOK /\ ConclusionInv /\ Bound /\ Addressed(e) /\ Flight(e)
  BY DEF Land, CommentInv, ActionInv, Knowledge
<1>2. /\ wire'[e].state = IF pc[e] = "await" THEN "landed" ELSE "none"
      /\ \A x \in Execution \ {e} : Same(x)
  BY <1>1 DEF TypeOK, Answer, NoRequest, Same
<1>3. pc[e] \in {"await", "written", "ended", "surprised"} /\ ~InFlight(e)' /\ InFlight(e)
      /\ Addressed(e)' /\ Target(e) = wire[e].target
  BY <1>1, <1>2 DEF Addressed, InFlight, Target
<1>4. Shrinks
  BY <1>2, <1>3 DEF Shrinks, Same, InFlight, Target
<1>5. /\ action.holdoff = "pending" /\ ~AllQuiet /\ ~Settled
      /\ Target(e) = None => action.resource = None /\ Marked = {}
                               /\ \A x \in Execution \ {e} : ~InFlight(x)
      /\ Target(e) # None => Target(e) = action.resource
  BY <1>1, <1>3 DEF Flight, AllQuiet, Settled
<1>6. Marked' \subseteq Marked \cup {IF Target(e) = None THEN e ELSE Target(e)}
  <2>1. \A x \in Execution : x # (IF Target(e) = None THEN e ELSE Target(e)) => comments'[x] = comments[x]
    BY <1>1, <1>3 DEF Land, TypeOK
  <2> QED BY <2>1 DEF Marked
<1>7. \A x \in Execution : Addressed(x)'
  BY <1>2, <1>3 DEF CommentInv, Knowledge, Addressed, Same
<1>8. \A x \in Execution : Follows(x) => Follows(x)'
  BY <1>1 DEF Follows, CopyOf
<1>9. Settled' = Settled
  BY <1>1 DEF Settled
<1>10. CASE Target(e) = None
  <2>1. /\ action.resource = None /\ Marked' \subseteq {e}
        /\ \A x \in Execution : ~InFlight(x)'
    BY <1>3, <1>4, <1>5, <1>6, <1>10 DEF Shrinks
  <2>2. \A x \in Execution : Flight(x)'
    BY <2>1 DEF Flight
  <2>3. AllQuiet'
    BY <2>1 DEF AllQuiet
  <2>4. ASSUME NEW x \in Execution, fenced'[x] PROVE Informed(x)'
    <3>1. Informed(x) /\ Conclusion(x)
      BY <1>1, <2>4 DEF CommentInv, Knowledge, ConclusionInv
    <3>2. /\ pc'[x] = pc[x] /\ goal'[x] = goal[x] /\ found'[x] = found[x]
          /\ x # e => wire'[x] = wire[x]
      BY <1>1, <1>2 DEF Same
    <3>3. pc[x] \in {"reconciled", "written"} /\ goal[x] = "succeeded" => found[x] # None
      BY <3>1, NotNone DEF Conclusion
    <3>4. /\ pc[x] \notin {"search", "write"}
          /\ ~(pc[x] = "reconciled" /\ goal[x] \in {"succeeded", "ready_to_execute"})
          /\ ~(pc[x] = "written" /\ goal[x] = "succeeded")
          /\ ~(pc[x] = "await" /\ wire[x].state = "landed")
      BY <1>5, <2>1, <3>1, <3>3 DEF Informed
    <3>5. pc'[x] = "await" /\ wire'[x].state = "landed" => x = e
      BY <3>2, <3>4
    <3> QED BY <2>1, <2>3, <3>2, <3>4, <3>5 DEF Informed
  <2>5. Bound'
    BY <1>1, <2>1 DEF Bound, SuccessIsCurrent
  <2> QED BY <1>1, <1>7, <1>8, <2>2, <2>4, <2>5 DEF CommentInv, Knowledge
<1>11. CASE Target(e) # None
  <2>1. /\ action.resource # None /\ Marked' \subseteq {action.resource}
    BY <1>1, <1>5, <1>6, <1>11 DEF Bound
  <2>2. ASSUME NEW x \in Execution PROVE Flight(x)'
    <3>1. Flight(x) /\ (InFlight(x)' => InFlight(x) /\ Target(x)' = Target(x))
      BY <1>4 DEF CommentInv, Knowledge, Shrinks
    <3> HIDE DEF InFlight, Target
    <3> QED BY <1>1, <2>1, <3>1 DEF Flight
  <2>3. ASSUME NEW x \in Execution, fenced'[x] PROVE Informed(x)'
    <3>1. Informed(x)
      BY <1>1, <2>3 DEF CommentInv, Knowledge
    <3>2. pc'[x] = pc[x] /\ goal'[x] = goal[x] /\ found'[x] = found[x] /\ action' = action
      BY <1>1
    <3> QED BY <1>5, <1>9, <2>1, <3>1, <3>2 DEF Informed
  <2>4. Bound'
    BY <1>1, <2>1 DEF Bound, SuccessIsCurrent
  <2> QED BY <1>1, <1>7, <1>8, <2>2, <2>3, <2>4 DEF CommentInv, Knowledge
<1> QED BY <1>10, <1>11

\* The holdoff passes when nothing is in flight any more.
LEMMA HoldoffStep ==
  ASSUME OneTask, CommentInv, HoldoffPasses
  PROVE  Knowledge'
<1>1. /\ action.holdoff = "pending" /\ action' = [action EXCEPT !.holdoff = "passed"]
      /\ UNCHANGED <<comments, fenced, local, wire>>
      /\ \A x \in Execution : ~InFlight(x)
  BY DEF HoldoffPasses, OneTask, InFlight
<1>2. /\ action'.holdoff = "passed" /\ action'.resource = action.resource
      /\ action'.status = action.status /\ action'.desired = action.desired
      /\ action'.revision = action.revision /\ action'.applied = action.applied
  BY <1>1 DEF CommentInv, ActionInv, TypeOK, ActionRow
<1>3. Marked' = Marked
  BY <1>1 DEF Marked
<1>4. \A x \in Execution : ~InFlight(x)'
  BY <1>1 DEF InFlight
<1>5. \A x \in Execution : Flight(x)' /\ Addressed(x)'
  BY <1>1, <1>4 DEF Flight, CommentInv, Knowledge, Addressed
<1>6. CopyOf(action') = CopyOf(action)
  BY <1>1, <1>2 DEF CopyOf
<1>7. ASSUME NEW x \in Execution, fenced'[x] PROVE Follows(x)' /\ Informed(x)'
  <2>1. Follows(x) /\ Informed(x)
    BY <1>1, <1>7 DEF CommentInv, Knowledge
  <2>2. Follows(x)'
    BY <1>1, <1>2, <1>6, <2>1 DEF Follows
  <2>3. AllQuiet' /\ (Settled => Settled') /\ ~Settled
    BY <1>1, <1>2, <1>4 DEF AllQuiet, Settled
  <2>4. Informed(x)'
    BY <1>1, <1>2, <1>3, <2>1, <2>3 DEF Informed
  <2> QED BY <2>2, <2>4
<1>8. Bound'
  BY <1>1, <1>2, <1>3 DEF CommentInv, Knowledge, Bound, SuccessIsCurrent
<1> QED BY <1>5, <1>7, <1>8 DEF Knowledge

-----------------------------------------------------------------------------
(* The theorems *)

\* At first there is neither a row nor a comment.
LEMMA CommentInit == Init => CommentInv
<1> SUFFICES ASSUME Init PROVE CommentInv
  OBVIOUS
<1>1. ActionInv
  BY TypeInit DEF Init, ActionInv, ConclusionInv, Conclusion, RowConstraints
<1>2. Marked = {}
  BY GithubAssumption DEF Init, Marked
<1>3. Successive
  <2>1. \A t \in Task, n \in 1 .. MaxAttempts : <<t, n>> \in Execution
    BY DEF Execution
  <2> QED BY <2>1 DEF Init, Successive
<1>4. \A e \in Execution : Addressed(e) /\ Flight(e) /\ ~fenced[e]
  BY DEF Init, Addressed, Flight, InFlight, NoRequest
<1>5. Bound
  BY <1>2 DEF Init, Bound, SuccessIsCurrent
<1> QED BY <1>1, <1>3, <1>4, <1>5 DEF CommentInv, Knowledge

\* Every step keeps the invariant.
LEMMA CommentStep == OneTask /\ CommentInv /\ [Next]_vars => CommentInv'
<1> SUFFICES ASSUME OneTask, CommentInv, [Next]_vars PROVE CommentInv'
  OBVIOUS
<1>1. ActionInv'
  BY TypeStep, ConclusionStep, RowStep DEF CommentInv, ActionInv
<1>2. Successive'
  BY SuccessiveStep DEF CommentInv, ActionInv
<1>3. Knowledge'
  <2>1. ASSUME NEW t \in Task, NEW n \in 1 .. MaxAttempts, Claim(t, n) PROVE Knowledge'
    <3>1. <<t, n>> \in Execution
      BY DEF Execution
    <3> QED BY <2>1, <3>1, FenceStep
  <2>2. ASSUME NEW e \in Execution,
               \/ Abandon(e) \/ FenceRefuses(e) \/ StateRefuses(e)
               \/ \E seen \in [body : Body, snapshot : Snapshot] : ReserveEnds(e, seen)
        PROVE  Knowledge'
    BY <2>2, EndStep DEF Abandon, FenceRefuses, StateRefuses, ReserveEnds
  <2>3. ASSUME NEW e \in Execution, FenceLost(e) \/ Inspect(e) PROVE Knowledge'
    BY <2>3, FenceStep
  <2>4. ASSUME NEW e \in Execution, NEW seen \in [body : Body, snapshot : Snapshot], Reserve(e, seen)
        PROVE  Knowledge'
    BY <2>4, ReserveStep
  <2>5. ASSUME NEW e \in Execution, Reconciliation(e) \/ Revise(e) PROVE Knowledge'
    BY <2>5, ReadStep, AdvanceStep, RecordStep DEF Reconciliation
  <2>6. ASSUME NEW e \in Execution, Write(e) \/ Refuse(e) PROVE Knowledge'
    BY <2>6, StartStep, CallStep, RecordStep DEF Write
  <2>7. ASSUME NEW e \in Execution, Land(e) \/ Tamper(e) PROVE Knowledge'
    BY <2>7, LandStep, TamperStep
  <2>8. CASE HoldoffPasses \/ UNCHANGED vars
    BY <2>8, HoldoffStep, TamperStep
  <2> QED BY <2>1, <2>2, <2>3, <2>4, <2>5, <2>6, <2>7, <2>8 DEF Next, Prepare
<1> QED BY <1>1, <1>2, <1>3 DEF CommentInv

\* The attempts of a single task keep the comments and the row in step.
THEOREM CommentInvariance == OneTask => (Spec => []CommentInv)
<1> SUFFICES ASSUME OneTask PROVE Spec => []CommentInv
  OBVIOUS
<1>1. CommentInv /\ [Next]_vars => CommentInv'
  BY CommentStep
<1> QED BY <1>1, CommentInit, PTL DEF Spec

\* With any number of attempts of a task, crashes, lost answers, late requests
\* and people who delete or edit comments, the issue never carries two
\* comments with the marker of the scope.
THEOREM OneComment == OneTask => (Spec => []AtMostOneComment)
<1> SUFFICES ASSUME OneTask PROVE Spec => []AtMostOneComment
  OBVIOUS
<1>1. ASSUME CommentInv PROVE AtMostOneComment
  <2>1. CASE Marked = {}
    BY <2>1, FS_EmptySet DEF AtMostOneComment
  <2>2. ASSUME NEW x \in Marked PROVE AtMostOneComment
    <3>1. Marked = {x}
      BY <1>1, <2>2 DEF CommentInv, Knowledge, Bound
    <3>2. Cardinality({x}) = 1
      BY FS_Singleton
    <3> QED BY <3>1, <3>2 DEF AtMostOneComment
  <2> QED BY <2>1, <2>2
<1> QED BY <1>1, CommentInvariance, PTL

\* A request to create the comment travels alone, and only while the issue
\* carries no comment of the scope.
THEOREM CreatesAreAlone == OneTask => (Spec => []CreateIsAlone)
<1> SUFFICES ASSUME OneTask PROVE Spec => []CreateIsAlone
  OBVIOUS
<1>1. ASSUME CommentInv PROVE CreateIsAlone
  <2>1. SUFFICES ASSUME NEW e \in Execution, wire[e].state = "flying", wire[e].target = None
                 PROVE  Marked = {} /\ \A x \in Execution \ {e} : wire[x].state # "flying"
    BY DEF CreateIsAlone
  <2>2. Flight(e) /\ Addressed(e)
    BY <1>1 DEF CommentInv, Knowledge
  <2>3. InFlight(e) /\ Target(e) = None
    BY <2>1, <2>2 DEF InFlight, Target, Addressed
  <2> QED BY <2>2, <2>3 DEF Flight, InFlight
<1> QED BY <1>1, CommentInvariance, PTL

\* A recorded success is about the revision it stands beside.
THEOREM SuccessesAreCurrent == OneTask => (Spec => []SuccessIsCurrent)
<1> SUFFICES ASSUME OneTask PROVE Spec => []SuccessIsCurrent
  OBVIOUS
<1>1. CommentInv => SuccessIsCurrent
  BY DEF CommentInv, Knowledge, Bound
<1> QED BY <1>1, CommentInvariance, PTL

\* No step binds another comment.
LEMMA BoundStep ==
  OneTask /\ CommentInv /\ [Next]_vars =>
    (action.resource # None => action'.resource = action.resource)
<1> SUFFICES ASSUME OneTask, CommentInv, [Next]_vars, action.resource # None
             PROVE  action'.resource = action.resource
  OBVIOUS
<1>1. action \in ActionRow /\ Bound /\ action.status # "absent"
  BY DEF CommentInv, ActionInv, TypeOK, Knowledge, Bound
<1>2. ASSUME NEW e \in Execution, NEW seen, Reserve(e, seen) PROVE action' = action
  BY <1>1, <1>2 DEF Reserve, GoOn
<1>3. ASSUME NEW e \in Execution, Revise(e) \/ Begin(e) \/ StartWrite(e)
      PROVE  action'.resource = action.resource
  BY <1>1, <1>3 DEF Revise, Begin, StartWrite, Started, GoOn, ActionRow
<1>4. ASSUME NEW e \in Execution, Reconcile(e) \/ ReconcileEnds(e) \/ RecordWrite(e)
      PROVE  action'.resource = action.resource
  <2>1. /\ fenced[e] /\ pc[e] \in {"reconciled", "written"} /\ action' = Concluded(e) /\ Informed(e)
    BY <1>4 DEF Reconcile, ReconcileEnds, RecordWrite, MayTransition, GoOn, CommentInv, Knowledge
  <2>2. goal[e] = "succeeded" => action.resource = found[e]
    BY <1>1, <2>1 DEF Informed, Settled
  <2> QED BY <1>1, <2>1, <2>2 DEF Concluded, ActionRow
<1>5. CASE HoldoffPasses
  BY <1>1, <1>5 DEF HoldoffPasses, ActionRow
<1>6. CASE UNCHANGED vars
  BY <1>6 DEF vars
<1>7. ASSUME NEW e \in Execution,
             \/ FenceLost(e) \/ Abandon(e) \/ FenceRefuses(e) \/ StateRefuses(e)
             \/ \E seen \in [body : Body, snapshot : Snapshot] : ReserveEnds(e, seen)
             \/ Inspect(e) \/ PassHoldoff(e) \/ Send(e) \/ Land(e) \/ Refuse(e) \/ Tamper(e)
      PROVE  action' = action
  BY <1>7 DEF FenceLost, Abandon, FenceRefuses, StateRefuses, ReserveEnds, Inspect,
     PassHoldoff, Send, Land, Refuse, Tamper
<1>8. ASSUME NEW e \in Execution,
             \/ LookUpBound(e) \/ HoldOff(e) \/ Search(e) \/ SearchFails(e)
             \/ SendFails(e) \/ WriteSucceeds(e) \/ WriteUnknown(e) \/ WriteRefused(e)
      PROVE  action' = action
  BY <1>8 DEF LookUpBound, HoldOff, Search, SearchFails, Judge, Conclude,
     SendFails, WriteSucceeds, WriteUnknown, WriteRefused, Answered
<1>9. ASSUME NEW t \in Task, NEW n \in 1 .. MaxAttempts, Claim(t, n) PROVE action' = action
  BY <1>9 DEF Claim
<1> QED
  BY <1>2, <1>3, <1>4, <1>5, <1>6, <1>7, <1>8, <1>9 DEF Next, Prepare, Reconciliation, Write

\* The comment a scope is bound to is never replaced.
THEOREM BindingStays == OneTask => (Spec => BoundForGood)
<1> SUFFICES ASSUME OneTask PROVE Spec => BoundForGood
  OBVIOUS
<1>1. CommentInv /\ [Next]_vars =>
        [action.resource # None => action'.resource = action.resource]_action
  BY BoundStep
<1> QED BY <1>1, CommentInvariance, PTL DEF Spec, BoundForGood

-----------------------------------------------------------------------------
(* What the issue shows *)

\* The desired body, or what people have made of it.
Shown(id) ==
  comments[id] \in {action.desired} \cup (IF Tampering THEN {None, Edited, Unmarked} ELSE {})

\* What a write in flight is to put on the issue.
Load(e) == IF pc[e] = "send" THEN evidence[e].body ELSE wire[e].body

\* An update comes after the first revision, and until the second one every
\* write in flight is about the present one.
Loaded(e) ==
  InFlight(e) =>
    /\ Target(e) # None => action.revision >= 2
    /\ action.revision <= 2 => Load(e) = action.desired

\* A success that is not yet recorded is shown already.
Delivered(e) ==
  /\ pc[e] = "await" /\ wire[e].state = "landed" => Shown(BoundComment(e))
  /\ pc[e] \in {"reconciled", "written"} /\ goal[e] = "succeeded" => Shown(found[e])

Display ==
  /\ action.status # "absent" => action.revision >= 1
  /\ action.resource # None /\ action.revision <= 1 => action.status = "succeeded"
  /\ \A e \in Execution : Loaded(e)
  /\ action.revision <= 2 => \A e \in Execution : fenced[e] => Delivered(e)
  /\ action.status = "succeeded" /\ action.revision <= 2 => Shown(action.resource)

\* The comments that are spoken of are comments of executions.
LEMMA Shows ==
  ASSUME CommentInv
  PROVE  /\ action.status = "succeeded" => action.resource \in Execution
         /\ \A e \in Execution :
              /\ BoundComment(e) \in Execution
              /\ pc[e] \in {"reconciled", "written"} /\ goal[e] = "succeeded" => found[e] \in Execution
<1>1. action.status = "succeeded" => action.resource \in Execution
  BY DEF CommentInv, ActionInv, TypeOK, ActionRow, RowConstraints
<1>2. \A e \in Execution : BoundComment(e) \in Execution
  BY DEF CommentInv, ActionInv, TypeOK, Copy, BoundComment
<1>3. \A e \in Execution :
        pc[e] \in {"reconciled", "written"} /\ goal[e] = "succeeded" => found[e] \in Execution
  BY DEF CommentInv, ActionInv, ConclusionInv, Conclusion
<1> QED BY <1>1, <1>2, <1>3

\* A step that leaves the row alone and spoils no comment.
LEMMA DisplayKept ==
  ASSUME CommentInv, Display, NEW e \in Execution, action' = action,
         \A id \in Execution : Shown(id) => Shown(id)',
         \A x \in Execution \ {e} : Same(x) /\ (fenced'[x] => fenced[x]),
         Loaded(e)', fenced'[e] /\ action.revision <= 2 => Delivered(e)'
  PROVE  Display'
<1>1. \A x \in Execution : Loaded(x)'
  <2>1. ASSUME NEW x \in Execution \ {e} PROVE Loaded(x)'
    <3>1. Loaded(x) /\ Same(x)
      BY DEF Display
    <3> QED BY <3>1 DEF Same, Loaded, InFlight, Target, Load
  <2> QED BY <2>1
<1>2. ASSUME NEW x \in Execution, fenced'[x], action.revision <= 2 PROVE Delivered(x)'
  <2>1. CASE x = e
    BY <1>2, <2>1
  <2>2. CASE x # e
    <3>1. /\ Delivered(x) /\ Same(x)
          /\ pc[x] = "await" /\ wire[x].state = "landed" => Shown(BoundComment(x))'
          /\ pc[x] \in {"reconciled", "written"} /\ goal[x] = "succeeded" => Shown(found[x])'
      <4>1. Delivered(x) /\ Same(x)
        BY <1>2, <2>2 DEF Display
      <4>2. BoundComment(x)' = BoundComment(x) /\ found'[x] = found[x]
        BY <4>1 DEF Same, BoundComment
      <4> HIDE DEF Shown, BoundComment
      <4> QED BY <4>1, <4>2, Shows DEF Delivered
    <3> HIDE DEF Shown
    <3> QED BY <3>1 DEF Delivered, Same
  <2> QED BY <2>1, <2>2
<1>3. action.status = "succeeded" /\ action.revision <= 2 => Shown(action.resource)'
  BY Shows DEF Display
<1> QED BY <1>1, <1>2, <1>3 DEF Display

\* A transition of the execution that holds the fence, of a row that is open.
LEMMA DisplayAct ==
  ASSUME OneTask, CommentInv, Display, NEW e \in Execution, fenced[e],
         UNCHANGED <<comments, fenced>>, \A x \in Execution \ {e} : Same(x),
         action.status \notin {"absent", "succeeded"}, action'.status # "absent",
         action'.revision = action.revision, action'.desired = action.desired,
         action'.status = "succeeded" =>
           (action.revision <= 2 => Shown(action'.resource)),
         action'.status # "succeeded" => action'.resource = action.resource,
         Loaded(e)', pc'[e] \notin {"await", "reconciled", "written"}
  PROVE  Display'
<1>1. \A x \in Execution : Loaded(x)'
  <2>1. ASSUME NEW x \in Execution \ {e} PROVE Loaded(x)'
    <3>1. Loaded(x) /\ Same(x)
      BY DEF Display
    <3> QED BY <3>1 DEF Same, Loaded, InFlight, Target, Load
  <2> QED BY <2>1
<1>2. \A x \in Execution : fenced'[x] => Delivered(x)'
  <2>1. \A x \in Execution : fenced[x] => x = e
    BY OneFenced DEF CommentInv
  <2> QED BY <2>1 DEF Delivered
<1>3. action'.status = "succeeded" /\ action'.revision <= 2 => Shown(action.resource)'
  BY DEF Shown
<1>4. action'.resource # None /\ action'.revision <= 1 => action'.status = "succeeded"
  BY DEF Display
<1>5. action'.revision >= 1
  BY DEF Display
<1> QED BY <1>1, <1>2, <1>3, <1>4, <1>5 DEF Display

\* A coroutine that is over sends nothing new.
LEMMA LeaveDisplay ==
  ASSUME CommentInv, Display, NEW e \in Execution, NEW p \in {"ended", "surprised"}, Leave(e, p),
         action'.revision = action.revision, action'.desired = action.desired
  PROVE  Loaded(e)'
<1>1. TypeOK /\ Addressed(e) /\ Loaded(e)
  BY DEF CommentInv, ActionInv, Knowledge, Display
<1>2. /\ pc'[e] = p
      /\ wire'[e] = IF wire[e].state = "flying" THEN wire[e] ELSE NoRequest
  BY <1>1 DEF TypeOK, Leave
<1>3. wire[e].state = "flying" => pc[e] # "send"
  BY <1>1 DEF Addressed
<1> QED BY <1>1, <1>2, <1>3 DEF Loaded, InFlight, Target, Load, NoRequest

LEMMA EndDisplay ==
  ASSUME CommentInv, Display, NEW e \in Execution, NEW p \in {"ended", "surprised"}, Leave(e, p),
         UNCHANGED <<action, comments, fenced>>
  PROVE  Display'
<1>1. pc'[e] = p /\ \A x \in Execution \ {e} : Same(x)
  BY DEF CommentInv, ActionInv, TypeOK, Leave, Same
<1>2. Delivered(e)'
  BY <1>1 DEF Delivered
<1>3. \A id : Shown(id) => Shown(id)'
  BY DEF Shown
<1> QED BY <1>1, <1>2, <1>3, LeaveDisplay, DisplayKept

\* What reconciliation concludes of a comment that it has read.
LEMMA ConcludeDisplay ==
  ASSUME CommentInv, Display, NEW e \in Execution, NEW s, NEW id,
         \/ pc[e] \in {"lookup", "search"} /\ Conclude(e, s, id)
         \/ pc[e] \in {"send", "await"} /\ Answered(e, s, id),
         s = "succeeded" /\ fenced[e] /\ action.revision <= 2 => Shown(id)
  PROVE  Display'
<1>1. /\ pc'[e] \in {"reconciled", "written"} /\ goal'[e] = s /\ found'[e] = id
      /\ \A x \in Execution \ {e} : Same(x)
      /\ UNCHANGED <<action, comments, fenced, evidence, copy, wire>>
  BY DEF CommentInv, ActionInv, TypeOK, Conclude, Answered, Same
<1>2. Addressed(e) /\ Loaded(e)
  BY DEF CommentInv, Knowledge, Display
<1>3. Loaded(e)'
  BY <1>1, <1>2 DEF Loaded, InFlight, Target, Load, Addressed
<1>4. \A c : Shown(c) => Shown(c)'
  BY <1>1 DEF Shown
<1>5. fenced'[e] /\ action.revision <= 2 => Delivered(e)'
  BY <1>1, <1>4 DEF Delivered
<1> QED BY <1>1, <1>3, <1>4, <1>5, DisplayKept

LEMMA JudgeDisplay ==
  ASSUME CommentInv, Display, NEW e \in Execution, pc[e] \in {"lookup", "search"},
         NEW id \in Execution, Judge(e, id)
  PROVE  Display'
<1>1. fenced[e] => evidence[e].body = action.desired
  BY DEF CommentInv, Knowledge, Follows
<1>2. CASE comments[id] = evidence[e].body
  <2>1. Conclude(e, "succeeded", id) /\ (fenced[e] => Shown(id))
    BY <1>1, <1>2 DEF Judge, Shown
  <2> QED BY <2>1, ConcludeDisplay
<1>3. CASE comments[id] # evidence[e].body
  <2>1. Conclude(e, "ready_to_execute", None) \/ Conclude(e, "needs_human_review", None)
    BY <1>3 DEF Judge
  <2> QED BY <2>1, ConcludeDisplay
<1> QED BY <1>2, <1>3

\* The reads of the reconciliation.
LEMMA ReadDisplay ==
  ASSUME CommentInv, Display, NEW e \in Execution,
         LookUpBound(e) \/ HoldOff(e) \/ PassHoldoff(e) \/ Search(e) \/ SearchFails(e)
  PROVE  Display'
<1>1. Marked \subseteq Execution
  BY DEF Marked
<1>2. CASE LookUpBound(e)
  BY <1>1, <1>2, JudgeDisplay, ConcludeDisplay DEF LookUpBound
<1>3. CASE HoldOff(e) \/ SearchFails(e)
  BY <1>3, ConcludeDisplay DEF HoldOff, SearchFails
<1>4. CASE Search(e)
  BY <1>1, <1>4, JudgeDisplay, ConcludeDisplay DEF Search
<1>5. CASE PassHoldoff(e)
  <2>1. /\ pc[e] = "lookup" /\ pc'[e] = "search" /\ \A x \in Execution \ {e} : Same(x)
        /\ UNCHANGED <<action, comments, fenced, wire>>
    BY <1>5 DEF PassHoldoff, CommentInv, ActionInv, TypeOK, Same
  <2>2. Loaded(e)' /\ Delivered(e)'
    BY <2>1 DEF Display, Loaded, InFlight, Target, Load, Delivered
  <2>3. \A c : Shown(c) => Shown(c)'
    BY <2>1 DEF Shown
  <2> QED BY <2>1, <2>2, <2>3, DisplayKept
<1> QED BY <1>2, <1>3, <1>4, <1>5

\* Executions begin, lose their fence and read the comment they are to revise.
LEMMA FenceDisplay ==
  ASSUME CommentInv, Display, NEW e \in Execution,
         FenceLost(e) \/ Inspect(e) \/ \E t \in Task, n \in 1 .. MaxAttempts : e = <<t, n>> /\ Claim(t, n)
  PROVE  Display'
<1>0. TypeOK /\ Loaded(e)
  BY DEF CommentInv, ActionInv, Display
<1>1. CASE FenceLost(e)
  <2>1. /\ UNCHANGED <<action, comments, local, wire>> /\ ~fenced'[e]
        /\ \A x \in Execution \ {e} : fenced'[x] = fenced[x]
    BY <1>0, <1>1 DEF FenceLost, TypeOK
  <2>2. (\A x \in Execution : Same(x)) /\ \A c : Shown(c) => Shown(c)'
    BY <2>1 DEF Same, Shown
  <2>3. Loaded(e)'
    BY <1>0, <2>1 DEF Loaded, InFlight, Target, Load
  <2> QED BY <2>1, <2>2, <2>3, DisplayKept
<1>2. CASE Inspect(e) /\ copy[e].resource \notin Marked
  BY <1>2, EndDisplay DEF Inspect
<1>3. ASSUME \/ Inspect(e) /\ copy[e].resource \in Marked
             \/ \E t \in Task, n \in 1 .. MaxAttempts : e = <<t, n>> /\ Claim(t, n)
      PROVE  Display'
  <2>1. /\ pc[e] \in {"idle", "inspect"} /\ pc'[e] \in {"reserve", "revise"}
        /\ UNCHANGED <<action, comments, evidence, copy, goal, found, wire>>
        /\ \A x \in Execution \ {e} : Same(x) /\ fenced'[x] = fenced[x]
    BY <1>0, <1>3 DEF Inspect, Claim, TypeOK, Same
  <2>2. Loaded(e)' /\ Delivered(e)' /\ \A c : Shown(c) => Shown(c)'
    BY <1>0, <2>1 DEF Loaded, InFlight, Target, Load, Delivered, Shown
  <2> QED BY <2>1, <2>2, DisplayKept
<1> QED BY <1>1, <1>2, <1>3

\* A request is sent and answered, or not.
LEMMA CallDisplay ==
  ASSUME CommentInv, Display, NEW e \in Execution,
         \/ Send(e) \/ SendFails(e) \/ WriteSucceeds(e) \/ WriteUnknown(e) \/ WriteRefused(e)
         \/ Refuse(e)
  PROVE  Display'
<1>0. TypeOK /\ Loaded(e) /\ Addressed(e)
  BY DEF CommentInv, ActionInv, Knowledge, Display
<1>1. CASE Send(e)
  <2>1. /\ pc[e] = "send" /\ pc'[e] = "await"
        /\ wire'[e] = [state |-> "flying", target |-> copy[e].resource, body |-> evidence[e].body]
        /\ UNCHANGED <<action, comments, fenced>> /\ \A x \in Execution \ {e} : Same(x)
    BY <1>0, <1>1 DEF Send, TypeOK, Same
  <2>2. Loaded(e)' /\ Delivered(e)' /\ \A c : Shown(c) => Shown(c)'
    BY <1>0, <2>1 DEF Loaded, InFlight, Target, Load, Delivered, Shown
  <2> QED BY <2>1, <2>2, DisplayKept
<1>2. CASE SendFails(e) \/ WriteUnknown(e) \/ WriteRefused(e)
  BY <1>2, ConcludeDisplay DEF SendFails, WriteUnknown, WriteRefused
<1>3. CASE WriteSucceeds(e)
  BY <1>3, ConcludeDisplay DEF WriteSucceeds, Display, Delivered
<1>4. CASE Refuse(e)
  <2>1. /\ wire[e].state = "flying" /\ UNCHANGED <<action, comments, fenced, local>>
        /\ wire'[e].state \in {"none", "refused"} /\ \A x \in Execution \ {e} : Same(x)
    BY <1>0, <1>4 DEF Refuse, Answer, NoRequest, TypeOK, Same
  <2>2. Loaded(e)' /\ \A c : Shown(c) => Shown(c)'
    BY <1>0, <2>1 DEF Loaded, InFlight, Addressed, Shown
  <2>3. fenced'[e] /\ action.revision <= 2 => Delivered(e)'
    BY <2>1, <2>2 DEF Display, Delivered
  <2> QED BY <2>1, <2>2, <2>3, DisplayKept
<1> QED BY <1>1, <1>2, <1>3, <1>4

\* A request that arrives puts the desired body on the issue; people put
\* something of their own there.
LEMMA ArrivalDisplay ==
  ASSUME CommentInv, Display, NEW e \in Execution, Land(e) \/ Tamper(e)
  PROVE  Display'
<1>0. TypeOK /\ Loaded(e) /\ Addressed(e)
  BY DEF CommentInv, ActionInv, Knowledge, Display
<1>1. CASE Tamper(e)
  <2>1. /\ UNCHANGED <<action, fenced, local, wire>> /\ Tampering
        /\ \A id \in Execution : comments'[id] \in {comments[id], None, Edited, Unmarked}
    BY <1>0, <1>1 DEF Tamper, TypeOK
  <2>2. (\A id \in Execution : Shown(id) => Shown(id)') /\ \A x \in Execution : Same(x)
    BY <2>1 DEF Shown, Same
  <2>3. Loaded(e)'
    BY <1>0, <2>1 DEF Loaded, InFlight, Target, Load
  <2>4. fenced'[e] /\ action.revision <= 2 => Delivered(e)'
    <3>1. fenced[e] /\ action.revision <= 2 => Delivered(e)
      BY DEF Display
    <3>2. BoundComment(e)' = BoundComment(e)
      BY <2>1 DEF BoundComment
    <3> HIDE DEF Shown, BoundComment
    <3> QED BY <2>1, <2>2, <3>1, <3>2, Shows DEF Delivered
  <2> QED BY <2>1, <2>2, <2>3, <2>4, DisplayKept
<1>2. CASE Land(e)
  <2>0. PICK landed \in Execution : landed = IF wire[e].target = None THEN e ELSE wire[e].target
    BY <1>0 DEF TypeOK, Request
  <2>1. /\ wire[e].state = "flying" /\ UNCHANGED <<action, fenced, local>>
        /\ wire'[e].state = IF pc[e] = "await" THEN "landed" ELSE "none"
        /\ \A x \in Execution \ {e} : Same(x)
        /\ comments' = [comments EXCEPT ![landed] = wire[e].body]
    BY <1>0, <1>2, <2>0 DEF Land, Answer, NoRequest, TypeOK, Same, Request
  <2>2. pc[e] # "send" /\ InFlight(e) /\ (pc[e] = "await" => wire[e].target = copy[e].resource)
    BY <1>0, <2>1 DEF Addressed, InFlight
  <2>3. action.revision <= 2 => Load(e) = action.desired /\ Load(e) = wire[e].body
    BY <1>0, <2>2 DEF Loaded, Load
  <2>4. action.revision <= 2 => /\ \A id \in Execution : Shown(id) => Shown(id)'
                                /\ Shown(landed)'
    <3>1. comments'[landed] = wire[e].body
          /\ \A id \in Execution \ {landed} : comments'[id] = comments[id]
      BY <1>0, <2>1 DEF TypeOK
    <3> QED BY <2>1, <2>3, <3>1 DEF Shown
  <2>5. Loaded(e)'
    BY <2>1, <2>2 DEF Loaded, InFlight
  <2>6. fenced'[e] /\ action.revision <= 2 => Delivered(e)'
    <3>1. SUFFICES ASSUME fenced[e], action.revision <= 2 PROVE Delivered(e)'
      BY <2>1
    <3>2. Delivered(e) /\ BoundComment(e)' = BoundComment(e)
      BY <2>1, <3>1 DEF Display, BoundComment
    <3>3. pc[e] = "await" => BoundComment(e) = landed
      BY <2>0, <2>2 DEF BoundComment
    <3>4. \A id \in Execution : Shown(id) => Shown(id)'
      BY <2>4, <3>1
    <3>5. Shown(landed)'
      BY <2>4, <3>1
    <3> HIDE DEF Shown, BoundComment
    <3> QED BY <2>1, <3>2, <3>3, <3>4, <3>5, Shows DEF Delivered
  <2>7. CASE action.revision <= 2
    BY <2>1, <2>4, <2>5, <2>6, <2>7, DisplayKept
  <2>8. CASE ~ action.revision <= 2
    <3>1. \A x \in Execution : Loaded(x)'
      <4>1. ASSUME NEW x \in Execution \ {e} PROVE Loaded(x)'
        <5>1. Loaded(x) /\ Same(x)
          BY <2>1 DEF Display
        <5> QED BY <2>1, <5>1 DEF Same, Loaded, InFlight, Target, Load
      <4> QED BY <2>5, <4>1
    <3> QED BY <2>1, <2>8, <3>1 DEF Display
  <2> QED BY <2>7, <2>8
<1> QED BY <1>1, <1>2

\* The reservation, and the revision.
LEMMA OpenDisplay ==
  ASSUME OneTask, CommentInv, Display, NEW e \in Execution,
         Revise(e) \/ \E seen \in [body : Body, snapshot : Snapshot] : Reserve(e, seen)
  PROVE  Display'
<1>0. /\ TypeOK /\ action \in ActionRow /\ Addressed(e) /\ Bound /\ RowConstraints
      /\ \A x \in Execution : fenced[x] => x = e
  <2>1. fenced[e]
    BY DEF Reserve, Revise, MayTransition
  <2> QED BY <2>1, OneFenced DEF CommentInv, ActionInv, TypeOK, Knowledge
<1>1. ASSUME NEW row, NEW p \in {"begin", "lookup", "inspect"}, GoOn(e, row, p)
      PROVE  /\ action' = row /\ pc'[e] = p /\ UNCHANGED <<comments, fenced, wire>>
             /\ wire[e].state = "flying" => pc[e] # "send"
             /\ \A x \in Execution \ {e} : pc'[x] = pc[x] /\ copy'[x] = copy[x]
  BY <1>0, <1>1 DEF GoOn, TypeOK, Addressed
<1>2. ASSUME NEW seen \in [body : Body, snapshot : Snapshot], Reserve(e, seen) PROVE Display'
  <2>1. /\ evidence' = [evidence EXCEPT ![e] = seen]
        /\ \E p \in {"begin", "lookup", "inspect"} :
             \/ GoOn(e, action, p)
             \/ action.status = "absent" /\ GoOn(e, Reserved(seen), p)
    BY <1>2 DEF Reserve
  <2>2. PICK p \in {"begin", "lookup", "inspect"} :
             \/ GoOn(e, action, p)
             \/ action.status = "absent" /\ GoOn(e, Reserved(seen), p)
    BY <2>1
  <2>3. CASE GoOn(e, action, p)
    <3>1. \A x \in Execution \ {e} : Same(x)
      BY <1>0, <2>1, <2>3 DEF Same, GoOn, TypeOK
    <3>2. Loaded(e)' /\ Delivered(e)'
      BY <1>0, <1>1, <2>3 DEF Display, Loaded, InFlight, Target, Load, Delivered
    <3>3. \A c : Shown(c) => Shown(c)'
      BY <1>1, <2>3 DEF Shown
    <3> QED BY <1>1, <2>3, <3>1, <3>2, <3>3, DisplayKept
  <2>4. CASE action.status = "absent" /\ GoOn(e, Reserved(seen), p)
    <3>1. \A x \in Execution : ~InFlight(x)
      BY <1>0, <2>4 DEF Bound, CommentInv, Knowledge, Flight
    <3>2. \A x \in Execution : ~InFlight(x)'
      BY <1>1, <2>4, <3>1 DEF InFlight
    <3>3. action'.status = "reserved" /\ action'.revision = 1 /\ action'.resource = None
      BY <1>1, <2>4 DEF Reserved
    <3>4. \A x \in Execution : fenced'[x] => Delivered(x)'
      BY <1>0, <1>1, <2>4 DEF Delivered
    <3> QED BY <3>2, <3>3, <3>4 DEF Display, Loaded
  <2> QED BY <2>2, <2>3, <2>4
<1>3. CASE Revise(e)
  <2>1. /\ action.status = "succeeded" /\ action.resource # None /\ action.revision \in Nat
        /\ action.revision >= 1
    BY <1>0, <1>3 DEF Revise, MayTransition, Expected, RowConstraints, ActionRow, Display
  <2>2. /\ action'.status = "reserved" /\ action'.revision = action.revision + 1
        /\ action'.resource = action.resource /\ pc'[e] = "begin" /\ evidence' = evidence
        /\ UNCHANGED <<comments, fenced, wire>>
        /\ \A x \in Execution \ {e} : pc'[x] = pc[x] /\ copy'[x] = copy[x]
    BY <1>0, <1>1, <1>3 DEF Revise, GoOn, ActionRow
  <2>3. ASSUME NEW x \in Execution, InFlight(x)'
        PROVE  action.revision >= 2
    <3>1. InFlight(x)
      BY <2>2, <2>3 DEF InFlight
    <3>2. Target(x) # None
      BY <2>1, <3>1 DEF CommentInv, Knowledge, Flight
    <3> QED BY <3>1, <3>2 DEF Display, Loaded
  <2>4. \A x \in Execution : Loaded(x)'
    BY <2>1, <2>2, <2>3 DEF Loaded
  <2>5. \A x \in Execution : fenced'[x] => Delivered(x)'
    BY <1>0, <2>2 DEF Delivered
  <2> QED BY <2>1, <2>2, <2>4, <2>5 DEF Display
<1> QED BY <1>2, <1>3

\* The transitions of a row that is open.
LEMMA ActDisplay ==
  ASSUME OneTask, CommentInv, Display, NEW e \in Execution,
         \/ Begin(e) \/ Reconcile(e) \/ ReconcileEnds(e) \/ StartWrite(e) \/ RecordWrite(e)
  PROVE  Display'
<1>0. /\ TypeOK /\ action \in ActionRow /\ Addressed(e) /\ Loaded(e)
      /\ fenced[e] => Follows(e) /\ Conclusion(e) /\ (action.revision <= 2 => Delivered(e))
  BY DEF CommentInv, ActionInv, ConclusionInv, TypeOK, Knowledge, Display
<1>1. /\ fenced[e] /\ pc[e] \in {"begin", "reconciled", "write", "written"}
      /\ action.status \notin {"absent", "succeeded"}
      /\ UNCHANGED <<comments, fenced>>
  BY DEF Begin, Reconcile, ReconcileEnds, StartWrite, RecordWrite, MayTransition, Expected, GoOn
<1> DEFINE Open(row) ==
      /\ row.status \in {"reconciling", "ready_to_execute", "executing"}
      /\ row.resource = action.resource /\ row.desired = action.desired
      /\ row.revision = action.revision
<1>2. ASSUME NEW row, NEW p \in {"lookup", "write", "send"}, GoOn(e, row, p), Open(row),
             evidence' = evidence, pc[e] \in {"begin", "reconciled", "write"}
      PROVE  Display'
  <2>1. evidence' \in [Execution -> Evidence] /\ \A x \in Execution : evidence'[x] = evidence[x]
    BY <1>0, <1>2 DEF TypeOK
  <2>2. /\ action' = row /\ pc'[e] = p /\ copy'[e] = CopyOf(row)
        /\ \A x \in Execution \ {e} : Same(x)
        /\ wire'[e].state = "none"
    BY <1>2, <2>1, GoOnActs
  <2>3. Loaded(e)'
    <3>1. SUFFICES ASSUME pc'[e] = "send"
                   PROVE  /\ copy'[e].resource # None => action'.revision >= 2
                          /\ evidence'[e].body = action'.desired
      BY <2>2 DEF Loaded, InFlight, Target, Load
    <3>2. evidence[e].body = action.desired
      BY <1>0, <1>1 DEF Follows
    <3>3. action.resource # None => action.revision >= 2
      BY <1>0, <1>1 DEF Display, ActionRow
    <3> QED BY <1>2, <2>2, <3>2, <3>3 DEF CopyOf
  <2> QED BY <1>1, <1>2, <2>2, <2>3, DisplayAct
<1>3. CASE Begin(e)
  <2>1. Open([action EXCEPT !.status = "reconciling"])
    BY <1>0 DEF ActionRow
  <2> QED BY <1>2, <1>3, <2>1 DEF Begin, MayTransition
<1>4. CASE Reconcile(e)
  <2>1. Concluded(e) = [action EXCEPT !.status = "ready_to_execute"]
    BY <1>4 DEF Reconcile, Concluded
  <2>2. Open(Concluded(e))
    BY <1>0, <2>1 DEF ActionRow
  <2> QED BY <1>2, <1>4, <2>2 DEF Reconcile, MayTransition
<1>5. CASE StartWrite(e)
  <2>1. Open(Started(action))
    BY <1>0 DEF Started, ActionRow
  <2> QED BY <1>2, <1>5, <2>1 DEF StartWrite, MayTransition
<1>6. CASE ReconcileEnds(e) \/ RecordWrite(e)
  <2>1. /\ action' = Concluded(e) /\ Leave(e, "ended")
        /\ pc[e] \in {"reconciled", "written"}
    BY <1>6 DEF ReconcileEnds, RecordWrite, MayTransition
  <2>2. /\ action'.revision = action.revision /\ action'.desired = action.desired
        /\ action'.status = goal[e]
        /\ goal[e] = "succeeded" => action'.resource = found[e]
        /\ goal[e] # "succeeded" => action'.resource = action.resource
    BY <1>0, <2>1 DEF Concluded, ActionRow
  <2>3. goal[e] # "absent"
    BY <1>0, <1>1, <2>1 DEF Conclusion
  <2>4. pc'[e] = "ended" /\ \A x \in Execution \ {e} : Same(x)
    BY <1>0, <2>1 DEF TypeOK, Leave, Same
  <2>5. Loaded(e)'
    BY <2>1, <2>2, LeaveDisplay
  <2>6. goal[e] = "succeeded" /\ action.revision <= 2 => Shown(found[e])
    BY <1>0, <1>1, <2>1 DEF Delivered
  <2> QED BY <1>1, <2>2, <2>3, <2>4, <2>5, <2>6, DisplayAct
<1> QED BY <1>3, <1>4, <1>5, <1>6

\* Every step keeps what the issue shows in step with the row.
LEMMA DisplayStep == OneTask /\ CommentInv /\ Display /\ [Next]_vars => Display'
<1> SUFFICES ASSUME OneTask, CommentInv, Display, [Next]_vars PROVE Display'
  OBVIOUS
<1>1. ASSUME NEW t \in Task, NEW n \in 1 .. MaxAttempts, Claim(t, n) PROVE Display'
  <2>1. <<t, n>> \in Execution
    BY DEF Execution
  <2> QED BY <1>1, <2>1, FenceDisplay
<1>2. ASSUME NEW e \in Execution,
             \/ Abandon(e) \/ FenceRefuses(e) \/ StateRefuses(e)
             \/ \E seen \in [body : Body, snapshot : Snapshot] : ReserveEnds(e, seen)
      PROVE  Display'
  BY <1>2, EndDisplay DEF Abandon, FenceRefuses, StateRefuses, ReserveEnds
<1>3. ASSUME NEW e \in Execution, Prepare(e) PROVE Display'
  BY <1>2, <1>3, OpenDisplay, FenceDisplay DEF Prepare
<1>4. ASSUME NEW e \in Execution, Reconciliation(e) PROVE Display'
  BY <1>4, ReadDisplay, ActDisplay DEF Reconciliation
<1>5. ASSUME NEW e \in Execution, Write(e) PROVE Display'
  BY <1>5, CallDisplay, ActDisplay DEF Write
<1>6. ASSUME NEW e \in Execution, FenceLost(e) \/ Land(e) \/ Refuse(e) \/ Tamper(e)
      PROVE  Display'
  BY <1>6, FenceDisplay, ArrivalDisplay, CallDisplay
<1>7. CASE HoldoffPasses
  <2>1. /\ action'.status = action.status /\ action'.revision = action.revision
        /\ action'.desired = action.desired /\ action'.resource = action.resource
        /\ UNCHANGED <<comments, fenced, local, wire>>
    BY <1>7 DEF HoldoffPasses, CommentInv, ActionInv, TypeOK, ActionRow
  <2> QED BY <2>1 DEF Display, Loaded, InFlight, Target, Load, Delivered, Shown, BoundComment
<1>8. CASE UNCHANGED vars
  BY <1>8 DEF vars, Display, Loaded, InFlight, Target, Load, Delivered, Shown, BoundComment
<1> QED BY <1>1, <1>2, <1>3, <1>4, <1>5, <1>6, <1>7, <1>8 DEF Next

LEMMA DisplayInvariance == OneTask => (Spec => [](CommentInv /\ Display))
<1> SUFFICES ASSUME OneTask PROVE Spec => [](CommentInv /\ Display)
  OBVIOUS
<1>1. Init => CommentInv /\ Display
  BY CommentInit, GithubAssumption
     DEF Init, Display, Loaded, InFlight, NoRequest
<1>2. CommentInv /\ Display /\ [Next]_vars => (CommentInv /\ Display)'
  BY CommentStep, DisplayStep
<1> QED BY <1>1, <1>2, PTL DEF Spec

LEMMA DisplayShows == CommentInv /\ Display => SuccessIsShown
BY DEF CommentInv, Knowledge, Bound, SuccessIsCurrent, Display, Shown, SuccessIsShown

\* A success that the row records is on the issue, unless people have changed
\* it: for the comment and its first update, whatever arrives late.
THEOREM SuccessesAreShown == OneTask => (Spec => []SuccessIsShown)
<1> SUFFICES ASSUME OneTask PROVE Spec => []SuccessIsShown
  OBVIOUS
<1> QED BY DisplayInvariance, DisplayShows, PTL
=============================================================================
