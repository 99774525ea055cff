------------------------ MODULE ApprovalCasesProofs ------------------------
(***************************************************************************)
(* Proofs about ApprovalCases, for every number of handlers, cases,        *)
(* payloads and deciders.                                                  *)
(*                                                                         *)
(* 1. Rows. Whatever step is taken, a row of approval_cases is left alone, *)
(*    opened, decided while it is pending, or closed as approved: RowSteps.*)
(*    What the invariant says of the table alone follows.                  *)
(* 2. Handlers. What the invariant says of one handler (Sound) is about    *)
(*    its own variables and the row of its case, and rows change only as   *)
(*    above: the steps of the others leave it true (OthersStaySound). The  *)
(*    handler's own steps are the other half. With both, SafetyInv is      *)
(*    inductive, whatever the models do (SafetyHolds), and the safety      *)
(*    properties follow from it.                                           *)
(* 3. Models that keep to their instructions. A request that opens the     *)
(*    gate then comes from the execution turn of an approved case          *)
(*    (SigningPreserved), and what confirms it is a publication            *)
(*    (ConfirmationsPreserved): IInv is inductive (Inductive).             *)
(* 4. Refinement. Under IInv every step is a step of ApprovalLifecycle or  *)
(*    leaves its variables alone (StepsAreLifecycleSteps).                 *)
(***************************************************************************)
EXTENDS ApprovalCases, TLAPS

(* What every reply of the specialist is made of. *)
LEMMA ReplyFields ==
  \A t \in Reply : /\ t.status \in {"published", "approval_required"}
                   /\ t.payload \in Payloads
                   /\ t.approved_by \in Approvers
<1> SUFFICES ASSUME NEW t \in Reply
             PROVE  /\ t.status \in {"published", "approval_required"}
                    /\ t.payload \in Payloads
                    /\ t.approved_by \in Approvers
  OBVIOUS
<1>1. CASE t \in [status : {"published"}, payload : Payloads, approved_by : Approvers]
  BY <1>1
<1>2. CASE \E a \in Payloads : t = ProposalOf(a)
  BY <1>2 DEF ProposalOf, Approvers
<1> QED
  BY <1>1, <1>2 DEF Reply

(* publish_result answers every request it can be sent. *)
LEMMA GateReplies == \A r \in Request : PublishResult(r) \in Reply
BY DEF PublishResult, Published, ProposalOf, Reply, Request, Publishable

(* What publish_result reports confirms nothing but what it was called with:
   its payloads agree in their scalar fields only when they are the same. *)
LEMMA ScalarsTellApart ==
  \A a, b \in Publishable : Wanted(a) \subseteq b => b = a
<1> SUFFICES ASSUME NEW a \in Publishable, NEW b \in Publishable, Wanted(a) \subseteq b
             PROVE  b = a
  OBVIOUS
<1>1. a \subseteq b
  BY DEF Wanted, Publishable
<1> QED
  BY <1>1, ConstantsAssumption

(* There is nothing in flight, or a whole request. *)
LEMMA CallIsRequest ==
  TypeOK => \A h \in Handlers : call[h] # NoCall => call[h] \in Request
BY DEF TypeOK

(* An empty table and idle handlers satisfy the invariant. *)
LEMMA InitSafe == Init => SafetyInv
<1> SUFFICES ASSUME Init
             PROVE  SafetyInv
  OBVIOUS
<1>1. TypeOK
  BY ConstantsAssumption DEF Init, TypeOK, NoCase, Answers
<1>2. RowsAreWhole /\ AtWork /\ ReadsDecided /\ OpensApart /\ AnswersName
  BY DEF Init, RowsAreWhole, AtWork, ReadsDecided, OpensApart, AnswersName
<1>3. DriveIsApproved /\ AnswersStayTrue /\ ClosedAsApproved
  BY DEF Init, DriveIsApproved, AnswersStayTrue, ClosedAsApproved
<1> QED
  BY <1>1, <1>2, <1>3 DEF SafetyInv

(* What a model can quote is a reply. *)
LEMMA QuotableAreReplies == TypeOK /\ RowsAreWhole => Quotable \subseteq Reply
<1> SUFFICES ASSUME TypeOK, RowsAreWhole, NEW t \in Quotable
             PROVE  t \in Reply
  OBVIOUS
<1>1. CASE Fabricates
  BY <1>1 DEF Quotable
<1>2. CASE \E r \in publications : t = Published(r)
  BY <1>2 DEF TypeOK, Reply, Published, Request, Publishable
<1>3. CASE \E p \in ProposalIds : status[p] # "absent" /\ t = ProposalOf(proposal[p])
  BY <1>3 DEF RowsAreWhole, Reply
<1> QED
  BY <1>1, <1>2, <1>3 DEF Quotable

(* The handler's side of a dispatch keeps the types. *)
RequestTypeOK ==
  /\ pc \in [Handlers -> {"idle", "running", "opening", "reading", "executing"}]
  /\ target \in [Handlers -> ProposalIds \cup {UnknownId}]
  /\ case \in [Handlers -> [payload : Payloads \cup {NoPayload},
                            decided_by : Deciders \cup {NoName}]]
  /\ texts \in [Handlers -> SUBSET Reply]
  /\ opened \in [Handlers -> SUBSET ProposalIds]
  /\ answer \in [Handlers -> Answers]

(* Whatever the case that store.decide returns, the handler goes on well-typed. *)
LEMMA DispatchTyped ==
  ASSUME TypeOK, NEW h \in Handlers, NEW STATE p, p \in ProposalIds, NEW STATE s,
         NEW STATE copy, copy \in [payload : Payloads \cup {NoPayload},
                                   decided_by : Deciders \cup {NoName}],
         Dispatch(h, p, s, copy)
  PROVE  RequestTypeOK'
<1> USE DEF TypeOK, RequestTypeOK, Dispatch
<1>1. CASE Answered(h, p, "rejected")
  BY <1>1 DEF Answered, NoCase, Answers
<1>2. CASE Answered(h, p, "already_executed")
  BY <1>2 DEF Answered, NoCase, Answers
<1>3. CASE Serving(h, "executing", p, copy)
  BY <1>3 DEF Serving, Answers
<1> QED
  BY <1>1, <1>2, <1>3

(***************************************************************************)
(* Every step leaves a row of approval_cases alone, opens it, decides it   *)
(* while it is pending, or closes it as approved.                          *)
(***************************************************************************)
Row(p) == <<status[p], proposal[p], decided_by[p], result[p]>>

Opens(p) ==
  /\ status[p] = "absent"
  /\ status'[p] = "pending"
  /\ proposal'[p] \in Payloads
  /\ decided_by'[p] = decided_by[p]
  /\ result'[p] = result[p]

Decides(p) ==
  /\ status[p] = "pending"
  /\ status'[p] \in {"approved", "rejected"}
  /\ decided_by'[p] \in Deciders
  /\ proposal'[p] = proposal[p]
  /\ result'[p] = result[p]

Closes(p) ==
  /\ status[p] \in {"approved", "executed"}
  /\ status'[p] = "executed"
  /\ result'[p].status = "published"
  /\ Wanted(proposal[p]) \subseteq result'[p].payload
  /\ proposal'[p] = proposal[p]
  /\ decided_by'[p] = decided_by[p]

RowStep(p) == UNCHANGED Row(p) \/ Opens(p) \/ Decides(p) \/ Closes(p)

(* No statement of the store does anything else to a row. *)
LEMMA RowSteps == SafetyInv /\ [Next]_vars => \A p \in ProposalIds : RowStep(p)
<1> SUFFICES ASSUME SafetyInv, [Next]_vars, NEW p \in ProposalIds
             PROVE  RowStep(p)
  OBVIOUS
<1> USE DEF SafetyInv, TypeOK, RowStep, Row
<1>1. ASSUME NEW h \in Handlers, NEW q \in ProposalIds, OpenCase(h, q)
      PROVE  RowStep(p)
  BY <1>1, ReplyFields DEF OpenCase, ToOpen, FindProposals, Opens
<1>2. ASSUME NEW h \in Handlers, NEW q \in ProposalIds, NEW approved \in BOOLEAN,
             NEW who \in Deciders, DecideRecorded(h, q, approved, who)
      PROVE  RowStep(p)
  BY <1>2 DEF DecideRecorded, Decidable, Decides
<1>3. ASSUME NEW h \in Handlers, RecordExecution(h)
      PROVE  RowStep(p)
  BY <1>3 DEF RecordExecution, FindExecution, DriveIsApproved, Closes
<1>4. CASE UNCHANGED table
  BY <1>4 DEF table
<1> QED
  BY <1>1, <1>2, <1>3, <1>4
  DEF Next, Turn, Run, Decide, AskSpecialist, SpecialistRuns, LoseCall, Narrate, RunTurn,
      EndRunTurn, FinishRun, DecideMisses, DecideUnknown, ReadDecided, ReadNotFound,
      LeaveUnconfirmed, Abort, vars

(* Rows stay whole, and are closed only by a confirmation of what they hold. *)
LEMMA RowsPreserved ==
  SafetyInv /\ [Next]_vars => RowsAreWhole' /\ ClosedAsApproved'
BY RowSteps, ScalarsTellApart
DEF SafetyInv, RowStep, Row, Opens, Decides, Closes, RowsAreWhole, ClosedAsApproved

(* Every step keeps the types; one step of the proof per action. *)
LEMMA TypePreserved == SafetyInv /\ [Next]_vars => TypeOK'
<1> SUFFICES ASSUME SafetyInv, [Next]_vars
             PROVE  TypeOK'
  OBVIOUS
<1> USE ConstantsAssumption DEF SafetyInv, TypeOK, vars, table, effects, request
<1>1. ASSUME NEW h \in Handlers, NEW r \in Requests(h), AskSpecialist(h, r)
      PROVE  TypeOK'
  BY <1>1 DEF AskSpecialist, InTurn, Requests, Told, AsTold, Credit, Request, Approvers, DriveIsApproved, RowsAreWhole
<1>2. ASSUME NEW h \in Handlers, NEW heard \in BOOLEAN, SpecialistRuns(h, heard)
      PROVE  TypeOK'
  BY <1>2, CallIsRequest, GateReplies DEF SpecialistRuns, Bump
<1>3. ASSUME NEW h \in Handlers, LoseCall(h)
      PROVE  TypeOK'
  BY <1>3 DEF LoseCall
<1>4. ASSUME NEW h \in Handlers, Narrate(h)
      PROVE  TypeOK'
  BY <1>4, QuotableAreReplies DEF Narrate
<1>5. ASSUME NEW h \in Handlers, RunTurn(h)
      PROVE  TypeOK'
  BY <1>5 DEF RunTurn, Free, Serving, NoCase, Answers
<1>6. ASSUME NEW h \in Handlers, EndRunTurn(h)
      PROVE  TypeOK'
  BY <1>6 DEF EndRunTurn
<1>7. ASSUME NEW h \in Handlers, NEW p \in ProposalIds, OpenCase(h, p)
      PROVE  TypeOK'
  BY <1>7, ReplyFields DEF OpenCase, Statuses, ToOpen, FindProposals
<1>8. ASSUME NEW h \in Handlers, FinishRun(h)
      PROVE  TypeOK'
  BY <1>8 DEF FinishRun, Answered, NoCase, Answers
<1>9. ASSUME NEW h \in Handlers, NEW p \in ProposalIds, NEW approved \in BOOLEAN,
             NEW who \in Deciders, DecideRecorded(h, p, approved, who)
      PROVE  TypeOK'
  <2>1. RequestTypeOK'
    BY <1>9, DispatchTyped DEF DecideRecorded
  <2>2. /\ status' \in [ProposalIds -> Statuses \cup {"absent"}]
        /\ decided_by' \in [ProposalIds -> Deciders \cup {NoName}]
        /\ UNCHANGED <<proposal, result, effects, call>>
    BY <1>9 DEF DecideRecorded, Statuses
  <2> QED
    BY <2>1, <2>2 DEF RequestTypeOK
<1>10. ASSUME NEW h \in Handlers, NEW p \in ProposalIds, DecideMisses(h, p)
       PROVE  TypeOK'
  BY <1>10 DEF DecideMisses, Decidable, Free, Serving, NoCase, Answers
<1>11. ASSUME NEW h \in Handlers, DecideUnknown(h)
       PROVE  TypeOK'
  BY <1>11 DEF DecideUnknown, Free, Serving, NoCase, Answers
<1>12. ASSUME NEW h \in Handlers, ReadDecided(h)
       PROVE  TypeOK'
  <2>1. RequestTypeOK'
    BY <1>12, DispatchTyped DEF ReadDecided
  <2> QED
    BY <1>12, <2>1 DEF ReadDecided, RequestTypeOK
<1>13. ASSUME NEW h \in Handlers, ReadNotFound(h)
       PROVE  TypeOK'
  BY <1>13 DEF ReadNotFound, Answered, NoCase, Answers
<1>14. ASSUME NEW h \in Handlers, LeaveUnconfirmed(h)
       PROVE  TypeOK'
  BY <1>14 DEF LeaveUnconfirmed, Answered, NoCase, Answers
<1>15. ASSUME NEW h \in Handlers, RecordExecution(h)
       PROVE  TypeOK'
  BY <1>15 DEF RecordExecution, Answered, NoCase, Answers, Statuses, FindExecution, DriveIsApproved
<1>16. ASSUME NEW h \in Handlers, Abort(h)
       PROVE  TypeOK'
  BY <1>16 DEF Abort, Answered, NoCase, Answers
<1>17. CASE UNCHANGED vars
  BY <1>17
<1> QED
  BY <1>1, <1>2, <1>3, <1>4, <1>5, <1>6, <1>7, <1>8, <1>9,
     <1>10, <1>11, <1>12, <1>13, <1>14, <1>15, <1>16, <1>17 DEF Next, Turn, Run, Decide

(***************************************************************************)
(* What the invariant says of one handler.                                 *)
(***************************************************************************)
Local(k) == <<pc[k], target[k], case[k], opened[k], answer[k]>>

Sound(k) ==
  /\ pc[k] # "idle" => answer[k] = "none"
  /\ pc[k] \in {"running", "opening"} => target[k] = UnknownId
  /\ pc[k] = "reading" /\ target[k] # UnknownId =>
       status[target[k]] \notin {"absent", "pending"}
  /\ pc[k] = "executing" =>
       /\ target[k] \in ProposalIds
       /\ status[target[k]] \in {"approved", "executed"}
       /\ case[k] = [payload |-> proposal[target[k]], decided_by |-> decided_by[target[k]]]
  /\ pc[k] # "opening" => opened[k] = {}
  /\ \A p \in opened[k] :
       /\ status[p] # "absent"
       /\ \A q \in opened[k] : proposal[p] = proposal[q] => p = q
  /\ answer[k] \in {"rejected", "executed", "already_executed", "approved_not_confirmed"}
       => target[k] \in ProposalIds
  /\ answer[k] = "rejected" => status[target[k]] = "rejected"
  /\ answer[k] \in {"executed", "already_executed"} => status[target[k]] = "executed"
  /\ answer[k] = "approved_not_confirmed" => status[target[k]] \in {"approved", "executed"}

(* The invariant is about the table and about each handler on its own. *)
LEMMA SafetyIsLocal ==
  SafetyInv <=> /\ TypeOK
                /\ RowsAreWhole
                /\ ClosedAsApproved
                /\ \A k \in Handlers : Sound(k)
BY DEF SafetyInv, Sound, AtWork, ReadsDecided, DriveIsApproved, OpensApart, AnswersName,
       AnswersStayTrue

(* Non-interference: what the others do to the rows leaves a handler sound. *)
LEMMA OthersStaySound ==
  ASSUME SafetyInv, \A p \in ProposalIds : RowStep(p),
         NEW k \in Handlers, UNCHANGED Local(k)
  PROVE  Sound(k)'
<1>1. TypeOK /\ Sound(k)
  BY SafetyIsLocal
<1>2. target[k] \in ProposalIds \cup {UnknownId} /\ opened[k] \subseteq ProposalIds
  BY <1>1 DEF TypeOK
<1> QED
  BY <1>1, <1>2, ConstantsAssumption DEF Sound, Local, RowStep, Row, Opens, Decides, Closes

(* Every handler stays sound: by non-interference under the steps of the others,
   and by what the action does under its own. *)
LEMMA HandlersPreserved ==
  SafetyInv /\ [Next]_vars => \A k \in Handlers : Sound(k)'
<1> SUFFICES ASSUME SafetyInv, [Next]_vars, NEW k \in Handlers
             PROVE  Sound(k)'
  OBVIOUS
<1>0. /\ TypeOK /\ RowsAreWhole /\ Sound(k)
      /\ UNCHANGED Local(k) => Sound(k)'
  BY SafetyIsLocal, RowSteps, OthersStaySound
<1> USE ConstantsAssumption DEF TypeOK, table
<1>1. ASSUME NEW h \in Handlers, NEW r \in Requests(h), AskSpecialist(h, r)
      PROVE  Sound(k)'
  BY <1>1, <1>0 DEF AskSpecialist, request, Local
<1>2. ASSUME NEW h \in Handlers, NEW heard \in BOOLEAN, SpecialistRuns(h, heard)
      PROVE  Sound(k)'
  BY <1>2, <1>0 DEF SpecialistRuns, request, Local
<1>3. ASSUME NEW h \in Handlers, LoseCall(h)
      PROVE  Sound(k)'
  BY <1>3, <1>0 DEF LoseCall, request, Local
<1>4. ASSUME NEW h \in Handlers, Narrate(h)
      PROVE  Sound(k)'
  BY <1>4, <1>0 DEF Narrate, request, Local
<1>5. ASSUME NEW h \in Handlers, RunTurn(h)
      PROVE  Sound(k)'
  <2>1. CASE k # h
    BY <2>1, <1>5, <1>0 DEF RunTurn, Free, Serving, Local
  <2>2. CASE k = h
    BY <2>2, <1>5, <1>0 DEF RunTurn, Free, Serving, Sound
  <2> QED
    BY <2>1, <2>2
<1>6. ASSUME NEW h \in Handlers, EndRunTurn(h)
      PROVE  Sound(k)'
  <2>1. CASE k # h
    BY <2>1, <1>6, <1>0 DEF EndRunTurn, Local
  <2>2. CASE k = h
    BY <2>2, <1>6, <1>0 DEF EndRunTurn, Sound
  <2> QED
    BY <2>1, <2>2
<1>7. ASSUME NEW h \in Handlers, NEW p \in ProposalIds, OpenCase(h, p)
      PROVE  Sound(k)'
  <2>1. CASE k # h
    BY <2>1, <1>7, <1>0 DEF OpenCase, ToOpen, Local
  <2>2. CASE k = h
    BY <2>2, <1>7, <1>0 DEF OpenCase, ToOpen, Sound
  <2> QED
    BY <2>1, <2>2
<1>8. ASSUME NEW h \in Handlers, FinishRun(h)
      PROVE  Sound(k)'
  <2>1. CASE k # h
    BY <2>1, <1>8, <1>0 DEF FinishRun, Answered, Local
  <2>2. CASE k = h
    BY <2>2, <1>8, <1>0 DEF FinishRun, Answered, Sound
  <2> QED
    BY <2>1, <2>2
<1>9. ASSUME NEW h \in Handlers, NEW p \in ProposalIds, NEW approved \in BOOLEAN,
             NEW who \in Deciders, DecideRecorded(h, p, approved, who)
      PROVE  Sound(k)'
  <2>1. CASE k # h
    BY <2>1, <1>9, <1>0 DEF DecideRecorded, Free, Dispatch, Closed, Answered, Serving, Local
  <2>2. CASE k = h
    BY <2>2, <1>9, <1>0 DEF DecideRecorded, Free, Dispatch, Closed, Answered, Serving, Sound
  <2> QED
    BY <2>1, <2>2
<1>10. ASSUME NEW h \in Handlers, NEW p \in ProposalIds, DecideMisses(h, p)
       PROVE  Sound(k)'
  <2>1. CASE k # h
    BY <2>1, <1>10, <1>0 DEF DecideMisses, Free, Decidable, Serving, Local
  <2>2. CASE k = h
    BY <2>2, <1>10, <1>0 DEF DecideMisses, Free, Decidable, Serving, Sound
  <2> QED
    BY <2>1, <2>2
<1>11. ASSUME NEW h \in Handlers, DecideUnknown(h)
       PROVE  Sound(k)'
  <2>1. CASE k # h
    BY <2>1, <1>11, <1>0 DEF DecideUnknown, Free, Serving, Local
  <2>2. CASE k = h
    BY <2>2, <1>11, <1>0 DEF DecideUnknown, Free, Serving, Sound
  <2> QED
    BY <2>1, <2>2
<1>12. ASSUME NEW h \in Handlers, ReadDecided(h)
       PROVE  Sound(k)'
  <2>1. CASE k # h
    BY <2>1, <1>12, <1>0 DEF ReadDecided, RowsAreWhole, Statuses, Dispatch, Closed, Answered, Serving, Local
  <2>2. CASE k = h
    BY <2>2, <1>12, <1>0 DEF ReadDecided, RowsAreWhole, Statuses, Dispatch, Closed, Answered, Serving, Sound
  <2> QED
    BY <2>1, <2>2
<1>13. ASSUME NEW h \in Handlers, ReadNotFound(h)
       PROVE  Sound(k)'
  <2>1. CASE k # h
    BY <2>1, <1>13, <1>0 DEF ReadNotFound, Answered, Local
  <2>2. CASE k = h
    BY <2>2, <1>13, <1>0 DEF ReadNotFound, Answered, Sound
  <2> QED
    BY <2>1, <2>2
<1>14. ASSUME NEW h \in Handlers, LeaveUnconfirmed(h)
       PROVE  Sound(k)'
  <2>1. CASE k # h
    BY <2>1, <1>14, <1>0 DEF LeaveUnconfirmed, Answered, Local
  <2>2. CASE k = h
    BY <2>2, <1>14, <1>0 DEF LeaveUnconfirmed, Answered, Sound
  <2> QED
    BY <2>1, <2>2
<1>15. ASSUME NEW h \in Handlers, RecordExecution(h)
       PROVE  Sound(k)'
  <2>1. CASE k # h
    BY <2>1, <1>15, <1>0 DEF RecordExecution, Answered, Local
  <2>2. CASE k = h
    BY <2>2, <1>15, <1>0 DEF RecordExecution, Answered, Sound
  <2> QED
    BY <2>1, <2>2
<1>16. ASSUME NEW h \in Handlers, Abort(h)
       PROVE  Sound(k)'
  <2>1. CASE k # h
    BY <2>1, <1>16, <1>0 DEF Abort, Answered, Local
  <2>2. CASE k = h
    BY <2>2, <1>16, <1>0 DEF Abort, Answered, Sound
  <2> QED
    BY <2>1, <2>2
<1>17. CASE UNCHANGED vars
  BY <1>17, <1>0 DEF vars, request, Local
<1> QED
  BY <1>1, <1>2, <1>3, <1>4, <1>5, <1>6, <1>7, <1>8, <1>9,
     <1>10, <1>11, <1>12, <1>13, <1>14, <1>15, <1>16, <1>17 DEF Next, Turn, Run, Decide

-----------------------------------------------------------------------------
(* SafetyInv holds of every reachable state, whatever the models do.       *)
THEOREM SafetyHolds == Spec => []SafetyInv
<1>1. SafetyInv /\ [Next]_vars => SafetyInv'
  BY TypePreserved, RowsPreserved, HandlersPreserved
  DEF SafetyInv, Sound, AtWork, ReadsDecided, DriveIsApproved, OpensApart, AnswersName,
      AnswersStayTrue
<1> QED
  BY InitSafe, <1>1, PTL DEF Spec

(* Type correctness. *)
THEOREM TypeCorrect == Spec => []TypeOK
<1>1. SafetyInv => TypeOK
  BY DEF SafetyInv
<1> QED
  BY SafetyHolds, <1>1, PTL

(* An execution turn runs for an approved case, by the human and for the
   payload of the handler's copy of the row. *)
THEOREM DrivesAreApproved == Spec => []DriveIsApproved
<1>1. SafetyInv => DriveIsApproved
  BY DEF SafetyInv
<1> QED
  BY SafetyHolds, <1>1, PTL

(* What a caller was told of a case stays true of it. *)
THEOREM AnswersHold == Spec => []AnswersStayTrue
<1>1. SafetyInv => AnswersStayTrue
  BY DEF SafetyInv
<1> QED
  BY SafetyHolds, <1>1, PTL

(* Whatever models do, a case is recorded as done only on a published report
   with every plain value that was approved; where neither the proposal nor the
   report has anything nested in it, the two are the same. *)
THEOREM ClosingMatches == Spec => []ClosedAsApproved
<1>1. SafetyInv => ClosedAsApproved
  BY DEF SafetyInv
<1> QED
  BY SafetyHolds, <1>1, PTL

(* Two reviewers racing produce one decision, and nothing later changes it. *)
THEOREM DecisionsAreFinal == Spec => DecisionIsFinal
<1> DEFINE Kept == \A p \in ProposalIds :
                     status[p] \notin {"absent", "pending"} =>
                       /\ decided_by'[p] = decided_by[p]
                       /\ proposal'[p] = proposal[p]
                       /\ status'[p] = "rejected" <=> status[p] = "rejected"
<1>1. SafetyInv /\ [Next]_vars => [Kept]_vars
  BY RowSteps DEF RowStep, Row, Opens, Decides, Closes
<1> QED
  BY SafetyHolds, <1>1, PTL DEF Spec, DecisionIsFinal

(* No case leaves a terminal state. *)
THEOREM TerminalsAreFinal == Spec => TerminalIsFinal
<1> DEFINE Kept == \A p \in ProposalIds :
                     status[p] \in {"rejected", "executed", "failed"} => status'[p] = status[p]
<1>1. SafetyInv /\ [Next]_vars => [Kept]_vars
  BY RowSteps DEF RowStep, Row, Opens, Decides, Closes, SafetyInv, RowsAreWhole
<1> QED
  BY SafetyHolds, <1>1, PTL DEF Spec, TerminalIsFinal

(* A cases_run that answers has recorded every proposal of its turn once.  *)
THEOREM RunsRecordTheirTurns == Spec => TurnsAreRecorded
<1>1. ASSUME SafetyInv, [Next]_vars, NEW k \in Handlers
      PROVE  AnswersRecorded(k)
  <2> SUFFICES ASSUME pc[k] = "opening",
                      answer'[k] \in {"awaiting_approval", "completed"}
               PROVE  AnswersRecorded(k)
    BY DEF AnswersRecorded
  <2>1. TypeOK /\ Sound(k) /\ answer[k] = "none"
    BY <1>1, SafetyIsLocal DEF Sound
  <2>2. ToOpen(k) = {}
    <3>1. ASSUME NEW h \in Handlers, Turn(h)
          PROVE  ToOpen(k) = {}
      BY SMTT(30), <1>1, <2>1, <3>1
      DEF Turn, AskSpecialist, SpecialistRuns, LoseCall, Narrate,
          TypeOK, Answered, Serving, request, InTurn, Free
    <3>2. ASSUME NEW h \in Handlers, Run(h)
          PROVE  ToOpen(k) = {}
      BY SMTT(30), <1>1, <2>1, <3>2
      DEF Run, RunTurn, EndRunTurn, OpenCase, FinishRun,
          TypeOK, Answered, Serving, request, InTurn, Free
    <3>3. ASSUME NEW h \in Handlers, Decide(h)
          PROVE  ToOpen(k) = {}
      <4>1. h # k
        BY <3>3 DEF Decide, DecideRecorded, DecideMisses, DecideUnknown, ReadDecided,
                    ReadNotFound, LeaveUnconfirmed, RecordExecution, InTurn, Free
      <4>2. answer'[k] = answer[k]
        BY <2>1, <3>3, <4>1
        DEF Decide, DecideRecorded, DecideMisses, DecideUnknown, ReadDecided, ReadNotFound,
            LeaveUnconfirmed, RecordExecution, Dispatch, Answered, Serving, TypeOK
      <4> QED
        BY <2>1, <4>2
    <3>4. ASSUME NEW h \in Handlers, Abort(h)
          PROVE  ToOpen(k) = {}
      BY SMTT(30), <1>1, <2>1, <3>4
      DEF Abort,
          TypeOK, Answered, Serving, request, InTurn, Free
    <3>5. CASE UNCHANGED vars
      BY <1>1, <2>1, <3>5 DEF vars, request
    <3> QED
      BY <1>1, <3>1, <3>2, <3>3, <3>4, <3>5 DEF Next
  <2> QED
    BY <2>1, <2>2 DEF ToOpen, Sound, AnswersRecorded
<1>2. SafetyInv /\ [Next]_vars =>
        [\A h \in Handlers : AnswersRecorded(h)]_vars
  BY <1>1
<1> QED
  BY SafetyHolds, <1>2, PTL DEF Spec, TurnsAreRecorded

(* A closed case that nothing drives stays so, and takes no effect again.  *)
THEOREM ClosedCasesStayQuiet == Spec => ClosedStaysQuiet
<1> DEFINE Stays(p) == ClosedAndQuiet(p) => ClosedAndQuiet(p)' /\ performed'[p] = performed[p]
<1>1. ASSUME SafetyInv, [Next]_vars, NEW p \in ProposalIds
      PROVE  Stays(p)
  <2> SUFFICES ASSUME ClosedAndQuiet(p)
               PROVE  ClosedAndQuiet(p)' /\ performed'[p] = performed[p]
    OBVIOUS
  <2>0. /\ TypeOK
        /\ \A k \in Handlers : Sound(k)
        /\ status[p] = "executed"
        /\ \A k \in Handlers : ~Driven(k, p)
    BY <1>1, SafetyIsLocal DEF ClosedAndQuiet
  <2>a. status'[p] = "executed"
    BY <1>1, <2>0, RowSteps DEF RowStep, Row, Opens, Decides, Closes
  <2>b. SUFFICES /\ \A k \in Handlers : ~Driven(k, p)'
                 /\ performed'[p] = performed[p]
    BY <2>a DEF ClosedAndQuiet
  <2> USE <2>0, ConstantsAssumption DEF TypeOK, Driven, effects
  <2>1. ASSUME NEW h \in Handlers, NEW r \in Requests(h), AskSpecialist(h, r)
        PROVE  /\ \A k \in Handlers : ~Driven(k, p)'
               /\ performed'[p] = performed[p]
    BY <2>1 DEF AskSpecialist, InTurn, Sound, request
  <2>2. ASSUME NEW h \in Handlers, NEW heard \in BOOLEAN, SpecialistRuns(h, heard)
        PROVE  /\ \A k \in Handlers : ~Driven(k, p)'
               /\ performed'[p] = performed[p]
    BY <2>2 DEF SpecialistRuns, request
  <2>3. ASSUME NEW h \in Handlers, LoseCall(h)
        PROVE  /\ \A k \in Handlers : ~Driven(k, p)'
               /\ performed'[p] = performed[p]
    BY <2>3 DEF LoseCall, request
  <2>4. ASSUME NEW h \in Handlers, Narrate(h)
        PROVE  /\ \A k \in Handlers : ~Driven(k, p)'
               /\ performed'[p] = performed[p]
    BY <2>4 DEF Narrate, InTurn
  <2>5. ASSUME NEW h \in Handlers, RunTurn(h)
        PROVE  /\ \A k \in Handlers : ~Driven(k, p)'
               /\ performed'[p] = performed[p]
    BY <2>5 DEF RunTurn, Free, Serving
  <2>6. ASSUME NEW h \in Handlers, EndRunTurn(h)
        PROVE  /\ \A k \in Handlers : ~Driven(k, p)'
               /\ performed'[p] = performed[p]
    BY <2>6 DEF EndRunTurn
  <2>7. ASSUME NEW h \in Handlers, NEW q \in ProposalIds, OpenCase(h, q)
        PROVE  /\ \A k \in Handlers : ~Driven(k, p)'
               /\ performed'[p] = performed[p]
    BY <2>7 DEF OpenCase, ToOpen
  <2>8. ASSUME NEW h \in Handlers, FinishRun(h)
        PROVE  /\ \A k \in Handlers : ~Driven(k, p)'
               /\ performed'[p] = performed[p]
    BY <2>8 DEF FinishRun, Answered
  <2>9. ASSUME NEW h \in Handlers, NEW q \in ProposalIds, NEW approved \in BOOLEAN,
               NEW who \in Deciders, DecideRecorded(h, q, approved, who)
        PROVE  /\ \A k \in Handlers : ~Driven(k, p)'
               /\ performed'[p] = performed[p]
    BY <2>9 DEF DecideRecorded, Free, Dispatch, Closed, Answered, Serving, Decidable
  <2>10. ASSUME NEW h \in Handlers, NEW q \in ProposalIds, DecideMisses(h, q)
         PROVE  /\ \A k \in Handlers : ~Driven(k, p)'
                /\ performed'[p] = performed[p]
    BY <2>10 DEF DecideMisses, Free, Decidable, Serving
  <2>11. ASSUME NEW h \in Handlers, DecideUnknown(h)
         PROVE  /\ \A k \in Handlers : ~Driven(k, p)'
                /\ performed'[p] = performed[p]
    BY <2>11 DEF DecideUnknown, Free, Serving
  <2>12. ASSUME NEW h \in Handlers, ReadDecided(h)
         PROVE  /\ \A k \in Handlers : ~Driven(k, p)'
                /\ performed'[p] = performed[p]
    BY <2>12 DEF ReadDecided, Dispatch, Closed, Answered, Serving
  <2>13. ASSUME NEW h \in Handlers, ReadNotFound(h)
         PROVE  /\ \A k \in Handlers : ~Driven(k, p)'
                /\ performed'[p] = performed[p]
    BY <2>13 DEF ReadNotFound, Answered
  <2>14. ASSUME NEW h \in Handlers, LeaveUnconfirmed(h)
         PROVE  /\ \A k \in Handlers : ~Driven(k, p)'
                /\ performed'[p] = performed[p]
    BY <2>14 DEF LeaveUnconfirmed, Answered
  <2>15. ASSUME NEW h \in Handlers, RecordExecution(h)
         PROVE  /\ \A k \in Handlers : ~Driven(k, p)'
                /\ performed'[p] = performed[p]
    BY <2>15 DEF RecordExecution, Answered
  <2>16. ASSUME NEW h \in Handlers, Abort(h)
         PROVE  /\ \A k \in Handlers : ~Driven(k, p)'
                /\ performed'[p] = performed[p]
    BY <2>16 DEF Abort, Answered
  <2>17. CASE UNCHANGED vars
    BY <2>17 DEF vars, request
  <2> QED
    BY <1>1, <2>1, <2>2, <2>3, <2>4, <2>5, <2>6, <2>7, <2>8,
       <2>9, <2>10, <2>11, <2>12, <2>13, <2>14, <2>15, <2>16, <2>17 DEF Next, Turn, Run, Decide
<1>2. SafetyInv /\ [Next]_vars => [\A p \in ProposalIds : Stays(p)]_vars
  BY <1>1
<1> QED
  BY SafetyHolds, <1>2, PTL DEF Spec, ClosedStaysQuiet

-----------------------------------------------------------------------------
(* Models that keep to their instructions.                                 *)

(* The gate opens for a name that is not blank, and for no other.          *)
LEMMA GateIsTheName ==
  \A r : /\ IsBlank(r.approved_by) => PublishResult(r).status = "approval_required"
         /\ ~IsBlank(r.approved_by) => PublishResult(r) = Published(r)
         /\ Published(r).status = "published"
BY DEF PublishResult, ProposalOf, Published

(* Only the specialist publishes, and only what a request signed.          *)
LEMMA EffectSteps ==
  ASSUME [Next]_vars
  PROVE  \/ publications' = publications
         \/ \E h \in Handlers : /\ ~IsBlank(call[h].approved_by)
                                /\ publications' = publications \cup {call[h]}
<1>1. ASSUME NEW h \in Handlers, NEW heard \in BOOLEAN, SpecialistRuns(h, heard)
      PROVE  \/ publications' = publications
             \/ /\ ~IsBlank(call[h].approved_by)
                /\ publications' = publications \cup {call[h]}
  BY <1>1, GateIsTheName DEF SpecialistRuns
<1>2. CASE UNCHANGED effects
  BY <1>2 DEF effects
<1> QED
  BY <1>1, <1>2
  DEF Next, Turn, Run, Decide, AskSpecialist, LoseCall, Narrate, RunTurn,
      EndRunTurn, OpenCase, FinishRun, DecideRecorded, DecideMisses, DecideUnknown, ReadDecided,
      ReadNotFound, LeaveUnconfirmed, RecordExecution, Abort, vars

(* A handler asks, is rid of its request, or keeps it and the case it is about. *)
LEMMA CallSteps ==
  ASSUME SafetyInv, [Next]_vars, NEW k \in Handlers
  PROVE  \/ call'[k] = NoCall
         \/ \E r \in Requests(k) : AskSpecialist(k, r)
         \/ call'[k] = call[k] /\ target'[k] = target[k]
         \/ call'[k] = call[k] /\ target[k] \notin ProposalIds
<1>1. TypeOK /\ Sound(k)
  BY SafetyIsLocal
<1>2. CASE call' = call
  <2>1. CASE target'[k] = target[k]
    BY <1>2, <2>1
  <2>2. CASE target'[k] # target[k]
    <3>1. Free(k) \/ FinishRun(k)
      <4>1. ASSUME NEW h \in Handlers, Turn(h)
            PROVE  Free(k) \/ FinishRun(k)
        BY SMTT(30), <1>1, <2>2, <4>1
        DEF Turn, AskSpecialist, SpecialistRuns, LoseCall, Narrate,
            TypeOK, Answered, Serving, request
      <4>2. ASSUME NEW h \in Handlers, Run(h)
            PROVE  Free(k) \/ FinishRun(k)
        BY SMTT(30), <1>1, <2>2, <4>2
        DEF Run, RunTurn, EndRunTurn, OpenCase, FinishRun,
            TypeOK, Answered, Serving, request
      <4>3. ASSUME NEW h \in Handlers, Decide(h)
            PROVE  Free(k) \/ FinishRun(k)
        BY SMTT(30), <1>1, <2>2, <4>3
        DEF Decide, DecideRecorded, DecideMisses, DecideUnknown, ReadDecided,
            ReadNotFound, LeaveUnconfirmed, RecordExecution, Dispatch,
            TypeOK, Answered, Serving, request
      <4>4. ASSUME NEW h \in Handlers, Abort(h)
            PROVE  Free(k) \/ FinishRun(k)
        BY SMTT(30), <1>1, <2>2, <4>4
        DEF Abort,
            TypeOK, Answered, Serving, request
      <4>5. CASE UNCHANGED vars
        BY <1>1, <2>2, <4>5 DEF vars, request
      <4> QED
        BY <4>1, <4>2, <4>3, <4>4, <4>5 DEF Next
    <3> QED
      BY <1>1, <1>2, <3>1, ConstantsAssumption DEF Free, FinishRun, Sound
  <2> QED
    BY <2>1, <2>2
<1>3. CASE call' # call
  <2>1. PICK h \in Handlers : \/ \E r \in Requests(h) : AskSpecialist(h, r)
                              \/ \E heard \in BOOLEAN : SpecialistRuns(h, heard)
                              \/ LoseCall(h)
    BY <1>3
    DEF Next, Turn, Run, Decide, Narrate, RunTurn, EndRunTurn, OpenCase, FinishRun,
        DecideRecorded, DecideMisses, DecideUnknown, ReadDecided, ReadNotFound,
        LeaveUnconfirmed, RecordExecution, Abort, vars
  <2>2. CASE h = k
    BY <1>1, <2>1, <2>2 DEF TypeOK, SpecialistRuns, LoseCall
  <2>3. CASE h # k
    BY <1>1, <2>1, <2>3 DEF TypeOK, AskSpecialist, SpecialistRuns, LoseCall, request
  <2> QED
    BY <2>2, <2>3
<1> QED
  BY <1>2, <1>3

(* A request that opens the gate is told by the case of its handler, and goes on
   being about it until the specialist runs it, even if the handler is gone. *)
LEMMA SigningPreserved ==
  Obedient /\ SafetyInv /\ SigningCallsAreTold /\ [Next]_vars => SigningCallsAreTold'
<1> SUFFICES ASSUME Obedient, SafetyInv, SigningCallsAreTold, [Next]_vars, NEW k \in Handlers,
                    ~IsBlank(call'[k].approved_by)
             PROVE  /\ target'[k] \in ProposalIds
                    /\ status'[target'[k]] \in {"approved", "executed"}
                    /\ call'[k] = [payload |-> proposal'[target'[k]],
                                   approved_by |-> Credit(decided_by'[target'[k]])]
  BY DEF SigningCallsAreTold, IsBlank
<1>1. call'[k] # NoCall
  BY DEF NoCall, IsBlank
<1>2. CASE \E r \in Requests(k) : AskSpecialist(k, r)
  <2>1. PICK r \in Requests(k) : AskSpecialist(k, r)
    BY <1>2
  <2>2. TypeOK /\ DriveIsApproved
    BY DEF SafetyInv
  <2>3. call'[k] = r /\ UNCHANGED <<status, proposal, decided_by, target>>
    BY <2>1, <2>2 DEF AskSpecialist, TypeOK, table, request
  <2>4. r \in Told(k) /\ pc[k] \in {"running", "executing"}
    BY <2>1 DEF Requests, Obedient, AskSpecialist, InTurn
  <2>5. pc[k] = "executing" /\ r = AsTold(k)
    BY <2>3, <2>4 DEF Told, AsTold, IsBlank
  <2>6. /\ target[k] \in ProposalIds
        /\ status[target[k]] \in {"approved", "executed"}
        /\ case[k] = [payload |-> proposal[target[k]], decided_by |-> decided_by[target[k]]]
    BY <2>2, <2>5 DEF DriveIsApproved
  <2>7. AsTold(k) = [payload |-> proposal[target[k]],
                     approved_by |-> Credit(decided_by[target[k]])]
    BY <2>6 DEF AsTold
  <2> QED
    BY <2>3, <2>5, <2>6, <2>7
<1>3. CASE call'[k] = call[k] /\ target'[k] = target[k]
  BY ZenonT(120), <1>3, RowSteps DEF SigningCallsAreTold, RowStep, Row, Opens, Decides, Closes
<1>4. CASE call'[k] = call[k] /\ target[k] \notin ProposalIds
  BY <1>4 DEF SigningCallsAreTold
<1> QED
  BY <1>1, <1>2, <1>3, <1>4, CallSteps

(* Texts gain a confirmation only from the specialist or from a quotation of it. *)
LEMMA ConfirmationsPreserved ==
  Obedient /\ SafetyInv /\ ConfirmationsAreReal /\ [Next]_vars => ConfirmationsAreReal'
<1> SUFFICES ASSUME Obedient, SafetyInv, ConfirmationsAreReal, [Next]_vars,
                    NEW k \in Handlers, NEW t \in texts'[k], t.status = "published"
             PROVE  \E r \in publications' : t = Published(r)
  BY DEF ConfirmationsAreReal
<1>1. TypeOK
  BY DEF SafetyInv
<1>2. publications \subseteq publications'
  BY EffectSteps
<1>3. CASE t \in texts[k]
  BY <1>2, <1>3 DEF ConfirmationsAreReal
<1>4. ASSUME NEW h \in Handlers, NEW heard \in BOOLEAN, SpecialistRuns(h, heard),
             t \notin texts[k]
      PROVE  \E r \in publications' : t = Published(r)
  <2>1. t = PublishResult(call[h])
    BY <1>1, <1>4 DEF SpecialistRuns, TypeOK
  <2>2. t = Published(call[h]) /\ PublishResult(call[h]).status = "published"
    BY <2>1, GateIsTheName
  <2>3. call[h] \in publications'
    BY <1>4, <2>2 DEF SpecialistRuns
  <2> QED
    BY <2>2, <2>3
<1>5. ASSUME NEW h \in Handlers, Narrate(h), t \notin texts[k]
      PROVE  \E r \in publications' : t = Published(r)
  <2>1. t \in Quotable
    BY <1>1, <1>5 DEF Narrate, TypeOK
  <2>2. ~ \E a : t = ProposalOf(a)
    BY DEF ProposalOf
  <2> QED
    BY <1>2, <2>1, <2>2 DEF Quotable, Obedient
<1> QED
  BY <1>1, <1>3, <1>4, <1>5
  DEF TypeOK, Next, Turn, Run, Decide, AskSpecialist, LoseCall, RunTurn,
      EndRunTurn, OpenCase, FinishRun, DecideRecorded, DecideMisses, DecideUnknown, ReadDecided,
      ReadNotFound, LeaveUnconfirmed, RecordExecution, Abort, Dispatch, Answered, Serving,
      vars, request

(* A publication is that of a request that was told by an approved case, and the
   case stays approved. *)
LEMMA PublishedPreserved ==
  SafetyInv /\ SigningCallsAreTold /\ OnlyApprovedIsPublished /\ [Next]_vars
    => OnlyApprovedIsPublished'
<1> SUFFICES ASSUME SafetyInv, SigningCallsAreTold, OnlyApprovedIsPublished, [Next]_vars,
                    NEW r \in publications'
             PROVE  \E p \in ProposalIds :
                      /\ status'[p] \in {"approved", "executed"}
                      /\ r = [payload |-> proposal'[p],
                              approved_by |-> Credit(decided_by'[p])]
  BY DEF OnlyApprovedIsPublished
<1>1. PICK p \in ProposalIds :
        /\ status[p] \in {"approved", "executed"}
        /\ r = [payload |-> proposal[p], approved_by |-> Credit(decided_by[p])]
  <2>1. CASE r \in publications
    BY <2>1 DEF OnlyApprovedIsPublished
  <2>2. CASE r \notin publications
    <3>1. PICK h \in Handlers : ~IsBlank(call[h].approved_by) /\ r = call[h]
      BY <2>2, EffectSteps
    <3> QED
      BY <3>1 DEF SigningCallsAreTold
  <2> QED
    BY <2>1, <2>2
<1> QED
  BY <1>1, RowSteps DEF RowStep, Row, Opens, Decides, Closes

(* record_execution stores a confirmation, which is of a publication. *)
LEMMA ResultsPreserved ==
  SafetyInv /\ ConfirmationsAreReal /\ ExecutedWasPublished /\ [Next]_vars
    => ExecutedWasPublished'
<1> SUFFICES ASSUME SafetyInv, ConfirmationsAreReal, ExecutedWasPublished, [Next]_vars,
                    NEW p \in ProposalIds, status'[p] = "executed"
             PROVE  \E r \in publications' : result'[p] = Published(r)
  BY DEF ExecutedWasPublished
<1>1. TypeOK /\ publications \subseteq publications'
  BY EffectSteps DEF SafetyInv
<1>2. CASE status[p] = "executed" /\ result'[p] = result[p]
  BY <1>1, <1>2 DEF ExecutedWasPublished
<1>3. ASSUME NEW h \in Handlers, RecordExecution(h), result'[p] # result[p]
      PROVE  \E r \in publications' : result'[p] = Published(r)
  BY <1>1, <1>3 DEF RecordExecution, FindExecution, ConfirmationsAreReal, TypeOK
<1>4. CASE Closes(p) /\ status[p] # "executed"
  <2>1. PICK h \in Handlers : RecordExecution(h) /\ target[h] = p
    BY ZenonT(40), <1>1, <1>4
    DEF Closes, TypeOK, Next, Turn, Run, Decide, AskSpecialist, SpecialistRuns, LoseCall,
        Narrate, RunTurn, EndRunTurn, OpenCase, FinishRun, DecideRecorded, Decidable,
        DecideMisses, DecideUnknown, ReadDecided, ReadNotFound, LeaveUnconfirmed,
        RecordExecution, Abort, vars, table
  <2> QED
    BY <1>1, <2>1 DEF RecordExecution, FindExecution, ConfirmationsAreReal, TypeOK
<1>5. CASE status[p] = "executed" /\ result'[p] # result[p]
  <2>1. PICK h \in Handlers : RecordExecution(h)
    BY <1>1, <1>5
    DEF TypeOK, Next, Turn, Run, Decide, AskSpecialist, SpecialistRuns, LoseCall,
        Narrate, RunTurn, EndRunTurn, OpenCase, FinishRun, DecideRecorded,
        DecideMisses, DecideUnknown, ReadDecided, ReadNotFound, LeaveUnconfirmed,
        Abort, vars, table
  <2> QED
    BY <1>3, <1>5, <2>1
<1> QED
  BY <1>2, <1>4, <1>5, RowSteps DEF RowStep, Row, Opens, Decides

(* The inductive invariant, with the part that depends on obedience.       *)
THEOREM Inductive == Spec => []IInv
<1>1. Init => ObedientInv
  BY DEF Init, ObedientInv, SigningCallsAreTold, ConfirmationsAreReal,
         OnlyApprovedIsPublished, ExecutedWasPublished, NoCall, IsBlank
<1>2. Obedient /\ SafetyInv /\ ObedientInv /\ [Next]_vars => ObedientInv'
  BY SigningPreserved, ConfirmationsPreserved, PublishedPreserved, ResultsPreserved
  DEF ObedientInv
<1>3. Init => IInv
  BY <1>1, InitSafe DEF IInv
<1>4. SafetyInv /\ SafetyInv' /\ IInv /\ [Next]_vars => IInv'
  BY <1>2 DEF IInv, Obedient
<1> QED
  BY <1>3, <1>4, SafetyHolds, PTL DEF Spec

(* Only approved actions are published, in the approver's name.            *)
THEOREM NothingElseIsPublished ==
  ASSUME Obedient
  PROVE  Spec => []OnlyApprovedIsPublished
<1>1. IInv => OnlyApprovedIsPublished
  BY DEF IInv, ObedientInv
<1> QED
  BY <1>1, Inductive, PTL

(* A closed case holds a record that the specialist has.                   *)
THEOREM ExecutionsHappened ==
  ASSUME Obedient
  PROVE  Spec => []ExecutedWasPublished
<1>1. IInv => ExecutedWasPublished
  BY DEF IInv, ObedientInv
<1> QED
  BY <1>1, Inductive, PTL

-----------------------------------------------------------------------------
(* The handlers and the store implement the life cycle: an insert proposes, *)
(* the conditional UPDATE decides, the specialist performs, and             *)
(* record_execution closes, or stutters on a case that is closed already.   *)
LEMMA StepsAreLifecycleSteps ==
  ASSUME Obedient, IInv, [Next]_vars
  PROVE  [Lifecycle!Next]_(Lifecycle!lifecycle)
<1> DEFINE Kept == UNCHANGED <<status, proposal, decided_by, publications>>
<1>0. TypeOK /\ DriveIsApproved /\ RowsAreWhole /\ ConfirmationsAreReal /\ SigningCallsAreTold
  BY DEF IInv, SafetyInv, ObedientInv
<1>1. ASSUME NEW h \in Handlers, NEW p \in ProposalIds, OpenCase(h, p)
      PROVE  Lifecycle!Next
  <2>1. PICK payload \in ToOpen(h) : proposal' = [proposal EXCEPT ![p] = payload]
    BY <1>1 DEF OpenCase
  <2>2. payload \in Payloads
    BY <1>0, <2>1, ReplyFields DEF ToOpen, FindProposals, TypeOK
  <2>3. Lifecycle!Propose(p, payload)
    BY <1>1, <2>1 DEF OpenCase, effects, Lifecycle!Propose
  <2> QED
    BY <2>2, <2>3 DEF Lifecycle!Next
<1>2. ASSUME NEW h \in Handlers, NEW p \in ProposalIds, NEW approved \in BOOLEAN,
             NEW who \in Deciders, DecideRecorded(h, p, approved, who)
      PROVE  Lifecycle!Next
  <2>1. PICK verdict \in {"approved", "rejected"} : Lifecycle!Decide(p, verdict, who)
    BY <1>2 DEF DecideRecorded, Decidable, effects, Lifecycle!Decide
  <2> QED
    BY <2>1 DEF Lifecycle!Next
<1>3. ASSUME NEW h \in Handlers, RecordExecution(h)
      PROVE  Lifecycle!Next \/ Kept
  <2> DEFINE p == target[h]
  <2>0. pc[h] = "executing"
    BY <1>3 DEF RecordExecution
  <2>1. /\ p \in ProposalIds
        /\ status[p] \in {"approved", "executed"}
        /\ case[h] = [payload |-> proposal[p], decided_by |-> decided_by[p]]
    BY <1>0, <2>0 DEF DriveIsApproved
  <2>2. CASE status[p] = "executed"
    BY <1>0, <1>3, <2>1, <2>2 DEF RecordExecution, TypeOK, effects
  <2>3. CASE status[p] = "approved"
    <3>1. PICK t \in texts[h] : /\ t.status = "published"
                                /\ Wanted(proposal[p]) \subseteq t.payload
      BY <1>3, <2>1 DEF RecordExecution, FindExecution
    <3>2. PICK r \in publications : t = Published(r)
      BY <1>0, <3>1 DEF ConfirmationsAreReal
    <3>3. r.payload = proposal[p]
      <4>1. r.payload \in Publishable /\ t.payload = r.payload
        BY <1>0, <3>2 DEF TypeOK, Request, Published
      <4>2. proposal[p] \in Publishable
        BY <1>0, <2>1, <2>3, ConstantsAssumption DEF RowsAreWhole, Obedient
      <4> QED
        BY <3>1, <4>1, <4>2, ScalarsTellApart
    <3>4. Lifecycle!Close(p)
      BY <1>3, <2>3, <3>3 DEF RecordExecution, effects, Lifecycle!Close
    <3> QED
      BY <2>1, <3>4 DEF Lifecycle!Next
  <2> QED
    BY <2>1, <2>2, <2>3
<1>4. ASSUME NEW h \in Handlers, NEW heard \in BOOLEAN, SpecialistRuns(h, heard)
      PROVE  Lifecycle!Next \/ Kept
  <2>1. CASE IsBlank(call[h].approved_by)
    BY <1>4, <2>1, GateIsTheName DEF SpecialistRuns, table
  <2>2. CASE ~IsBlank(call[h].approved_by)
    <3> DEFINE p == target[h]
    <3>1. /\ p \in ProposalIds
          /\ status[p] \in {"approved", "executed"}
          /\ call[h] = [payload |-> proposal[p], approved_by |-> Credit(decided_by[p])]
      BY <1>0, <2>2 DEF SigningCallsAreTold
    <3>2. publications' = publications \cup {call[h]}
      BY <1>4, <2>2, GateIsTheName DEF SpecialistRuns
    <3>3. Signs(Credit(decided_by[p]))
      BY <2>2, <3>1 DEF Signs
    <3>4. Lifecycle!Perform(p)
      BY <1>4, <3>1, <3>2, <3>3 DEF SpecialistRuns, table, Lifecycle!Perform, Lifecycle!Effect
    <3> QED
      BY <3>1, <3>4 DEF Lifecycle!Next
  <2> QED
    BY <2>1, <2>2
<1>5. ASSUME UNCHANGED <<table, effects>>
      PROVE  Kept
  BY <1>5 DEF table, effects
<1>6. \/ Lifecycle!Next
      \/ Kept
  BY <1>1, <1>2, <1>3, <1>4, <1>5
  DEF Next, Turn, Run, Decide, AskSpecialist, LoseCall, Narrate, RunTurn, EndRunTurn,
      FinishRun, DecideMisses, DecideUnknown, ReadDecided, ReadNotFound,
      LeaveUnconfirmed, Abort, vars, table, effects
<1> QED
  BY <1>6 DEF Lifecycle!lifecycle

(* The approval flow does what ApprovalLifecycle promises.                 *)
THEOREM Refinement ==
  ASSUME Obedient
  PROVE  Spec => ImplementsLifecycle
<1>1. Init => Lifecycle!Init
  BY DEF Init, Lifecycle!Init
<1>2. IInv /\ [Next]_vars => [Lifecycle!Next]_(Lifecycle!lifecycle)
  BY StepsAreLifecycleSteps
<1> QED
  BY <1>1, <1>2, Inductive, PTL DEF Spec, ImplementsLifecycle, Lifecycle!Spec
=============================================================================
