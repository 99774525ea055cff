--------------------------- MODULE ApprovalCases ---------------------------
(***************************************************************************)
(* The approval flow of app/fast_api_app.py over app/cluster/cases.py: the *)
(* handlers of POST /cases/run and POST /cases/{proposal_id}, the          *)
(* approval_cases table they share, and the gated function of the math     *)
(* specialist (app/agents/math/tools.py) that the turns they drive reach   *)
(* through two language models and an A2A hop.                             *)
(*                                                                         *)
(* A handler is one HTTP request being served, on any replica: replicas    *)
(* share nothing but the table, so which one serves a request makes no     *)
(* difference. One step is one database statement, one message to or from  *)
(* the specialist, or one end of a turn; everything else interleaves.      *)
(*                                                                         *)
(* The models are nondeterministic: a turn asks the specialist whatever    *)
(* Requests allows, repeats what it has seen, and ends when it likes.      *)
(*                                                                         *)
(* Definitions marked MUTANT are plausible mistakes in the operator that   *)
(* follows them. The specification does not use them: they stand in for    *)
(* that operator to show that a property would notice the mistake.         *)
(***************************************************************************)
EXTENDS Naturals, FiniteSets

CONSTANTS
  Handlers,       \* requests served at the same time, over all replicas
  ProposalIds,    \* the ids new_proposal_id() mints; bounds the cases
  UnknownId,      \* an id no case ever has
  Payloads,       \* proposals and results, each the set of its fields with their values
  Scalars,        \* the fields whose value is a string, a number or a boolean
  NoPayload,      \* the proposal of a row that does not exist
  Deciders,       \* values of decided_by that callers send
  BlankNames,     \* names other than "" that str.strip() leaves empty
  MaxPerformed,   \* where the counter performed stops counting
  MaxTexts,       \* bounds the distinct results in the texts of one turn
  LooseRequests,  \* may a model send requests it was not told to send?
  Fabricates,     \* may a model narrate results that no tool returned?
  Faulty          \* may calls, replies and handlers be lost?

NoName == ""
Approvers == Deciders \cup BlankNames \cup {NoName, "unknown"}

(* What publish_result can be called with: a value and a label, both scalars. *)
Publishable == {a \in Payloads : a \subseteq Scalars}

(* publish_result reports all its fields, each time; only a model that makes
   up its results reports a payload with anything nested in it. *)
ASSUME ConstantsAssumption ==
  /\ UnknownId \notin ProposalIds
  /\ \A a, b \in Publishable : a \subseteq b => a = b
  /\ Fabricates \/ Payloads = Publishable
  /\ NoPayload \notin Payloads
  /\ BlankNames \cap {NoName, "unknown"} = {}
  /\ MaxPerformed \in Nat \ {0}
  /\ MaxTexts \in Nat \ {0}
  /\ {LooseRequests, Fabricates, Faulty} \subseteq BOOLEAN

VARIABLES
  status,         \* column: "absent" (no row), or one of Statuses
  proposal,       \* column: what would be published
  decided_by,     \* column: who decided
  result,         \* column: what the specialist returned
  publications,   \* the specialist's PUBLICATIONS, as the set of its records
  performed,      \* history: how often a drive of the case published its payload
  pc,             \* where each handler is
  target,         \* the case a handler was asked to decide
  case,           \* the handler's local copy of that case, as the store returned it
  texts,          \* the results the turn's texts hold so far (TurnResult.texts)
  call,           \* the request to the specialist that is in flight
  opened,         \* the cases this request opened
  answer          \* what the handler last answered

table   == <<status, proposal, decided_by, result>>
effects == <<publications, performed>>
request == <<pc, target, case, texts, opened, answer>>
vars    == <<table, effects, request, call>>

Statuses == {"pending", "approved", "rejected", "executed", "failed"}

Request == [payload : Publishable, approved_by : Approvers]
NoCall  == [payload |-> NoPayload, approved_by |-> NoName]

Published(r) == [status |-> "published", payload |-> r.payload,
                 approved_by |-> r.approved_by]

ProposalOf(payload) == [status |-> "approval_required", payload |-> payload,
                        approved_by |-> NoName]

Reply == [status : {"published"}, payload : Payloads, approved_by : Approvers]
           \cup {ProposalOf(a) : a \in Payloads}
NoReply == [status |-> "none", payload |-> NoPayload, approved_by |-> NoName]

NoCase == [payload |-> NoPayload, decided_by |-> NoName]

Answers == {"none", "awaiting_approval", "completed", "not_found", "rejected",
            "already_executed", "approved_not_confirmed", "executed", "lost"}

TypeOK ==
  /\ status \in [ProposalIds -> Statuses \cup {"absent"}]
  /\ proposal \in [ProposalIds -> Payloads \cup {NoPayload}]
  /\ decided_by \in [ProposalIds -> Deciders \cup {NoName}]
  /\ result \in [ProposalIds -> Reply \cup {NoReply}]
  /\ publications \subseteq Request
  /\ performed \in [ProposalIds -> 0..MaxPerformed]
  /\ pc \in [Handlers -> {"idle", "running", "opening", "reading", "executing"}]
  /\ target \in [Handlers -> ProposalIds \cup {UnknownId}]
  /\ case \in [Handlers -> [payload : Payloads \cup {NoPayload},
                            decided_by : Deciders \cup {NoName}]]
  /\ texts \in [Handlers -> SUBSET Reply]
  /\ call \in [Handlers -> Request \cup {NoCall}]
  /\ opened \in [Handlers -> SUBSET ProposalIds]
  /\ answer \in [Handlers -> Answers]

Init ==
  /\ status = [p \in ProposalIds |-> "absent"]
  /\ proposal = [p \in ProposalIds |-> NoPayload]
  /\ decided_by = [p \in ProposalIds |-> NoName]
  /\ result = [p \in ProposalIds |-> NoReply]
  /\ publications = {}
  /\ performed = [p \in ProposalIds |-> 0]
  /\ pc = [h \in Handlers |-> "idle"]
  /\ target = [h \in Handlers |-> UnknownId]
  /\ case = [h \in Handlers |-> NoCase]
  /\ texts = [h \in Handlers |-> {}]
  /\ call = [h \in Handlers |-> NoCall]
  /\ opened = [h \in Handlers |-> {}]
  /\ answer = [h \in Handlers |-> "none"]

-----------------------------------------------------------------------------
(* The specialist: publish_result, one function with two behaviours.       *)

IsBlank(name) == name \in BlankNames \cup {NoName}

(* MUTANT: the gate does not look at approved_by. *)
PublishUngated(r) == Published(r)

PublishResult(r) ==
  IF IsBlank(r.approved_by) THEN ProposalOf(r.payload) ELSE Published(r)

(* What the serving agent reads back off the wire.                         *)

(* MUTANT: the whole reply is taken for the proposal. *)
FindProposalReplies(found) == {u \in found : u.status = "approval_required"}

FindProposals(found) ==
  {t.payload : t \in {u \in found : u.status = "approval_required"}}

(* MUTANT: the content of the confirmation is not compared. *)
FindAnyPublished(found, payload) == {t \in found : t.status = "published"}

(* MUTANT: a proposal counts as a confirmation. *)
FindAnyReply(found, payload) == {t \in found : t.payload = payload}

(* The fields of a payload that find_execution compares: the nested ones are
   not looked at. *)
Wanted(payload) == payload \cap Scalars

(* The results that confirm a payload: they report what is wanted, and may
   report anything besides. *)
FindExecution(found, payload) ==
  {t \in found : t.status = "published" /\ Wanted(payload) \subseteq t.payload}

(* execution_instruction names the approver, or "unknown".                 *)
Credit(name) == IF name = NoName THEN "unknown" ELSE name

AsTold(h) == [payload |-> case[h].payload,
              approved_by |-> Credit(case[h].decided_by)]

(***************************************************************************)
(* What a turn may ask the specialist for. A model that keeps to its       *)
(* instructions proposes in a conversation, and in an execution turn sends *)
(* the approved request, with the approver or (forgetting it) without; it  *)
(* does not ask again for an answer it has.                                *)
(***************************************************************************)
Told(h) ==
  IF pc[h] = "running" THEN [payload : Publishable, approved_by : {NoName}]
  ELSE Request \cap {AsTold(h), [AsTold(h) EXCEPT !.approved_by = NoName]}

Requests(h) ==
  IF LooseRequests THEN Request
  ELSE {r \in Told(h) : PublishResult(r) \notin texts[h]}

(* What a model may write into its own narration: results it has seen.     *)
Quotable ==
  IF Fabricates THEN Reply
  ELSE {Published(r) : r \in publications}
         \cup {ProposalOf(proposal[p]) : p \in {q \in ProposalIds : status[q] # "absent"}}

InTurn(h) == pc[h] \in {"running", "executing"}

(* A turn can end once the specialist has answered, or has been given up on. *)
TurnOver(h) == Faulty \/ call[h] = NoCall

(* A handler is free for a new request when it serves none and no request it
   gave up on is still on its way to the specialist. *)
Free(h) == pc[h] = "idle" /\ call[h] = NoCall

(* The request h served, about case p, ends with the answer a. *)
Answered(h, p, a) ==
  /\ pc' = [pc EXCEPT ![h] = "idle"]
  /\ target' = [target EXCEPT ![h] = p]
  /\ answer' = [answer EXCEPT ![h] = a]
  /\ case' = [case EXCEPT ![h] = NoCase]
  /\ texts' = [texts EXCEPT ![h] = {}]
  /\ opened' = [opened EXCEPT ![h] = {}]

(* The request h serves, about case p, goes on at the step called next. *)
Serving(h, next, p, copy) ==
  /\ pc' = [pc EXCEPT ![h] = next]
  /\ target' = [target EXCEPT ![h] = p]
  /\ case' = [case EXCEPT ![h] = copy]
  /\ answer' = [answer EXCEPT ![h] = "none"]
  /\ UNCHANGED <<texts, opened>>

-----------------------------------------------------------------------------
(* The turn, common to both routes: _run_turn.                             *)

AskSpecialist(h, r) ==
  /\ InTurn(h)
  /\ call[h] = NoCall
  /\ Cardinality(texts[h]) < MaxTexts
  /\ call' = [call EXCEPT ![h] = r]
  /\ UNCHANGED <<table, effects, request>>

Bump(n) == IF n < MaxPerformed THEN n + 1 ELSE n

(* The specialist runs publish_result; the reply reaches the turn, or does
   not. A handler that has ended or died hears nothing, and the effect still
   happens. *)
SpecialistRuns(h, heard) ==
  LET reply == PublishResult(call[h])
      effect == reply.status = "published"
  IN
  /\ call[h] # NoCall
  /\ heard \/ Faulty
  /\ call' = [call EXCEPT ![h] = NoCall]
  /\ publications' = publications \cup (IF effect THEN {call[h]} ELSE {})
  /\ performed' = [p \in ProposalIds |->
                     IF effect /\ target[h] = p /\ proposal[p] = reply.payload
                     THEN Bump(performed[p]) ELSE performed[p]]
  /\ texts' = IF heard /\ InTurn(h)
              THEN [texts EXCEPT ![h] = @ \cup {reply}] ELSE texts
  /\ UNCHANGED <<table, pc, target, case, opened, answer>>

(* The request never reaches the specialist. *)
LoseCall(h) ==
  /\ Faulty
  /\ call[h] # NoCall
  /\ call' = [call EXCEPT ![h] = NoCall]
  /\ UNCHANGED <<table, effects, request>>

(* A model repeats a result in its own words. *)
Narrate(h) ==
  /\ InTurn(h)
  /\ Cardinality(texts[h]) < MaxTexts
  /\ \E t \in Quotable : texts' = [texts EXCEPT ![h] = @ \cup {t}]
  /\ UNCHANGED <<table, effects, call, pc, target, case, opened, answer>>

-----------------------------------------------------------------------------
(* POST /cases/run                                                         *)

RunTurn(h) ==
  /\ Free(h)
  /\ Serving(h, "running", UnknownId, NoCase)
  /\ UNCHANGED <<table, effects, call>>

EndRunTurn(h) ==
  /\ pc[h] = "running"
  /\ TurnOver(h)
  /\ pc' = [pc EXCEPT ![h] = "opening"]
  /\ UNCHANGED <<table, effects, call, target, case, texts, opened, answer>>

(* MUTANT: the loop stops at the first proposal. *)
ToOpenFirst(h) == IF opened[h] = {} THEN FindProposals(texts[h]) ELSE {}

(* The proposals the loop over find_proposals has not come to yet. *)
ToOpen(h) == FindProposals(texts[h]) \ {proposal[p] : p \in opened[h]}

(* One iteration: case_from_proposal mints an id, store.open inserts the row. *)
OpenCase(h, p) ==
  /\ pc[h] = "opening"
  /\ status[p] = "absent"
  /\ \E payload \in ToOpen(h) : proposal' = [proposal EXCEPT ![p] = payload]
  /\ status' = [status EXCEPT ![p] = "pending"]
  /\ opened' = [opened EXCEPT ![h] = @ \cup {p}]
  /\ UNCHANGED <<decided_by, result, effects, call, pc, target, case, texts, answer>>

FinishRun(h) ==
  /\ pc[h] = "opening"
  /\ ToOpen(h) = {}
  /\ Answered(h, UnknownId, IF opened[h] # {} THEN "awaiting_approval" ELSE "completed")
  /\ UNCHANGED <<table, effects, call>>

-----------------------------------------------------------------------------
(* POST /cases/{proposal_id}                                               *)

(* MUTANT: the UPDATE has no condition on the status. *)
DecidableAgain(p) == status[p] # "absent"

(* The row the conditional UPDATE of store.decide touches. *)
Decidable(p) == status[p] = "pending"

(* MUTANT: an executed case is not recognised as closed. *)
ClosedIfFailed(s) == s = "failed"

(* MUTANT: every decided case counts as closed. *)
ClosedIfDecided(s) == s \in {"approved", "executed", "failed"}

(* The action already ran: it is reported instead of repeated. *)
Closed(s) == s \in {"executed", "failed"}

(* MUTANT: a rejected case is not told from an approved one. *)
DispatchRejected(h, p, s, copy) ==
  IF Closed(s) THEN Answered(h, p, "already_executed")
  ELSE Serving(h, "executing", p, copy)

(* What the handler does with the case that store.decide gave it. *)
Dispatch(h, p, s, copy) ==
  \/ /\ s = "rejected"
     /\ Answered(h, p, "rejected")
  \/ /\ Closed(s)
     /\ Answered(h, p, "already_executed")
  \/ /\ s # "rejected" /\ ~Closed(s)
     /\ Serving(h, "executing", p, copy)

(* A caller decides a case; the UPDATE finds it pending and returns the row. *)
DecideRecorded(h, p, approved, who) ==
  LET decision == IF approved THEN "approved" ELSE "rejected" IN
  /\ Free(h)
  /\ Decidable(p)
  /\ status' = [status EXCEPT ![p] = decision]
  /\ decided_by' = [decided_by EXCEPT ![p] = who]
  /\ Dispatch(h, p, decision, [payload |-> proposal[p], decided_by |-> who])
  /\ UNCHANGED <<proposal, result, effects, call>>

(* The UPDATE finds the case, decided. Callers know only the ids of cases that
   exist (and, below, ids that never will): an id is told when its row is in. *)
DecideMisses(h, p) ==
  /\ Free(h)
  /\ status[p] # "absent"
  /\ ~Decidable(p)
  /\ Serving(h, "reading", p, NoCase)
  /\ UNCHANGED <<table, effects, call>>

DecideUnknown(h) ==
  /\ Free(h)
  /\ Serving(h, "reading", UnknownId, NoCase)
  /\ UNCHANGED <<table, effects, call>>

(* The SELECT that follows in the same transaction sees the row as it is by now. *)
ReadDecided(h) ==
  LET p == target[h] IN
  /\ pc[h] = "reading"
  /\ p # UnknownId
  /\ Dispatch(h, p, status[p], [payload |-> proposal[p], decided_by |-> decided_by[p]])
  /\ UNCHANGED <<table, effects, call>>

ReadNotFound(h) ==
  /\ pc[h] = "reading"
  /\ target[h] = UnknownId
  /\ Answered(h, UnknownId, "not_found")
  /\ UNCHANGED <<table, effects, call>>

(* The execution turn ends and nothing in it confirms the approved action. *)
LeaveUnconfirmed(h) ==
  /\ pc[h] = "executing"
  /\ TurnOver(h)
  /\ FindExecution(texts[h], case[h].payload) = {}
  /\ Answered(h, target[h], "approved_not_confirmed")
  /\ UNCHANGED <<table, effects, call>>

(* The execution turn ends confirmed; store.record_execution closes the case,
   whatever the row holds by now. *)
RecordExecution(h) ==
  LET p == target[h] IN
  /\ pc[h] = "executing"
  /\ TurnOver(h)
  /\ \E performedResult \in FindExecution(texts[h], case[h].payload) :
       result' = [result EXCEPT ![p] = performedResult]
  /\ status' = [status EXCEPT ![p] = "executed"]
  /\ Answered(h, p, "executed")
  /\ UNCHANGED <<proposal, decided_by, effects, call>>

-----------------------------------------------------------------------------
(* All ids are in use: the bound on cases, where OpenCase cannot go on. *)
IdsExhausted(h) ==
  /\ pc[h] = "opening"
  /\ ToOpen(h) # {}
  /\ \A p \in ProposalIds : status[p] # "absent"

(* A handler ends without an answer: its pod dies, a model or the database
   raises, a stale session is refused. What it asked of the specialist is
   still on its way. *)
Abort(h) ==
  /\ pc[h] # "idle"
  /\ Faulty \/ IdsExhausted(h)
  /\ Answered(h, target[h], "lost")
  /\ UNCHANGED <<table, effects, call>>

Turn(h) ==
  \/ \E r \in Requests(h) : AskSpecialist(h, r)
  \/ \E heard \in BOOLEAN : SpecialistRuns(h, heard)
  \/ LoseCall(h)
  \/ Narrate(h)

Run(h) ==
  \/ RunTurn(h)
  \/ EndRunTurn(h)
  \/ \E p \in ProposalIds : OpenCase(h, p)
  \/ FinishRun(h)

Decide(h) ==
  \/ \E p \in ProposalIds, approved \in BOOLEAN, who \in Deciders :
       DecideRecorded(h, p, approved, who)
  \/ \E p \in ProposalIds : DecideMisses(h, p)
  \/ DecideUnknown(h)
  \/ ReadDecided(h)
  \/ ReadNotFound(h)
  \/ LeaveUnconfirmed(h)
  \/ RecordExecution(h)

Next == \E h \in Handlers : Turn(h) \/ Run(h) \/ Decide(h) \/ Abort(h)

Spec == Init /\ [][Next]_vars

(***************************************************************************)
(* Fairness. Handlers that can go on do (the event loop schedules them).   *)
(* For every case that is approved, callers keep calling the endpoint, and *)
(* the models, the network and the pods do, again and again, what the case *)
(* needs: read it, send the approved request, deliver the reply, end the   *)
(* turn and record it.                                                     *)
(***************************************************************************)
Drives(h, p) == pc[h] = "executing" /\ target[h] = p

Fairness ==
  /\ \A p \in ProposalIds :
       /\ SF_vars(\E h \in Handlers : DecideMisses(h, p))
       /\ SF_vars(\E h \in Handlers : target[h] = p /\ ReadDecided(h))
       /\ SF_vars(\E h \in Handlers : /\ Drives(h, p)
                                      /\ AsTold(h) \in Requests(h)
                                      /\ AskSpecialist(h, AsTold(h)))
       /\ SF_vars(\E h \in Handlers : /\ Drives(h, p)
                                      /\ call[h] = AsTold(h)
                                      /\ SpecialistRuns(h, TRUE))
       /\ SF_vars(\E h \in Handlers : Drives(h, p) /\ RecordExecution(h))
  /\ \A h \in Handlers :
       /\ WF_vars(ReadNotFound(h))
       /\ WF_vars(EndRunTurn(h))
       /\ WF_vars(\E p \in ProposalIds : OpenCase(h, p))
       /\ WF_vars(FinishRun(h))
       /\ WF_vars(Abort(h) /\ IdsExhausted(h))
       /\ WF_vars(\E heard \in BOOLEAN : SpecialistRuns(h, heard))
       /\ WF_vars(LeaveUnconfirmed(h))

FairSpec == Spec /\ Fairness

-----------------------------------------------------------------------------
(***************************************************************************)
(* A decision is made once: the loser of a race between two reviewers, a   *)
(* replayed decision and a late record_execution all leave who decided,    *)
(* what was decided and what it was decided about as they are (cases.py:   *)
(* "two reviewers racing produce one decision").                           *)
(***************************************************************************)
DecisionIsFinal ==
  [][\A p \in ProposalIds :
       status[p] \notin {"absent", "pending"} =>
         /\ decided_by'[p] = decided_by[p]
         /\ proposal'[p] = proposal[p]
         /\ status'[p] = "rejected" <=> status[p] = "rejected"]_vars

(***************************************************************************)
(* TERMINAL: no case leaves a terminal state, although record_execution    *)
(* puts no condition on the status of the row it closes.                   *)
(***************************************************************************)
TerminalIsFinal ==
  [][\A p \in ProposalIds :
       status[p] \in {"rejected", "executed", "failed"} => status'[p] = status[p]]_vars

(***************************************************************************)
(* A handler in an execution turn works from a copy of the row that other  *)
(* handlers go on writing. The case is nevertheless approved, by the human *)
(* and for the payload of the copy: no drive starts from an undecided or a *)
(* rejected case, and none is overtaken by another decision.               *)
(***************************************************************************)
DriveIsApproved ==
  \A h \in Handlers : pc[h] = "executing" =>
    /\ target[h] \in ProposalIds
    /\ status[target[h]] \in {"approved", "executed"}
    /\ case[h] = [payload |-> proposal[target[h]], decided_by |-> decided_by[target[h]]]

(***************************************************************************)
(* What a caller was told stays true of the case, whatever the other       *)
(* handlers do next: a rejection is a rejection, "executed" and            *)
(* "already_executed" name a closed case, and a case reported as           *)
(* "approved_not_confirmed" is still approved or has been closed.          *)
(***************************************************************************)
AnswersStayTrue ==
  \A h \in Handlers :
    /\ answer[h] = "rejected" => status[target[h]] = "rejected"
    /\ answer[h] \in {"executed", "already_executed"} => status[target[h]] = "executed"
    /\ answer[h] = "approved_not_confirmed" => status[target[h]] \in {"approved", "executed"}

(***************************************************************************)
(* A case is recorded as done only on the report of a publication that     *)
(* agrees with the approved proposal in every field find_execution         *)
(* compares, whatever a model says or sends; where publish_result can have *)
(* made both, they are the same. (Nested values are not compared: the      *)
(* README says what that leaves open.)                                     *)
(***************************************************************************)
ClosedAsApproved ==
  \A p \in ProposalIds :
    /\ status[p] = "executed" =>
         /\ result[p].status = "published"
         /\ Wanted(proposal[p]) \subseteq result[p].payload
         /\ {proposal[p], result[p].payload} \subseteq Publishable =>
              result[p].payload = proposal[p]
    /\ status[p] # "executed" => result[p] = NoReply

(***************************************************************************)
(* A cases_run that answers has recorded every proposal its turn raised,   *)
(* each in exactly one case that awaits a decision or has had one.         *)
(***************************************************************************)
AnswersRecorded(h) ==
  pc[h] = "opening" /\ answer'[h] \in {"awaiting_approval", "completed"} =>
    \A payload \in FindProposals(texts[h]) :
      \E p \in opened[h] :
        /\ status[p] # "absent"
        /\ proposal[p] = payload
        /\ \A q \in opened[h] : proposal[q] = payload => q = p

TurnsAreRecorded == [][\A h \in Handlers : AnswersRecorded(h)]_vars

(***************************************************************************)
(* The specialist holds a record only of an approved action, in the name   *)
(* of the human who approved it: nothing undecided, rejected or altered is *)
(* published. Holds of models that keep to their instructions; see the     *)
(* README for those that do not.                                           *)
(***************************************************************************)
OnlyApprovedIsPublished ==
  \A r \in publications : \E p \in ProposalIds :
    /\ status[p] \in {"approved", "executed"}
    /\ r = [payload |-> proposal[p], approved_by |-> Credit(decided_by[p])]

(***************************************************************************)
(* A case that is recorded as done was done: what it holds as its result   *)
(* is a record the specialist has. Holds where models do not invent        *)
(* results.                                                                *)
(***************************************************************************)
ExecutedWasPublished ==
  \A p \in ProposalIds :
    status[p] = "executed" => \E r \in publications : result[p] = Published(r)

(***************************************************************************)
(* A closed case that no handler is driving is never driven again, and its *)
(* action does not take effect again: the short circuit on a closed case.  *)
(***************************************************************************)
Driven(h, p) == target[h] = p /\ (pc[h] = "executing" \/ call[h] # NoCall)

ClosedAndQuiet(p) == status[p] = "executed" /\ \A h \in Handlers : ~Driven(h, p)

ClosedStaysQuiet ==
  [][\A p \in ProposalIds : ClosedAndQuiet(p) =>
       ClosedAndQuiet(p)' /\ performed'[p] = performed[p]]_vars

(***************************************************************************)
(* The handlers and the store implement the life cycle that the approval   *)
(* flow promises (models that keep to their instructions).                 *)
(***************************************************************************)
Signs(name) == ~IsBlank(name)

Lifecycle == INSTANCE ApprovalLifecycle WITH
  Cases <- ProposalIds, Actions <- Payloads, NoAction <- NoPayload,
  Humans <- Deciders, Nobody <- NoName, Credit <- Credit, Signs <- Signs,
  phase <- status, action <- proposal, decider <- decided_by, done <- publications

ImplementsLifecycle == Lifecycle!Spec

(***************************************************************************)
(* An approved case is executed in the end, if somebody keeps calling the  *)
(* endpoint: a case left unconfirmed, or whose handler died, stays         *)
(* re-drivable.                                                            *)
(***************************************************************************)
ApprovedIsExecuted ==
  \A p \in ProposalIds : status[p] = "approved" ~> status[p] = "executed"

(***************************************************************************)
(* docs/human-in-the-loop.md: "A case that already ran short-circuits, so  *)
(* a retry cannot publish twice."                                          *)
(***************************************************************************)
PublishedAtMostOnce == \A p \in ProposalIds : performed[p] <= 1

(***************************************************************************)
(* CaseStore.open: False for an id already known, "so re-reporting a       *)
(* proposal is harmless": no two cases ask for the same decision.          *)
(***************************************************************************)
ReportedOnceOpenedOnce ==
  \A p, q \in ProposalIds :
    status[p] = "pending" /\ status[q] = "pending" /\ proposal[p] = proposal[q] => p = q

-----------------------------------------------------------------------------
(***************************************************************************)
(* The inductive invariant behind the safety properties, from its parts.   *)
(***************************************************************************)

(* A row holds a proposal, and no code path writes the status "failed". *)
RowsAreWhole ==
  \A p \in ProposalIds :
    /\ status[p] # "absent" => proposal[p] \in Payloads
    /\ status[p] # "failed"

(* A handler that serves a request has not answered it, and a request of
   POST /cases/run is about no case yet. *)
AtWork ==
  \A h \in Handlers :
    /\ pc[h] # "idle" => answer[h] = "none"
    /\ pc[h] \in {"running", "opening"} => target[h] = UnknownId

(* A handler that missed the UPDATE is about to read a decided row. *)
ReadsDecided ==
  \A h \in Handlers : pc[h] = "reading" /\ target[h] # UnknownId =>
    status[target[h]] \notin {"absent", "pending"}

(* The cases one request opened are rows with different proposals. *)
OpensApart ==
  \A h \in Handlers :
    /\ pc[h] # "opening" => opened[h] = {}
    /\ \A p \in opened[h] :
         /\ status[p] # "absent"
         /\ \A q \in opened[h] : proposal[p] = proposal[q] => p = q

(* An answer about a case names that case. *)
AnswersName ==
  \A h \in Handlers :
    answer[h] \in {"rejected", "executed", "already_executed", "approved_not_confirmed"}
      => target[h] \in ProposalIds

(* The part of the invariant that holds whatever the models do. *)
SafetyInv ==
  /\ TypeOK
  /\ RowsAreWhole
  /\ AtWork
  /\ ReadsDecided
  /\ OpensApart
  /\ AnswersName
  /\ DriveIsApproved
  /\ AnswersStayTrue
  /\ ClosedAsApproved

(* A request that opens the gate was told by the case the handler drives. *)
SigningCallsAreTold ==
  \A h \in Handlers : ~IsBlank(call[h].approved_by) =>
    /\ target[h] \in ProposalIds
    /\ status[target[h]] \in {"approved", "executed"}
    /\ call[h] = [payload |-> proposal[target[h]],
                  approved_by |-> Credit(decided_by[target[h]])]

(* A confirmation in a turn's texts is of a publication. *)
ConfirmationsAreReal ==
  \A h \in Handlers : \A t \in texts[h] :
    t.status = "published" => \E r \in publications : t = Published(r)

ObedientInv ==
  /\ SigningCallsAreTold
  /\ ConfirmationsAreReal
  /\ OnlyApprovedIsPublished
  /\ ExecutedWasPublished

(* The models keep to their instructions. *)
Obedient == ~LooseRequests /\ ~Fabricates

(***************************************************************************)
(* The inductive invariant: SafetyInv whatever the models do, and          *)
(* ObedientInv as well where they keep to their instructions. The handlers *)
(* (fast_api_app.py) and the store (cases.py) preserve it at every step.   *)
(***************************************************************************)
IInv == SafetyInv /\ (Obedient => ObedientInv)
=============================================================================
