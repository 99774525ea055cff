----------------------------- MODULE LocalFlow -----------------------------
(***************************************************************************)
(* The approval flow of pods without a database: the handlers of           *)
(* app/fast_api_app.py over InMemoryCaseStore of app/cluster/cases.py, one *)
(* store per pod, and the turns they drive with the texts those turns are  *)
(* made of (ReplyTexts), where ApprovalCases has a database and takes the  *)
(* texts for what they say.                                                *)
(*                                                                         *)
(* No method of this store suspends, so a handler runs from the end of its *)
(* turn to its answer in one step, and from the request to the turn. The   *)
(* store hands out the object it keeps: what a handler reads of its case   *)
(* is what the store holds by then. A pod that restarts has an empty store *)
(* and none of its requests; the specialist, another pod, does not notice. *)
(***************************************************************************)
EXTENDS ReplyTexts

CONSTANTS
  Pods,           \* replicas of the serving agent
  Handlers,       \* requests served at the same time, over all pods
  ProposalIds,    \* the ids new_proposal_id() mints; bounds the cases
  UnknownId,      \* an id no case ever has
  NoPod,          \* the pod of no request
  Numbers,        \* the numbers that expressions evaluate to
  Mistakes,       \* expressions that do not: the exceptions they raise
  Labels,         \* labels to publish under
  Deciders,       \* values of decided_by that callers send
  Narrations,     \* ways of ending a turn: "silent", "prose", "brace", "quote"
  Deliveries,     \* ways a peer's text is returned: "plain", "wrapped", "listed"
  MaxAsks,        \* bounds the requests of a conversation's turn to the specialist;
                  \* an execution turn makes one
  MaxTools,       \* bounds the calls of publish_result for one request
  MaxRestarts     \* bounds the restarts

ASSUME FlowAssumption ==
  /\ UnknownId \notin ProposalIds
  /\ NoPod \notin Pods
  /\ BlankNames \cap ({"unknown"} \cup Deciders) = {}
  /\ "number" \notin Mistakes
  /\ Narrations \subseteq {"silent", "prose", "brace", "quote"}
  /\ Deliveries \subseteq {"plain", "wrapped", "listed"}
  /\ MaxAsks \in Nat \ {0}
  /\ {MaxTools, MaxRestarts} \subseteq Nat

VARIABLES
  store,          \* each pod's InMemoryCaseStore._cases
  publications,   \* of the specialist's PUBLICATIONS, which no code reads: the records
                  \* that carried out a case, with that case
  pc,             \* where each handler is
  pod,            \* the pod that serves its request, if it has one
  target,         \* the case it was asked to decide
  texts,          \* TurnResult.texts so far
  asks,           \* requests its turn has made to the specialist
  work,           \* the specialist's turn for it
  answer,         \* what it last answered
  restarts,       \* restarts so far
  life,           \* history: the last a pod knew of each case
  origin,         \* history: the requests that raised each case
  raised,         \* history: proposals the specialist's tool returned this turn
  performed       \* history: publications of this turn, with their requests

flow    == <<pc, pod, target, texts, asks, answer>>
history == <<life, origin>>
turn    == <<raised, performed>>
vars    == <<store, publications, flow, work, restarts, history, turn>>

-----------------------------------------------------------------------------
(* A request of the payload contract MathRequest. *)
Expressions == [kind : {"number"}, number : Numbers] \cup [kind : Mistakes, number : {0}]

Number(n) == [kind |-> "number", number |-> n]

Request(expression, label, approved_by) ==
  [expression |-> expression, label |-> label, approved_by |-> approved_by]

Credit(name) == IF name = NoName THEN "unknown" ELSE name
Approvers == {NoName} \cup {Credit(d) : d \in Deciders}

Requests == {Request(e, l, a) : e \in Expressions, l \in Labels, a \in Approvers}
NoRequest == Request(Number(0), "", NoName)

NoCase == [status |-> "absent", proposal |-> NoWhat, decided_by |-> NoName,
           result |-> NoResult]

(* The specialist's turn: the request, the calculation, its session's events,
   and (for the history) the case whose execution it serves. *)
NoWork == [request |-> NoRequest, calculated |-> NoResult, events |-> <<>>,
           tools |-> 0, serves |-> UnknownId]

Whats == [value : {CanonicalValue(s) : s \in UNION {Spellings(Float(n)) : n \in Numbers}},
          label : Labels]

Statuses == {"pending", "approved", "rejected", "executed"}

TypeOK ==
  /\ \A k \in Pods : \A p \in ProposalIds :
       LET c == store[k][p] IN
       /\ c.status \in Statuses \cup {"absent"}
       /\ c.proposal \in Whats \cup {NoWhat}
       /\ c.decided_by \in Deciders \cup {NoName}
       /\ c.result = NoResult \/ c.result.what \in Whats
  /\ publications \subseteq [what : Whats, approved_by : Approvers,
                            serves : ProposalIds]
  /\ pc \in [Handlers -> {"idle", "running", "executing"}]
  /\ pod \in [Handlers -> Pods \cup {NoPod}]
  /\ target \in [Handlers -> ProposalIds \cup {UnknownId}]
  /\ \A h \in Handlers : \A i \in DOMAIN texts[h] : texts[h][i].tag = "text"
  /\ \A h \in Handlers : work[h].request \in Requests \cup {NoRequest}
  /\ answer \in [Handlers -> {"none", "awaiting_approval", "completed", "not_found",
                              "rejected", "already_executed",
                              "approved_not_confirmed", "executed", "lost"}]
  /\ asks \in [Handlers -> 0..MaxAsks]
  /\ restarts \in 0..MaxRestarts

Init ==
  /\ store = [k \in Pods |-> [p \in ProposalIds |-> NoCase]]
  /\ publications = {}
  /\ pc = [h \in Handlers |-> "idle"]
  /\ pod = [h \in Handlers |-> NoPod]
  /\ target = [h \in Handlers |-> UnknownId]
  /\ texts = [h \in Handlers |-> <<>>]
  /\ asks = [h \in Handlers |-> 0]
  /\ work = [h \in Handlers |-> NoWork]
  /\ answer = [h \in Handlers |-> "none"]
  /\ restarts = 0
  /\ life = [p \in ProposalIds |-> NoCase]
  /\ origin = [p \in ProposalIds |-> {}]
  /\ raised = [h \in Handlers |-> {}]
  /\ performed = [h \in Handlers |-> {}]

-----------------------------------------------------------------------------
(* The turn: _run_turn, and the specialist it asks.                        *)

InTurn(h) == pc[h] \in {"running", "executing"}

(* A handler is free when the request it had is answered, and the specialist
   is done with it. *)
Free(h) == pc[h] = "idle" /\ work[h] = NoWork

Held(h) == store[pod[h]][target[h]]

(* In a conversation the model may ask for anything, but has no approver to
   name. Told to carry a case out, it names the approver of the instruction,
   or forgets to; it is told to change nothing else, and may all the same. *)
Askable(h) ==
  {r \in Requests :
     \/ r.approved_by = NoName
     \/ pc[h] = "executing" /\ r.approved_by = Credit(Held(h).decided_by)}

(* PeerTool.run_async: the request leaves, and the specialist's model computes,
   as it is told to before all else. *)
AskSpecialist(h, r) ==
  LET calculated == Calculate(r.expression) IN
  /\ InTurn(h)
  /\ work[h] = NoWork
  /\ asks[h] < (IF pc[h] = "running" THEN MaxAsks ELSE 1)
  /\ asks' = [asks EXCEPT ![h] = @ + 1]
  /\ work' = [work EXCEPT ![h] =
                [request |-> r, calculated |-> calculated, tools |-> 0,
                 events |-> <<Event(<<Object(calculated)>>, <<>>)>>,
                 serves |-> target[h]]]
  /\ UNCHANGED <<store, publications, pc, pod, target, texts, answer, restarts, history, turn>>

(* The specialist publishes what it calculated, spelled as it likes, with the
   label and the approver of the request. *)
Publish(h, value) ==
  LET r == work[h].request
      result == PublishResult(value, r.label, r.approved_by)
      p == work[h].serves
      effect == p # UnknownId /\ result.status = "published" /\ result.what = life[p].proposal
  IN
  /\ work[h].calculated.status = "ok"
  /\ work[h].tools < MaxTools
  /\ value \in Spellings(work[h].calculated.what.value.number)
  /\ work' = [work EXCEPT ![h].events = Append(@, Event(<<Object(result)>>, <<>>)),
                          ![h].tools = @ + 1]
  /\ publications' = publications \cup
       (IF effect THEN {[what |-> result.what, approved_by |-> r.approved_by, serves |-> p]}
        ELSE {})
  /\ UNCHANGED <<store, flow, restarts, history, turn>>

Said(narration, seen) ==
  CASE narration = "silent" -> <<>>
    [] narration = "prose" -> <<Prose>>
    [] narration = "brace" -> <<Brace, Prose>>
    [] narration = "quote" -> <<Prose>> \o seen \o <<Prose>>

Delivered(delivery, reply) ==
  CASE delivery = "plain" -> reply
    [] delivery = "wrapped" -> Wrapped(reply)
    [] delivery = "listed" -> Wrapped(ListOf(<<reply>>))

(* History: what the tools returned with this status, and for which request. *)
Returned(h, status) ==
  {[request |-> work[h].request, what |-> e.responses[1].result.what] :
     e \in {x \in Range(work[h].events) : x.responses[1].result.status = status}}

(* The specialist's model says something, the callback restates the results,
   and the reply comes back as a tool result on the caller. An exception that
   calculate let out ended the turn, and neither happens. *)
SpecialistAnswers(h, narration, delivery) ==
  LET spoken == Append(work[h].events, Event(<<>>, Said(narration, <<>>)))
      reply  == PeerReply(RestateStructuredResults(spoken))
  IN
  /\ work[h] # NoWork
  /\ work[h].calculated.status # "raised"
  /\ InTurn(h)
  /\ work' = [work EXCEPT ![h] = NoWork]
  /\ texts' = [texts EXCEPT ![h] = @ \o ReplyTextsOf(Event(<<Delivered(delivery, reply)>>, <<>>))]
  /\ raised' = [raised EXCEPT ![h] = @ \cup Returned(h, "approval_required")]
  /\ performed' = [performed EXCEPT ![h] = @ \cup Returned(h, "published")]
  /\ UNCHANGED <<store, publications, pc, pod, target, asks, answer, restarts, history>>

(* The reply is lost, or nobody waits for it any longer. *)
ReplyLost(h) ==
  /\ work[h] # NoWork
  /\ work' = [work EXCEPT ![h] = NoWork]
  /\ UNCHANGED <<store, publications, flow, restarts, history, turn>>

(* The texts of the turn, with the serving model's own last words: it may
   quote the results it was shown. *)
Final(h, narration) ==
  LET results == ResultsIn(texts[h])
      shown   == Picked(results, {i \in DOMAIN results : results[i] # NoResult})
      seen    == [i \in DOMAIN shown |-> Object(shown[i])]
  IN texts[h] \o ReplyTextsOf(Event(<<>>, Said(narration, seen)))

Answered(h, a) ==
  /\ pc' = [pc EXCEPT ![h] = "idle"]
  /\ pod' = [pod EXCEPT ![h] = NoPod]
  /\ target' = [target EXCEPT ![h] = UnknownId]
  /\ answer' = [answer EXCEPT ![h] = a]
  /\ texts' = [texts EXCEPT ![h] = <<>>]
  /\ asks' = [asks EXCEPT ![h] = 0]
  /\ raised' = [raised EXCEPT ![h] = {}]
  /\ performed' = [performed EXCEPT ![h] = {}]

(* Whatever the turn raises ends the request. *)
TurnRaises(h) ==
  /\ InTurn(h)
  /\ Answered(h, "lost")
  /\ UNCHANGED <<store, publications, work, restarts, history>>

-----------------------------------------------------------------------------
(* POST /cases/run                                                         *)

Minted == {p \in ProposalIds : life[p] # NoCase}
Running == {h \in Handlers : pc[h] = "running"}

(* As long as the ids suffice for what all turns may propose (a bound). *)
RunTurn(h, k) ==
  /\ Free(h)
  /\ Cardinality(Minted) + MaxAsks * (Cardinality(Running) + 1) <= Cardinality(ProposalIds)
  /\ pc' = [pc EXCEPT ![h] = "running"]
  /\ pod' = [pod EXCEPT ![h] = k]
  /\ target' = [target EXCEPT ![h] = UnknownId]
  /\ answer' = [answer EXCEPT ![h] = "none"]
  /\ UNCHANGED <<store, publications, texts, asks, work, restarts, history, turn>>

CaseFromProposal(found) ==
  [NoCase EXCEPT !.status = "pending", !.proposal = found.what]

(* The turn ends, and every proposal found becomes a case of its own. *)
FinishRun(h, narration) ==
  LET found == FindProposals(Final(h, narration)) IN
  /\ pc[h] = "running"
  /\ work[h] = NoWork
  /\ \E ids \in [DOMAIN found -> ProposalIds \ Minted] :
       LET Opens(p) == {i \in DOMAIN found : ids[i] = p}
           Opened(was, p) == IF Opens(p) = {} THEN was
                             ELSE CaseFromProposal(found[CHOOSE i \in Opens(p) : TRUE])
       IN
       /\ \A i, j \in DOMAIN found : ids[i] = ids[j] => i = j
       /\ store' = [store EXCEPT ![pod[h]] = [p \in ProposalIds |-> Opened(@[p], p)]]
       /\ life' = [p \in ProposalIds |-> Opened(life[p], p)]
       /\ origin' = [p \in ProposalIds |->
                       IF Opens(p) = {} THEN origin[p]
                       ELSE {r.request : r \in {q \in raised[h] :
                               \E i \in Opens(p) : q.what = found[i].what}}]
  /\ Answered(h, IF found = <<>> THEN "completed" ELSE "awaiting_approval")
  /\ UNCHANGED <<publications, work, restarts>>

-----------------------------------------------------------------------------
(* POST /cases/{proposal_id}                                               *)

(* An id that never was, or a case of another pod, or one lost at a restart. *)
NotFound(h, k, p) ==
  /\ Free(h)
  /\ \/ p = UnknownId
     \/ p \in Minted /\ store[k][p] = NoCase
  /\ answer' = [answer EXCEPT ![h] = "not_found"]
  /\ UNCHANGED <<store, publications, pc, pod, target, texts, asks, work, restarts, history, turn>>

(* MUTANT: the decision is written before the status is looked at. *)
WriteAnyway(c, approved, who) ==
  [c EXCEPT !.status = IF approved THEN "approved" ELSE "rejected", !.decided_by = who]

(* store.decide, on a case it has. *)
Written(c, approved, who) ==
  IF c.status # "pending" THEN c
  ELSE [c EXCEPT !.status = IF approved THEN "approved" ELSE "rejected",
                 !.decided_by = who]

Decide(h, k, p, approved, who) ==
  LET case == Written(store[k][p], approved, who) IN
  /\ Free(h)
  /\ store[k][p] # NoCase
  /\ store' = [store EXCEPT ![k][p] = case]
  /\ life' = [life EXCEPT ![p] = case]
  /\ pod' = [pod EXCEPT ![h] = IF case.status = "approved" THEN k ELSE NoPod]
  /\ target' = [target EXCEPT ![h] = IF case.status = "approved" THEN p ELSE UnknownId]
  /\ pc' = [pc EXCEPT ![h] = IF case.status = "approved" THEN "executing" ELSE "idle"]
  /\ answer' = [answer EXCEPT ![h] =
                  CASE case.status = "rejected" -> "rejected"
                    [] case.status = "executed" -> "already_executed"
                    [] case.status = "approved" -> "none"]
  /\ UNCHANGED <<publications, texts, asks, work, restarts, origin, turn>>

(* MUTANT: the status of the result becomes that of the case. *)
RecordStatus(c, performing) == [c EXCEPT !.status = performing.status, !.result = performing]

RecordExecution(c, performing) == [c EXCEPT !.status = "executed", !.result = performing]

(* The turn ends: the first confirmation closes the case. *)
FinishExecution(h, narration) ==
  LET found == FindExecutions(Final(h, narration), Held(h).proposal)
      case  == RecordExecution(Held(h), found[1])
  IN
  /\ pc[h] = "executing"
  /\ work[h] = NoWork
  /\ \/ /\ found = <<>>
        /\ Answered(h, "approved_not_confirmed")
        /\ UNCHANGED <<store, life>>
     \/ /\ found # <<>>
        /\ store' = [store EXCEPT ![pod[h]][target[h]] = case]
        /\ life' = [life EXCEPT ![target[h]] = case]
        /\ Answered(h, "executed")
  /\ UNCHANGED <<publications, work, restarts, origin>>

-----------------------------------------------------------------------------
(* The pod ends, with its store and its requests, and starts again. A pod  *)
(* without a case does not (a bound): all it loses is what TurnRaises does. *)
Restart(k) ==
  LET Dies(h) == pc[h] # "idle" /\ pod[h] = k IN
  /\ restarts < MaxRestarts
  /\ \E p \in ProposalIds : store[k][p] # NoCase
  /\ restarts' = restarts + 1
  /\ store' = [store EXCEPT ![k] = [p \in ProposalIds |-> NoCase]]
  /\ pc' = [h \in Handlers |-> IF Dies(h) THEN "idle" ELSE pc[h]]
  /\ pod' = [h \in Handlers |-> IF Dies(h) THEN NoPod ELSE pod[h]]
  /\ answer' = [h \in Handlers |-> IF Dies(h) THEN "lost" ELSE answer[h]]
  /\ target' = [h \in Handlers |-> IF Dies(h) THEN UnknownId ELSE target[h]]
  /\ texts' = [h \in Handlers |-> IF Dies(h) THEN <<>> ELSE texts[h]]
  /\ asks' = [h \in Handlers |-> IF Dies(h) THEN 0 ELSE asks[h]]
  /\ raised' = [h \in Handlers |-> IF Dies(h) THEN {} ELSE raised[h]]
  /\ performed' = [h \in Handlers |-> IF Dies(h) THEN {} ELSE performed[h]]
  /\ UNCHANGED <<publications, work, history>>

Specialist(h) ==
  \/ \E s \in UNION {Spellings(Float(n)) : n \in Numbers} : Publish(h, s)
  \/ \E n \in Narrations \ {"quote"}, d \in Deliveries : SpecialistAnswers(h, n, d)
  \/ ReplyLost(h)

Next ==
  \/ \E h \in Handlers :
       \/ \E r \in Askable(h) : AskSpecialist(h, r)
       \/ Specialist(h)
       \/ TurnRaises(h)
       \/ \E n \in Narrations : FinishRun(h, n) \/ FinishExecution(h, n)
       \/ \E k \in Pods :
            \/ RunTurn(h, k)
            \/ \E p \in ProposalIds \cup {UnknownId} : NotFound(h, k, p)
            \/ \E p \in ProposalIds, approved \in BOOLEAN, who \in Deciders :
                 Decide(h, k, p, approved, who)
  \/ \E k \in Pods : Restart(k)

Spec == Init /\ [][Next]_vars

-----------------------------------------------------------------------------
(* What became of one case, whichever pod has it and whether or not that pod
   still knows, as the abstract specification sees it. *)
Signs(name) == ~IsBlank(name)

Lifecycle(p) ==
  INSTANCE ApprovalLifecycle WITH
    Cases <- {p}, Actions <- Whats, NoAction <- NoWhat,
    Humans <- Deciders, Nobody <- NoName, Credit <- Credit, Signs <- Signs,
    phase <- [c \in {p} |-> life[c].status],
    action <- [c \in {p} |-> life[c].proposal],
    decider <- [c \in {p} |-> life[c].decided_by],
    done <- {[payload |-> e.what, approved_by |-> e.approved_by] :
               e \in {x \in publications : x.serves = p}}

(* Without a database too, every case is decided once, performed only in the
   name of whoever approved it, and closed only once it was: handlers that
   share one object, and pods that forget, take nothing of that back. *)
FollowsLifecycle ==
  /\ \A p \in ProposalIds : Lifecycle(p)!Init
  /\ [][\A p \in ProposalIds : [Lifecycle(p)!Next]_(Lifecycle(p)!lifecycle)]_vars

Ends(h, now) == pc[h] = now /\ pc'[h] = "idle" /\ answer'[h] # "lost"

OpenedNow == {p \in ProposalIds : life[p] = NoCase /\ life'[p] # NoCase}

(* "The caller receives the structured payload deterministically, whatever
   prose the model produced along the way" (app/agents/reporting.py): every
   proposal that the specialist's tool returned in a turn, and whose reply
   came back, is a pending case when that turn's request is answered; one
   case, however often it is reported, and no case comes from anything else. *)
ProposalsBecomeCases ==
  [][\A h \in Handlers : Ends(h, "running") =>
       /\ \A r \in raised[h] : \E p \in OpenedNow : life'[p].proposal = r.what
       /\ \A p \in OpenedNow : \E r \in raised[h] : life'[p].proposal = r.what
       /\ \A p, q \in OpenedNow : life'[p].proposal = life'[q].proposal => p = q]_vars

(* "The same number reached twice has to produce the same string"
   (canonical_value): when the request that raised a case was carried out once
   more, with an approver, and the reply came back, the case is confirmed,
   however the two models spelled the number. *)
Same(r, s) == r.expression = s.expression /\ r.label = s.label

SameNumberConfirms ==
  [][\A h \in Handlers :
       /\ Ends(h, "executing")
       /\ \E d \in performed[h], o \in origin[target[h]] : Same(d.request, o)
       => answer'[h] = "executed"]_vars

(* "A genuinely different number still fails it": a case is confirmed by a
   publication of its turn, and one that was asked for with the same label and
   the same number, as long as doubles tell the numbers apart. *)
ApprovedIsPublished ==
  [][\A h \in Handlers :
       LET confirming == {d \in performed[h] : d.what = life'[target[h]].result.what}
       IN Ends(h, "executing") /\ answer'[h] = "executed" =>
            /\ confirming # {}
            /\ \A d \in confirming, o \in origin[target[h]] :
                 Exact(d.request.expression.number) /\ Exact(o.expression.number)
                   => Same(d.request, o)]_vars
=============================================================================
