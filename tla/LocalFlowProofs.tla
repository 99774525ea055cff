--------------------------- MODULE LocalFlowProofs ---------------------------
(***************************************************************************)
(* The approval flow of pods without a database, for any number of pods,   *)
(* requests, cases, numbers and labels.                                    *)
(*                                                                         *)
(* 1. What one request of the specialist can bring back: what it           *)
(*    calculated and one outcome, however often and however spelled it is  *)
(*    published (PublishedAlike). Two requests for the same number have    *)
(*    the same outcome; two for numbers that doubles tell apart have not.  *)
(* 2. The inductive invariant IInv: what the texts of a turn carry is what *)
(*    its tools returned, a case has one pod and is what that pod last     *)
(*    knew of it, and what was published for a case names its approver.    *)
(* 3. One lemma for each action, and the action properties from IInv.      *)
(* 4. The refinement: as ApprovalLifecycle sees a case, a step opens it,   *)
(*    decides it, performs it, closes it, or leaves it as it looks.        *)
(***************************************************************************)
EXTENDS LocalFlow, ReplyTextsProofs

-----------------------------------------------------------------------------
(* What a request can bring back                                           *)

Evaluates(request) == request.expression.kind = "number"

(* The number n, as the tools write it in the end. *)
Canonical(n) == CanonicalValue(Spelled("decimal", Float(n)))

WhatOf(request) ==
  [value |-> Canonical(request.expression.number), label |-> request.label]

Outcome(request) ==
  IF IsBlank(request.approved_by)
  THEN [status |-> "approval_required", what |-> WhatOf(request), approved_by |-> NoName]
  ELSE [status |-> "published", what |-> WhatOf(request),
        approved_by |-> request.approved_by]

ToolResults(request) ==
  {Calculate(request.expression)} \cup {x \in {Outcome(request)} : Evaluates(request)}

Results == {NoResult} \cup UNION {ToolResults(r) : r \in Requests}

ToolEvent(x) == Event(<<Object(x)>>, <<>>)

(* However the specialist spells the number it calculated, publish_result
   returns the same. *)
LEMMA PublishedAlike ==
  ASSUME NEW request, NEW value \in Spellings(Float(request.expression.number))
  PROVE  PublishResult(value, request.label, request.approved_by) = Outcome(request)
<1> DEFINE number == Float(request.expression.number)
<1>1. value.form # "word" /\ value.number = number
  BY DEF Spellings, Spelled
<1>2. value # Word /\ Spelled("decimal", number) # Word
  BY <1>1 DEF Word, Spelled
<1>3. Spelled("decimal", number).number = number
  BY DEF Spelled
<1> HIDE DEF number
<1>4. CanonicalValue(value) = CanonicalValue(Spelled("decimal", number))
  BY <1>1, <1>2, <1>3, Zenon DEF CanonicalValue
<1> QED
  BY <1>4, Zenon DEF PublishResult, Outcome, WhatOf, Canonical, number

(* A calculation has a number to publish, or no result that is audited. *)
LEMMA Calculated ==
  ASSUME NEW expression
  PROVE  LET x == Calculate(expression) IN
         /\ expression.kind = "number" =>
              /\ x.status = "ok" /\ x # NoResult
              /\ x.what.value.number = Float(expression.number)
         /\ expression.kind # "number" => x.status \in {"error", "raised"}
         /\ x.status \notin AUDITED_STATUSES
<1>1. ASSUME expression.kind = "number"
      PROVE  /\ Calculate(expression).status = "ok"
             /\ Calculate(expression).what.value = Spelled("decimal", Float(expression.number))
  BY <1>1 DEF Calculate, NoResult, NoWhat
<1>2. ASSUME expression.kind # "number"
      PROVE  Calculate(expression).status \in {"error", "raised"}
  BY <1>2 DEF Calculate, NoResult
<1>3. Spelled("decimal", Float(expression.number)).number = Float(expression.number)
  BY DEF Spelled
<1>4. NoResult.status = "none"
  BY DEF NoResult
<1> QED
  BY <1>1, <1>2, <1>3, <1>4 DEF AUDITED_STATUSES

LEMMA Outcomes ==
  ASSUME NEW request
  PROVE  /\ Outcome(request).what = WhatOf(request)
         /\ Outcome(request).status \in AUDITED_STATUSES
         /\ Outcome(request).status = "approval_required" <=> IsBlank(request.approved_by)
         /\ Outcome(request).status = "published" <=> ~IsBlank(request.approved_by)
         /\ Outcome(request).status = "approval_required" =>
              Outcome(request) = [status |-> "approval_required", what |-> WhatOf(request),
                                  approved_by |-> NoName]
         /\ WhatOf(request).label = request.label
BY DEF Outcome, AUDITED_STATUSES, WhatOf

(* Requests for the same number under the same label have the same outcome,
   and those that have are, as long as doubles tell the numbers apart. *)
LEMMA SameOutcome ==
  ASSUME NEW r \in Requests, NEW s \in Requests, Evaluates(r), Evaluates(s)
  PROVE  /\ Same(r, s) => WhatOf(r) = WhatOf(s)
         /\ WhatOf(r) = WhatOf(s) =>
              (Exact(r.expression.number) /\ Exact(s.expression.number) => Same(r, s))
<1>1. Same(r, s) => WhatOf(r) = WhatOf(s)
  BY Zenon DEF Same, WhatOf
<1>2. ASSUME WhatOf(r) = WhatOf(s), Exact(r.expression.number), Exact(s.expression.number)
      PROVE  Same(r, s)
  <2>1. r.label = s.label /\ Canonical(r.expression.number) = Canonical(s.expression.number)
    BY <1>2 DEF WhatOf
  <2>2. ASSUME NEW n, Exact(n)
        PROVE  Canonical(n).number = n
    <3>1. Float(n) = n
      BY <2>2 DEF Exact
    <3>2. Spelled("decimal", n) # Word /\ Spelled("decimal", n).number = n
      BY DEF Spelled, Word
    <3>3. Canonical(n) = Spelled(IF IsInteger(n) THEN "integer" ELSE "decimal", n)
      BY <3>1, <3>2, Zenon DEF Canonical, CanonicalValue
    <3> QED
      BY <3>3 DEF Spelled
  <2>3. r.expression.number = s.expression.number
    BY <1>2, <2>1, <2>2
  <2>4. r.expression \in Expressions /\ s.expression \in Expressions
    BY DEF Requests, Request
  <2>5. r.expression = s.expression
    BY <2>3, <2>4, FlowAssumption DEF Expressions, Evaluates
  <2> QED
    BY <2>1, <2>5 DEF Same
<1> QED
  BY <1>1, <1>2

-----------------------------------------------------------------------------
(* The inductive invariant                                                 *)

Cases == {NoCase} \cup [status : Statuses, proposal : Whats,
                        decided_by : Deciders \cup {NoName}, result : Results]

(* The requests that can be published, and what the tool returned for one. *)
Asked == {r \in Requests : Evaluates(r)}
Deeds == {[request |-> r, what |-> WhatOf(r)] : r \in Asked}

WorkOn(r) ==
  [request : {r}, calculated : {Calculate(r.expression)},
   events : Seq({ToolEvent(x) : x \in ToolResults(r)}), tools : Nat,
   serves : ProposalIds \cup {UnknownId}]

Works == {NoWork} \cup UNION {WorkOn(r) : r \in Requests}

Replied == {"none", "awaiting_approval", "completed", "not_found", "rejected",
            "already_executed", "approved_not_confirmed", "executed", "lost"}

Types ==
  /\ store \in [Pods -> [ProposalIds -> Cases]]
  /\ publications \subseteq [what : Whats, approved_by : Approvers, serves : ProposalIds]
  /\ pc \in [Handlers -> {"idle", "running", "executing"}]
  /\ pod \in [Handlers -> Pods \cup {NoPod}]
  /\ target \in [Handlers -> ProposalIds \cup {UnknownId}]
  /\ texts \in [Handlers -> Seq(Texts(Results))]
  /\ asks \in [Handlers -> 0..MaxAsks]
  /\ work \in [Handlers -> Works]
  /\ answer \in [Handlers -> Replied]
  /\ restarts \in 0..MaxRestarts
  /\ life \in [ProposalIds -> Cases]
  /\ origin \in [ProposalIds -> SUBSET Asked]
  /\ raised \in [Handlers -> SUBSET Deeds]
  /\ performed \in [Handlers -> SUBSET Deeds]

(* A closed case has the confirmation of what was proposed. *)
Confirmed(c) == c.result = NoResult \/ (c.result \in Results /\ c.result.what = c.proposal)

(* A pod has of a case what was last known of it, or nothing, and no two pods
   have the same case: a decision or a confirmation is written where all of
   the case is. *)
OnePodKnows ==
  /\ \A k \in Pods, p \in ProposalIds : store[k][p] = NoCase \/ store[k][p] = life[p]
  /\ \A k, l \in Pods, p \in ProposalIds :
       store[k][p] # NoCase /\ store[l][p] # NoCase => k = l
  /\ \A p \in ProposalIds : Confirmed(life[p])

Decided == {"approved", "executed"}

(* Whoever carries a case out has it, and it stays approved. *)
InPlace(h) ==
  /\ pc[h] = "idle" => /\ texts[h] = <<>> /\ raised[h] = {} /\ performed[h] = {}
                       /\ target[h] = UnknownId
  /\ pc[h] = "running" => pod[h] \in Pods /\ target[h] = UnknownId
  /\ pc[h] = "executing" => /\ pod[h] \in Pods /\ target[h] \in ProposalIds
                            /\ Held(h).status \in Decided

PublishedFor(p) == \E e \in publications : e.serves = p /\ e.what = life[p].proposal

(* The specialist works for the case it was asked for, in nobody's name but
   that of whoever approved it; what it published of it is on record. *)
Serves(h) ==
  LET w == work[h] IN
  /\ w # NoWork /\ InTurn(h) => w.serves = target[h]
  /\ w.serves = UnknownId => w.request.approved_by = NoName
  /\ w.serves # UnknownId =>
       /\ life[w.serves].status \in Decided
       /\ w.request.approved_by \in {NoName, Credit(life[w.serves].decided_by)}
       /\ \A x \in Results :
            ToolEvent(x) \in Range(w.events) /\ x.status = "published"
              /\ x.what = life[w.serves].proposal => PublishedFor(w.serves)

(* The results with this status in the texts of a turn are of these deeds. *)
Report(h, status, deeds) ==
  LET heard == Range(ResultsIn(texts[h])) IN
  /\ \A x \in heard : x.status = status => \E d \in deeds : d.what = x.what
  /\ \A d \in deeds : \E x \in heard : x.status = status /\ x.what = d.what

Reports(h) ==
  /\ Report(h, "approval_required", raised[h])
  /\ Report(h, "published", performed[h])
  /\ pc[h] = "executing" =>
       \A d \in performed[h] : d.what = life[target[h]].proposal => PublishedFor(target[h])

(* A case is what the requests that raised it come to. *)
Origins == \A p \in ProposalIds : \A o \in origin[p] : WhatOf(o) = life[p].proposal

IInv ==
  /\ Types
  /\ OnePodKnows
  /\ \A h \in Handlers : InPlace(h) /\ Serves(h) /\ Reports(h)
  /\ Origins

-----------------------------------------------------------------------------
(* Facts about the sets above                                              *)

LEMMA Fixed ==
  /\ NoResult \in Results /\ NoResult.status = "none" /\ NoResult \notin {Outcome(r) : r \in Requests}
  /\ NoCase.status = "absent" /\ NoCase.result = NoResult /\ NoCase.decided_by = NoName
  /\ NoCase.proposal = NoWhat
  /\ \A c \in Cases : c # NoCase => c.status \in Statuses
  /\ \A c \in Cases : c.status \in Statuses =>
       /\ c.proposal \in Whats /\ c.decided_by \in Deciders \cup {NoName}
       /\ c.result \in Results /\ c.status # "absent"
  /\ NoWork.serves = UnknownId /\ NoWork.request.approved_by = NoName
  /\ NoWork.calculated.status = "none"
<1>1. NoResult.status = "none"
  BY DEF NoResult
<1>2. \A r \in Requests : Outcome(r).status # "none"
  BY DEF Outcome
<1>3. /\ NoCase.status = "absent" /\ NoCase.result = NoResult /\ NoCase.decided_by = NoName
      /\ NoCase.proposal = NoWhat
  BY DEF NoCase
<1>4. "absent" \notin Statuses
  BY DEF Statuses
<1>5. /\ NoWork.serves = UnknownId /\ NoWork.request.approved_by = NoName
      /\ NoWork.calculated.status = "none"
  BY <1>1 DEF NoWork, NoRequest, Request
<1>6. \A c \in Cases : c # NoCase => c.status \in Statuses
  BY DEF Cases
<1>7. \A c \in Cases : c.status \in Statuses =>
         /\ c.proposal \in Whats /\ c.decided_by \in Deciders \cup {NoName}
         /\ c.result \in Results /\ c.status # "absent"
  BY <1>3, <1>4 DEF Cases
<1>8. NoResult \notin {Outcome(r) : r \in Requests}
  BY <1>1, <1>2
<1> QED
  BY <1>1, <1>3, <1>5, <1>6, <1>7, <1>8 DEF Results

(* The tools return results, and those that are audited are outcomes. *)
LEMMA Returnable ==
  /\ \A r \in Requests : ToolResults(r) \subseteq Results
  /\ \A r \in Asked : r \in Requests /\ WhatOf(r) \in Whats /\ Outcome(r) \in ToolResults(r)
  /\ \A r \in Requests : \A x \in ToolResults(r) :
       x.status \in AUDITED_STATUSES => r \in Asked /\ x = Outcome(r)
  /\ \A x \in Results : x.status \in AUDITED_STATUSES => \E r \in Asked : x = Outcome(r)
<1>1. \A r \in Requests : ToolResults(r) \subseteq Results
  BY DEF Results
<1>2. ASSUME NEW r \in Asked
      PROVE  r \in Requests /\ WhatOf(r) \in Whats /\ Outcome(r) \in ToolResults(r)
  <2>1. r \in Requests /\ Evaluates(r)
    BY DEF Asked
  <2>2. PICK e \in Expressions, l \in Labels, a \in Approvers : r = Request(e, l, a)
    BY <2>1 DEF Requests
  <2>3. r.expression \in Expressions /\ r.label \in Labels
    BY <2>2 DEF Request
  <2>4. r.expression.number \in Numbers
    BY <2>1, <2>3, FlowAssumption DEF Expressions, Evaluates
  <2> DEFINE n == r.expression.number
  <2>5. Spelled("decimal", Float(n)) \in Spellings(Float(n))
    BY DEF Spellings
  <2> HIDE DEF n
  <2>6. Canonical(n) \in {CanonicalValue(s) : s \in UNION {Spellings(Float(m)) : m \in Numbers}}
    BY <2>4, <2>5 DEF Canonical, n
  <2>7. WhatOf(r) = [value |-> Canonical(n), label |-> r.label]
    BY DEF WhatOf, n
  <2>8. WhatOf(r) \in Whats
    BY <2>3, <2>6, <2>7 DEF Whats
  <2> QED
    BY <2>1, <2>8 DEF ToolResults
<1>3. ASSUME NEW r \in Requests, NEW x \in ToolResults(r), x.status \in AUDITED_STATUSES
      PROVE  r \in Asked /\ x = Outcome(r)
  BY <1>3, Calculated DEF ToolResults, Asked
<1>4. ASSUME NEW x \in Results, x.status \in AUDITED_STATUSES
      PROVE  \E r \in Asked : x = Outcome(r)
  <2>1. x # NoResult
    BY <1>4, Fixed DEF AUDITED_STATUSES
  <2>2. PICK r \in Requests : x \in ToolResults(r)
    BY <2>1 DEF Results
  <2> QED
    BY <1>3, <1>4, <2>2
<1> QED
  BY <1>1, <1>2, <1>3, <1>4

(* Whoever decided is somebody the specialist's gate lets by. *)
LEMMA CreditSigns ==
  ASSUME NEW name \in Deciders \cup {NoName}
  PROVE  ~IsBlank(Credit(name))
BY FlowAssumption, ReplyAssumption DEF IsBlank, Credit, NoName

LEMMA AppendedRange ==
  ASSUME NEW S, NEW s \in Seq(S), NEW x
  PROVE  Range(Append(s, x)) = Range(s) \cup {x}
<1>1. /\ DOMAIN Append(s, x) = DOMAIN s \cup {Len(s) + 1}
      /\ \A i \in DOMAIN s : Append(s, x)[i] = s[i]
      /\ Append(s, x)[Len(s) + 1] = x
  BY Appended
<1> DEFINE t == Append(s, x)
           n == Len(s) + 1
<1> HIDE DEF t, n
<1>2. Range(t) = Range(s) \cup {x}
  BY <1>1 DEF Range, t, n
<1> QED
  BY <1>2 DEF t

(* A turn of the specialist has the calculation, and outcomes. *)
LEMMA WorkDone ==
  ASSUME NEW w \in Works, w # NoWork
  PROVE  /\ w.request \in Requests /\ w.calculated = Calculate(w.request.expression)
         /\ w.events \in Seq({ToolEvent(x) : x \in ToolResults(w.request)})
         /\ w.events \in Seq(Events(Results))
         /\ w.tools \in Nat /\ w.serves \in ProposalIds \cup {UnknownId}
         /\ w \in WorkOn(w.request)
<1>1. PICK r \in Requests : w \in WorkOn(r)
  BY DEF Works
<1>2. w.request = r
  BY <1>1 DEF WorkOn
<1>3. /\ w.calculated = Calculate(r.expression)
      /\ w.events \in Seq({ToolEvent(x) : x \in ToolResults(r)})
      /\ w.tools \in Nat /\ w.serves \in ProposalIds \cup {UnknownId}
  BY <1>1 DEF WorkOn
<1>4. {ToolEvent(x) : x \in ToolResults(r)} \subseteq Events(Results)
  <2>1. ASSUME NEW x \in ToolResults(r)
        PROVE  ToolEvent(x) \in Events(Results)
    <3>1. x \in Results
      BY Returnable
    <3>2. Object(x) \in Objects(Results)
      BY <3>1 DEF Objects
    <3>3. <<Object(x)>> \in Seq(Objects(Results)) /\ <<>> \in Seq(Pieces(Results))
      BY <3>2, OneOf, EmptySeq
    <3> QED
      BY <3>3 DEF ToolEvent, Event, Events
  <2> QED
    BY <2>1
<1>5. w.events \in Seq(Events(Results))
  <2> DEFINE A == {ToolEvent(x) : x \in ToolResults(r)}
             B == Events(Results)
  <2>1. A \subseteq B /\ w.events \in Seq(A)
    BY <1>3, <1>4
  <2> HIDE DEF A, B
  <2>2. w.events \in Seq(B)
    BY <2>1
  <2> QED
    BY <2>2 DEF B
<1> QED
  BY <1>1, <1>2, <1>3, <1>5

-----------------------------------------------------------------------------
(* The first state, and types                                              *)

LEMMA InitIInv ==
  ASSUME Init
  PROVE  IInv
<1> USE DEF Init
<1>1. Types
  <2>1. NoCase \in Cases /\ NoWork \in Works
    BY DEF Cases, Works
  <2>2. <<>> \in Seq(Texts(Results))
    BY EmptySeq
  <2>3. 0 \in 0..MaxAsks /\ 0 \in 0..MaxRestarts
    BY FlowAssumption
  <2> QED
    BY <2>1, <2>2, <2>3 DEF Types, Replied
<1>2. OnePodKnows
  BY Fixed DEF OnePodKnows, Confirmed
<1>3. ASSUME NEW h \in Handlers
      PROVE  InPlace(h) /\ Serves(h) /\ Reports(h)
  <2>1. InPlace(h)
    BY DEF InPlace
  <2>2. Serves(h)
    BY Fixed DEF Serves
  <2>3. Range(ResultsIn(<<>>)) = {}
    <3>1. <<>> \in Seq(Texts(Results)) /\ Range(<<>>) = {}
      BY EmptySeq DEF Range
    <3>2. \A x : x \notin Range(ResultsIn(<<>>))
      BY <3>1, ResultsFound
    <3> QED
      BY <3>2
  <2>4. Reports(h)
    BY <2>3 DEF Reports, Report
  <2> QED
    BY <2>1, <2>2, <2>4
<1>4. Origins
  BY DEF Origins
<1> QED
  BY <1>1, <1>2, <1>3, <1>4 DEF IInv

LEMMA IInvTypes ==
  ASSUME IInv
  PROVE  TypeOK
<1> USE DEF IInv, Types
<1>1. ASSUME NEW k \in Pods, NEW p \in ProposalIds
      PROVE  LET c == store[k][p] IN
             /\ c.status \in Statuses \cup {"absent"}
             /\ c.proposal \in Whats \cup {NoWhat}
             /\ c.decided_by \in Deciders \cup {NoName}
             /\ c.result = NoResult \/ c.result.what \in Whats
  <2>1. store[k][p] \in Cases /\ life[p] \in Cases
    OBVIOUS
  <2>2. CASE store[k][p] = NoCase
    BY <2>2, Fixed
  <2>3. CASE store[k][p] # NoCase
    <3>1. store[k][p].status \in Statuses /\ store[k][p] = life[p]
      BY <2>1, <2>3, Fixed DEF OnePodKnows
    <3>2. Confirmed(store[k][p])
      BY <3>1 DEF OnePodKnows
    <3> QED
      BY <2>1, <3>1, <3>2, Fixed DEF Confirmed
  <2> QED
    BY <2>2, <2>3
<1>2. ASSUME NEW h \in Handlers, NEW i \in DOMAIN texts[h]
      PROVE  texts[h][i].tag = "text"
  <2>1. texts[h][i] \in Texts(Results)
    <3>1. texts[h] \in Seq(Texts(Results))
      OBVIOUS
    <3> QED
      BY <3>1, ElementOfSeq, LenProperties
  <2> QED
    BY <2>1, TextIsWritten
<1>3. ASSUME NEW h \in Handlers
      PROVE  work[h].request \in Requests \cup {NoRequest}
  <2>1. work[h] \in Works
    OBVIOUS
  <2>2. NoWork.request = NoRequest
    BY DEF NoWork
  <2> QED
    BY <2>1, <2>2, WorkDone
<1>4. /\ publications \subseteq [what : Whats, approved_by : Approvers, serves : ProposalIds]
      /\ pc \in [Handlers -> {"idle", "running", "executing"}]
      /\ pod \in [Handlers -> Pods \cup {NoPod}]
      /\ target \in [Handlers -> ProposalIds \cup {UnknownId}]
      /\ answer \in [Handlers -> Replied]
      /\ asks \in [Handlers -> 0..MaxAsks]
      /\ restarts \in 0..MaxRestarts
  OBVIOUS
<1> QED
  BY <1>1, <1>2, <1>3, <1>4 DEF TypeOK, Replied

-----------------------------------------------------------------------------
(* What an action leaves to the other requests                             *)

(* The request h is where it was. *)
Kept(h) ==
  /\ pc'[h] = pc[h] /\ pod'[h] = pod[h] /\ target'[h] = target[h] /\ texts'[h] = texts[h]
  /\ work'[h] = work[h] /\ raised'[h] = raised[h] /\ performed'[h] = performed[h]

(* A case that is approved stays so, in the name of whoever approved it. *)
GoesOn ==
  /\ publications \subseteq publications'
  /\ \A p \in ProposalIds : life[p].status \in Decided =>
       /\ life'[p].status \in Decided
       /\ life'[p].decided_by = life[p].decided_by
       /\ life'[p].proposal = life[p].proposal

(* The specialist goes on, whether or not its caller waits for it. *)
LEMMA StillServes ==
  ASSUME IInv, NEW h \in Handlers, work'[h] = work[h], GoesOn,
         InTurn(h)' => InTurn(h) /\ target'[h] = target[h]
  PROVE  Serves(h)'
<1> DEFINE w == work[h]
<1>1. Serves(h)
  BY DEF IInv
<1>2. w.serves \in ProposalIds \cup {UnknownId}
  BY WorkDone, Fixed DEF IInv, Types
<1>3. ASSUME NEW p \in ProposalIds, life[p].status \in Decided, PublishedFor(p)
      PROVE  PublishedFor(p)'
  BY <1>3 DEF PublishedFor, GoesOn
<1>4. w.serves # UnknownId =>
        /\ w.serves \in ProposalIds
        /\ life[w.serves].status \in Decided
        /\ life'[w.serves].status \in Decided
        /\ life'[w.serves].decided_by = life[w.serves].decided_by
        /\ life'[w.serves].proposal = life[w.serves].proposal
  BY <1>1, <1>2 DEF Serves, GoesOn
<1>5. work'[h] = w
  OBVIOUS
<1> QED
  BY <1>1, <1>3, <1>4, <1>5 DEF Serves

LEMMA OtherTurns ==
  ASSUME IInv, NEW h \in Handlers, Kept(h), GoesOn,
         pc[h] = "executing" => Held(h)'.status \in Decided
  PROVE  InPlace(h)' /\ Serves(h)' /\ Reports(h)'
<1>1. InPlace(h) /\ Serves(h) /\ Reports(h)
  BY DEF IInv
<1>2. pc[h] = "executing" => target[h] \in ProposalIds /\ life[target[h]].status \in Decided
  <2>1. SUFFICES ASSUME pc[h] = "executing"
                 PROVE  target[h] \in ProposalIds /\ life[target[h]].status \in Decided
    OBVIOUS
  <2>2. pod[h] \in Pods /\ target[h] \in ProposalIds /\ Held(h).status \in Decided
    BY <1>1, <2>1 DEF InPlace
  <2>3. Held(h) = store[pod[h]][target[h]] /\ NoCase.status \notin Decided
    BY Fixed DEF Held, Decided
  <2> QED
    BY <2>2, <2>3 DEF IInv, OnePodKnows
<1>4. ASSUME NEW p \in ProposalIds, life[p].status \in Decided, PublishedFor(p)
      PROVE  PublishedFor(p)'
  BY <1>4 DEF PublishedFor, GoesOn
<1>5. InPlace(h)'
  BY <1>1 DEF InPlace, Kept
<1>6. Serves(h)'
  BY StillServes DEF Kept, InTurn
<1>7. Reports(h)'
  <2>1. Report(h, "approval_required", raised[h])'
    BY <1>1 DEF Reports, Report, Kept
  <2>2. Report(h, "published", performed[h])'
    BY <1>1 DEF Reports, Report, Kept
  <2>3. pc'[h] = "executing" =>
          \A d \in performed'[h] : d.what = life'[target'[h]].proposal => PublishedFor(target[h])'
    BY <1>1, <1>2, <1>4 DEF Reports, Kept, GoesOn
  <2>4. target'[h] = target[h]
    BY DEF Kept
  <2> QED
    BY <2>1, <2>2, <2>3, <2>4 DEF Reports, PublishedFor
<1> QED
  BY <1>5, <1>6, <1>7

(* The request h is answered, or ended. *)
Over(h) ==
  /\ pc'[h] = "idle" /\ target'[h] = UnknownId /\ texts'[h] = <<>>
  /\ raised'[h] = {} /\ performed'[h] = {}

LEMMA TurnOver ==
  ASSUME IInv, NEW h \in Handlers, Over(h), work'[h] = work[h], GoesOn
  PROVE  InPlace(h)' /\ Serves(h)' /\ Reports(h)'
<1>1. InPlace(h)'
  BY DEF InPlace, Over
<1>2. Serves(h)'
  BY StillServes DEF Over, InTurn
<1>3. <<>> \in Seq(Texts(Results)) /\ Range(<<>>) = {}
  BY EmptySeq DEF Range
<1>4. \A x : x \notin Range(ResultsIn(<<>>))
  BY <1>3, ResultsFound
<1>5. Reports(h)'
  BY <1>4 DEF Reports, Report, Over
<1> QED
  BY <1>1, <1>2, <1>5

LEMMA AnsweredEnds ==
  ASSUME IInv, NEW h \in Handlers, NEW a \in Replied, Answered(h, a)
  PROVE  /\ Over(h)
         /\ \A g \in Handlers \ {h} :
              /\ pc'[g] = pc[g] /\ pod'[g] = pod[g] /\ target'[g] = target[g]
              /\ texts'[g] = texts[g] /\ raised'[g] = raised[g] /\ performed'[g] = performed[g]
              /\ answer'[g] = answer[g]
         /\ answer'[h] = a /\ pod'[h] = NoPod
         /\ pc' \in [Handlers -> {"idle", "running", "executing"}]
         /\ pod' \in [Handlers -> Pods \cup {NoPod}]
         /\ target' \in [Handlers -> ProposalIds \cup {UnknownId}]
         /\ texts' \in [Handlers -> Seq(Texts(Results))]
         /\ asks' \in [Handlers -> 0..MaxAsks]
         /\ answer' \in [Handlers -> Replied]
         /\ raised' \in [Handlers -> SUBSET Deeds]
         /\ performed' \in [Handlers -> SUBSET Deeds]
<1>1. Types
  BY DEF IInv
<1>2. Over(h)
  BY <1>1 DEF Answered, Over, Types
<1>3. \A g \in Handlers \ {h} :
        /\ pc'[g] = pc[g] /\ pod'[g] = pod[g] /\ target'[g] = target[g]
        /\ texts'[g] = texts[g] /\ raised'[g] = raised[g] /\ performed'[g] = performed[g]
        /\ answer'[g] = answer[g]
  BY <1>1 DEF Answered, Types
<1>4. answer'[h] = a /\ pod'[h] = NoPod
  BY <1>1 DEF Answered, Types
<1>5. /\ pc' \in [Handlers -> {"idle", "running", "executing"}]
      /\ pod' \in [Handlers -> Pods \cup {NoPod}]
      /\ target' \in [Handlers -> ProposalIds \cup {UnknownId}]
      /\ answer' \in [Handlers -> Replied]
      /\ raised' \in [Handlers -> SUBSET Deeds]
      /\ performed' \in [Handlers -> SUBSET Deeds]
  BY <1>1 DEF Answered, Types
<1>6. texts' \in [Handlers -> Seq(Texts(Results))]
  BY <1>1, EmptySeq DEF Answered, Types
<1>7. asks' \in [Handlers -> 0..MaxAsks]
  BY <1>1, FlowAssumption DEF Answered, Types
<1> QED
  BY <1>2, <1>3, <1>4, <1>5, <1>6, <1>7

-----------------------------------------------------------------------------
(* The actions, one by one                                                 *)

LEMMA NothingHappens ==
  ASSUME IInv, UNCHANGED vars
  PROVE  IInv'
<1>1. \A h \in Handlers : Kept(h) /\ (pc[h] = "executing" => Held(h)'.status \in Decided)
  BY DEF IInv, InPlace, Held, Kept, vars, flow, turn
<1>2. GoesOn
  BY DEF GoesOn, vars, history
<1>3. \A h \in Handlers : InPlace(h)' /\ Serves(h)' /\ Reports(h)'
  BY <1>1, <1>2, OtherTurns
<1>4. Types' /\ OnePodKnows' /\ Origins'
  BY DEF IInv, Types, OnePodKnows, Origins, vars, flow, history, turn
<1> QED
  BY <1>3, <1>4 DEF IInv

LEMMA AskSpecialistIInv ==
  ASSUME IInv, NEW h \in Handlers, NEW r \in Askable(h), AskSpecialist(h, r)
  PROVE  IInv'
<1> DEFINE w == [request |-> r, calculated |-> Calculate(r.expression), tools |-> 0,
                 events |-> <<Event(<<Object(Calculate(r.expression))>>, <<>>)>>,
                 serves |-> target[h]]
<1> USE DEF AskSpecialist, history, turn
<1>1. Types /\ r \in Requests
  BY DEF IInv, Askable
<1>2. work' = [work EXCEPT ![h] = w]
  OBVIOUS
<1>3. w.events = <<ToolEvent(Calculate(r.expression))>>
  BY DEF ToolEvent
<1>4. w \in WorkOn(r)
  <2>1. ToolEvent(Calculate(r.expression)) \in {ToolEvent(x) : x \in ToolResults(r)}
    BY DEF ToolResults
  <2>2. w.events \in Seq({ToolEvent(x) : x \in ToolResults(r)})
    BY <1>3, <2>1, OneOf
  <2>3. target[h] \in ProposalIds \cup {UnknownId}
    BY <1>1 DEF Types
  <2> QED
    BY <2>2, <2>3 DEF WorkOn
<1> HIDE DEF w
<1>5. Types'
  <2>1. asks' \in [Handlers -> 0..MaxAsks]
    <3>1. asks[h] + 1 \in 0..MaxAsks
      BY <1>1, FlowAssumption DEF Types
    <3> QED
      BY <1>1, <3>1 DEF Types
  <2>2. work' \in [Handlers -> Works]
    <3>1. w \in Works
      BY <1>1, <1>4 DEF Works
    <3> QED
      BY <1>1, <1>2, <3>1 DEF Types
  <2> QED
    BY <1>1, <2>1, <2>2 DEF Types
<1>6. GoesOn
  BY DEF GoesOn
<1>7. ASSUME NEW g \in Handlers
      PROVE  InPlace(g)' /\ Serves(g)' /\ Reports(g)'
  <2>1. InPlace(g) /\ Serves(g) /\ Reports(g)
    BY DEF IInv
  <2>2. pc[g] = "executing" => Held(g)'.status \in Decided
    BY <2>1 DEF InPlace, Held
  <2>3. CASE g # h
    BY <1>1, <1>2, <1>6, <2>2, <2>3, OtherTurns DEF Kept, Types
  <2>4. CASE g = h
    <3>1. InPlace(g)' /\ Reports(g)'
      BY <2>1 DEF InPlace, Held, Reports, Report, PublishedFor
    <3>2. work'[g] = w /\ w.request = r /\ w.serves = target[h]
      BY <1>1, <1>2, <2>4 DEF Types, w
    <3>3. Serves(g)'
      <4>1. w.serves # UnknownId => pc[h] = "executing"
        BY <2>1, <2>4, <3>2 DEF InPlace, InTurn
      <4>2. w.serves = UnknownId => r.approved_by = NoName
        BY <2>1, <2>4, <3>2, FlowAssumption DEF InPlace, Askable
      <4>3. pc[h] = "executing" =>
              /\ life[w.serves].status \in Decided
              /\ r.approved_by \in {NoName, Credit(life[w.serves].decided_by)}
        <5>1. SUFFICES ASSUME pc[h] = "executing"
                       PROVE  /\ life[w.serves].status \in Decided
                              /\ r.approved_by \in {NoName, Credit(life[w.serves].decided_by)}
          OBVIOUS
        <5>2. pod[h] \in Pods /\ target[h] \in ProposalIds /\ Held(h).status \in Decided
          BY <2>1, <2>4, <5>1 DEF InPlace
        <5>3. Held(h) = life[target[h]]
          BY <5>2, Fixed DEF IInv, OnePodKnows, Held, Decided
        <5> QED
          BY <3>2, <5>2, <5>3 DEF Askable
      <4>4. ASSUME NEW x \in Results, ToolEvent(x) \in Range(w.events), x.status = "published"
            PROVE  FALSE
        <5>1. ToolEvent(x) = ToolEvent(Calculate(r.expression))
          BY <1>3, <4>4, OneOf
        <5>2. \A y : ToolEvent(y).responses[1].result = y
          BY DEF ToolEvent, Event, Object, Node
        <5>3. x = Calculate(r.expression)
          BY <5>1, <5>2
        <5> QED
          BY <4>4, <5>3, Calculated DEF AUDITED_STATUSES
      <4> QED
        <5>1. life' = life /\ target' = target
          OBVIOUS
        <5> HIDE DEF AskSpecialist
        <5> QED
          BY <2>4, <3>2, <4>1, <4>2, <4>3, <4>4, <5>1 DEF Serves
    <3> QED
      BY <3>1, <3>3
  <2> QED
    BY <2>3, <2>4
<1>8. OnePodKnows' /\ Origins'
  BY DEF IInv, OnePodKnows, Origins
<1> QED
  BY <1>5, <1>7, <1>8 DEF IInv

LEMMA PublishIInv ==
  ASSUME IInv, NEW h \in Handlers, NEW value, Publish(h, value)
  PROVE  IInv'
<1> DEFINE r == work[h].request
           p == work[h].serves
           x == Outcome(r)
           e == [what |-> x.what, approved_by |-> r.approved_by, serves |-> p]
           effect == p # UnknownId /\ x.status = "published" /\ x.what = life[p].proposal
           w == [work[h] EXCEPT !.events = Append(@, ToolEvent(x)), !.tools = @ + 1]
<1>1. Types /\ work[h] \in Works
  BY DEF IInv, Types
<1>2. work[h] # NoWork /\ work[h].calculated.status = "ok"
  BY Fixed DEF Publish
<1>3. /\ r \in Requests /\ work[h].calculated = Calculate(r.expression)
      /\ work[h].events \in Seq({ToolEvent(y) : y \in ToolResults(r)})
      /\ work[h].tools \in Nat /\ p \in ProposalIds \cup {UnknownId}
      /\ work[h] \in WorkOn(r)
  BY <1>1, <1>2, WorkDone
<1>4. r \in Asked /\ value \in Spellings(Float(r.expression.number))
  <2>1. Evaluates(r)
    BY <1>2, <1>3, Calculated DEF Evaluates
  <2>2. work[h].calculated.what.value.number = Float(r.expression.number)
    BY <1>3, <2>1, Calculated DEF Evaluates
  <2> QED
    BY <1>3, <2>1, <2>2 DEF Publish, Asked
<1>5. PublishResult(value, r.label, r.approved_by) = x
  BY <1>4, PublishedAlike
<1>6. /\ work' = [work EXCEPT ![h] = w]
      /\ publications' = publications \cup (IF effect THEN {e} ELSE {})
      /\ UNCHANGED <<store, flow, restarts, history, turn>>
  <2>1. /\ work' = [work EXCEPT ![h].events = Append(@, ToolEvent(x)), ![h].tools = @ + 1]
        /\ publications' = publications \cup (IF effect THEN {e} ELSE {})
        /\ UNCHANGED <<store, flow, restarts, history, turn>>
    BY <1>5, Zenon DEF Publish, ToolEvent
  <2> QED
    BY <1>1, <2>1 DEF Types
<1>7. w \in WorkOn(r)
  <2>1. ToolEvent(x) \in {ToolEvent(y) : y \in ToolResults(r)}
    BY <1>4, Returnable
  <2>2. Append(work[h].events, ToolEvent(x)) \in Seq({ToolEvent(y) : y \in ToolResults(r)})
    BY <1>3, <2>1, AppendProperties
  <2> DEFINE E == {ToolEvent(y) : y \in ToolResults(r)}
             s == Append(work[h].events, ToolEvent(x))
  <2>3. s \in Seq(E)
    BY <2>2
  <2>4. w = [request |-> r, calculated |-> work[h].calculated, events |-> s,
             tools |-> work[h].tools + 1, serves |-> p]
    <3>1. PICK C : work[h] \in [request : {r}, calculated : {Calculate(r.expression)},
                                events : C, tools : Nat, serves : ProposalIds \cup {UnknownId}]
      BY <1>3 DEF WorkOn
    <3> DEFINE n == work[h].tools + 1
               v == work[h]
    <3>2. v \in [request : {r}, calculated : {Calculate(r.expression)},
                 events : C, tools : Nat, serves : ProposalIds \cup {UnknownId}]
      BY <3>1
    <3> HIDE DEF r, p, x, s, n, v
    <3>3. [v EXCEPT !.events = s, !.tools = n] =
            [request |-> v.request, calculated |-> v.calculated, events |-> s,
             tools |-> n, serves |-> v.serves]
      <4> DEFINE u == [v EXCEPT !.events = s]
      <4>1. v = [request |-> v.request, calculated |-> v.calculated, events |-> v.events,
                 tools |-> v.tools, serves |-> v.serves]
        BY <3>2
      <4>2. u = [request |-> v.request, calculated |-> v.calculated, events |-> s,
                 tools |-> v.tools, serves |-> v.serves]
        BY <4>1
      <4>3. [v EXCEPT !.events = s, !.tools = n] = [u EXCEPT !.tools = n]
        BY <4>1
      <4> HIDE DEF u
      <4> QED
        BY <4>2, <4>3
    <3>4. w = [v EXCEPT !.events = s, !.tools = n]
      BY DEF v, s, n
    <3>5. v.request = r /\ v.serves = p /\ v.calculated = work[h].calculated
      BY Zenon DEF v, r, p
    <3> QED
      BY <3>3, <3>4, <3>5, Zenon DEF n
  <2>5. /\ r \in {r} /\ work[h].calculated \in {Calculate(r.expression)}
        /\ work[h].tools + 1 \in Nat /\ p \in ProposalIds \cup {UnknownId}
    BY <1>3
  <2> HIDE DEF E, s, w, r, p
  <2>6. w \in [request : {r}, calculated : {Calculate(r.expression)}, events : Seq(E),
               tools : Nat, serves : ProposalIds \cup {UnknownId}]
    BY <2>3, <2>4, <2>5
  <2> QED
    BY <2>6, Zenon DEF WorkOn, E
<1>8. /\ w.request = r /\ w.serves = p /\ w # NoWork
      /\ w.events = Append(work[h].events, ToolEvent(x))
  <2>1. w.request = r /\ w.serves = p /\ w.events = Append(work[h].events, ToolEvent(x))
    BY <1>3 DEF WorkOn
  <2>2. NoWork.events = <<>> /\ Append(work[h].events, ToolEvent(x)) # <<>>
    BY <1>3, AppendProperties DEF NoWork
  <2> QED
    BY <2>1, <2>2
<1>9. work'[h] = w /\ \A g \in Handlers \ {h} : work'[g] = work[g]
  BY <1>1, <1>6 DEF Types
<1> HIDE DEF w
<1>10. effect => e \in [what : Whats, approved_by : Approvers, serves : ProposalIds]
  <2>1. r.approved_by \in Approvers
    BY <1>3 DEF Requests, Request
  <2>2. x.what \in Whats
    BY <1>4, Returnable, Outcomes
  <2> QED
    BY <1>3, <2>1, <2>2
<1>11. Types'
  <2>1. work' \in [Handlers -> Works]
    <3>1. w \in Works
      BY <1>3, <1>7 DEF Works
    <3> QED
      BY <1>1, <1>6, <3>1 DEF Types
  <2>2. publications' \subseteq [what : Whats, approved_by : Approvers, serves : ProposalIds]
    BY <1>1, <1>6, <1>10 DEF Types
  <2> QED
    BY <1>1, <1>6, <2>1, <2>2 DEF Types, flow, history, turn
<1>12. GoesOn
  BY <1>6 DEF GoesOn, history
<1>13. ASSUME NEW g \in Handlers
       PROVE  InPlace(g)' /\ Serves(g)' /\ Reports(g)'
  <2>1. InPlace(g) /\ Serves(g) /\ Reports(g)
    BY DEF IInv
  <2>2. pc[g] = "executing" => Held(g)'.status \in Decided
    BY <1>6, <2>1 DEF InPlace, Held, flow
  <2>3. CASE g # h
    BY <1>6, <1>9, <1>12, <2>2, <2>3, OtherTurns DEF Kept, flow, turn
  <2>4. CASE g = h
    <3>1. InPlace(g)'
      BY <1>6, <2>1 DEF InPlace, Held, flow, turn
    <3>2. Reports(g)'
      <4>1. Report(g, "approval_required", raised[g])' /\ Report(g, "published", performed[g])'
        BY <1>6, <2>1 DEF Reports, Report, flow, turn
      <4>2. publications \subseteq publications'
        BY <1>6
      <4>3. pc' = pc /\ performed' = performed /\ target' = target /\ life' = life
        BY <1>6 DEF flow, history, turn
      <4> HIDE DEF e, effect
      <4> QED
        BY <2>1, <4>1, <4>2, <4>3 DEF Reports, PublishedFor
    <3>3. Serves(g)'
      <4>1. ASSUME p # UnknownId, NEW y \in Results, ToolEvent(y) \in Range(w.events),
                   y.status = "published", y.what = life[p].proposal
            PROVE  PublishedFor(p)'
        <5>1. Range(w.events) = Range(work[h].events) \cup {ToolEvent(x)}
          BY <1>3, <1>8, AppendedRange
        <5>2. CASE ToolEvent(y) \in Range(work[h].events)
          <6>1. PublishedFor(p)
            BY <2>1, <2>4, <4>1, <5>2 DEF Serves
          <6>2. publications \subseteq publications' /\ life' = life /\ work'[h].serves = p
            BY <1>6, <1>8, <1>9 DEF history
          <6> HIDE DEF p, e, effect
          <6> QED
            BY <6>1, <6>2 DEF PublishedFor, p
        <5>3. CASE ToolEvent(y) = ToolEvent(x)
          <6>1. \A z : ToolEvent(z).responses[1].result = z
            BY DEF ToolEvent, Event, Object, Node
          <6>2. y = x
            BY <5>3, <6>1
          <6>3. effect /\ e.serves = p /\ e.what = life[p].proposal /\ e \in publications'
            BY <1>6, <4>1, <6>2
          <6>4. life' = life /\ work'[h].serves = p
            BY <1>6, <1>8, <1>9 DEF history
          <6> HIDE DEF p, e, effect
          <6> QED
            BY <6>3, <6>4 DEF PublishedFor, p
        <5> QED
          BY <4>1, <5>1, <5>2, <5>3
      <4>2. work'[g] = w /\ life' = life /\ (InTurn(g)' <=> InTurn(g)) /\ target' = target
        BY <1>6, <1>9, <2>4 DEF flow, history, InTurn
      <4> QED
        BY <1>2, <1>8, <2>1, <2>4, <4>1, <4>2 DEF Serves
    <3> QED
      BY <3>1, <3>2, <3>3
  <2> QED
    BY <2>3, <2>4
<1>14. OnePodKnows' /\ Origins'
  BY <1>6 DEF IInv, OnePodKnows, Origins, history
<1> QED
  BY <1>11, <1>13, <1>14 DEF IInv

LEMMA ReplyLostIInv ==
  ASSUME IInv, NEW h \in Handlers, ReplyLost(h)
  PROVE  IInv'
<1> USE DEF ReplyLost, flow, history, turn
<1>1. Types' /\ OnePodKnows' /\ Origins'
  BY DEF IInv, Types, Works, OnePodKnows, Origins
<1>2. ASSUME NEW g \in Handlers
      PROVE  InPlace(g)' /\ Serves(g)' /\ Reports(g)'
  <2>1. InPlace(g) /\ Serves(g) /\ Reports(g)
    BY DEF IInv
  <2>2. InPlace(g)' /\ Reports(g)'
    BY <2>1 DEF InPlace, Held, Reports, Report, PublishedFor
  <2>3. Serves(g)'
    <3>1. CASE g = h
      <4>1. work'[g] = NoWork
        BY <3>1 DEF IInv, Types
      <4> QED
        BY <4>1, Fixed DEF Serves
    <3>2. CASE g # h
      <4>1. work'[g] = work[g]
        BY <3>2 DEF IInv, Types
      <4>2. GoesOn
        BY DEF GoesOn
      <4> QED
        BY <4>1, <4>2, StillServes DEF InTurn
    <3> QED
      BY <3>1, <3>2
  <2> QED
    BY <2>2, <2>3
<1> QED
  BY <1>1, <1>2 DEF IInv

LEMMA TurnRaisesIInv ==
  ASSUME IInv, NEW h \in Handlers, TurnRaises(h)
  PROVE  IInv'
<1>1. Answered(h, "lost") /\ UNCHANGED <<store, publications, work, restarts, history>>
  BY DEF TurnRaises
<1>2. "lost" \in Replied
  BY DEF Replied
<1>3. GoesOn
  BY <1>1 DEF GoesOn, history
<1>4. ASSUME NEW g \in Handlers
      PROVE  InPlace(g)' /\ Serves(g)' /\ Reports(g)'
  <2>1. CASE g = h
    BY <1>1, <1>2, <1>3, <2>1, AnsweredEnds, TurnOver
  <2>2. CASE g # h
    <3>1. Kept(g)
      BY <1>1, <1>2, <2>2, AnsweredEnds DEF Kept
    <3>2. pc[g] = "executing" => Held(g)'.status \in Decided
      BY <1>1, <3>1 DEF IInv, InPlace, Held, Kept
    <3> QED
      BY <1>3, <3>1, <3>2, OtherTurns
  <2> QED
    BY <2>1, <2>2
<1>5. Types'
  BY <1>1, <1>2, AnsweredEnds DEF IInv, Types, history
<1>6. OnePodKnows' /\ Origins'
  BY <1>1 DEF IInv, OnePodKnows, Origins, history
<1> QED
  BY <1>4, <1>5, <1>6 DEF IInv

LEMMA RunTurnIInv ==
  ASSUME IInv, NEW h \in Handlers, NEW k \in Pods, RunTurn(h, k)
  PROVE  IInv'
<1> USE DEF RunTurn, Free, history, turn
<1>1. Types
  BY DEF IInv
<1>2. Types'
  BY <1>1 DEF Types, Replied
<1>3. GoesOn
  BY DEF GoesOn
<1>4. ASSUME NEW g \in Handlers
      PROVE  InPlace(g)' /\ Serves(g)' /\ Reports(g)'
  <2>1. InPlace(g) /\ Serves(g) /\ Reports(g)
    BY DEF IInv
  <2>2. CASE g = h
    <3>1. /\ pc'[g] = "running" /\ pod'[g] = k /\ target'[g] = UnknownId
          /\ work'[g] = NoWork /\ texts'[g] = texts[g] /\ raised'[g] = raised[g]
          /\ performed'[g] = performed[g]
      BY <1>1, <2>2 DEF Types
    <3>2. InPlace(g)'
      BY <3>1 DEF InPlace
    <3>3. Serves(g)'
      BY <3>1, Fixed DEF Serves
    <3>4. Reports(g)'
      BY <2>1, <3>1 DEF Reports, Report
    <3> QED
      BY <3>2, <3>3, <3>4
  <2>3. CASE g # h
    <3>1. Kept(g)
      BY <1>1, <2>3 DEF Kept, Types
    <3>2. pc[g] = "executing" => Held(g)'.status \in Decided
      BY <2>1, <3>1 DEF InPlace, Held, Kept
    <3> QED
      BY <1>3, <3>1, <3>2, OtherTurns
  <2> QED
    BY <2>2, <2>3
<1>5. OnePodKnows' /\ Origins'
  BY DEF IInv, OnePodKnows, Origins
<1> QED
  BY <1>2, <1>4, <1>5 DEF IInv

LEMMA NotFoundIInv ==
  ASSUME IInv, NEW h \in Handlers, NEW k \in Pods, NEW p, NotFound(h, k, p)
  PROVE  IInv'
<1> USE DEF NotFound, history, turn
<1>1. Types'
  BY DEF IInv, Types, Replied
<1>2. GoesOn
  BY DEF GoesOn
<1>3. ASSUME NEW g \in Handlers
      PROVE  InPlace(g)' /\ Serves(g)' /\ Reports(g)'
  <2>1. Kept(g)
    BY DEF Kept
  <2>2. pc[g] = "executing" => Held(g)'.status \in Decided
    BY DEF IInv, InPlace, Held
  <2> QED
    BY <1>2, <2>1, <2>2, OtherTurns
<1>4. OnePodKnows' /\ Origins'
  BY DEF IInv, OnePodKnows, Origins
<1> QED
  BY <1>1, <1>3, <1>4 DEF IInv

LEMMA RestartIInv ==
  ASSUME IInv, NEW k \in Pods, Restart(k)
  PROVE  IInv'
<1> DEFINE Dies(h) == pc[h] # "idle" /\ pod[h] = k
<1> USE DEF Restart, history
<1>1. Types
  BY DEF IInv
<1>2. \A l \in Pods, p \in ProposalIds :
        store'[l][p] = IF l = k THEN NoCase ELSE store[l][p]
  BY <1>1 DEF Types
<1>3. ASSUME NEW h \in Handlers, Dies(h)
      PROVE  Over(h)
  BY <1>3 DEF Over
<1>4. ASSUME NEW h \in Handlers, ~Dies(h)
      PROVE  Kept(h)
  BY <1>4 DEF Kept
<1>5. GoesOn
  BY DEF GoesOn
<1>6. ASSUME NEW h \in Handlers
      PROVE  InPlace(h)' /\ Serves(h)' /\ Reports(h)'
  <2>1. CASE Dies(h)
    BY <1>3, <1>5, <2>1, TurnOver
  <2>2. CASE ~Dies(h)
    <3>1. Kept(h)
      BY <1>4, <2>2
    <3>2. pc[h] = "executing" => Held(h)'.status \in Decided
      <4>1. InPlace(h)
        BY DEF IInv
      <4> QED
        BY <1>2, <2>2, <3>1, <4>1 DEF InPlace, Held, Kept
    <3> HIDE DEF Restart
    <3> QED
      BY <1>5, <3>1, <3>2, OtherTurns
  <2> QED
    BY <2>1, <2>2
<1>7. Types'
  <2>1. store' \in [Pods -> [ProposalIds -> Cases]]
    <3>1. NoCase \in Cases
      BY DEF Cases
    <3> QED
      BY <1>1, <3>1 DEF Types
  <2>2. restarts' \in 0..MaxRestarts
    BY <1>1, FlowAssumption DEF Types
  <2>3. texts' \in [Handlers -> Seq(Texts(Results))]
    <3>1. <<>> \in Seq(Texts(Results))
      BY EmptySeq
    <3> DEFINE T == Seq(Texts(Results))
    <3>2. texts \in [Handlers -> T] /\ <<>> \in T
      BY <1>1, <3>1 DEF Types
    <3> HIDE DEF T
    <3>3. texts' \in [Handlers -> T]
      BY <3>2
    <3> QED
      BY <3>3 DEF T
  <2>4. asks' \in [Handlers -> 0..MaxAsks]
    BY <1>1, FlowAssumption DEF Types
  <2>5. /\ pc' \in [Handlers -> {"idle", "running", "executing"}]
        /\ pod' \in [Handlers -> Pods \cup {NoPod}]
        /\ target' \in [Handlers -> ProposalIds \cup {UnknownId}]
        /\ answer' \in [Handlers -> Replied]
        /\ raised' \in [Handlers -> SUBSET Deeds]
        /\ performed' \in [Handlers -> SUBSET Deeds]
    BY <1>1 DEF Types, Replied
  <2> QED
    BY <1>1, <2>1, <2>2, <2>3, <2>4, <2>5 DEF Types
<1>8. OnePodKnows'
  BY <1>2 DEF IInv, OnePodKnows
<1>9. Origins'
  BY DEF IInv, Origins
<1> QED
  BY <1>6, <1>7, <1>8, <1>9 DEF IInv

-----------------------------------------------------------------------------
(* What is said of the results                                             *)

(* A model's last words carry the results it quotes. *)
LEMMA SaidPieces ==
  ASSUME NEW R, NEW narration \in {"silent", "prose", "brace", "quote"},
         NEW seen \in Seq(Objects(R))
  PROVE  /\ Said(narration, seen) \in Seq(Pieces(R))
         /\ \A x \in R : Object(x) \in Range(Said(narration, seen)) <=>
              narration = "quote" /\ Object(x) \in Range(seen)
<1>1. Prose \in Pieces(R) /\ Brace \in Pieces(R) /\ Objects(R) \subseteq Pieces(R)
  BY DEF Pieces
<1>2. \A x \in R : Object(x) # Prose /\ Object(x) # Brace
  BY DEF Object, Prose, Brace, Node
<1>3. <<Prose>> \in Seq(Pieces(R)) /\ Range(<<Prose>>) = {Prose}
  BY <1>1, OneOf
<1>4. <<Brace, Prose>> \in Seq(Pieces(R)) /\ Range(<<Brace, Prose>>) = {Brace, Prose}
  BY <1>1 DEF Range
<1>5. <<>> \in Seq(Pieces(R)) /\ Range(<<>>) = {}
  BY EmptySeq DEF Range
<1>6. CASE narration = "silent"
  <2>1. Said(narration, seen) = <<>>
    BY <1>6 DEF Said
  <2> QED
    BY <1>5, <1>6, <2>1
<1>7. CASE narration = "prose"
  <2>1. Said(narration, seen) = <<Prose>>
    BY <1>7 DEF Said
  <2> QED
    BY <1>2, <1>3, <1>7, <2>1
<1>8. CASE narration = "brace"
  <2>1. Said(narration, seen) = <<Brace, Prose>>
    BY <1>8 DEF Said
  <2> QED
    BY <1>2, <1>4, <1>8, <2>1
<1>9. CASE narration = "quote"
  <2> DEFINE prose == <<Prose>>
             P == Pieces(R)
  <2>1. Said(narration, seen) = prose \o seen \o prose
    BY <1>9, Zenon DEF Said
  <2>2. prose \in Seq(P) /\ seen \in Seq(P) /\ Range(prose) = {Prose}
    BY <1>1, <1>3
  <2> HIDE DEF prose, P
  <2>3. prose \o seen \in Seq(P) /\ Range(prose \o seen) = Range(prose) \cup Range(seen)
    BY <2>2, ConcatProperties, RangeConcatenation
  <2>4. /\ prose \o seen \o prose \in Seq(P)
        /\ Range(prose \o seen \o prose) = Range(prose \o seen) \cup Range(prose)
    <3> DEFINE before == prose \o seen
    <3>1. before \in Seq(P)
      BY <2>3
    <3> HIDE DEF before
    <3>2. before \o prose \in Seq(P) /\ Range(before \o prose) = Range(before) \cup Range(prose)
      BY <2>2, <3>1, ConcatProperties, RangeConcatenation
    <3> QED
      BY <3>2 DEF before
  <2>5. \A x \in R : Object(x) \in Range(Said(narration, seen)) <=> Object(x) \in Range(seen)
    BY <1>2, <2>1, <2>2, <2>3, <2>4
  <2> QED
    BY <1>9, <2>1, <2>4, <2>5 DEF P
<1> QED
  BY <1>6, <1>7, <1>8, <1>9

(* What comes back from the specialist is what its tools returned to it that
   is audited, however its model words the answer and however it is packed. *)
LEMMA AnswerCarries ==
  ASSUME NEW w \in Works, w # NoWork,
         NEW narration \in Narrations \ {"quote"}, NEW delivery \in Deliveries
  PROVE  LET spoken == Append(w.events, Event(<<>>, Said(narration, <<>>)))
             reply  == PeerReply(RestateStructuredResults(spoken))
             read   == ReplyTextsOf(Event(<<Delivered(delivery, reply)>>, <<>>))
         IN /\ read \in Seq(Texts(Results))
            /\ \A x : x.status \in AUDITED_STATUSES =>
                 (x \in Range(ResultsIn(read)) <=>
                    x \in Results /\ ToolEvent(x) \in Range(w.events))
<1> DEFINE last == Event(<<>>, Said(narration, <<>>))
           spoken == Append(w.events, last)
           reply == PeerReply(RestateStructuredResults(spoken))
           packing == Delivered(delivery, reply)
           read == ReplyTextsOf(Event(<<packing>>, <<>>))
<1>1. w.request \in Requests /\ w.events \in Seq({ToolEvent(x) : x \in ToolResults(w.request)})
      /\ w.events \in Seq(Events(Results))
  BY WorkDone
<1>2. last \in Events(Results) /\ \A x \in Results : Object(x) \notin Range(last.said)
  <2>1. narration \in {"silent", "prose", "brace", "quote"} /\ narration # "quote"
    BY FlowAssumption
  <2>2. <<>> \in Seq(Objects(Results))
    BY EmptySeq
  <2>3. /\ Said(narration, <<>>) \in Seq(Pieces(Results))
        /\ \A x \in Results : Object(x) \notin Range(Said(narration, <<>>))
    BY <2>1, <2>2, SaidPieces
  <2>4. last.said = Said(narration, <<>>)
    BY DEF Event
  <2> QED
    BY <2>2, <2>3, <2>4 DEF Event, Events
<1>3. last.responses = <<>>
  BY DEF Event
<1>4. \A x : /\ ToolEvent(x).said = <<>> /\ ToolEvent(x).responses = <<Object(x)>>
             /\ Object(x).result = x
  BY DEF ToolEvent, Event, Object, Node
<1> HIDE DEF last
<1>5. spoken \in Seq(Events(Results)) /\ Range(spoken) = Range(w.events) \cup {last}
  BY <1>1, <1>2, AppendProperties, AppendedRange
<1> HIDE DEF spoken
<1>6. \A e \in Range(w.events) : \E x \in ToolResults(w.request) : e = ToolEvent(x)
  <2>1. Range(w.events) \subseteq {ToolEvent(x) : x \in ToolResults(w.request)}
    BY <1>1, RangeOfSeq
  <2> QED
    BY <2>1
<1>7. Range(<<>>) = {} /\ \A x : Range(<<x>>) = {x}
  BY OneOf DEF Range
<1>8. \A i \in DOMAIN spoken : \A x \in Results : Object(x) \notin Range(spoken[i].said)
  <2>1. ASSUME NEW i \in DOMAIN spoken, NEW x \in Results
        PROVE  Object(x) \notin Range(spoken[i].said)
    <3>1. spoken[i] \in Range(spoken)
      BY DEF Range
    <3>2. CASE spoken[i] = last
      BY <1>2, <3>2
    <3>3. CASE spoken[i] \in Range(w.events)
      <4>1. spoken[i].said = <<>>
        BY <1>4, <1>6, <3>3
      <4> QED
        BY <1>7, <4>1
    <3> QED
      BY <1>5, <3>1, <3>2, <3>3
  <2> QED
    BY <2>1
<1>9. /\ reply \in Replies(Results)
      /\ Carried(reply) = {x \in Results : /\ x.status \in AUDITED_STATUSES
                                          /\ \E i \in DOMAIN spoken : Returns(spoken[i], x)}
  BY <1>5, <1>8, RestatedReply
<1> HIDE DEF reply
<1>10. \A x \in Results :
         (\E i \in DOMAIN spoken : Returns(spoken[i], x)) <=> ToolEvent(x) \in Range(w.events)
  <2>1. ASSUME NEW x \in Results, NEW i \in DOMAIN spoken, Returns(spoken[i], x)
        PROVE  ToolEvent(x) \in Range(w.events)
    <3>1. spoken[i] \in Range(spoken)
      BY DEF Range
    <3>2. spoken[i] # last
      BY <1>3, <1>7, <2>1 DEF Returns
    <3>3. PICK y \in ToolResults(w.request) : spoken[i] = ToolEvent(y)
      BY <1>5, <1>6, <3>1, <3>2
    <3>4. Object(x) = Object(y)
      <4>1. spoken[i].responses = <<Object(y)>>
        BY <1>4, <3>3
      <4>2. Range(spoken[i].responses) = {Object(y)}
        BY <1>7, <4>1, Zenon
      <4> QED
        BY <2>1, <4>2 DEF Returns
    <3>5. x = y
      BY <1>4, <3>4
    <3> QED
      BY <1>5, <3>1, <3>2, <3>3, <3>5
  <2>2. ASSUME NEW x \in Results, ToolEvent(x) \in Range(w.events)
        PROVE  \E i \in DOMAIN spoken : Returns(spoken[i], x)
    <3>1. PICK i \in DOMAIN spoken : spoken[i] = ToolEvent(x)
      BY <1>5, <2>2 DEF Range
    <3>2. Returns(spoken[i], x)
      <4>1. spoken[i].responses = <<Object(x)>>
        BY <1>4, <3>1
      <4>2. Range(spoken[i].responses) = {Object(x)}
        BY <1>7, <4>1, Zenon
      <4> QED
        BY <4>2 DEF Returns
    <3> QED
      BY <3>2
  <2> QED
    BY <2>1, <2>2
<1>11. packing \in Packings(reply)
  BY FlowAssumption DEF Delivered, Packings
<1> HIDE DEF packing
<1>12. /\ read \in Seq(Texts(Results))
       /\ \A x : x \in Range(ResultsIn(read)) <=>
             x \in Carried(reply) \/ (packing # reply /\ x = NoResult)
  BY <1>9, <1>11, ReplyIsRead
<1> HIDE DEF read
<1>13. NoResult.status \notin AUDITED_STATUSES
  BY Fixed DEF AUDITED_STATUSES
<1>14. ASSUME NEW x, x.status \in AUDITED_STATUSES
       PROVE  x \in Range(ResultsIn(read)) <=> x \in Results /\ ToolEvent(x) \in Range(w.events)
  <2>1. x # NoResult
    BY <1>13, <1>14
  <2> QED
    BY <1>9, <1>10, <1>12, <1>14, <2>1
<1>15. /\ read \in Seq(Texts(Results))
       /\ \A x : x.status \in AUDITED_STATUSES =>
            (x \in Range(ResultsIn(read)) <=>
               x \in Results /\ ToolEvent(x) \in Range(w.events))
  BY <1>12, <1>14
<1> QED
  BY <1>15, Zenon DEF read, packing, reply, spoken, last

(* What the history has of it. *)
LEMMA ReturnedDeeds ==
  ASSUME IInv, NEW h \in Handlers, work[h] # NoWork, NEW status \in AUDITED_STATUSES
  PROVE  /\ Returned(h, status) \subseteq Deeds
         /\ \A d \in Returned(h, status) : \E x \in Results :
              /\ ToolEvent(x) \in Range(work[h].events)
              /\ x.status = status /\ x.what = d.what
         /\ \A x \in Results : ToolEvent(x) \in Range(work[h].events) /\ x.status = status =>
              \E d \in Returned(h, status) : d.what = x.what
<1> DEFINE w == work[h]
           r == w.request
<1>1. /\ r \in Requests
      /\ w.events \in Seq({ToolEvent(x) : x \in ToolResults(r)})
  BY WorkDone DEF IInv, Types
<1>2. \A e \in Range(w.events) : \E x \in ToolResults(r) : e = ToolEvent(x)
  <2>1. Range(w.events) \subseteq {ToolEvent(x) : x \in ToolResults(r)}
    BY <1>1, RangeOfSeq
  <2> QED
    BY <2>1
<1>3. \A x : ToolEvent(x).responses[1].result = x
  BY DEF ToolEvent, Event, Object, Node
<1>4. Returned(h, status) =
        {[request |-> r, what |-> e.responses[1].result.what] :
           e \in {x \in Range(w.events) : x.responses[1].result.status = status}}
  BY DEF Returned
<1> HIDE DEF w, r
<1>5. ASSUME NEW d \in Returned(h, status)
      PROVE  /\ d \in Deeds
             /\ \E x \in Results : /\ ToolEvent(x) \in Range(w.events)
                                   /\ x.status = status /\ x.what = d.what
  <2>1. PICK e \in Range(w.events) : /\ e.responses[1].result.status = status
                                     /\ d = [request |-> r, what |-> e.responses[1].result.what]
    BY <1>4
  <2>2. PICK x \in ToolResults(r) : e = ToolEvent(x)
    BY <1>2
  <2>3. d = [request |-> r, what |-> x.what] /\ x.status = status
    BY <1>3, <2>1, <2>2
  <2>4. r \in Asked /\ x = Outcome(r) /\ x \in Results
    BY <1>1, <2>3, Returnable
  <2>5. d = [request |-> r, what |-> WhatOf(r)]
    BY <2>3, <2>4, Outcomes
  <2> QED
    BY <2>1, <2>2, <2>3, <2>4, <2>5 DEF Deeds
<1>6. ASSUME NEW x \in Results, ToolEvent(x) \in Range(w.events), x.status = status
      PROVE  \E d \in Returned(h, status) : d.what = x.what
  <2>1. ToolEvent(x) \in {e \in Range(w.events) : e.responses[1].result.status = status}
    BY <1>3, <1>6
  <2>2. [request |-> r, what |-> ToolEvent(x).responses[1].result.what] \in Returned(h, status)
    BY <1>4, <2>1
  <2> QED
    BY <1>3, <2>2
<1> QED
  BY <1>5, <1>6 DEF w

LEMMA SpecialistAnswersIInv ==
  ASSUME IInv, NEW h \in Handlers, NEW narration \in Narrations \ {"quote"},
         NEW delivery \in Deliveries, SpecialistAnswers(h, narration, delivery)
  PROVE  IInv'
<1> DEFINE w == work[h]
           spoken == Append(w.events, Event(<<>>, Said(narration, <<>>)))
           reply == PeerReply(RestateStructuredResults(spoken))
           read == ReplyTextsOf(Event(<<Delivered(delivery, reply)>>, <<>>))
           proposed == Returned(h, "approval_required")
           confirmed == Returned(h, "published")
<1>1. /\ w # NoWork /\ InTurn(h)
      /\ work' = [work EXCEPT ![h] = NoWork]
      /\ texts' = [texts EXCEPT ![h] = @ \o read]
      /\ raised' = [raised EXCEPT ![h] = @ \cup proposed]
      /\ performed' = [performed EXCEPT ![h] = @ \cup confirmed]
      /\ UNCHANGED <<store, publications, pc, pod, target, asks, answer, restarts, history>>
  BY Zenon DEF SpecialistAnswers
<1>2. Types /\ w \in Works /\ texts[h] \in Seq(Texts(Results))
  BY DEF IInv, Types
<1>3. /\ read \in Seq(Texts(Results))
      /\ \A x : x.status \in AUDITED_STATUSES =>
           (x \in Range(ResultsIn(read)) <=>
              x \in Results /\ ToolEvent(x) \in Range(w.events))
  BY <1>1, <1>2, AnswerCarries, Zenon
<1> HIDE DEF read
<1>4. /\ texts[h] \o read \in Seq(Texts(Results))
      /\ Range(ResultsIn(texts[h] \o read)) =
           Range(ResultsIn(texts[h])) \cup Range(ResultsIn(read))
  BY <1>2, <1>3, ResultsJoined
<1>5. \A status \in AUDITED_STATUSES :
        /\ Returned(h, status) \subseteq Deeds
        /\ \A d \in Returned(h, status) : \E x \in Results :
             ToolEvent(x) \in Range(w.events) /\ x.status = status /\ x.what = d.what
        /\ \A x \in Results : ToolEvent(x) \in Range(w.events) /\ x.status = status =>
             \E d \in Returned(h, status) : d.what = x.what
  BY <1>1, ReturnedDeeds
<1>6. "approval_required" \in AUDITED_STATUSES /\ "published" \in AUDITED_STATUSES
  BY DEF AUDITED_STATUSES
<1> HIDE DEF w, proposed, confirmed
<1>7. /\ work'[h] = NoWork /\ texts'[h] = texts[h] \o read
      /\ raised'[h] = raised[h] \cup proposed /\ performed'[h] = performed[h] \cup confirmed
      /\ \A g \in Handlers \ {h} : Kept(g)
  BY <1>1, <1>2 DEF Types, Kept
<1>8. Types'
  <2>1. NoWork \in Works
    BY DEF Works
  <2>2. work' \in [Handlers -> Works]
    BY <1>1, <1>2, <2>1 DEF Types
  <2>3. texts' \in [Handlers -> Seq(Texts(Results))]
    BY <1>1, <1>2, <1>4 DEF Types
  <2>4. proposed \subseteq Deeds /\ confirmed \subseteq Deeds
    BY <1>5, <1>6 DEF proposed, confirmed
  <2>5. raised' \in [Handlers -> SUBSET Deeds] /\ performed' \in [Handlers -> SUBSET Deeds]
    BY <1>1, <1>2, <2>4 DEF Types
  <2> QED
    BY <1>1, <1>2, <2>2, <2>3, <2>5 DEF Types, history
<1>9. GoesOn
  BY <1>1 DEF GoesOn, history
<1>10. ASSUME NEW g \in Handlers
       PROVE  InPlace(g)' /\ Serves(g)' /\ Reports(g)'
  <2>1. InPlace(g) /\ Serves(g) /\ Reports(g)
    BY DEF IInv
  <2>2. CASE g # h
    <3>1. Kept(g)
      BY <1>7, <2>2
    <3>2. pc[g] = "executing" => Held(g)'.status \in Decided
      BY <1>1, <2>1 DEF InPlace, Held
    <3> QED
      BY <1>9, <3>1, <3>2, OtherTurns
  <2>3. CASE g = h
    <3>1. InPlace(g)'
      BY <1>1, <2>1, <2>3 DEF InPlace, InTurn, Held
    <3>2. Serves(g)'
      BY <1>7, <2>3, Fixed DEF Serves
    <3> DEFINE heard == Range(ResultsIn(texts[h]))
               now == Range(ResultsIn(read))
    <3>3. Range(ResultsIn(texts'[h])) = heard \cup now
      BY <1>4, <1>7
    <3>4. ASSUME NEW status \in AUDITED_STATUSES, NEW deeds, Report(h, status, deeds)
          PROVE  LET all == deeds \cup Returned(h, status) IN
                 /\ \A x \in heard \cup now : x.status = status => \E d \in all : d.what = x.what
                 /\ \A d \in all : \E x \in heard \cup now : x.status = status /\ x.what = d.what
      <4>1. ASSUME NEW x \in now, x.status = status
            PROVE  \E d \in Returned(h, status) : d.what = x.what
        BY <1>3, <1>5, <4>1
      <4>2. ASSUME NEW d \in Returned(h, status)
            PROVE  \E x \in now : x.status = status /\ x.what = d.what
        BY <1>3, <1>5
      <4>3. /\ \A x \in heard : x.status = status => \E d \in deeds : d.what = x.what
            /\ \A d \in deeds : \E x \in heard : x.status = status /\ x.what = d.what
        BY <3>4 DEF Report
      <4> HIDE DEF heard, now
      <4> QED
        BY <4>1, <4>2, <4>3
    <3>5. Report(g, "approval_required", raised[g])'
      <4> DEFINE all == raised[h] \cup proposed
      <4>1. Report(h, "approval_required", raised[h])
        BY <2>1, <2>3 DEF Reports
      <4>2. /\ \A x \in heard \cup now : x.status = "approval_required" => \E d \in all : d.what = x.what
            /\ \A d \in all : \E x \in heard \cup now :
                 x.status = "approval_required" /\ x.what = d.what
        BY <1>6, <3>4, <4>1, Zenon DEF proposed
      <4>3. raised'[g] = all /\ Range(ResultsIn(texts'[g])) = heard \cup now
        BY <1>7, <2>3, <3>3
      <4> HIDE DEF heard, now, all
      <4> QED
        BY <4>2, <4>3 DEF Report
    <3>6. Report(g, "published", performed[g])'
      <4> DEFINE all == performed[h] \cup confirmed
      <4>1. Report(h, "published", performed[h])
        BY <2>1, <2>3 DEF Reports
      <4>2. /\ \A x \in heard \cup now : x.status = "published" => \E d \in all : d.what = x.what
            /\ \A d \in all : \E x \in heard \cup now :
                 x.status = "published" /\ x.what = d.what
        BY <1>6, <3>4, <4>1, Zenon DEF confirmed
      <4>3. performed'[g] = all /\ Range(ResultsIn(texts'[g])) = heard \cup now
        BY <1>7, <2>3, <3>3
      <4> HIDE DEF heard, now, all
      <4> QED
        BY <4>2, <4>3 DEF Report
    <3>7. ASSUME pc[h] = "executing", NEW d \in performed[h] \cup confirmed,
                 d.what = life[target[h]].proposal
          PROVE  PublishedFor(target[h])
      <4>1. CASE d \in performed[h]
        BY <2>1, <2>3, <3>7, <4>1 DEF Reports
      <4>2. CASE d \in confirmed
        <5>1. PICK x \in Results : /\ ToolEvent(x) \in Range(w.events)
                                   /\ x.status = "published" /\ x.what = d.what
          BY <1>5, <1>6, <4>2 DEF confirmed
        <5>2. w.serves = target[h] /\ target[h] # UnknownId
          BY <1>1, <2>1, <2>3, <3>7, FlowAssumption DEF Serves, InPlace, w
        <5> QED
          BY <2>1, <2>3, <3>7, <5>1, <5>2 DEF Serves, w
      <4> QED
        BY <3>7, <4>1, <4>2
    <3>8. pc' = pc /\ target' = target /\ life' = life /\ publications' = publications
      BY <1>1 DEF history
    <3>9. Reports(g)'
      BY <1>7, <2>3, <3>5, <3>6, <3>7, <3>8 DEF Reports, PublishedFor
    <3> QED
      BY <3>1, <3>2, <3>9
  <2> QED
    BY <2>2, <2>3
<1>11. OnePodKnows' /\ Origins'
  BY <1>1 DEF IInv, OnePodKnows, Origins, history
<1> QED
  BY <1>8, <1>10, <1>11 DEF IInv

(* The serving model's own last words add nothing to what it was shown. *)
LEMMA FinalCarries ==
  ASSUME IInv, NEW h \in Handlers, NEW narration \in Narrations
  PROVE  /\ ResultsIn(Final(h, narration)) \in Seq(Results)
         /\ Range(ResultsIn(Final(h, narration))) = Range(ResultsIn(texts[h]))
<1> DEFINE results == ResultsIn(texts[h])
           places == {i \in DOMAIN results : results[i] # NoResult}
           shown == Picked(results, places)
           seen == [i \in DOMAIN shown |-> Object(shown[i])]
           said == Said(narration, seen)
           read == ReplyTextsOf(Event(<<>>, said))
<1>1. texts[h] \in Seq(Texts(Results))
  BY DEF IInv, Types
<1>2. Results \cup {NoResult} = Results
  BY Fixed
<1>3. results \in Seq(Results)
  BY <1>1, <1>2, ResultsFound
<1>4. Final(h, narration) = texts[h] \o read
  BY Zenon DEF Final
<1> HIDE DEF results
<1>5. shown \in Seq(Results) /\ Range(shown) \subseteq Range(results)
  <2>1. /\ shown \in Seq(Results)
        /\ Range(shown) = {results[i] : i \in {j \in DOMAIN results : j \in places}}
    <3> HIDE DEF places
    <3> QED
      BY <1>3, PickedRange
  <2> QED
    BY <2>1 DEF Range
<1> HIDE DEF shown
<1>6. /\ seen \in Seq(Objects(Results))
      /\ \A x \in Results : Object(x) \in Range(seen) => x \in Range(results)
  <2>1. \A x : Object(x).result = x
    BY DEF Object, Node
  <2>2. Len(shown) \in Nat /\ DOMAIN shown = 1..Len(shown) /\ \A i \in DOMAIN shown : shown[i] \in Results
    BY <1>5, LenProperties, ElementOfSeq
  <2>3. seen \in [1..Len(shown) -> Objects(Results)]
    BY <2>2 DEF Objects
  <2>4. ASSUME NEW x \in Results, Object(x) \in Range(seen)
        PROVE  x \in Range(results)
    <3>1. PICK i \in DOMAIN shown : Object(x) = Object(shown[i])
      BY <2>4 DEF Range
    <3>2. x = shown[i]
      BY <2>1, <3>1
    <3> QED
      BY <1>5, <3>2 DEF Range
  <2> HIDE DEF seen
  <2>5. seen \in Seq(Objects(Results))
    BY <2>2, <2>3, FunctionIsSeq
  <2> QED
    BY <2>4, <2>5 DEF seen
<1> HIDE DEF seen
<1>7. /\ said \in Seq(Pieces(Results))
      /\ \A x \in Results : Object(x) \in Range(said) => x \in Range(results)
  <2>1. narration \in {"silent", "prose", "brace", "quote"}
    BY FlowAssumption
  <2> QED
    BY <1>6, <2>1, SaidPieces
<1> HIDE DEF said
<1>8. /\ read \in Seq(Texts(Results))
      /\ \A x : x \in Range(ResultsIn(read)) <=> x \in Results /\ Object(x) \in Range(said)
  BY <1>7, WordsAreRead
<1> HIDE DEF read
<1>9. /\ texts[h] \o read \in Seq(Texts(Results))
      /\ Range(ResultsIn(texts[h] \o read)) = Range(ResultsIn(texts[h])) \cup Range(ResultsIn(read))
  BY <1>1, <1>8, ResultsJoined
<1>10. Range(ResultsIn(read)) \subseteq Range(ResultsIn(texts[h]))
  BY <1>7, <1>8 DEF results
<1>11. ResultsIn(texts[h] \o read) \in Seq(Results)
  BY <1>2, <1>9, ResultsFound
<1>12. Range(ResultsIn(texts[h] \o read)) = Range(ResultsIn(texts[h]))
  BY <1>9, <1>10
<1> QED
  BY <1>4, <1>11, <1>12, Zenon

(* The turn of h ends and opens a case, with an id of its own, for each of the
   proposals found; each is one that the specialist's tool returned. *)
Opening(h, found, ids) ==
  /\ found \in Seq(Results) /\ ids \in [DOMAIN found -> ProposalIds]
  /\ \A i, j \in DOMAIN found : ids[i] = ids[j] => i = j
  /\ \A i, j \in DOMAIN found : found[i].what = found[j].what => i = j
  /\ \A i \in DOMAIN found : found[i].what \in Whats /\ \E d \in raised[h] : d.what = found[i].what
  /\ \A d \in raised[h] : \E i \in DOMAIN found : d.what = found[i].what
  /\ \A i \in DOMAIN found :
       /\ life[ids[i]] = NoCase
       /\ life'[ids[i]] = CaseFromProposal(found[i])
       /\ store'[pod[h]][ids[i]] = CaseFromProposal(found[i])
       /\ origin'[ids[i]] = {d.request : d \in {q \in raised[h] : q.what = found[i].what}}
  /\ \A p \in ProposalIds : (\A i \in DOMAIN found : ids[i] # p) =>
       /\ life'[p] = life[p] /\ origin'[p] = origin[p]
       /\ store'[pod[h]][p] = store[pod[h]][p]
  /\ \A k \in Pods \ {pod[h]} : store'[k] = store[k]

(* What is found at the end of a conversation's turn. *)
LEMMA FoundProposals ==
  ASSUME IInv, NEW h \in Handlers, NEW narration \in Narrations
  PROVE  LET found == FindProposals(Final(h, narration)) IN
         /\ found \in Seq(Results)
         /\ \A i, j \in DOMAIN found : found[i].what = found[j].what => i = j
         /\ \A i \in DOMAIN found :
              found[i].what \in Whats /\ \E d \in raised[h] : d.what = found[i].what
         /\ \A d \in raised[h] : \E i \in DOMAIN found : d.what = found[i].what
<1> DEFINE final == Final(h, narration)
           found == FindProposals(final)
           heard == Range(ResultsIn(texts[h]))
<1>1. ResultsIn(final) \in Seq(Results) /\ Range(ResultsIn(final)) = heard
  BY FinalCarries
<1> HIDE DEF final
<1>2. /\ found \in Seq(Results)
      /\ \A x : x \in Range(found) <=>
            x \in Range(ResultsIn(final)) /\ x.status = "approval_required"
      /\ \A i, j \in DOMAIN found : found[i] = found[j] => i = j
  BY <1>1, ProposalsFound
<1> HIDE DEF found
<1>3. Report(h, "approval_required", raised[h])
  BY DEF IInv, Reports
<1>4. ASSUME NEW i \in DOMAIN found
      PROVE  /\ found[i] \in heard /\ found[i].status = "approval_required"
             /\ \E r \in Asked : found[i] = Outcome(r)
  <2>1. found[i] \in Range(found)
    BY DEF Range
  <2>2. found[i] \in heard /\ found[i].status = "approval_required"
    BY <1>1, <1>2, <2>1
  <2>3. found[i] \in Results
    BY <1>2, ElementOfSeq, LenProperties
  <2> QED
    BY <2>2, <2>3, Returnable DEF AUDITED_STATUSES
<1>5. ASSUME NEW i \in DOMAIN found
      PROVE  /\ found[i].what \in Whats /\ \E d \in raised[h] : d.what = found[i].what
             /\ found[i] = [status |-> "approval_required", what |-> found[i].what,
                            approved_by |-> NoName]
  <2>1. PICK r \in Asked : found[i] = Outcome(r)
    BY <1>4
  <2>2. found[i].what = WhatOf(r) /\ WhatOf(r) \in Whats
    BY <2>1, Outcomes, Returnable
  <2>3. found[i] = [status |-> "approval_required", what |-> found[i].what,
                    approved_by |-> NoName]
    BY <1>4, <2>1, <2>2, Outcomes
  <2>4. \E d \in raised[h] : d.what = found[i].what
    BY <1>3, <1>4 DEF Report
  <2> QED
    BY <2>2, <2>3, <2>4
<1>6. ASSUME NEW d \in raised[h]
      PROVE  \E i \in DOMAIN found : d.what = found[i].what
  <2>1. PICK x \in heard : x.status = "approval_required" /\ x.what = d.what
    BY <1>3 DEF Report
  <2>2. x \in Range(found)
    BY <1>1, <1>2, <2>1
  <2> QED
    BY <2>1, <2>2 DEF Range
<1>7. ASSUME NEW i \in DOMAIN found, NEW j \in DOMAIN found, found[i].what = found[j].what
      PROVE  i = j
  <2>1. found[i] = found[j]
    BY <1>5, <1>7
  <2> QED
    BY <1>2, <2>1
<1> HIDE DEF heard
<1>8. /\ found \in Seq(Results)
      /\ \A i, j \in DOMAIN found : found[i].what = found[j].what => i = j
      /\ \A i \in DOMAIN found :
           found[i].what \in Whats /\ \E d \in raised[h] : d.what = found[i].what
      /\ \A d \in raised[h] : \E i \in DOMAIN found : d.what = found[i].what
  BY <1>2, <1>5, <1>6, <1>7
<1> QED
  BY <1>8, Zenon DEF found, final

LEMMA FinishRunOpens ==
  ASSUME IInv, NEW h \in Handlers, NEW narration \in Narrations, FinishRun(h, narration)
  PROVE  /\ \E found, ids : Opening(h, found, ids)
         /\ \E a \in Replied \ {"lost"} : Answered(h, a)
         /\ pc[h] = "running" /\ pod[h] \in Pods
         /\ UNCHANGED <<publications, work, restarts>>
         /\ store' \in [Pods -> [ProposalIds -> Cases]]
         /\ life' \in [ProposalIds -> Cases]
         /\ origin' \in [ProposalIds -> SUBSET Asked]
<1> DEFINE found == FindProposals(Final(h, narration))
           k == pod[h]
<1>1. /\ found \in Seq(Results)
      /\ \A i, j \in DOMAIN found : found[i].what = found[j].what => i = j
      /\ \A i \in DOMAIN found :
           found[i].what \in Whats /\ \E d \in raised[h] : d.what = found[i].what
      /\ \A d \in raised[h] : \E i \in DOMAIN found : d.what = found[i].what
  BY FoundProposals
<1>2. /\ pc[h] = "running" /\ UNCHANGED <<publications, work, restarts>>
      /\ Answered(h, IF found = <<>> THEN "completed" ELSE "awaiting_approval")
  BY Zenon DEF FinishRun
<1>3. k \in Pods
  BY <1>2 DEF IInv, InPlace
<1>4. PICK ids \in [DOMAIN found -> ProposalIds \ Minted] :
        LET Opens(p) == {i \in DOMAIN found : ids[i] = p}
            Opened(was, p) == IF Opens(p) = {} THEN was
                              ELSE CaseFromProposal(found[CHOOSE i \in Opens(p) : TRUE])
        IN
        /\ \A i, j \in DOMAIN found : ids[i] = ids[j] => i = j
        /\ store' = [store EXCEPT ![k] = [p \in ProposalIds |-> Opened(@[p], p)]]
        /\ life' = [p \in ProposalIds |-> Opened(life[p], p)]
        /\ origin' = [p \in ProposalIds |->
                        IF Opens(p) = {} THEN origin[p]
                        ELSE {r.request : r \in {q \in raised[h] :
                                \E i \in Opens(p) : q.what = found[i].what}}]
  BY Zenon DEF FinishRun
<1> HIDE DEF found, k
<1> DEFINE Opens(p) == {i \in DOMAIN found : ids[i] = p}
           First(p) == CHOOSE i \in Opens(p) : TRUE
           Asking(p) == {q \in raised[h] : \E i \in Opens(p) : q.what = found[i].what}
<1>5. ASSUME NEW i \in DOMAIN found
      PROVE  /\ Opens(ids[i]) = {i} /\ First(ids[i]) = i
             /\ ids[i] \in ProposalIds /\ life[ids[i]] = NoCase
  <2>1. Opens(ids[i]) = {i}
    BY <1>4
  <2>2. First(ids[i]) \in {i}
    BY <2>1
  <2>3. ids[i] \in ProposalIds \ Minted
    OBVIOUS
  <2> QED
    BY <2>1, <2>2, <2>3 DEF Minted
<1>6. Types
  BY DEF IInv
<1>7. \A p \in ProposalIds :
        /\ life'[p] = IF Opens(p) = {} THEN life[p] ELSE CaseFromProposal(found[First(p)])
        /\ store'[k][p] = IF Opens(p) = {} THEN store[k][p]
                          ELSE CaseFromProposal(found[First(p)])
        /\ origin'[p] = IF Opens(p) = {} THEN origin[p]
                        ELSE {r.request : r \in Asking(p)}
  BY <1>3, <1>4, <1>6 DEF Types
<1>8. \A l \in Pods \ {k} : store'[l] = store[l]
  BY <1>4, <1>6 DEF Types
<1>9. ASSUME NEW i \in DOMAIN found
      PROVE  /\ life'[ids[i]] = CaseFromProposal(found[i])
             /\ store'[k][ids[i]] = CaseFromProposal(found[i])
             /\ origin'[ids[i]] = {d.request : d \in {q \in raised[h] : q.what = found[i].what}}
  <2>1. Opens(ids[i]) # {} /\ First(ids[i]) = i /\ ids[i] \in ProposalIds
    BY <1>5
  <2>2. Asking(ids[i]) = {q \in raised[h] : q.what = found[i].what}
    BY <1>5
  <2> HIDE DEF Opens, First, Asking
  <2> QED
    BY <1>7, <2>1, <2>2
<1>10. ASSUME NEW p \in ProposalIds, \A i \in DOMAIN found : ids[i] # p
       PROVE  life'[p] = life[p] /\ origin'[p] = origin[p] /\ store'[k][p] = store[k][p]
  <2>1. Opens(p) = {}
    BY <1>10
  <2> HIDE DEF Opens, First, Asking
  <2> QED
    BY <1>7, <2>1
<1>11. \A i \in DOMAIN found : CaseFromProposal(found[i]) \in Cases
  BY <1>1, Fixed DEF CaseFromProposal, Cases, NoCase, Statuses
<1>12. \A p \in ProposalIds : Opens(p) # {} => First(p) \in DOMAIN found
  OBVIOUS
<1>13. /\ store' \in [Pods -> [ProposalIds -> Cases]]
       /\ life' \in [ProposalIds -> Cases]
  <2>1. ASSUME NEW p \in ProposalIds
        PROVE  life'[p] \in Cases /\ store'[k][p] \in Cases
    <3>1. life[p] \in Cases /\ store[k][p] \in Cases
      BY <1>3, <1>6 DEF Types
    <3> HIDE DEF Opens, First
    <3> QED
      BY <1>7, <1>11, <1>12, <3>1
  <2> DEFINE F == [p \in ProposalIds |-> IF Opens(p) = {} THEN store[k][p]
                                         ELSE CaseFromProposal(found[First(p)])]
  <2>2. store' = [store EXCEPT ![k] = F]
    BY <1>4, Zenon
  <2>3. store'[k] = F
    <3> HIDE DEF F
    <3> QED
      BY <1>3, <1>6, <2>2 DEF Types
  <2>4. F \in [ProposalIds -> Cases]
    <3> HIDE DEF Opens, First
    <3> QED
      BY <2>1, <2>3
  <2> HIDE DEF F
  <2>5. store' \in [Pods -> [ProposalIds -> Cases]]
    <3>1. store \in [Pods -> [ProposalIds -> Cases]]
      BY <1>6 DEF Types
    <3> QED
      BY <2>2, <2>4, <3>1
  <2> DEFINE G == [p \in ProposalIds |-> IF Opens(p) = {} THEN life[p]
                                         ELSE CaseFromProposal(found[First(p)])]
  <2>6. life' = G
    BY <1>4, Zenon
  <2>7. life' \in [ProposalIds -> Cases]
    <3> HIDE DEF Opens, First
    <3>1. \A p \in ProposalIds : G[p] \in Cases
      BY <2>1, <2>6
    <3> QED
      BY <2>6, <3>1
  <2> QED
    BY <2>5, <2>7
<1>14. origin' \in [ProposalIds -> SUBSET Asked]
  <2>1. \A d \in raised[h] : d.request \in Asked
    BY <1>6 DEF Types, Deeds
  <2>2. ASSUME NEW p \in ProposalIds
        PROVE  origin'[p] \in SUBSET Asked
    <3>1. origin[p] \in SUBSET Asked
      BY <1>6 DEF Types
    <3>2. {r.request : r \in Asking(p)} \in SUBSET Asked
      BY <2>1
    <3> HIDE DEF Opens, Asking
    <3> QED
      BY <1>7, <3>1, <3>2, Zenon
  <2> DEFINE G == [p \in ProposalIds |-> IF Opens(p) = {} THEN origin[p]
                                         ELSE {r.request : r \in Asking(p)}]
  <2>3. origin' = G
    BY <1>4, Zenon
  <2> HIDE DEF Opens, Asking
  <2>4. \A p \in ProposalIds : G[p] \in SUBSET Asked
    BY <2>2, <2>3
  <2> QED
    BY <2>3, <2>4
<1>15. Opening(h, found, ids)
  <2>1. ids \in [DOMAIN found -> ProposalIds]
    OBVIOUS
  <2> QED
    BY <1>1, <1>4, <1>5, <1>8, <1>9, <1>10, <2>1, Zenon DEF Opening, k
<1> QED
  BY <1>2, <1>3, <1>13, <1>14, <1>15 DEF Replied, k

LEMMA FinishRunIInv ==
  ASSUME IInv, NEW h \in Handlers, NEW narration \in Narrations, FinishRun(h, narration)
  PROVE  IInv'
<1>1. PICK found, ids : Opening(h, found, ids)
  BY FinishRunOpens
<1>2. PICK a \in Replied : Answered(h, a)
  BY FinishRunOpens
<1>3. /\ pc[h] = "running" /\ pod[h] \in Pods
      /\ UNCHANGED <<publications, work, restarts>>
      /\ store' \in [Pods -> [ProposalIds -> Cases]]
      /\ life' \in [ProposalIds -> Cases]
      /\ origin' \in [ProposalIds -> SUBSET Asked]
  BY FinishRunOpens
<1>4. Types /\ OnePodKnows /\ Origins
  BY DEF IInv
<1>5. ASSUME NEW p \in ProposalIds
      PROVE  \/ /\ life'[p] = life[p] /\ origin'[p] = origin[p]
                /\ \A l \in Pods : store'[l][p] = store[l][p]
             \/ /\ life[p] = NoCase
                /\ \A l \in Pods : store[l][p] = NoCase
                /\ \E i \in DOMAIN found :
                     /\ life'[p] = CaseFromProposal(found[i])
                     /\ store'[pod[h]][p] = CaseFromProposal(found[i])
                     /\ origin'[p] = {d.request : d \in {q \in raised[h] : q.what = found[i].what}}
                /\ \A l \in Pods \ {pod[h]} : store'[l][p] = NoCase
  <2>1. CASE \A i \in DOMAIN found : ids[i] # p
    BY <1>1, <2>1 DEF Opening
  <2>2. ASSUME NEW i \in DOMAIN found, ids[i] = p
        PROVE  /\ life[p] = NoCase
               /\ life'[p] = CaseFromProposal(found[i])
               /\ store'[pod[h]][p] = CaseFromProposal(found[i])
               /\ origin'[p] = {d.request : d \in {q \in raised[h] : q.what = found[i].what}}
    BY <1>1, <2>2 DEF Opening
  <2>3. \A l \in Pods \ {pod[h]} : store'[l] = store[l]
    BY <1>1, Zenon DEF Opening
  <2>4. life[p] = NoCase => \A l \in Pods : store[l][p] = NoCase
    BY <1>4 DEF OnePodKnows
  <2> QED
    BY <2>1, <2>2, <2>3, <2>4
<1>6. \A c : /\ CaseFromProposal(c).status = "pending" /\ CaseFromProposal(c).result = NoResult
             /\ CaseFromProposal(c).proposal = c.what
  BY DEF CaseFromProposal, NoCase
<1>7. GoesOn
  BY <1>3, <1>5, Fixed DEF GoesOn, Decided
<1>8. ASSUME NEW g \in Handlers
      PROVE  InPlace(g)' /\ Serves(g)' /\ Reports(g)'
  <2>1. CASE g = h
    BY <1>2, <1>3, <1>7, <2>1, AnsweredEnds, TurnOver
  <2>2. CASE g # h
    <3>1. Kept(g)
      BY <1>2, <1>3, <2>2, AnsweredEnds DEF Kept
    <3>2. pc[g] = "executing" => Held(g)'.status \in Decided
      BY <1>5, <3>1, Fixed DEF IInv, InPlace, Held, Kept, Decided
    <3> QED
      BY <1>7, <3>1, <3>2, OtherTurns
  <2> QED
    BY <2>1, <2>2
<1>9. Types'
  <2>1. publications' = publications /\ work' = work /\ restarts' = restarts
    BY <1>3
  <2> QED
    BY <1>2, <1>3, <1>4, <2>1, AnsweredEnds DEF Types
<1>10. OnePodKnows'
  <2>1. ASSUME NEW p \in ProposalIds
        PROVE  /\ \A k \in Pods : store'[k][p] = NoCase \/ store'[k][p] = life'[p]
               /\ \A k, l \in Pods : store'[k][p] # NoCase /\ store'[l][p] # NoCase => k = l
               /\ Confirmed(life'[p])
    <3>1. CASE life'[p] = life[p] /\ \A l \in Pods : store'[l][p] = store[l][p]
      BY <1>4, <3>1 DEF OnePodKnows
    <3>2. ASSUME NEW i \in DOMAIN found, life'[p] = CaseFromProposal(found[i]),
                 store'[pod[h]][p] = CaseFromProposal(found[i]),
                 \A l \in Pods \ {pod[h]} : store'[l][p] = NoCase
          PROVE  /\ \A k \in Pods : store'[k][p] = NoCase \/ store'[k][p] = life'[p]
                 /\ \A k, l \in Pods : store'[k][p] # NoCase /\ store'[l][p] # NoCase => k = l
                 /\ Confirmed(life'[p])
      BY <1>6, <3>2 DEF Confirmed
    <3> QED
      BY <1>5, <3>1, <3>2
  <2> QED
    BY <2>1 DEF OnePodKnows, Confirmed
<1>11. Origins'
  <2>1. ASSUME NEW p \in ProposalIds, NEW o \in origin'[p]
        PROVE  WhatOf(o) = life'[p].proposal
    <3>1. CASE life'[p] = life[p] /\ origin'[p] = origin[p]
      BY <1>4, <2>1, <3>1 DEF Origins
    <3>2. ASSUME NEW i \in DOMAIN found, life'[p] = CaseFromProposal(found[i]),
                 origin'[p] = {d.request : d \in {q \in raised[h] : q.what = found[i].what}}
          PROVE  WhatOf(o) = life'[p].proposal
      <4>1. PICK d \in raised[h] : o = d.request /\ d.what = found[i].what
        BY <2>1, <3>2
      <4>2. d.what = WhatOf(d.request)
        <5>1. d \in Deeds
          BY <1>4 DEF Types
        <5> QED
          BY <5>1 DEF Deeds
      <4> QED
        BY <1>6, <3>2, <4>1, <4>2
    <3> QED
      BY <1>5, <3>1, <3>2
  <2> QED
    BY <2>1 DEF Origins, WhatOf
<1> QED
  BY <1>8, <1>9, <1>10, <1>11 DEF IInv

(* What is written into a case. *)
LEMMA WrittenCase ==
  ASSUME NEW c \in Cases, c # NoCase, NEW approved \in BOOLEAN, NEW who \in Deciders
  PROVE  LET w == Written(c, approved, who) IN
         /\ w \in Cases /\ w.status \in {"approved", "rejected", "executed"}
         /\ w.proposal = c.proposal /\ w.result = c.result
         /\ IF c.status = "pending"
            THEN w.status = (IF approved THEN "approved" ELSE "rejected") /\ w.decided_by = who
            ELSE w = c
<1> DEFINE verdict == IF approved THEN "approved" ELSE "rejected"
<1>1. /\ c \in [status : Statuses, proposal : Whats,
                decided_by : Deciders \cup {NoName}, result : Results]
  BY DEF Cases
<1>2. CASE c.status # "pending"
  <2>1. Written(c, approved, who) = c
    BY <1>2 DEF Written
  <2>2. c.status \in Statuses
    BY <1>1
  <2> QED
    BY <1>2, <2>1, <2>2 DEF Statuses
<1>3. CASE c.status = "pending"
  <2> DEFINE d == [c EXCEPT !.status = verdict]
             e == [d EXCEPT !.decided_by = who]
  <2>1. Written(c, approved, who) = e
    <3>1. Written(c, approved, who) = [c EXCEPT !.status = verdict, !.decided_by = who]
      BY <1>3 DEF Written
    <3> HIDE DEF verdict
    <3> QED
      BY <1>1, <3>1
  <2>2. verdict \in {"approved", "rejected"} /\ verdict \in Statuses
    BY DEF Statuses
  <2> HIDE DEF verdict
  <2>3. /\ d \in [status : Statuses, proposal : Whats,
                  decided_by : Deciders \cup {NoName}, result : Results]
        /\ d.status = verdict /\ d.proposal = c.proposal /\ d.result = c.result
    BY <1>1, <2>2
  <2> HIDE DEF d
  <2>4. /\ e \in [status : Statuses, proposal : Whats,
                  decided_by : Deciders \cup {NoName}, result : Results]
        /\ e.status = verdict /\ e.proposal = d.proposal /\ e.result = d.result
        /\ e.decided_by = who
    BY <2>3
  <2> HIDE DEF e
  <2> QED
    BY <1>3, <2>1, <2>2, <2>3, <2>4 DEF Cases, verdict
<1> QED
  BY <1>2, <1>3

LEMMA RecordedCase ==
  ASSUME NEW c \in Cases, c # NoCase, NEW x \in Results
  PROVE  LET w == RecordExecution(c, x) IN
         /\ w \in Cases /\ w.status = "executed" /\ w.result = x
         /\ w.proposal = c.proposal /\ w.decided_by = c.decided_by
<1> DEFINE d == [c EXCEPT !.status = "executed"]
           e == [d EXCEPT !.result = x]
<1>1. c \in [status : Statuses, proposal : Whats,
             decided_by : Deciders \cup {NoName}, result : Results]
  BY DEF Cases
<1>2. RecordExecution(c, x) = e
  BY <1>1 DEF RecordExecution
<1>3. /\ d \in [status : Statuses, proposal : Whats,
                decided_by : Deciders \cup {NoName}, result : Results]
      /\ d.status = "executed" /\ d.proposal = c.proposal /\ d.decided_by = c.decided_by
  BY <1>1 DEF Statuses
<1> HIDE DEF d
<1>4. /\ e \in [status : Statuses, proposal : Whats,
                decided_by : Deciders \cup {NoName}, result : Results]
      /\ e.status = d.status /\ e.proposal = d.proposal /\ e.decided_by = d.decided_by
      /\ e.result = x
  BY <1>3
<1> HIDE DEF e
<1> QED
  BY <1>2, <1>3, <1>4 DEF Cases

LEMMA DecideIInv ==
  ASSUME IInv, NEW h \in Handlers, NEW k \in Pods, NEW p \in ProposalIds,
         NEW approved \in BOOLEAN, NEW who \in Deciders, Decide(h, k, p, approved, who)
  PROVE  IInv'
<1> DEFINE c == store[k][p]
           w == Written(c, approved, who)
           goes == w.status = "approved"
<1>1. /\ Free(h) /\ c # NoCase
      /\ store' = [store EXCEPT ![k][p] = w]
      /\ life' = [life EXCEPT ![p] = w]
      /\ pod' = [pod EXCEPT ![h] = IF goes THEN k ELSE NoPod]
      /\ target' = [target EXCEPT ![h] = IF goes THEN p ELSE UnknownId]
      /\ pc' = [pc EXCEPT ![h] = IF goes THEN "executing" ELSE "idle"]
      /\ answer' = [answer EXCEPT ![h] =
                      CASE w.status = "rejected" -> "rejected"
                        [] w.status = "executed" -> "already_executed"
                        [] w.status = "approved" -> "none"]
      /\ UNCHANGED <<publications, texts, asks, work, restarts, origin, turn>>
  BY Zenon DEF Decide
<1>2. Types /\ OnePodKnows /\ Origins
  BY DEF IInv
<1>3. c \in Cases /\ c = life[p]
  BY <1>1, <1>2 DEF Types, OnePodKnows
<1>4. /\ w \in Cases /\ w.status \in {"approved", "rejected", "executed"}
      /\ w.proposal = c.proposal /\ w.result = c.result
      /\ c.status # "pending" => w = c
  BY <1>1, <1>3, WrittenCase
<1> HIDE DEF w
<1>5. /\ life'[p] = w
      /\ \A q \in ProposalIds \ {p} : life'[q] = life[q]
      /\ \A l \in Pods, q \in ProposalIds :
           store'[l][q] = IF l = k /\ q = p THEN w ELSE store[l][q]
  BY <1>1, <1>2 DEF Types
<1>6. Types'
  <2>1. store' \in [Pods -> [ProposalIds -> Cases]] /\ life' \in [ProposalIds -> Cases]
    <3>1. store \in [Pods -> [ProposalIds -> Cases]] /\ life \in [ProposalIds -> Cases]
      BY <1>2 DEF Types
    <3> QED
      BY <1>1, <1>4, <3>1
  <2>2. answer' \in [Handlers -> Replied]
    BY <1>1, <1>2, <1>4 DEF Types, Replied
  <2>3. /\ pc' \in [Handlers -> {"idle", "running", "executing"}]
        /\ pod' \in [Handlers -> Pods \cup {NoPod}]
        /\ target' \in [Handlers -> ProposalIds \cup {UnknownId}]
    BY <1>1, <1>2 DEF Types
  <2> QED
    BY <1>1, <1>2, <2>1, <2>2, <2>3 DEF Types, turn
<1>7. GoesOn
  BY <1>1, <1>3, <1>4, <1>5 DEF GoesOn, Decided
<1>8. ASSUME NEW g \in Handlers
      PROVE  InPlace(g)' /\ Serves(g)' /\ Reports(g)'
  <2>1. InPlace(g) /\ Serves(g) /\ Reports(g)
    BY DEF IInv
  <2>2. CASE g # h
    <3>1. Kept(g)
      BY <1>1, <1>2, <2>2 DEF Kept, Types, turn
    <3>2. pc[g] = "executing" => Held(g)'.status \in Decided
      BY <1>4, <1>5, <2>1, <3>1 DEF InPlace, Held, Kept, Decided
    <3> QED
      BY <1>7, <3>1, <3>2, OtherTurns
  <2>3. CASE g = h
    <3>1. /\ pc[h] = "idle" /\ work[h] = NoWork
          /\ texts'[h] = <<>> /\ raised'[h] = {} /\ performed'[h] = {} /\ work'[h] = work[h]
      BY <1>1, <2>1, <2>3 DEF Free, InPlace, turn
    <3>2. CASE ~goes
      <4>1. Over(h)
        BY <1>1, <1>2, <3>1, <3>2 DEF Over, Types
      <4> QED
        BY <1>7, <2>3, <3>1, <4>1, TurnOver
    <3>3. CASE goes
      <4>1. pc'[h] = "executing" /\ pod'[h] = k /\ target'[h] = p
        BY <1>1, <1>2, <3>3 DEF Types
      <4>2. Held(h)'.status \in Decided
        BY <1>5, <3>3, <4>1 DEF Held, Decided
      <4>3. InPlace(g)'
        BY <2>3, <4>1, <4>2 DEF InPlace
      <4>4. Serves(g)'
        BY <2>3, <3>1, Fixed DEF Serves
      <4>5. <<>> \in Seq(Texts(Results)) /\ Range(<<>>) = {}
        BY EmptySeq DEF Range
      <4>6. \A x : x \notin Range(ResultsIn(<<>>))
        BY <4>5, ResultsFound
      <4>7. Reports(g)'
        BY <2>3, <3>1, <4>6 DEF Reports, Report
      <4> QED
        BY <4>3, <4>4, <4>7
    <3> QED
      BY <3>2, <3>3
  <2> QED
    BY <2>2, <2>3
<1>9. OnePodKnows'
  BY <1>1, <1>2, <1>3, <1>4, <1>5 DEF OnePodKnows, Confirmed
<1>10. Origins'
  BY <1>1, <1>2, <1>3, <1>4, <1>5 DEF Origins
<1> QED
  BY <1>6, <1>8, <1>9, <1>10 DEF IInv

(* What the end of an execution turn finds. *)
LEMMA FoundExecutions ==
  ASSUME IInv, NEW h \in Handlers, NEW narration \in Narrations, pc[h] = "executing"
  PROVE  LET p == target[h]
             found == FindExecutions(Final(h, narration), Held(h).proposal)
             confirming == {d \in performed[h] : d.what = life[p].proposal}
         IN /\ p \in ProposalIds /\ pod[h] \in Pods
            /\ Held(h) = life[p] /\ life[p] \in Cases /\ life[p] # NoCase
            /\ life[p].status \in Decided
            /\ IF found = <<>> THEN confirming = {}
               ELSE /\ confirming # {} /\ found[1] \in Results
                    /\ found[1].status = "published" /\ found[1].what = life[p].proposal
                    /\ PublishedFor(p)
<1> DEFINE p == target[h]
           final == Final(h, narration)
           proposal == life[p].proposal
           found == FindExecutions(final, proposal)
           confirming == {d \in performed[h] : d.what = proposal}
           heard == Range(ResultsIn(texts[h]))
<1>1. InPlace(h) /\ Reports(h) /\ Types /\ OnePodKnows
  BY DEF IInv
<1>2. /\ p \in ProposalIds /\ pod[h] \in Pods
      /\ Held(h) = life[p] /\ life[p] \in Cases /\ life[p] # NoCase
      /\ life[p].status \in Decided
  BY <1>1, Fixed DEF InPlace, OnePodKnows, Types, Held, Decided
<1>3. ResultsIn(final) \in Seq(Results) /\ Range(ResultsIn(final)) = heard
  BY FinalCarries
<1> HIDE DEF final, proposal
<1>4. /\ found # <<>> => /\ found[1] \in Range(ResultsIn(final))
                        /\ found[1].status = "published" /\ found[1].what = proposal
      /\ found = <<>> => \A x : ~(/\ x \in Range(ResultsIn(final)) /\ x.status = "published"
                                  /\ x.what = proposal)
  BY <1>3, ExecutionsFound
<1>5. Report(h, "published", performed[h])
  BY <1>1 DEF Reports
<1>6. Range(ResultsIn(final)) \subseteq Results
  BY <1>3, RangeOfSeq
<1> HIDE DEF found
<1>7. CASE found = <<>>
  <2>1. confirming = {}
    BY <1>3, <1>4, <1>5, <1>7 DEF Report
  <2> QED
    BY <1>2, <1>7, <2>1 DEF found, final, proposal
<1>8. CASE found # <<>>
  <2>1. /\ found[1] \in heard /\ found[1] \in Results
        /\ found[1].status = "published" /\ found[1].what = proposal
    BY <1>3, <1>4, <1>6, <1>8
  <2>2. PICK d \in performed[h] : d.what = proposal
    BY <1>5, <2>1 DEF Report
  <2>3. confirming # {}
    BY <2>2
  <2>4. PublishedFor(p)
    BY <1>1, <2>2 DEF Reports, proposal
  <2> QED
    BY <1>2, <1>8, <2>1, <2>3, <2>4 DEF found, final, proposal
<1> QED
  BY <1>7, <1>8

(* The two ways an execution turn ends. *)
LEMMA FinishExecutionEnds ==
  ASSUME IInv, NEW h \in Handlers, NEW narration \in Narrations, FinishExecution(h, narration)
  PROVE  /\ pc[h] = "executing" /\ UNCHANGED <<publications, work, restarts, origin>>
         /\ \/ /\ {d \in performed[h] : d.what = life[target[h]].proposal} = {}
               /\ Answered(h, "approved_not_confirmed")
               /\ UNCHANGED <<store, life>>
            \/ /\ {d \in performed[h] : d.what = life[target[h]].proposal} # {}
               /\ Answered(h, "executed")
               /\ PublishedFor(target[h])
               /\ \E x \in Results :
                    /\ x.status = "published" /\ x.what = life[target[h]].proposal
                    /\ store' = [store EXCEPT ![pod[h]][target[h]] =
                                   RecordExecution(life[target[h]], x)]
                    /\ life' = [life EXCEPT ![target[h]] = RecordExecution(life[target[h]], x)]
<1> DEFINE p == target[h]
           found == FindExecutions(Final(h, narration), Held(h).proposal)
           confirming == {d \in performed[h] : d.what = life[p].proposal}
<1>1. /\ pc[h] = "executing" /\ UNCHANGED <<publications, work, restarts, origin>>
      /\ \/ /\ found = <<>>
            /\ Answered(h, "approved_not_confirmed")
            /\ UNCHANGED <<store, life>>
         \/ /\ found # <<>>
            /\ store' = [store EXCEPT ![pod[h]][p] = RecordExecution(Held(h), found[1])]
            /\ life' = [life EXCEPT ![p] = RecordExecution(Held(h), found[1])]
            /\ Answered(h, "executed")
  BY Zenon DEF FinishExecution
<1>2. /\ Held(h) = life[p]
      /\ IF found = <<>> THEN confirming = {}
         ELSE /\ confirming # {} /\ found[1] \in Results
              /\ found[1].status = "published" /\ found[1].what = life[p].proposal
              /\ PublishedFor(p)
  BY <1>1, FoundExecutions, Zenon
<1> HIDE DEF found, confirming
<1> DEFINE x == found[1]
           Closes(c) ==
             \/ /\ c = {}
                /\ Answered(h, "approved_not_confirmed")
                /\ UNCHANGED <<store, life>>
             \/ /\ c # {}
                /\ Answered(h, "executed")
                /\ PublishedFor(p)
                /\ \E y \in Results :
                     /\ y.status = "published" /\ y.what = life[p].proposal
                     /\ store' = [store EXCEPT ![pod[h]][p] = RecordExecution(life[p], y)]
                     /\ life' = [life EXCEPT ![p] = RecordExecution(life[p], y)]
<1>3. Closes(confirming)
  <2>1. CASE found = <<>>
    BY <1>1, <1>2, <2>1
  <2>2. CASE found # <<>>
    <3>1. /\ confirming # {} /\ x \in Results
          /\ x.status = "published" /\ x.what = life[p].proposal /\ PublishedFor(p)
          /\ store' = [store EXCEPT ![pod[h]][p] = RecordExecution(life[p], x)]
          /\ life' = [life EXCEPT ![p] = RecordExecution(life[p], x)]
          /\ Answered(h, "executed")
      BY <1>1, <1>2, <2>2, Zenon
    <3> HIDE DEF x
    <3> QED
      BY <3>1, Zenon
  <2> QED
    BY <2>1, <2>2
<1> QED
  BY <1>1, <1>3, Zenon DEF confirming

LEMMA FinishExecutionIInv ==
  ASSUME IInv, NEW h \in Handlers, NEW narration \in Narrations, FinishExecution(h, narration)
  PROVE  IInv'
<1> DEFINE p == target[h]
           k == pod[h]
<1>1. Types /\ OnePodKnows /\ Origins
  BY DEF IInv
<1>2. pc[h] = "executing" /\ UNCHANGED <<publications, work, restarts, origin>>
  BY FinishExecutionEnds
<1>3. /\ p \in ProposalIds /\ k \in Pods /\ store[k][p] = life[p]
      /\ life[p] \in Cases /\ life[p] # NoCase /\ life[p].status \in Decided
  <2>1. InPlace(h)
    BY DEF IInv
  <2> QED
    BY <1>1, <1>2, <2>1, Fixed DEF InPlace, Held, Decided, OnePodKnows, Types
<1>4. PICK a \in Replied, w \in Cases :
        /\ Answered(h, a)
        /\ w # NoCase /\ w.status \in Decided /\ w.proposal = life[p].proposal
        /\ w.decided_by = life[p].decided_by /\ Confirmed(w)
        /\ store' = [store EXCEPT ![k][p] = w]
        /\ life' = [life EXCEPT ![p] = w]
  <2>1. CASE /\ Answered(h, "approved_not_confirmed")
             /\ UNCHANGED <<store, life>>
    <3>1. store' = [store EXCEPT ![k][p] = life[p]] /\ life' = [life EXCEPT ![p] = life[p]]
      BY <1>1, <1>3, <2>1 DEF Types
    <3>2. "approved_not_confirmed" \in Replied /\ Confirmed(life[p])
      BY <1>1, <1>3 DEF Replied, OnePodKnows
    <3> QED
      BY <1>3, <2>1, <3>1, <3>2, Zenon
  <2>2. ASSUME NEW x \in Results, x.what = life[p].proposal, Answered(h, "executed"),
               store' = [store EXCEPT ![k][p] = RecordExecution(life[p], x)],
               life' = [life EXCEPT ![p] = RecordExecution(life[p], x)]
        PROVE  \E a \in Replied, w \in Cases :
                 /\ Answered(h, a)
                 /\ w # NoCase /\ w.status \in Decided /\ w.proposal = life[p].proposal
                 /\ w.decided_by = life[p].decided_by /\ Confirmed(w)
                 /\ store' = [store EXCEPT ![k][p] = w]
                 /\ life' = [life EXCEPT ![p] = w]
    <3> DEFINE w == RecordExecution(life[p], x)
    <3>1. /\ w \in Cases /\ w.status = "executed" /\ w.result = x
          /\ w.proposal = life[p].proposal /\ w.decided_by = life[p].decided_by
      BY <1>3, RecordedCase
    <3>2. w # NoCase /\ w.status \in Decided /\ Confirmed(w)
      BY <2>2, <3>1, Fixed DEF Decided, Confirmed
    <3>3. "executed" \in Replied
      BY DEF Replied
    <3> QED
      BY <2>2, <3>1, <3>2, <3>3, Zenon
  <2>3. \/ /\ Answered(h, "approved_not_confirmed")
           /\ UNCHANGED <<store, life>>
        \/ /\ Answered(h, "executed")
           /\ \E x \in Results :
                /\ x.what = life[p].proposal
                /\ store' = [store EXCEPT ![k][p] = RecordExecution(life[p], x)]
                /\ life' = [life EXCEPT ![p] = RecordExecution(life[p], x)]
    BY FinishExecutionEnds, Zenon
  <2> QED
    BY <2>1, <2>2, <2>3, Zenon
<1> HIDE DEF p, k
<1>5. /\ life'[p] = w
      /\ \A q \in ProposalIds \ {p} : life'[q] = life[q]
      /\ \A l \in Pods, q \in ProposalIds :
           store'[l][q] = IF l = k /\ q = p THEN w ELSE store[l][q]
  BY <1>1, <1>3, <1>4 DEF Types
<1>6. Types'
  <2>1. store' \in [Pods -> [ProposalIds -> Cases]] /\ life' \in [ProposalIds -> Cases]
    <3>1. store \in [Pods -> [ProposalIds -> Cases]] /\ life \in [ProposalIds -> Cases]
      BY <1>1 DEF Types
    <3> QED
      BY <1>4, <3>1
  <2> QED
    BY <1>1, <1>2, <1>4, <2>1, AnsweredEnds DEF Types
<1>7. GoesOn
  BY <1>2, <1>4, <1>5 DEF GoesOn
<1>8. ASSUME NEW g \in Handlers
      PROVE  InPlace(g)' /\ Serves(g)' /\ Reports(g)'
  <2>1. CASE g = h
    BY <1>2, <1>4, <1>7, <2>1, AnsweredEnds, TurnOver
  <2>2. CASE g # h
    <3>1. Kept(g)
      BY <1>2, <1>4, <2>2, AnsweredEnds DEF Kept
    <3>2. pc[g] = "executing" => Held(g)'.status \in Decided
      BY <1>4, <1>5, <3>1 DEF IInv, InPlace, Held, Kept
    <3> QED
      BY <1>7, <3>1, <3>2, OtherTurns
  <2> QED
    BY <2>1, <2>2
<1>9. OnePodKnows'
  BY <1>1, <1>3, <1>4, <1>5 DEF OnePodKnows, Confirmed
<1>10. Origins'
  BY <1>1, <1>2, <1>3, <1>4, <1>5 DEF Origins
<1> QED
  BY <1>6, <1>8, <1>9, <1>10 DEF IInv

(* Every step is an action of one request, or a restart. *)
LEMMA NextIInv ==
  ASSUME IInv, [Next]_vars
  PROVE  IInv'
<1>1. CASE UNCHANGED vars
  BY <1>1, NothingHappens
<1>2. ASSUME NEW h \in Handlers, NEW r \in Askable(h), AskSpecialist(h, r)
      PROVE  IInv'
  BY <1>2, AskSpecialistIInv
<1>3. ASSUME NEW h \in Handlers, Specialist(h)
      PROVE  IInv'
  BY <1>3, PublishIInv, SpecialistAnswersIInv, ReplyLostIInv DEF Specialist
<1>4. ASSUME NEW h \in Handlers, TurnRaises(h)
      PROVE  IInv'
  BY <1>4, TurnRaisesIInv
<1>5. ASSUME NEW h \in Handlers, NEW n \in Narrations, FinishRun(h, n) \/ FinishExecution(h, n)
      PROVE  IInv'
  BY <1>5, FinishRunIInv, FinishExecutionIInv
<1>6. ASSUME NEW h \in Handlers, NEW k \in Pods,
             \/ RunTurn(h, k)
             \/ \E p \in ProposalIds \cup {UnknownId} : NotFound(h, k, p)
             \/ \E p \in ProposalIds, approved \in BOOLEAN, who \in Deciders :
                  Decide(h, k, p, approved, who)
      PROVE  IInv'
  BY <1>6, RunTurnIInv, NotFoundIInv, DecideIInv
<1>7. ASSUME NEW k \in Pods, Restart(k)
      PROVE  IInv'
  BY <1>7, RestartIInv
<1> QED
  BY <1>1, <1>2, <1>3, <1>4, <1>5, <1>6, <1>7 DEF Next

(* In every state of the flow: what a turn's texts carry is what its tools
   returned, a case is known to one pod and to it as it last was, and what was
   published for a case is on record. *)
THEOREM Inductive ==
  Spec => []IInv
<1>1. Init => IInv
  BY InitIInv
<1>2. IInv /\ [Next]_vars => IInv'
  BY NextIInv
<1> QED
  BY <1>1, <1>2, PTL DEF Spec

(* Every variable keeps its type, for any pods, requests, cases and numbers. *)
THEOREM Typed ==
  Spec => []TypeOK
<1>1. IInv => TypeOK
  BY IInvTypes
<1> QED
  BY <1>1, Inductive, PTL

-----------------------------------------------------------------------------
(* What the end of a turn does                                             *)

(* A request that is neither lost nor goes on is answered by the end of its
   own turn. *)
LEMMA WhatEnds ==
  ASSUME IInv, [Next]_vars, NEW h \in Handlers, NEW now \in {"running", "executing"},
         Ends(h, now)
  PROVE  \E n \in Narrations : \/ now = "running" /\ FinishRun(h, n)
                               \/ now = "executing" /\ FinishExecution(h, n)
<1>1. pc[h] = now /\ pc'[h] = "idle" /\ pc' # pc /\ answer'[h] # "lost" /\ pc[h] # "idle"
  BY DEF Ends
<1>2. Types
  BY DEF IInv
<1>3. Next
  BY <1>1 DEF vars, flow
<1>4. ASSUME NEW g \in Handlers, NEW r, AskSpecialist(g, r)
      PROVE  FALSE
  BY <1>1, <1>4 DEF AskSpecialist
<1>5. ASSUME NEW g \in Handlers, Specialist(g)
      PROVE  FALSE
  <2>1. pc' = pc
    BY <1>5, Zenon DEF Specialist, Publish, SpecialistAnswers, ReplyLost, flow
  <2> QED
    BY <1>1, <2>1
<1>6. ASSUME NEW g \in Handlers, NEW a \in Replied, Answered(g, a)
      PROVE  g = h /\ a # "lost"
  BY <1>1, <1>6, AnsweredEnds
<1>7. ASSUME NEW g \in Handlers, TurnRaises(g)
      PROVE  FALSE
  BY <1>6, <1>7 DEF TurnRaises, Replied
<1>8. ASSUME NEW g \in Handlers, NEW k \in Pods, RunTurn(g, k)
      PROVE  FALSE
  BY <1>1, <1>2, <1>8 DEF RunTurn, Free, Types
<1>9. ASSUME NEW g \in Handlers, NEW k \in Pods, NEW p, NotFound(g, k, p)
      PROVE  FALSE
  BY <1>1, <1>9 DEF NotFound
<1>10. ASSUME NEW g \in Handlers, NEW k \in Pods, NEW p \in ProposalIds, NEW approved, NEW who,
              Decide(g, k, p, approved, who)
       PROVE  FALSE
  <2>1. /\ pc[g] = "idle"
        /\ \E v : pc' = [pc EXCEPT ![g] = v]
    BY <1>10, Zenon DEF Decide, Free
  <2> QED
    BY <1>1, <1>2, <2>1 DEF Types
<1>11. ASSUME NEW k \in Pods, Restart(k)
       PROVE  FALSE
  BY <1>1, <1>2, <1>11 DEF Restart, Types
<1>12. ASSUME NEW g \in Handlers, NEW n \in Narrations, FinishRun(g, n)
       PROVE  g = h /\ now = "running"
  <2>1. pc[g] = "running" /\ \E a \in Replied : Answered(g, a)
    BY <1>12, FinishRunOpens
  <2> QED
    BY <1>1, <1>6, <2>1
<1>13. ASSUME NEW g \in Handlers, NEW n \in Narrations, FinishExecution(g, n)
       PROVE  g = h /\ now = "executing"
  <2>1. pc[g] = "executing" /\ \E a \in Replied : Answered(g, a)
    BY <1>13, FinishExecutionEnds DEF Replied
  <2> QED
    BY <1>1, <1>6, <2>1
<1> QED
  BY <1>3, <1>4, <1>5, <1>7, <1>8, <1>9, <1>10, <1>11, <1>12, <1>13 DEF Next

LEMMA RunEndsInCases ==
  ASSUME IInv, [Next]_vars, NEW h \in Handlers, Ends(h, "running")
  PROVE  /\ \A r \in raised[h] : \E p \in OpenedNow : life'[p].proposal = r.what
         /\ \A p \in OpenedNow : \E r \in raised[h] : life'[p].proposal = r.what
         /\ \A p, q \in OpenedNow : life'[p].proposal = life'[q].proposal => p = q
<1>1. PICK n \in Narrations : FinishRun(h, n)
  BY WhatEnds
<1>2. PICK found, ids : Opening(h, found, ids)
  BY <1>1, FinishRunOpens
<1>3. \A c : CaseFromProposal(c).status = "pending" /\ CaseFromProposal(c).proposal = c.what
  BY DEF CaseFromProposal, NoCase
<1>4. ASSUME NEW i \in DOMAIN found
      PROVE  ids[i] \in OpenedNow /\ life'[ids[i]].proposal = found[i].what
  <2>1. /\ ids[i] \in ProposalIds /\ life[ids[i]] = NoCase
        /\ life'[ids[i]] = CaseFromProposal(found[i])
    BY <1>2 DEF Opening
  <2>2. life'[ids[i]] # NoCase
    BY <1>3, <2>1, Fixed
  <2> QED
    BY <1>3, <2>1, <2>2 DEF OpenedNow
<1>5. ASSUME NEW p \in OpenedNow
      PROVE  \E i \in DOMAIN found : ids[i] = p
  BY <1>2 DEF Opening, OpenedNow
<1>6. /\ \A i \in DOMAIN found : \E d \in raised[h] : d.what = found[i].what
      /\ \A d \in raised[h] : \E i \in DOMAIN found : d.what = found[i].what
      /\ \A i, j \in DOMAIN found : found[i].what = found[j].what => i = j
  BY <1>2 DEF Opening
<1>7. ASSUME NEW r \in raised[h]
      PROVE  \E p \in OpenedNow : life'[p].proposal = r.what
  BY <1>4, <1>6
<1>8. ASSUME NEW p \in OpenedNow
      PROVE  \E r \in raised[h] : life'[p].proposal = r.what
  BY <1>4, <1>5, <1>6
<1>9. ASSUME NEW p \in OpenedNow, NEW q \in OpenedNow, life'[p].proposal = life'[q].proposal
      PROVE  p = q
  <2>1. PICK i \in DOMAIN found, j \in DOMAIN found : ids[i] = p /\ ids[j] = q
    BY <1>5
  <2>2. found[i].what = found[j].what
    BY <1>4, <1>9, <2>1
  <2> QED
    BY <1>6, <2>1, <2>2
<1> QED
  BY <1>7, <1>8, <1>9

(* However the models word it: when a conversation's turn is answered, its
   cases are the proposals that the specialist's tool returned in it and whose
   reply came back, one for each. *)
THEOREM EveryProposalIsACase ==
  Spec => ProposalsBecomeCases
<1>1. IInv /\ [Next]_vars =>
        [\A h \in Handlers : Ends(h, "running") =>
           /\ \A r \in raised[h] : \E p \in OpenedNow : life'[p].proposal = r.what
           /\ \A p \in OpenedNow : \E r \in raised[h] : life'[p].proposal = r.what
           /\ \A p, q \in OpenedNow : life'[p].proposal = life'[q].proposal => p = q]_vars
  BY RunEndsInCases
<1> QED
  BY <1>1, Inductive, PTL DEF Spec, ProposalsBecomeCases

LEMMA ExecutionEnds ==
  ASSUME IInv, [Next]_vars, NEW h \in Handlers, Ends(h, "executing")
  PROVE  LET confirming == {d \in performed[h] : d.what = life[target[h]].proposal} IN
         /\ target[h] \in ProposalIds
         /\ answer'[h] = "executed" <=> confirming # {}
         /\ answer'[h] = "executed" =>
              life'[target[h]].result.what = life[target[h]].proposal
<1> DEFINE p == target[h]
           confirming == {d \in performed[h] : d.what = life[p].proposal}
<1>1. PICK n \in Narrations : FinishExecution(h, n)
  BY WhatEnds
<1>2. p \in ProposalIds /\ life[p] \in Cases /\ life[p] # NoCase
  BY <1>1, FinishExecutionEnds, FoundExecutions
<1>3. \/ confirming = {} /\ Answered(h, "approved_not_confirmed")
      \/ /\ confirming # {} /\ Answered(h, "executed")
         /\ \E x \in Results :
              /\ x.what = life[p].proposal
              /\ life' = [life EXCEPT ![p] = RecordExecution(life[p], x)]
  BY <1>1, FinishExecutionEnds, Zenon
<1>4. "approved_not_confirmed" \in Replied /\ "executed" \in Replied
  BY DEF Replied
<1> HIDE DEF confirming
<1>5. CASE confirming = {} /\ Answered(h, "approved_not_confirmed")
  <2>1. answer'[h] = "approved_not_confirmed"
    BY <1>4, <1>5, AnsweredEnds
  <2> QED
    BY <1>2, <1>5, <2>1 DEF confirming
<1>6. ASSUME confirming # {}, Answered(h, "executed"),
             NEW x \in Results, x.what = life[p].proposal,
             life' = [life EXCEPT ![p] = RecordExecution(life[p], x)]
      PROVE  /\ answer'[h] = "executed" <=> confirming # {}
             /\ life'[p].result.what = life[p].proposal
  <2>1. answer'[h] = "executed"
    BY <1>4, <1>6, AnsweredEnds
  <2>2. life'[p] = RecordExecution(life[p], x)
    BY <1>2, <1>6 DEF IInv, Types
  <2>3. life'[p].result = x
    BY <1>2, <2>2, RecordedCase
  <2> QED
    BY <1>6, <2>1, <2>3
<1> QED
  BY <1>2, <1>3, <1>5, <1>6 DEF confirming

(* What a request publishes is what it comes to, for the one that raised a case
   and for the one that carries it out alike. *)
LEMMA DeedsAndOrigins ==
  ASSUME IInv, NEW h \in Handlers, target[h] \in ProposalIds
  PROVE  \A d \in performed[h], o \in origin[target[h]] :
           /\ d.request \in Requests /\ Evaluates(d.request) /\ d.what = WhatOf(d.request)
           /\ o \in Requests /\ Evaluates(o) /\ WhatOf(o) = life[target[h]].proposal
<1>1. ASSUME NEW d \in performed[h]
      PROVE  /\ d.request \in Requests /\ Evaluates(d.request) /\ d.what = WhatOf(d.request)
  <2>1. d \in Deeds
    BY DEF IInv, Types
  <2> QED
    BY <2>1 DEF Deeds, Asked
<1>2. ASSUME NEW o \in origin[target[h]]
      PROVE  o \in Requests /\ Evaluates(o) /\ WhatOf(o) = life[target[h]].proposal
  <2>1. o \in Asked
    BY DEF IInv, Types
  <2> QED
    BY <2>1 DEF IInv, Origins, Asked
<1> QED
  BY <1>1, <1>2

(* A case that is carried out with the number and the label it was raised with
   is confirmed, however the two models spelled the number. *)
THEOREM SpelledAnyWay ==
  Spec => SameNumberConfirms
<1> DEFINE Confirms(h) ==
      /\ Ends(h, "executing")
      /\ \E d \in performed[h], o \in origin[target[h]] : Same(d.request, o)
      => answer'[h] = "executed"
<1>1. ASSUME IInv, [Next]_vars, NEW h \in Handlers, Ends(h, "executing"),
             NEW d \in performed[h], NEW o \in origin[target[h]], Same(d.request, o)
      PROVE  answer'[h] = "executed"
  <2>1. target[h] \in ProposalIds
    BY <1>1, ExecutionEnds
  <2>2. WhatOf(d.request) = WhatOf(o)
    BY <1>1, <2>1, DeedsAndOrigins, SameOutcome
  <2>3. d.what = life[target[h]].proposal
    BY <1>1, <2>1, <2>2, DeedsAndOrigins
  <2>4. {e \in performed[h] : e.what = life[target[h]].proposal} # {}
    BY <2>3
  <2> QED
    BY <1>1, <2>4, ExecutionEnds
<1>2. IInv /\ [Next]_vars => [\A h \in Handlers : Confirms(h)]_vars
  BY <1>1
<1> QED
  BY <1>2, Inductive, PTL DEF Spec, SameNumberConfirms

(* A case is confirmed by a publication of its own turn, and one of the number
   and the label it was raised with, as long as doubles tell the numbers apart. *)
THEOREM OnlyTheSameConfirms ==
  Spec => ApprovedIsPublished
<1> DEFINE confirming(h) == {d \in performed[h] : d.what = life'[target[h]].result.what}
           Holds(h) ==
             Ends(h, "executing") /\ answer'[h] = "executed" =>
               /\ confirming(h) # {}
               /\ \A d \in confirming(h), o \in origin[target[h]] :
                    Exact(d.request.expression.number) /\ Exact(o.expression.number)
                      => Same(d.request, o)
<1>1. ASSUME IInv, [Next]_vars, NEW h \in Handlers, Ends(h, "executing"), answer'[h] = "executed"
      PROVE  /\ confirming(h) # {}
             /\ \A d \in confirming(h), o \in origin[target[h]] :
                  Exact(d.request.expression.number) /\ Exact(o.expression.number)
                    => Same(d.request, o)
  <2>1. /\ target[h] \in ProposalIds
        /\ {d \in performed[h] : d.what = life[target[h]].proposal} # {}
        /\ life'[target[h]].result.what = life[target[h]].proposal
    BY <1>1, ExecutionEnds
  <2>2. confirming(h) # {}
    BY <2>1
  <2>3. ASSUME NEW d \in confirming(h), NEW o \in origin[target[h]],
               Exact(d.request.expression.number), Exact(o.expression.number)
        PROVE  Same(d.request, o)
    <3>1. d \in performed[h] /\ d.what = life[target[h]].proposal
      BY <2>1
    <3>2. WhatOf(d.request) = WhatOf(o)
      BY <1>1, <2>1, <3>1, DeedsAndOrigins
    <3> QED
      BY <1>1, <2>1, <2>3, <3>1, <3>2, DeedsAndOrigins, SameOutcome
  <2> QED
    BY <2>2, <2>3
<1>2. IInv /\ [Next]_vars => [\A h \in Handlers : Holds(h)]_vars
  BY <1>1
<1> QED
  BY <1>2, Inductive, PTL DEF Spec, ApprovedIsPublished

-----------------------------------------------------------------------------
(* Refinement                                                              *)

(* The same case, as ApprovalLifecycle sees it. *)
Looks(p) ==
  /\ life'[p].status = life[p].status /\ life'[p].proposal = life[p].proposal
  /\ life'[p].decided_by = life[p].decided_by

SameEffects(p) == \A e : e.serves = p => (e \in publications' <=> e \in publications)

LEMMA NothingSeen ==
  ASSUME NEW p \in ProposalIds, Looks(p), SameEffects(p)
  PROVE  UNCHANGED Lifecycle(p)!lifecycle
<1>1. [c \in {p} |-> life[c].status]' = [c \in {p} |-> life[c].status]
  BY DEF Looks
<1>2. [c \in {p} |-> life[c].proposal]' = [c \in {p} |-> life[c].proposal]
  BY DEF Looks
<1>3. [c \in {p} |-> life[c].decided_by]' = [c \in {p} |-> life[c].decided_by]
  BY DEF Looks
<1>4. {x \in publications : x.serves = p}' = {x \in publications : x.serves = p}
  BY DEF SameEffects
<1>5. {[payload |-> e.what, approved_by |-> e.approved_by] :
         e \in {x \in publications : x.serves = p}}' =
      {[payload |-> e.what, approved_by |-> e.approved_by] :
         e \in {x \in publications : x.serves = p}}
  BY <1>4
<1> QED
  BY <1>1, <1>2, <1>3, <1>5 DEF Lifecycle!lifecycle

LEMMA InitSeen ==
  ASSUME Init, NEW p \in ProposalIds
  PROVE  Lifecycle(p)!Init
<1>1. /\ [c \in {p} |-> life[c].status] = [c \in {p} |-> "absent"]
      /\ [c \in {p} |-> life[c].proposal] = [c \in {p} |-> NoWhat]
      /\ [c \in {p} |-> life[c].decided_by] = [c \in {p} |-> NoName]
  BY Fixed DEF Init
<1>2. {[payload |-> e.what, approved_by |-> e.approved_by] :
         e \in {x \in publications : x.serves = p}} = {}
  BY DEF Init
<1> QED
  BY <1>1, <1>2 DEF Lifecycle!Init

(* A case is opened: proposed. *)
LEMMA OpenedSeen ==
  ASSUME NEW p \in ProposalIds, NEW what \in Whats, life[p] = NoCase,
         life'[p].status = "pending", life'[p].proposal = what,
         life'[p].decided_by = NoName, SameEffects(p)
  PROVE  Lifecycle(p)!Next
<1>1. [c \in {p} |-> life[c].status]' = [[c \in {p} |-> life[c].status] EXCEPT ![p] = "pending"]
  OBVIOUS
<1>2. [c \in {p} |-> life[c].proposal]' = [[c \in {p} |-> life[c].proposal] EXCEPT ![p] = what]
  OBVIOUS
<1>3. [c \in {p} |-> life[c].decided_by]' = [c \in {p} |-> life[c].decided_by]
  BY Fixed
<1>4. {x \in publications : x.serves = p}' = {x \in publications : x.serves = p}
  BY DEF SameEffects
<1>5. {[payload |-> e.what, approved_by |-> e.approved_by] :
         e \in {x \in publications : x.serves = p}}' =
      {[payload |-> e.what, approved_by |-> e.approved_by] :
         e \in {x \in publications : x.serves = p}}
  BY <1>4
<1>6. [c \in {p} |-> life[c].status][p] = "absent"
  BY Fixed
<1>7. Lifecycle(p)!Propose(p, what)
  BY <1>1, <1>2, <1>3, <1>5, <1>6 DEF Lifecycle!Propose
<1> QED
  BY <1>7 DEF Lifecycle!Next

(* A pending case is decided. *)
LEMMA DecidedSeen ==
  ASSUME NEW p \in ProposalIds, NEW verdict \in {"approved", "rejected"}, NEW who \in Deciders,
         life[p].status = "pending", life'[p].status = verdict,
         life'[p].proposal = life[p].proposal, life'[p].decided_by = who, SameEffects(p)
  PROVE  Lifecycle(p)!Next
<1>1. [c \in {p} |-> life[c].status]' = [[c \in {p} |-> life[c].status] EXCEPT ![p] = verdict]
  OBVIOUS
<1>2. [c \in {p} |-> life[c].proposal]' = [c \in {p} |-> life[c].proposal]
  OBVIOUS
<1>3. [c \in {p} |-> life[c].decided_by]' = [[c \in {p} |-> life[c].decided_by] EXCEPT ![p] = who]
  OBVIOUS
<1>4. {x \in publications : x.serves = p}' = {x \in publications : x.serves = p}
  BY DEF SameEffects
<1>5. {[payload |-> e.what, approved_by |-> e.approved_by] :
         e \in {x \in publications : x.serves = p}}' =
      {[payload |-> e.what, approved_by |-> e.approved_by] :
         e \in {x \in publications : x.serves = p}}
  BY <1>4
<1>6. [c \in {p} |-> life[c].status][p] = "pending"
  OBVIOUS
<1>7. Lifecycle(p)!Decide(p, verdict, who)
  BY <1>1, <1>2, <1>3, <1>5, <1>6 DEF Lifecycle!Decide
<1> QED
  BY <1>7 DEF Lifecycle!Next

(* A publication for an approved case, in the name of whoever approved it. *)
LEMMA PerformedSeen ==
  ASSUME NEW p \in ProposalIds, life[p].status \in Decided,
         life[p].decided_by \in Deciders \cup {NoName}, life' = life,
         publications' = publications \cup
           {[what |-> life[p].proposal, approved_by |-> Credit(life[p].decided_by), serves |-> p]}
  PROVE  Lifecycle(p)!Next
<1> DEFINE new == [what |-> life[p].proposal, approved_by |-> Credit(life[p].decided_by),
                   serves |-> p]
           Mine(publ) == {x \in publ : x.serves = p}
           Done(publ) == {[payload |-> e.what, approved_by |-> e.approved_by] : e \in Mine(publ)}
           effect == [payload |-> life[p].proposal, approved_by |-> Credit(life[p].decided_by)]
<1>1. /\ [c \in {p} |-> life[c].status]' = [c \in {p} |-> life[c].status]
      /\ [c \in {p} |-> life[c].proposal]' = [c \in {p} |-> life[c].proposal]
      /\ [c \in {p} |-> life[c].decided_by]' = [c \in {p} |-> life[c].decided_by]
  OBVIOUS
<1>2. Mine(publications') = Mine(publications) \cup {new}
  OBVIOUS
<1>3. new.what = effect.payload /\ new.approved_by = effect.approved_by
      /\ effect = [payload |-> new.what, approved_by |-> new.approved_by]
  OBVIOUS
<1>4. Done(publications') = Done(publications) \cup {effect}
  <2> HIDE DEF new, effect, Mine
  <2> QED
    BY <1>2, <1>3
<1>5. /\ [c \in {p} |-> life[c].status][p] \in {"approved", "executed"}
      /\ [c \in {p} |-> life[c].proposal][p] = life[p].proposal
      /\ [c \in {p} |-> life[c].decided_by][p] = life[p].decided_by
  BY DEF Decided
<1>6. Signs(Credit(life[p].decided_by))
  BY CreditSigns DEF Signs
<1>7. Lifecycle(p)!Perform(p)
  BY <1>1, <1>4, <1>5, <1>6 DEF Lifecycle!Perform, Lifecycle!Effect
<1> QED
  BY <1>7 DEF Lifecycle!Next

(* An approved case is closed, having been published. *)
LEMMA ClosedSeen ==
  ASSUME NEW p \in ProposalIds, life[p].status = "approved", PublishedFor(p),
         life'[p].status = "executed", life'[p].proposal = life[p].proposal,
         life'[p].decided_by = life[p].decided_by, SameEffects(p)
  PROVE  Lifecycle(p)!Next
<1>1. /\ [c \in {p} |-> life[c].status]' = [[c \in {p} |-> life[c].status] EXCEPT ![p] = "executed"]
      /\ [c \in {p} |-> life[c].proposal]' = [c \in {p} |-> life[c].proposal]
      /\ [c \in {p} |-> life[c].decided_by]' = [c \in {p} |-> life[c].decided_by]
  OBVIOUS
<1>2. {x \in publications : x.serves = p}' = {x \in publications : x.serves = p}
  BY DEF SameEffects
<1>3. {[payload |-> e.what, approved_by |-> e.approved_by] :
         e \in {x \in publications : x.serves = p}}' =
      {[payload |-> e.what, approved_by |-> e.approved_by] :
         e \in {x \in publications : x.serves = p}}
  BY <1>2
<1>4. /\ [c \in {p} |-> life[c].status][p] = "approved"
      /\ [c \in {p} |-> life[c].proposal][p] = life[p].proposal
  OBVIOUS
<1>5. \E d \in {[payload |-> e.what, approved_by |-> e.approved_by] :
                  e \in {x \in publications : x.serves = p}} : d.payload = life[p].proposal
  <2>1. PICK e \in publications : e.serves = p /\ e.what = life[p].proposal
    BY DEF PublishedFor
  <2>2. [payload |-> e.what, approved_by |-> e.approved_by].payload = life[p].proposal
    BY <2>1
  <2> QED
    BY <2>1, <2>2
<1>6. Lifecycle(p)!Close(p)
  BY <1>1, <1>3, <1>4, <1>5 DEF Lifecycle!Close
<1> QED
  BY <1>6 DEF Lifecycle!Next

(* A publication that carries out a case names whoever approved it. *)
LEMMA PublishedInName ==
  ASSUME IInv, NEW h \in Handlers, NEW value, Publish(h, value)
  PROVE  \/ life' = life /\ publications' = publications
         \/ \E p \in ProposalIds :
              /\ life' = life /\ life[p].status \in Decided
              /\ publications' = publications \cup
                   {[what |-> life[p].proposal, approved_by |-> Credit(life[p].decided_by),
                     serves |-> p]}
<1> DEFINE r == work[h].request
           p == work[h].serves
           x == PublishResult(value, r.label, r.approved_by)
           e == [what |-> x.what, approved_by |-> r.approved_by, serves |-> p]
           effect == p # UnknownId /\ x.status = "published" /\ x.what = life[p].proposal
<1>1. work[h] \in Works /\ work[h] # NoWork
  BY Fixed DEF IInv, Types, Publish
<1>2. p \in ProposalIds \cup {UnknownId}
  BY <1>1, WorkDone
<1>3. /\ publications' = publications \cup (IF effect THEN {e} ELSE {})
      /\ life' = life
  BY Zenon DEF Publish, history
<1>4. CASE effect
  <2>1. ~IsBlank(r.approved_by)
    BY <1>4 DEF PublishResult
  <2>2. r.approved_by # NoName
    BY <2>1 DEF IsBlank
  <2>3. /\ life[p].status \in Decided
        /\ r.approved_by = Credit(life[p].decided_by)
    <3>1. Serves(h)
      BY DEF IInv
    <3> QED
      BY <1>4, <2>2, <3>1 DEF Serves
  <2>4. e = [what |-> life[p].proposal, approved_by |-> Credit(life[p].decided_by), serves |-> p]
    BY <1>4, <2>3
  <2>5. p \in ProposalIds
    BY <1>2, <1>4
  <2>6. publications' = publications \cup {e}
    BY <1>3, <1>4
  <2> HIDE DEF p, e, effect
  <2> QED
    BY <1>3, <2>3, <2>4, <2>5, <2>6
<1>5. CASE ~effect
  <2> HIDE DEF effect
  <2> QED
    BY <1>3, <1>5
<1> QED
  BY <1>4, <1>5

(* Every step takes every case one step further in its life, or leaves it. *)
LEMMA StepSeen ==
  ASSUME IInv, [Next]_vars, NEW p \in ProposalIds
  PROVE  [Lifecycle(p)!Next]_(Lifecycle(p)!lifecycle)
<1> DEFINE Goal == Lifecycle(p)!Next \/ UNCHANGED Lifecycle(p)!lifecycle
<1>1. Types /\ OnePodKnows
  BY DEF IInv
<1>2. ASSUME life' = life, publications' = publications
      PROVE  Goal
  <2>1. Looks(p) /\ SameEffects(p)
    BY <1>2 DEF Looks, SameEffects
  <2> QED
    BY <2>1, NothingSeen
<1>3. ASSUME UNCHANGED vars
      PROVE  Goal
  BY <1>2, <1>3 DEF vars, history
<1>4. ASSUME NEW h \in Handlers,
             \/ \E r \in Askable(h) : AskSpecialist(h, r)
             \/ \E n \in Narrations \ {"quote"}, d \in Deliveries : SpecialistAnswers(h, n, d)
             \/ ReplyLost(h) \/ TurnRaises(h)
             \/ \E k \in Pods : \/ RunTurn(h, k)
                                \/ \E q \in ProposalIds \cup {UnknownId} : NotFound(h, k, q)
      PROVE  Goal
  <2>1. life' = life /\ publications' = publications
    BY <1>4, Zenon DEF AskSpecialist, SpecialistAnswers, ReplyLost, TurnRaises, RunTurn,
                       NotFound, history
  <2> QED
    BY <1>2, <2>1
<1>5. ASSUME NEW k \in Pods, Restart(k)
      PROVE  Goal
  <2>1. life' = life /\ publications' = publications
    BY <1>5, Zenon DEF Restart, history
  <2> QED
    BY <1>2, <2>1
<1>6. ASSUME NEW h \in Handlers, NEW value, Publish(h, value)
      PROVE  Goal
  <2>1. CASE life' = life /\ publications' = publications
    BY <1>2, <2>1
  <2>2. ASSUME NEW q \in ProposalIds, life' = life, life[q].status \in Decided,
               publications' = publications \cup
                 {[what |-> life[q].proposal, approved_by |-> Credit(life[q].decided_by),
                   serves |-> q]}
        PROVE  Goal
    <3>1. CASE q = p
      <4>1. life[p] \in Cases /\ life[p].status \in Statuses
        BY <1>1, <2>2, <3>1 DEF Types, Decided, Statuses
      <4>2. life[p].decided_by \in Deciders \cup {NoName}
        BY <4>1, Fixed
      <4> QED
        BY <2>2, <3>1, <4>2, PerformedSeen
    <3>2. CASE q # p
      <4>1. Looks(p) /\ SameEffects(p)
        BY <2>2, <3>2 DEF Looks, SameEffects
      <4> QED
        BY <4>1, NothingSeen
    <3> QED
      BY <3>1, <3>2
  <2> QED
    BY <1>6, <2>1, <2>2, PublishedInName
<1>7. ASSUME NEW h \in Handlers, NEW n \in Narrations, FinishRun(h, n)
      PROVE  Goal
  <2>1. PICK found, ids : Opening(h, found, ids)
    BY <1>7, FinishRunOpens
  <2>2. SameEffects(p)
    BY <1>7, FinishRunOpens DEF SameEffects
  <2>3. CASE \A i \in DOMAIN found : ids[i] # p
    <3>1. Looks(p)
      BY <2>1, <2>3 DEF Opening, Looks
    <3> QED
      BY <2>2, <3>1, NothingSeen
  <2>4. ASSUME NEW i \in DOMAIN found, ids[i] = p
        PROVE  Goal
    <3>1. /\ life[p] = NoCase /\ life'[p] = CaseFromProposal(found[i])
          /\ found[i].what \in Whats
      BY <2>1, <2>4 DEF Opening
    <3>2. /\ life'[p].status = "pending" /\ life'[p].proposal = found[i].what
          /\ life'[p].decided_by = NoName
      BY <3>1 DEF CaseFromProposal, NoCase
    <3> QED
      BY <2>2, <3>1, <3>2, OpenedSeen
  <2> QED
    BY <2>3, <2>4
<1>8. ASSUME NEW h \in Handlers, NEW k \in Pods, NEW q \in ProposalIds,
             NEW approved \in BOOLEAN, NEW who \in Deciders, Decide(h, k, q, approved, who)
      PROVE  Goal
  <2> DEFINE w == Written(store[k][q], approved, who)
  <2>1. /\ store[k][q] # NoCase /\ publications' = publications
        /\ life' = [life EXCEPT ![q] = w]
    BY <1>8, Zenon DEF Decide
  <2>2. store[k][q] = life[q] /\ life[q] \in Cases
    BY <1>1, <2>1 DEF OnePodKnows, Types
  <2>3. /\ w.proposal = life[q].proposal
        /\ IF life[q].status = "pending"
           THEN w.status = (IF approved THEN "approved" ELSE "rejected") /\ w.decided_by = who
           ELSE w = life[q]
    BY <2>1, <2>2, WrittenCase
  <2> HIDE DEF w
  <2>4. SameEffects(p)
    BY <2>1 DEF SameEffects
  <2>5. life'[q] = w /\ \A c \in ProposalIds \ {q} : life'[c] = life[c]
    BY <1>1, <2>1 DEF Types
  <2>6. CASE q = p /\ life[p].status = "pending"
    <3>1. PICK verdict \in {"approved", "rejected"} : life'[p].status = verdict
      BY <2>3, <2>5, <2>6
    <3> QED
      BY <2>3, <2>4, <2>5, <2>6, <3>1, DecidedSeen
  <2>7. CASE ~(q = p /\ life[p].status = "pending")
    <3>1. Looks(p)
      BY <2>3, <2>5, <2>7 DEF Looks
    <3> QED
      BY <2>4, <3>1, NothingSeen
  <2> QED
    BY <2>6, <2>7
<1>9. ASSUME NEW h \in Handlers, NEW n \in Narrations, FinishExecution(h, n)
      PROVE  Goal
  <2> DEFINE q == target[h]
  <2>1. /\ publications' = publications
        /\ \/ life' = life
           \/ /\ PublishedFor(q)
              /\ \E x \in Results : life' = [life EXCEPT ![q] = RecordExecution(life[q], x)]
    BY <1>9, FinishExecutionEnds, Zenon
  <2>2. /\ q \in ProposalIds /\ life[q] \in Cases /\ life[q] # NoCase
        /\ life[q].status \in Decided
    BY <1>9, FinishExecutionEnds, FoundExecutions
  <2>3. ASSUME NEW x \in Results, life' = [life EXCEPT ![q] = RecordExecution(life[q], x)],
               PublishedFor(q)
        PROVE  Goal
    <3>1. /\ life'[q].status = "executed" /\ life'[q].proposal = life[q].proposal
          /\ life'[q].decided_by = life[q].decided_by
          /\ \A c \in ProposalIds \ {q} : life'[c] = life[c]
      <4>1. /\ life'[q] = RecordExecution(life[q], x)
            /\ \A c \in ProposalIds \ {q} : life'[c] = life[c]
        BY <1>1, <2>2, <2>3 DEF Types
      <4> QED
        BY <2>2, <4>1, RecordedCase
    <3>2. SameEffects(p)
      BY <2>1 DEF SameEffects
    <3>3. CASE q = p /\ life[p].status = "approved"
      <4>1. PublishedFor(p)
        BY <2>3, <3>3
      <4> QED
        BY <3>1, <3>2, <3>3, <4>1, ClosedSeen
    <3>4. CASE ~(q = p /\ life[p].status = "approved")
      <4>1. Looks(p)
        BY <2>2, <3>1, <3>4 DEF Looks, Decided
      <4> QED
        BY <3>2, <4>1, NothingSeen
    <3> QED
      BY <3>3, <3>4
  <2> QED
    BY <1>2, <2>1, <2>3
<1> HIDE DEF Goal
<1>10. Goal
  <2>1. ASSUME NEW h \in Handlers, NEW r \in Askable(h), AskSpecialist(h, r)
        PROVE  Goal
    BY <1>4, <2>1
  <2>2. ASSUME NEW h \in Handlers, Specialist(h)
        PROVE  Goal
    BY <1>4, <1>6, <2>2 DEF Specialist
  <2>3. ASSUME NEW h \in Handlers, TurnRaises(h)
        PROVE  Goal
    BY <1>4, <2>3
  <2>4. ASSUME NEW h \in Handlers, NEW n \in Narrations, FinishRun(h, n) \/ FinishExecution(h, n)
        PROVE  Goal
    BY <1>7, <1>9, <2>4
  <2>5. ASSUME NEW h \in Handlers, NEW k \in Pods,
               \/ RunTurn(h, k)
               \/ \E q \in ProposalIds \cup {UnknownId} : NotFound(h, k, q)
               \/ \E q \in ProposalIds, approved \in BOOLEAN, who \in Deciders :
                    Decide(h, k, q, approved, who)
        PROVE  Goal
    BY <1>4, <1>8, <2>5
  <2> QED
    BY <1>3, <1>5, <2>1, <2>2, <2>3, <2>4, <2>5 DEF Next
<1> QED
  BY <1>10 DEF Goal

(* Without a database too, the flow does what ApprovalLifecycle promises of
   each case, whichever pods have forgotten it. *)
THEOREM FlowFollowsLifecycle ==
  Spec => FollowsLifecycle
<1>1. Init => \A p \in ProposalIds : Lifecycle(p)!Init
  BY InitSeen
<1>2. IInv /\ [Next]_vars =>
        [\A p \in ProposalIds : [Lifecycle(p)!Next]_(Lifecycle(p)!lifecycle)]_vars
  BY StepSeen
<1> QED
  BY <1>1, <1>2, Inductive, PTL DEF Spec, FollowsLifecycle
=============================================================================
