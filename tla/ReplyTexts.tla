----------------------------- MODULE ReplyTexts -----------------------------
(***************************************************************************)
(* How a result crosses from the specialist's tools to the serving agent's *)
(* case store: the tools that compute and publish (app/agents/math/        *)
(* tools.py), the callback that restates their results at the end of the   *)
(* specialist's turn (app/agents/reporting.py), and the functions that     *)
(* recover them from the texts of a turn (app/cluster/cases.py).           *)
(*                                                                         *)
(* A JSON value is a node: an object that a tool returned, a wrapper       *)
(* {"result": ...}, a list, or a string. A string is the sequence of its   *)
(* pieces, which are prose, an opening brace that no JSON follows, and the *)
(* objects written out in it; a string written out inside an object is     *)
(* escaped, and nothing in it can be found there.                          *)
(*                                                                         *)
(* A number is a count of halves. A double has Precision significant bits  *)
(* (53 in Python), so that small constants reach its limits.               *)
(***************************************************************************)
EXTENDS Naturals, Sequences, FiniteSets, SequencesExt

CONSTANTS
  Precision,    \* bits in the significand of a double
  BlankNames    \* names other than "" that str.strip() leaves empty

ASSUME ReplyAssumption ==
  /\ Precision \in Nat \ {0}
  /\ "" \notin BlankNames

-----------------------------------------------------------------------------
(* Numbers and their spellings: str and float of Python.                   *)

(* float(n): the nearest multiple of the last bit's weight, ties to even. *)
Float(n) ==
  LET weight == CHOOSE w \in {2^k : k \in 0..n} :
                  /\ n < w * 2^Precision
                  /\ w = 1 \/ n >= (w \div 2) * 2^Precision
      low  == (n \div weight) * weight
      over == 2 * (n - low)
  IN IF over < weight \/ (over = weight /\ (low \div weight) % 2 = 0)
     THEN low ELSE low + weight

Exact(n) == Float(n) = n

IsInteger(n) == n % 2 = 0

Spelled(form, n) == [form |-> form, number |-> n]

(* Text that is not a number. *)
Word == Spelled("word", 0)

(* How a number may be written: 391, 391.0, 3.91e2. *)
Spellings(n) ==
  {Spelled(form, n) : form \in {"decimal", "exponent"} \cup
                               (IF IsInteger(n) THEN {"integer"} ELSE {})}

(* MUTANT: the value is left as the model spelled it. *)
AsSpelled(value) == value

(* MUTANT: int(number), whether or not the number is integral. *)
Truncated(value) ==
  IF value = Word THEN value
  ELSE Spelled("integer", 2 * (Float(value.number) \div 2))

CanonicalValue(value) ==
  IF value = Word THEN value
  ELSE LET number == Float(value.number) IN
       Spelled(IF IsInteger(number) THEN "integer" ELSE "decimal", number)

-----------------------------------------------------------------------------
(* app/agents/math/tools.py                                                *)

NoName == ""
IsBlank(name) == name \in BlankNames \cup {NoName}

NoWhat == [value |-> Word, label |-> ""]

NoResult == [status |-> "none", what |-> NoWhat, approved_by |-> NoName]

(* An expression is what evaluating it comes to: a number, or an exception.
   Those that calculate catches become an error; OverflowError, from a power
   too large, is not among them. *)
CaughtErrors == {"ValueError", "SyntaxError", "ZeroDivisionError", "TypeError"}

Calculate(expression) ==
  IF expression.kind = "number"
  THEN [NoResult EXCEPT !.status = "ok",
          !.what.value = Spelled("decimal", Float(expression.number))]
  ELSE [NoResult EXCEPT !.status =
          IF expression.kind \in CaughtErrors THEN "error" ELSE "raised"]

(* One function, two behaviours: the result proposes, or confirms. *)
PublishResult(value, label, approved_by) ==
  LET what == [value |-> CanonicalValue(value), label |-> label] IN
  IF IsBlank(approved_by)
  THEN [status |-> "approval_required", what |-> what, approved_by |-> NoName]
  ELSE [status |-> "published", what |-> what, approved_by |-> approved_by]

-----------------------------------------------------------------------------
(* JSON values                                                             *)

Node(tag, result, inner) == [tag |-> tag, result |-> result, inner |-> inner]

Prose         == Node("prose", NoResult, <<>>)
Brace         == Node("brace", NoResult, <<>>)
Object(r)     == Node("object", r, <<>>)
Wrapped(node) == Node("wrapper", NoResult, <<node>>)
ListOf(nodes) == Node("list", NoResult, nodes)
Text(pieces)  == Node("text", NoResult, pieces)

IsDict(node) == node.tag \in {"object", "wrapper"}

(* An event of a session: what the tools returned, and what the author said. *)
Event(responses, said) == [responses |-> responses, said |-> said]

-----------------------------------------------------------------------------
(* app/agents/reporting.py                                                 *)

AUDITED_STATUSES == {"approval_required", "published"}

(* The items of a sequence at these places, in their order. *)
Picked(s, places) ==
  LET picked[n \in 0..Len(s)] ==
        IF n = 0 THEN <<>>
        ELSE IF n \in places THEN Append(picked[n - 1], s[n]) ELSE picked[n - 1]
  IN picked[Len(s)]

DictsOf(nodes) == Picked(nodes, {i \in DOMAIN nodes : IsDict(nodes[i])})

(* The dictionaries among an event's tool results, out of their wrappers. *)
ToolPayloads(event) ==
  LET Unwrap(node) == IF node.tag = "wrapper" /\ IsDict(node.inner[1])
                      THEN node.inner[1] ELSE node
      dicts == DictsOf(event.responses)
  IN [i \in DOMAIN dicts |-> Unwrap(dicts[i])]

(* The first of the items that are equal: what a set of those seen lets by. *)
Distinct(s) ==
  Picked(s, {i \in DOMAIN s : \A j \in 1..(i - 1) : s[j] # s[i]})

(* The distinct audit-relevant results of the turn's events, in order. *)
AuditedResults(events) ==
  LET all == FlattenSeq([i \in DOMAIN events |-> ToolPayloads(events[i])])
  IN Distinct(Picked(all, {i \in DOMAIN all : all[i].result.status \in AUDITED_STATUSES}))

(* The agent's last words. *)
Spoken(events) ==
  LET spoke == {i \in DOMAIN events : events[i].said # <<>>}
  IN IF spoke = {} THEN <<>>
     ELSE events[CHOOSE i \in spoke : \A j \in spoke : j <= i].said

(* The events of this invocation, with one more if there is something to
   restate: the words first, then the results as JSON, one per line. *)
RestateStructuredResults(events) ==
  LET results == AuditedResults(events) IN
  IF results = <<>> THEN events
  ELSE Append(events, Event(<<>>, Spoken(events) \o results))

(* AgentTool returns the text of the last content of the peer's turn. *)
PeerReply(events) == Text(Spoken(events))

-----------------------------------------------------------------------------
(* app/cluster/cases.py                                                    *)

(* A brace that no JSON follows is stepped over. *)
JsonObjectsIn(text) == DictsOf(text.inner)

(* A string is a text, and so is the dump of a dictionary. *)
Dumped(payload) ==
  CASE payload.tag = "text" -> <<payload>>
    [] IsDict(payload) -> <<Text(<<payload>>)>>
    [] OTHER -> <<>>

(* What a dictionary or a list holds. The fields of a tool's own object are
   words and numbers, which no result hides in. *)
Within(payload) == IF payload.tag \in {"wrapper", "list"} THEN payload.inner ELSE <<>>

DumpedIn(payload) ==
  Dumped(payload) \o FlattenSeq([i \in DOMAIN Within(payload) |-> Dumped(Within(payload)[i])])

(* MUTANT: the wrapper is dumped, and not looked into. *)
DumpOnly(payload) == Dumped(payload)

(* Every string in a tool's result. A result is at most a wrapper of a list of
   texts, so the recursion of the code goes two levels down (a bound). *)
Unpack(payload) ==
  Dumped(payload) \o FlattenSeq([i \in DOMAIN Within(payload) |-> DumpedIn(Within(payload)[i])])

ReplyTextsOf(event) ==
  FlattenSeq([i \in DOMAIN event.responses |-> Unpack(event.responses[i])])
    \o (IF event.said = <<>> THEN <<>> ELSE <<Text(event.said)>>)

ResultsIn(texts) ==
  LET objects == FlattenSeq([i \in DOMAIN texts |-> JsonObjectsIn(texts[i])])
  IN [i \in DOMAIN objects |-> objects[i].result]

Proposals(results) ==
  Picked(results, {i \in DOMAIN results : results[i].status = "approval_required"})

(* The distinct proposals, in the order they are first reported. *)
FindProposals(texts) == Distinct(Proposals(ResultsIn(texts)))

(* The confirmations of this proposal; the first one counts. *)
FindExecutions(texts, proposal) ==
  LET results == ResultsIn(texts)
  IN Picked(results, {i \in DOMAIN results : results[i].status = "published" /\
                                             results[i].what = proposal})
=============================================================================
