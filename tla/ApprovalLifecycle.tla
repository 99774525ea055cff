------------------------- MODULE ApprovalLifecycle -------------------------
(***************************************************************************)
(* What the approval flow promises, whoever calls it and however often:    *)
(* an action is proposed, a human decides once, and only an approved       *)
(* action ever takes effect, in the name of the human who approved it; a   *)
(* case is closed only once its action has taken effect.                   *)
(*                                                                         *)
(* This is the abstract specification. ApprovalCases, the handlers and     *)
(* the store as the code has them, is shown to implement it.               *)
(*                                                                         *)
(* It promises an effect AT LEAST once for a closed case, not exactly      *)
(* once: the effects form a set here, and Perform may repeat after Close.  *)
(***************************************************************************)

CONSTANTS
  Cases,      \* the approval cases there may be
  Actions,    \* the actions a specialist may propose
  NoAction,   \* the action column of a case that does not exist
  Humans,     \* the names a decision may carry
  Nobody,     \* no name
  Credit(_),  \* the approver an effect is attributed to, given the decision's name
  Signs(_)    \* whether such an approver opens the specialist's gate

VARIABLES
  phase,      \* phase[c]: where case c is in its life
  action,     \* action[c]: what case c would do
  decider,    \* decider[c]: who decided case c
  done        \* the effects that happened, with the approver each one names

lifecycle == <<phase, action, decider, done>>

Effect(c) == [payload |-> action[c], approved_by |-> Credit(decider[c])]

Init ==
  /\ phase = [c \in Cases |-> "absent"]
  /\ action = [c \in Cases |-> NoAction]
  /\ decider = [c \in Cases |-> Nobody]
  /\ done = {}

(* A specialist's proposal becomes a case awaiting a decision. *)
Propose(c, a) ==
  /\ phase[c] = "absent"
  /\ phase' = [phase EXCEPT ![c] = "pending"]
  /\ action' = [action EXCEPT ![c] = a]
  /\ UNCHANGED <<decider, done>>

(* A human decides a pending case, once. *)
Decide(c, verdict, who) ==
  /\ phase[c] = "pending"
  /\ phase' = [phase EXCEPT ![c] = verdict]
  /\ decider' = [decider EXCEPT ![c] = who]
  /\ UNCHANGED <<action, done>>

(* The action of an approved case takes effect. *)
Perform(c) ==
  /\ phase[c] \in {"approved", "executed"}
  /\ Signs(Credit(decider[c]))
  /\ done' = done \cup {Effect(c)}
  /\ UNCHANGED <<phase, action, decider>>

(* An approved case is closed, its action having taken effect. *)
Close(c) ==
  /\ phase[c] = "approved"
  /\ \E e \in done : e.payload = action[c]
  /\ phase' = [phase EXCEPT ![c] = "executed"]
  /\ UNCHANGED <<action, decider, done>>

Next ==
  \E c \in Cases :
    \/ \E a \in Actions : Propose(c, a)
    \/ \E verdict \in {"approved", "rejected"}, who \in Humans :
         Decide(c, verdict, who)
    \/ Perform(c)
    \/ Close(c)

Spec == Init /\ [][Next]_lifecycle
=============================================================================
