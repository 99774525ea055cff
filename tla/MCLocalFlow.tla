---------------------------- MODULE MCLocalFlow ----------------------------
(* The approval flow without a database, for TLC: the ids of cases are
   interchangeable, and so are the pods and the requests served. *)
EXTENDS LocalFlow, TLC

Interchangeable ==
  UNION {Permutations(ProposalIds), Permutations(Pods), Permutations(Handlers)}
=============================================================================
