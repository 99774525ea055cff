--------------------------- MODULE MCApprovalCases ---------------------------
(* Small instances of ApprovalCases for TLC. Handlers, cases and fields are   *)
(* interchangeable; liveness runs do without the symmetry.                    *)
EXTENDS ApprovalCases, TLC

Symmetry == Permutations(Handlers) \cup Permutations(ProposalIds)
              \cup Permutations(Scalars)
=============================================================================
