------------------------- MODULE MCApprovalRequests -------------------------
(***************************************************************************)
(* ApprovalRequests with a few users, contents and workers.                *)
(***************************************************************************)
EXTENDS ApprovalRequests, TLC

CONSTANTS u1, u2, c1, c2, a, b

Symmetry == Permutations(Workers)

=============================================================================
