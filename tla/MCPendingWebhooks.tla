------------------------- MODULE MCPendingWebhooks -------------------------
(***************************************************************************)
(* PendingWebhooks with two webhooks for one content and two users.        *)
(***************************************************************************)
EXTENDS PendingWebhooks, TLC

CONSTANTS w1, w2, u1, u2

Symmetry == Permutations(Webhooks) \cup Permutations(Users)

=============================================================================
