--------------------------- MODULE MCWebhookQueue ---------------------------
(***************************************************************************)
(* WebhookQueue with a handful of payloads of a two-season show.           *)
(***************************************************************************)
EXTENDS WebhookQueue, TLC

CONSTANTS w1, w2, w3

\* Season 1 has two episodes, season 2 has three.
MCExpectedCount == [s \in Seasons |-> s + 1]

Single(s, e, recent, pilot) ==
    [season |-> s, eps |-> {e}, recent |-> IF recent THEN {e} ELSE {},
     bulk |-> FALSE, pilot |-> pilot]

Bulk(s, eps, recent, pilot) ==
    [season |-> s, eps |-> eps, recent |-> recent, bulk |-> TRUE, pilot |-> pilot]

\* Single old episodes (a pilot among them), a single recent one, a bulk import
\* of old episodes and one that mixes both.
MCRequests ==
    {Single(1, 1, FALSE, FALSE), Single(1, 2, FALSE, TRUE), Single(2, 3, TRUE, FALSE),
     Bulk(2, {1, 2}, {}, TRUE), Bulk(1, {1, 2}, {2}, FALSE)}

\* Webhooks differ in nothing but their names.
Symmetry == Permutations(Webhooks)

=============================================================================
