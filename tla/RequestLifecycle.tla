-------------------------- MODULE RequestLifecycle --------------------------
(***************************************************************************)
(* What the approval system promises of each request: the moves between    *)
(* statuses that an administrator, the router and maintenance may cause    *)
(* (the table of the PATCH route, "Allow pending -> approved/rejected and  *)
(* rejected -> approved", and the moves of the jobs).                      *)
(***************************************************************************)
CONSTANT Keys
VARIABLE status

Moves ==
    {<<"none", "pending">>, <<"expired", "pending">>}              \* created
    \cup {<<"pending", "approved">>, <<"pending", "rejected">>,    \* decided
          <<"rejected", "approved">>, <<"pending", "auto_approved">>}
    \cup {<<"approved", "pending">>}                               \* not routed
    \cup {<<"pending", "expired">>, <<"expired", "none">>}         \* too old

Init == status = [k \in Keys |-> "none"]

\* Some requests move; one statement may move several.
Change ==
    /\ \A k \in Keys : <<status[k], status'[k]>> \in Moves \/ status'[k] = status[k]

\* An administrator deletes one.
Delete == \E k \in Keys : status' = [status EXCEPT ![k] = "none"]

Next == Change \/ Delete

Spec == Init /\ [][Next]_status

=============================================================================
