-------------------------- MODULE ApprovalRequests --------------------------
(***************************************************************************)
(* Approval requests: the router that creates them, the administrators and *)
(* the maintenance job that decide them, and the routing that follows      *)
(* (approval.service.ts, content-router.service.ts, quota.service.ts,      *)
(* database/methods/approval.ts and quota.ts, routes/v1/approval).         *)
(*                                                                         *)
(* A worker runs one job at a time, one action per database or instance    *)
(* call; jobs of different workers interleave.  A request is known by its  *)
(* row id, so a job that holds the id of a deleted row changes nothing.    *)
(***************************************************************************)
EXTENDS Integers, FiniteSets

CONSTANTS
    Users, Contents,
    Workers,        \* the jobs that may run at once
    Kinds,          \* the kinds of job that may be started
    Restricted,     \* users whose content needs an approval, by flag or by rule
    Limited, Limit, \* users with a quota, and its limit for the period
    HasRules,       \* does a routing rule match, or does the default apply?
    AtomicCreate,   \* SQLite: transactions are serial.  Else PostgreSQL
    AutoApprove,    \* expirationAction = 'auto_approve'
    ArrFails,       \* may Radarr or Sonarr fail?
    DbFails,        \* may a query fail?
    MaxJobs,        \* bound: jobs of administrators and maintenance, and new periods
    MaxRows,        \* bound: rows ever made for one user and content
    MaxCrashes,     \* bound: restarts
    NoRow           \* no row

AllKinds == {"approve", "bulkApprove", "reject", "bulkReject", "delete",
             "reeval", "maintain", "route"}

ASSUME ApprovalAssumption ==
    /\ Kinds \subseteq AllKinds
    /\ Restricted \subseteq Users /\ Limited \subseteq Users
    /\ Limit \in Nat
    /\ {HasRules, AtomicCreate, AutoApprove, ArrFails, DbFails} \subseteq BOOLEAN
    /\ MaxJobs \in Nat /\ MaxRows \in Nat \ {0} /\ MaxCrashes \in Nat
    /\ NoRow \notin (Users \X Contents) \X (0..MaxRows)

VARIABLES
    status,     \* approval_requests: status of the row of each user and content
    id,         \* its id, or that of the last row deleted
    trigger,    \* its triggered_by
    due,        \* rows whose expires_at has passed
    watching,   \* watchlist_items
    usage,      \* quota_usage: units of each user in the period
    routed,     \* contents that Radarr or Sonarr has
    op,         \* the job of each worker
    granted,    \* history: requests that were ever set to approved
    lost,       \* history: approvals cut short by a restart or a failed rollback
    jobs, crashes

vars == <<status, id, trigger, due, watching, usage, routed, op, granted, lost, jobs,
          crashes>>

Keys == Users \X Contents           \* UNIQUE (user_id, content_key)
Statuses == {"pending", "approved", "rejected", "expired", "auto_approved"}
Refs == Keys \X (0..MaxRows)        \* a key and a row id
Row(k) == <<k, id[k]>>
Rows(K) == {Row(k) : k \in K}
Stages == {"idle", "next", "quota", "mark", "reread", "add", "charge", "related", "fulfil",
           "rollback", "deny", "unwatch", "drop", "expire", "clean", "decide",
           "consume", "create", "createQuota", "insert", "insertQuota",
           "record", "markAuto", "reroute"}
Approving == {"approve", "bulkApprove", "reeval", "maintain"}

\* A worker is still to route the request it approved, or to undo the approval.
Holding(w) == op[w].kind \in Approving /\ op[w].at \in {"reread", "add", "rollback"}

NoOp == [kind |-> "none", at |-> "idle", todo |-> {}, cur |-> NoRow, related |-> {},
         spent |-> {}]

Init ==
    /\ status = [k \in Keys |-> "none"]
    /\ id = [k \in Keys |-> 0]
    /\ trigger = [k \in Keys |-> "manual"]
    /\ due = {}
    /\ watching = Keys
    /\ usage = [u \in Users |-> 0]
    /\ routed = {}
    /\ op = [w \in Workers |-> NoOp]
    /\ granted = {} /\ lost = {}
    /\ jobs = 0 /\ crashes = 0

-----------------------------------------------------------------------------
\* The row of reference r still exists.
Live(r) == status[r[1]] # "none" /\ id[r[1]] = r[2]

\* updateApprovalRequest: by id alone, whatever the status.
Update(r, s) == status' = IF Live(r) THEN [status EXCEPT ![r[1]] = s] ELSE status

Free(w) == op[w].kind = "none"
Key(w) == op[w].cur[1]
Go(w, at) == op' = [op EXCEPT ![w].at = at]
End(w) == op' = [op EXCEPT ![w] = NoOp]

\* An administrator or the scheduler starts a job.
StartJob(w, kind, at, todo, cur) ==
    /\ Free(w) /\ kind \in Kinds /\ jobs < MaxJobs
    /\ jobs' = jobs + 1
    /\ op' = [op EXCEPT ![w] = [NoOp EXCEPT !.kind = kind, !.at = at, !.todo = todo,
                                            !.cur = cur]]
    /\ UNCHANGED <<status, id, trigger, due, watching, usage, routed, granted, lost,
                   crashes>>

\* Approve, and PATCH to approved: the status is read and checked first.
StartApprove(w) ==
    \E k \in Keys :
        /\ status[k] \in {"pending", "rejected"}
        /\ StartJob(w, "approve", "next", {Row(k)}, NoRow)

\* Mutant: any request may be rejected.
StartRejectAny(w) ==
    \E k \in Keys :
        /\ status[k] # "none"
        /\ StartJob(w, "reject", "next", {Row(k)}, NoRow)

\* Reject, and PATCH to rejected: the status is read and checked first.
StartReject(w) ==
    \E k \in Keys :
        /\ status[k] = "pending"
        /\ StartJob(w, "reject", "next", {Row(k)}, NoRow)

\* The bulk routes take ids of any status.
StartBulk(w, kind) ==
    \E K \in SUBSET {k \in Keys : status[k] # "none"} :
        StartJob(w, kind, "next", Rows(K), NoRow)

\* deleteApprovalRequest: a pending request takes the watchlist item with it.
StartDelete(w) ==
    \E k \in Keys :
        /\ status[k] # "none" /\ id[k] < MaxRows
        /\ StartJob(w, "delete", IF status[k] = "pending" THEN "unwatch" ELSE "drop",
                    {}, Row(k))

\* reEvaluateQuotaExceededApprovals: the list is read once.
StartReeval(w) ==
    StartJob(w, "reeval", "next",
             Rows({k \in Keys : status[k] = "pending" /\ trigger[k] = "quota"}), NoRow)

\* performMaintenance, after the re-evaluation: the requests to approve are
\* read once.
StartMaintain(w) ==
    StartJob(w, "maintain", "next",
             IF AutoApprove THEN Rows({k \in due : status[k] = "pending"}) ELSE {}, NoRow)

\* The loop over the list.
NextItem(w) ==
    /\ op[w].at = "next"
    /\ \E r \in op[w].todo :
         op' = [op EXCEPT ![w].todo = @ \ {r}, ![w].cur = r,
                          ![w].at = CASE op[w].kind \in {"reject", "bulkReject"} -> "deny"
                                      [] op[w].kind = "reeval" -> "quota"
                                      [] OTHER -> "mark"]
    /\ UNCHANGED <<status, id, trigger, due, watching, usage, routed, granted, lost,
                   jobs, crashes>>

EndOfList(w) ==
    /\ op[w].at = "next" /\ op[w].todo = {}
    /\ IF op[w].kind = "maintain" THEN Go(w, "expire") ELSE End(w)
    /\ UNCHANGED <<status, id, trigger, due, watching, usage, routed, granted, lost,
                   jobs, crashes>>

\* rejectRequest.
Deny(w) ==
    /\ op[w].at = "deny"
    /\ Update(op[w].cur, "rejected")
    /\ Go(w, "next")
    /\ UNCHANGED <<id, trigger, due, watching, usage, routed, granted, lost, jobs,
                   crashes>>

-----------------------------------------------------------------------------
\* approveAndRoute.

\* Units of user u, and those the run of w thinks it used: recordUsage has
\* counted the latter already.
EffectiveUsage(w, u) == usage[u] + Cardinality({k \in op[w].spent : k[1] = u})

\* Mutant: the usage is not compared with the limit.
CheckNothing(w) ==
    /\ op[w].at = "quota"
    /\ Go(w, "mark")
    /\ UNCHANGED <<status, id, trigger, due, watching, usage, routed, granted, lost,
                   jobs, crashes>>

\* The re-evaluation reads the quota status of the user.
CheckQuota(w) ==
    LET u == Key(w)[1]
    IN  /\ op[w].at = "quota"
        /\ IF u \in Limited /\ EffectiveUsage(w, u) >= Limit
           THEN Go(w, "next") ELSE Go(w, "mark")
        /\ UNCHANGED <<status, id, trigger, due, watching, usage, routed, granted, lost,
                       jobs, crashes>>

\* approveRequest.
Mark(w) ==
    /\ op[w].at = "mark"
    /\ \/ /\ Update(op[w].cur, "approved")
          /\ granted' = IF Live(op[w].cur) THEN granted \cup {Key(w)} ELSE granted
          /\ lost' = lost \ {op[w].cur}
          /\ IF Live(op[w].cur) THEN Go(w, "reread") ELSE Go(w, "next")
       \/ /\ DbFails
          /\ Go(w, "next")
          /\ UNCHANGED <<status, granted, lost>>
    /\ UNCHANGED <<id, trigger, due, watching, usage, routed, jobs, crashes>>

\* The updated row is read back: gone, or decided by another job since, it is
\* not routed.
Reread(w) ==
    /\ op[w].at = "reread"
    /\ IF ~Live(op[w].cur) THEN Go(w, "next")
       ELSE IF status[Key(w)] = "approved" THEN Go(w, "add") ELSE Go(w, "rollback")
    /\ UNCHANGED <<status, id, trigger, due, watching, usage, routed, granted, lost,
                   jobs, crashes>>

\* Mutant: a router records its content even when the routing failed.
AddUnchecked(w) ==
    /\ op[w].at = "add"
    /\ routed' = routed \cup {Key(w)[2]} \/ (ArrFails /\ UNCHANGED routed)
    /\ IF op[w].kind = "route" THEN Go(w, "record") ELSE Go(w, "charge")
    /\ UNCHANGED <<status, id, trigger, due, watching, usage, granted, lost, jobs,
                   crashes>>

\* routeItemToRadarr, routeItemToSonarr on the primary instance; "already added"
\* is success.  A router that fails gives up: its unit of quota is spent.
Add(w) ==
    /\ op[w].at = "add"
    /\ \/ /\ routed' = routed \cup {Key(w)[2]}
          /\ IF op[w].kind = "route" THEN Go(w, "record") ELSE Go(w, "charge")
       \/ /\ ArrFails
          /\ IF op[w].kind = "route" THEN End(w) ELSE Go(w, "rollback")
          /\ UNCHANGED routed
    /\ UNCHANGED <<status, id, trigger, due, watching, usage, granted, lost, jobs,
                   crashes>>

\* recordUsage, unchecked.  Its own errors are swallowed; one in the read
\* before it counts as a failure to route.
Charge(w) ==
    LET u == Key(w)[1]
    IN  /\ op[w].at = "charge"
        /\ \/ /\ \/ usage' = [usage EXCEPT ![u] = IF u \in Limited THEN @ + 1 ELSE @]
                 \/ DbFails /\ UNCHANGED usage
              /\ op' = [op EXCEPT ![w].at = "related",
                                  ![w].spent = IF op[w].kind = "reeval" /\ u \in Limited
                                               THEN @ \cup {Key(w)} ELSE @]
           \/ DbFails /\ Go(w, "rollback") /\ UNCHANGED usage
        /\ UNCHANGED <<status, id, trigger, due, watching, routed, granted, lost, jobs,
                       crashes>>

\* handleCrossUserContentFulfillment: the other users' pending requests for the
\* content are read, then approved one by one, by id.  An error ends it.
Related(w) ==
    Rows({k \in Keys : status[k] = "pending" /\ k[2] = Key(w)[2] /\ k[1] # Key(w)[1]})

ReadRelated(w) ==
    /\ op[w].at = "related"
    /\ \/ op' = [op EXCEPT ![w].at = "fulfil", ![w].related = Related(w)]
       \/ DbFails /\ Go(w, "next")
    /\ UNCHANGED <<status, id, trigger, due, watching, usage, routed, granted, lost,
                   jobs, crashes>>

Fulfil(w) ==
    /\ op[w].at = "fulfil"
    /\ \E r \in op[w].related :
         /\ Update(r, "approved")
         /\ granted' = IF Live(r) THEN granted \cup {r[1]} ELSE granted
         /\ op' = [op EXCEPT ![w].related = @ \ {r}]
    /\ UNCHANGED <<id, trigger, due, watching, usage, routed, lost, jobs, crashes>>

Fulfilled(w) ==
    /\ op[w].at = "fulfil" /\ (op[w].related = {} \/ DbFails)
    /\ op' = [op EXCEPT ![w].at = "next", ![w].related = {}]
    /\ UNCHANGED <<status, id, trigger, due, watching, usage, routed, granted, lost,
                   jobs, crashes>>

\* Mutant: a failed routing leaves the request approved.
RollbackSkipped(w) ==
    /\ op[w].at = "rollback"
    /\ Go(w, "next")
    /\ UNCHANGED <<status, id, trigger, due, watching, usage, routed, granted, lost,
                   jobs, crashes>>

\* Routing failed: back to pending, whatever the status has become.
Rollback(w) ==
    /\ op[w].at = "rollback"
    /\ \/ Update(op[w].cur, "pending") /\ UNCHANGED lost
       \/ DbFails /\ lost' = lost \cup {op[w].cur} /\ UNCHANGED status
    /\ Go(w, "next")
    /\ UNCHANGED <<id, trigger, due, watching, usage, routed, granted, jobs, crashes>>

-----------------------------------------------------------------------------
\* Deletion, expiry and cleanup.

Unwatch(w) ==
    /\ op[w].at = "unwatch"
    /\ watching' = watching \ {Key(w)}
    /\ Go(w, "drop")
    /\ UNCHANGED <<status, id, trigger, due, usage, routed, granted, lost, jobs, crashes>>

Drop(w) ==
    /\ op[w].at = "drop"
    /\ Update(op[w].cur, "none")
    /\ End(w)
    /\ UNCHANGED <<id, trigger, due, watching, usage, routed, granted, lost, jobs,
                   crashes>>

\* expireOldRequests: one statement.
ExpireOld(w) ==
    /\ op[w].at = "expire"
    /\ status' = [k \in Keys |-> IF status[k] = "pending" /\ k \in due
                                 THEN "expired" ELSE status[k]]
    /\ Go(w, "clean")
    /\ UNCHANGED <<id, trigger, due, watching, usage, routed, granted, lost, jobs,
                   crashes>>

\* Mutant: old requests are deleted whatever their status.
CleanUpAll(w) ==
    /\ op[w].at = "clean"
    /\ \E K \in SUBSET due :
         status' = [k \in Keys |-> IF k \in K THEN "none" ELSE status[k]]
    /\ End(w)
    /\ UNCHANGED <<id, trigger, due, watching, usage, routed, granted, lost, jobs,
                   crashes>>

\* cleanupExpiredRequests: the expired rows that are old enough.
CleanUp(w) ==
    /\ op[w].at = "clean"
    /\ \E K \in SUBSET {k \in Keys : status[k] = "expired"} :
         status' = [k \in Keys |-> IF k \in K THEN "none" ELSE status[k]]
    /\ End(w)
    /\ UNCHANGED <<id, trigger, due, watching, usage, routed, granted, lost, jobs,
                   crashes>>

\* expires_at of a pending request passes; an automatic record has none.
PassDue(k) ==
    /\ status[k] = "pending" /\ trigger[k] # "auto" /\ k \notin due /\ id[k] < MaxRows
    /\ due' = due \cup {k}
    /\ UNCHANGED <<status, id, trigger, watching, usage, routed, op, granted, lost, jobs,
                   crashes>>

-----------------------------------------------------------------------------
\* routeContent, for one item of a watchlist: RSS, the poller or a full sync.
\* An error while the approval is checked lets the item through.

\* Mutant: an approved request is taken as already handled.
StartRouteUnapproved(w, k) ==
    /\ Free(w) /\ "route" \in Kinds /\ k \in watching
    /\ status[k] \in {"none", "expired"}
    /\ op' = [op EXCEPT ![w] = [NoOp EXCEPT !.kind = "route", !.cur = Row(k), !.at = "decide"]]
    /\ UNCHANGED <<status, id, trigger, due, watching, usage, routed, granted, lost,
                   jobs, crashes>>

\* checkExistingApprovalRequest: a pending or rejected request ends the job.
StartRoute(w, k) ==
    /\ Free(w) /\ "route" \in Kinds /\ k \in watching
    /\ \E at \in (CASE status[k] \in {"none", "expired"} -> {"decide"}
                    [] status[k] \in {"approved", "auto_approved"} -> {"reroute"}
                    [] OTHER -> {})
                 \cup (IF DbFails THEN {IF HasRules THEN "add" ELSE "consume"} ELSE {}) :
         op' = [op EXCEPT ![w] = [NoOp EXCEPT !.kind = "route", !.cur = Row(k), !.at = at]]
    /\ UNCHANGED <<status, id, trigger, due, watching, usage, routed, granted, lost,
                   jobs, crashes>>

\* routeUsingApprovedDecision: an error is logged.
Reroute(w) ==
    /\ op[w].at = "reroute"
    /\ routed' = routed \cup {Key(w)[2]} \/ (ArrFails /\ UNCHANGED routed)
    /\ End(w)
    /\ UNCHANGED <<status, id, trigger, due, watching, usage, granted, lost, jobs,
                   crashes>>

\* Mutant: the user's flag is not looked at.
DecideFreely(w) ==
    /\ op[w].at = "decide"
    /\ Go(w, "consume")
    /\ UNCHANGED <<status, id, trigger, due, watching, usage, routed, granted, lost,
                   jobs, crashes>>

\* checkApprovalRequirements.
Decide(w) ==
    /\ op[w].at = "decide"
    /\ IF Key(w)[1] \in Restricted THEN Go(w, "create") ELSE Go(w, "consume")
    /\ UNCHANGED <<status, id, trigger, due, watching, usage, routed, granted, lost,
                   jobs, crashes>>

\* tryConsumeQuota: one transaction, serial for a user on both databases.
Consume(w) ==
    LET u == Key(w)[1]
    IN  /\ op[w].at = "consume"
        /\ \/ /\ u \in Limited /\ usage[u] < Limit
              /\ usage' = [usage EXCEPT ![u] = @ + 1]
              /\ Go(w, "add")
           \/ /\ u \in Limited /\ usage[u] >= Limit
              /\ Go(w, "createQuota")
              /\ UNCHANGED usage
           \/ /\ u \notin Limited \/ DbFails
              /\ Go(w, "add")
              /\ UNCHANGED usage
        /\ UNCHANGED <<status, id, trigger, due, watching, routed, granted, lost, jobs,
                       crashes>>

\* A new pending row for k.
NewRow(k, t) ==
    /\ status' = [status EXCEPT ![k] = "pending"]
    /\ id' = [id EXCEPT ![k] = @ + 1]
    /\ trigger' = [trigger EXCEPT ![k] = t]
    /\ due' = due \ {k}

TriggerOf(w) == IF op[w].at \in {"create", "insert"} THEN "manual" ELSE "quota"

\* The insert throws.  routeContent catches it and goes on to route, except for
\* a quota request without rules, whose error ends the job.
CreateThrows(w) ==
    IF HasRules THEN Go(w, "add")
    ELSE IF TriggerOf(w) = "quota" THEN End(w) ELSE Go(w, "consume")

\* createApprovalRequestWithExpiredHandling in a serial transaction: a pending
\* request is returned, an expired one replaced; any other row conflicts.
CreateAtOnce(w) ==
    LET k == Key(w)
    IN  /\ AtomicCreate /\ op[w].at \in {"create", "createQuota"}
        /\ \/ status[k] \in {"none", "expired"} /\ NewRow(k, TriggerOf(w)) /\ End(w)
           \/ /\ status[k] = "pending" /\ End(w)
              /\ UNCHANGED <<status, id, trigger, due>>
           \/ /\ status[k] \in {"approved", "rejected", "auto_approved"} \/ DbFails
              /\ CreateThrows(w)
              /\ UNCHANGED <<status, id, trigger, due>>
        /\ UNCHANGED <<watching, usage, routed, granted, lost, jobs, crashes>>

\* The same, read committed: its read ...
CreateReads(w) ==
    LET k == Key(w)
    IN  /\ ~AtomicCreate /\ op[w].at \in {"create", "createQuota"}
        /\ IF status[k] = "pending" THEN End(w)
           ELSE op' = [op EXCEPT
                    ![w].at = IF @ = "create" THEN "insert" ELSE "insertQuota",
                    ![w].cur = <<k, IF status[k] = "expired" THEN id[k] ELSE 0>>]
        /\ UNCHANGED <<status, id, trigger, due, watching, usage, routed, granted, lost,
                       jobs, crashes>>

\* ... and, later, the delete of the expired row it saw, and the insert.
CreateInserts(w) ==
    LET k == Key(w)
    IN  /\ op[w].at \in {"insert", "insertQuota"}
        /\ \/ /\ status[k] = "none" \/ id[k] = op[w].cur[2]
              /\ id[k] < MaxRows
              /\ NewRow(k, TriggerOf(w)) /\ End(w)
           \/ /\ (status[k] # "none" /\ id[k] # op[w].cur[2]) \/ DbFails
              /\ CreateThrows(w)
              /\ UNCHANGED <<status, id, trigger, due>>
        /\ UNCHANGED <<watching, usage, routed, granted, lost, jobs, crashes>>

\* createAutoApprovalRecord: nothing if there is a row, whether its read or the
\* unique index finds it; else a pending one ...
Record(w) ==
    /\ op[w].at = "record"
    /\ \/ /\ status[Key(w)] = "none"
          /\ NewRow(Key(w), "auto")
          /\ op' = [op EXCEPT ![w].at = "markAuto", ![w].cur = <<Key(w), id[Key(w)] + 1>>]
       \/ /\ status[Key(w)] # "none" \/ DbFails
          /\ End(w)
          /\ UNCHANGED <<status, id, trigger, due>>
    /\ UNCHANGED <<watching, usage, routed, granted, lost, jobs, crashes>>

\* Mutant: a status the table does not know.
MarkAutoWrong(w) ==
    /\ op[w].at = "markAuto"
    /\ Update(op[w].cur, "autoApproved")
    /\ End(w)
    /\ UNCHANGED <<id, trigger, due, watching, usage, routed, granted, lost, jobs,
                   crashes>>

\* ... that is then set to auto_approved, whatever its status has become.
MarkAuto(w) ==
    /\ op[w].at = "markAuto"
    /\ Update(op[w].cur, "auto_approved") \/ (DbFails /\ UNCHANGED status)
    /\ End(w)
    /\ UNCHANGED <<id, trigger, due, watching, usage, routed, granted, lost, jobs,
                   crashes>>

\* A new day, week or month: the units used before it no longer count.
NewPeriod ==
    /\ \E u \in Users : usage[u] > 0
    /\ jobs < MaxJobs
    /\ jobs' = jobs + 1
    /\ usage' = [u \in Users |-> 0]
    /\ UNCHANGED <<status, id, trigger, due, watching, routed, op, granted, lost,
                   crashes>>

Crash ==
    /\ crashes < MaxCrashes
    /\ crashes' = crashes + 1
    /\ op' = [w \in Workers |-> NoOp]
    /\ lost' = lost \cup {op[w].cur : w \in {v \in Workers : Holding(v)}}
    /\ UNCHANGED <<status, id, trigger, due, watching, usage, routed, granted, jobs>>

-----------------------------------------------------------------------------
Start(w) ==
    \/ StartApprove(w) \/ StartReject(w) \/ StartDelete(w) \/ StartReeval(w)
    \/ StartMaintain(w) \/ StartBulk(w, "bulkApprove") \/ StartBulk(w, "bulkReject")

Work(w) ==
    \/ NextItem(w) \/ EndOfList(w) \/ Deny(w) \/ CheckQuota(w) \/ Mark(w) \/ Reread(w) \/ Add(w)
    \/ Charge(w) \/ ReadRelated(w) \/ Fulfil(w) \/ Fulfilled(w) \/ Rollback(w)
    \/ Unwatch(w) \/ Drop(w) \/ ExpireOld(w) \/ CleanUp(w) \/ Reroute(w) \/ Decide(w)
    \/ Consume(w) \/ CreateAtOnce(w) \/ CreateReads(w) \/ CreateInserts(w)
    \/ Record(w) \/ MarkAuto(w)

Next ==
    \/ \E w \in Workers : Start(w) \/ Work(w) \/ \E k \in Keys : StartRoute(w, k)
    \/ \E k \in Keys : PassDue(k)
    \/ NewPeriod \/ Crash

Spec == Init /\ [][Next]_vars

\* Jobs settle, and the periodic sync comes back to every watched item; the code
\* has no bound on concurrent jobs, which strong fairness makes up for here.
Fairness ==
    /\ \A w \in Workers : WF_vars(Work(w))
    /\ \A k \in Keys : SF_vars(\E w \in Workers : StartRoute(w, k))

FairSpec == Spec /\ Fairness

-----------------------------------------------------------------------------
OpType == [kind : AllKinds \cup {"none"}, at : Stages, todo : SUBSET Refs,
           cur : Refs \cup {NoRow}, related : SUBSET Refs, spent : SUBSET Keys]

TypeOK ==
    /\ status \in [Keys -> Statuses \cup {"none"}]
    /\ id \in [Keys -> 0..MaxRows]
    /\ trigger \in [Keys -> {"manual", "quota", "auto"}]
    /\ due \subseteq Keys /\ watching \subseteq Keys
    /\ usage \in [Users -> Nat]
    /\ routed \subseteq Contents
    /\ op \in [Workers -> OpType]
    /\ granted \subseteq Keys /\ lost \subseteq Refs
    /\ jobs \in 0..MaxJobs /\ crashes \in 0..MaxCrashes

\* An approved request is routed or in hand: no order of approvals, failures,
\* rollbacks, rejections and deletions leaves one approved and forgotten
\* (approveAndRoute), but for a restart or a failed rollback of that approval.
ApprovedIsRouted ==
    \A k \in Keys : status[k] \in {"approved", "auto_approved"} =>
        \/ k[2] \in routed \/ Row(k) \in lost
        \/ \E w \in Workers : Holding(w) /\ op[w].cur = Row(k)

\* A record of an automatic approval never claims what did not happen: under
\* every failure and restart, its content is routed (createAutoApprovalRecord).
AutoApprovedIsRouted ==
    \A k \in Keys : status[k] = "auto_approved" => k[2] \in routed

\* A user's content may be routed: no approval is asked for, or one was given.
Cleared(k) == k[1] \notin Restricted \/ k \in granted

\* A restricted user's content goes to Radarr or Sonarr only when a request of
\* that user for it was approved ("content will not be routed until approved",
\* routeContent): no job is about to add any other, and nothing else was added.
RoutedWasGranted ==
    /\ \A w \in Workers : op[w].at \in {"add", "reroute"} => Cleared(Key(w))
    /\ \A c \in routed : \E u \in Users : Cleared(<<u, c>>)

\* Only an administrator deletes a request that is not expired: replacing and
\* cleaning up never take a decision away, whatever runs at once.
DecisionsKept ==
    [][\A k \in Keys :
         status[k] \in Statuses \ {"expired"} /\ (status'[k] = "none" \/ id'[k] # id[k])
         => \E w \in Workers : op[w].kind = "delete" /\ op[w].cur = Row(k)]_vars

\* Where nobody approves by hand, a user's quota holds.
QuotaHeld == \A u \in Limited : usage[u] <= Limit

\* The requests move as RequestLifecycle allows, while one job runs at a time.
Lifecycle == INSTANCE RequestLifecycle WITH Keys <- Keys, status <- status
LifecycleSpec == Lifecycle!Spec

\* An approved request of a watched item ends up routed, even when the process
\* stopped between the approval and the routing, unless it is taken back.
ApprovedGetsRouted ==
    \A k \in Keys : (status[k] = "approved" /\ k \in watching) ~>
        (k[2] \in routed \/ status[k] # "approved" \/ k \notin watching)

=============================================================================
