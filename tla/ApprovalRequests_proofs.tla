---------------------- MODULE ApprovalRequests_proofs ----------------------
(***************************************************************************)
(* For any users, contents, workers, quotas and rules: the types; that an  *)
(* automatic record is true and a decision is kept; and that an approved   *)
(* request is routed or in hand.                                           *)
(***************************************************************************)
EXTENDS ApprovalRequests, TLAPS

Decided == {"quota", "mark", "reread", "charge", "related", "fulfil", "rollback"}
Routing == {"decide", "consume", "create", "createQuota", "insert", "insertQuota",
            "record", "markAuto", "reroute"}
Deleting == {"unwatch", "drop"}

\* What a job is doing fits its kind, and it holds the reference it needs.
OpOk(o) ==
    /\ o.at \in Decided \cup Routing \cup Deleting \cup {"deny", "add"} => o.cur \in Refs
    /\ o.at \in Decided => o.kind \in Approving
    /\ o.at \in Routing => o.kind = "route"
    /\ o.at \in Deleting <=> o.kind = "delete"
    /\ o.at \in Deleting => o.cur[2] < MaxRows
    /\ o.at = "add" => o.kind \in Approving \cup {"route"}
    /\ o.at = "next" => o.kind \in Approving \cup {"reject", "bulkReject"}
    /\ o.at = "deny" => o.kind \in {"reject", "bulkReject"}
    /\ o.at \in {"insert", "insertQuota"} => ~AtomicCreate
    /\ o.at = "fulfil" => \A r \in o.related : r[1][2] = o.cur[1][2]

OpsOk == \A w \in Workers : OpOk(op[w])

\* A row that may yet be replaced leaves room for another id.
RowsOk ==
    \A k \in Keys : status[k] \in {"none", "expired"} \/ k \in due => id[k] < MaxRows

TypeInv == TypeOK /\ OpsOk /\ RowsOk

LEMMA NoOpOk == NoOp \in OpType /\ OpOk(NoOp)
BY DEF NoOp, OpType, OpOk, Stages, Decided, Routing, Deleting

LEMMA InitType == Init => TypeInv
PROOF
  <1> SUFFICES ASSUME Init PROVE TypeInv
    OBVIOUS
  <1>1. OpsOk /\ op \in [Workers -> OpType]
    BY NoOpOk DEF Init, OpsOk
  <1>2. RowsOk
    BY ApprovalAssumption DEF Init, RowsOk
  <1> QED BY <1>1, <1>2, ApprovalAssumption DEF Init, TypeInv, TypeOK, Keys

\* One job changes, to one that fits.
LEMMA OneJob ==
    ASSUME op \in [Workers -> OpType], OpsOk, NEW w \in Workers, NEW c \in OpType,
           OpOk(c), op' = [op EXCEPT ![w] = c]
    PROVE  op' \in [Workers -> OpType] /\ OpsOk'
BY DEF OpsOk

\* A row is updated by its id.
LEMMA UpdateRow ==
    ASSUME TypeInv, NEW r \in Refs, NEW s \in Statuses \cup {"none"}, Update(r, s),
           s \in {"none", "expired"} => r[2] < MaxRows, id' = id, due' = due
    PROVE  status' \in [Keys -> Statuses \cup {"none"}] /\ RowsOk'
PROOF
  <1>1. r[1] \in Keys /\ r[2] \in 0..MaxRows
    BY DEF Refs
  <1>2. status \in [Keys -> Statuses \cup {"none"}] /\ RowsOk
    BY DEF TypeInv, TypeOK
  <1>3. status' \in [Keys -> Statuses \cup {"none"}]
    BY <1>2 DEF Update
  <1>4. ASSUME NEW k \in Keys, status'[k] \in {"none", "expired"} \/ k \in due
        PROVE  id[k] < MaxRows
    BY <1>1, <1>2, <1>4 DEF Update, Live, RowsOk
  <1> QED BY <1>3, <1>4 DEF RowsOk

\* A row is made.
LEMMA MakeRow ==
    ASSUME TypeInv, NEW k \in Keys, NEW t \in {"manual", "quota", "auto"}, NewRow(k, t),
           id[k] < MaxRows
    PROVE  /\ status' \in [Keys -> Statuses \cup {"none"}]
           /\ id' \in [Keys -> 0..MaxRows]
           /\ trigger' \in [Keys -> {"manual", "quota", "auto"}]
           /\ due' \subseteq Keys
           /\ RowsOk'
           /\ <<k, id[k] + 1>> \in Refs
PROOF
  <1>1. /\ status \in [Keys -> Statuses \cup {"none"}] /\ id \in [Keys -> 0..MaxRows]
        /\ trigger \in [Keys -> {"manual", "quota", "auto"}] /\ due \subseteq Keys
        /\ RowsOk
    BY DEF TypeInv, TypeOK
  <1>2. "pending" \in Statuses \cup {"none"} /\ "pending" \notin {"none", "expired"}
    BY DEF Statuses
  <1>3. id[k] + 1 \in 0..MaxRows
    BY <1>1, ApprovalAssumption
  <1>4. status' \in [Keys -> Statuses \cup {"none"}] /\ id' \in [Keys -> 0..MaxRows]
    BY <1>1, <1>2, <1>3 DEF NewRow
  <1>5. RowsOk'
    BY <1>1, <1>2 DEF NewRow, RowsOk
  <1> QED BY <1>1, <1>3, <1>4, <1>5 DEF NewRow, Refs


\* A job moves to a stage that fits, or ends.
LEMMA Moves ==
    ASSUME TypeInv, NEW w \in Workers
    PROVE  /\ \A at \in Stages : Go(w, at) /\ OpOk([op[w] EXCEPT !.at = at])
              => op' \in [Workers -> OpType] /\ OpsOk'
           /\ End(w) => op' \in [Workers -> OpType] /\ OpsOk'
           /\ op[w] \in OpType /\ OpOk(op[w])
PROOF
  <1>1. op \in [Workers -> OpType] /\ OpsOk
    BY DEF TypeInv, TypeOK
  <1>2. op[w] \in OpType /\ OpOk(op[w])
    BY <1>1 DEF OpsOk
  <1>3. ASSUME NEW at \in Stages, Go(w, at), OpOk([op[w] EXCEPT !.at = at])
        PROVE  op' \in [Workers -> OpType] /\ OpsOk'
    <2> DEFINE c == [op[w] EXCEPT !.at = at]
    <2>1. c \in OpType /\ OpOk(c)
      BY <1>2, <1>3 DEF OpType
    <2>2. op' = [op EXCEPT ![w] = c]
      BY <1>1, <1>3 DEF Go, OpType
    <2> HIDE DEF c
    <2> QED BY <1>1, <2>1, <2>2, OneJob
  <1>4. End(w) => op' \in [Workers -> OpType] /\ OpsOk'
    BY <1>1, NoOpOk, OneJob DEF End
  <1> QED BY <1>2, <1>3, <1>4

-----------------------------------------------------------------------------
\* The actions that leave the rows alone but for the job, grouped by what they do.

LEMMA StartType ==
    ASSUME TypeInv, NEW w \in Workers, Start(w) \/ \E k \in Keys : StartRoute(w, k)
    PROVE  TypeInv'
PROOF
  <1> USE DEF TypeInv, TypeOK
  <1>1. \A k \in Keys : Row(k) \in Refs
    BY DEF Row, Refs
  <1>2. \A K \in SUBSET Keys : Rows(K) \subseteq Refs
    BY <1>1 DEF Rows
  <1>3. ASSUME NEW kind \in Kinds, NEW at \in Stages, NEW todo \in SUBSET Refs,
               NEW cur \in Refs \cup {NoRow},
               StartJob(w, kind, at, todo, cur),
               \/ at = "next" /\ kind \in Approving \cup {"reject", "bulkReject"}
               \/ at \in Deleting /\ kind = "delete" /\ cur \in Refs /\ cur[2] < MaxRows
        PROVE  TypeInv'
    <2> DEFINE c == [NoOp EXCEPT !.kind = kind, !.at = at, !.todo = todo, !.cur = cur]
    <2>1. c \in OpType /\ OpOk(c)
      BY <1>3, ApprovalAssumption
      DEF NoOp, OpType, OpOk, Stages, Decided, Routing, Deleting, Approving, AllKinds
    <2>2. op' = [op EXCEPT ![w] = c]
      BY <1>3 DEF StartJob
    <2> HIDE DEF c
    <2>3. op' \in [Workers -> OpType] /\ OpsOk'
      BY <2>1, <2>2, OneJob
    <2>4. RowsOk'
      BY <1>3 DEF StartJob, RowsOk
    <2>5. jobs' \in 0..MaxJobs
      BY <1>3, ApprovalAssumption DEF StartJob
    <2> QED BY <1>3, <2>3, <2>4, <2>5 DEF StartJob
  <1>4. {"next", "unwatch", "drop"} \subseteq Stages /\ Deleting = {"unwatch", "drop"}
    BY DEF Stages, Deleting
  <1>5. CASE StartApprove(w)
    <2>1. PICK k \in Keys : StartJob(w, "approve", "next", {Row(k)}, NoRow)
      BY <1>5 DEF StartApprove
    <2>2. {Row(k)} \in SUBSET Refs /\ "approve" \in Kinds
      BY <1>1, <2>1 DEF StartJob
    <2> QED BY <1>3, <1>4, <2>1, <2>2 DEF Approving
  <1>6. CASE StartReject(w)
    <2>1. PICK k \in Keys : StartJob(w, "reject", "next", {Row(k)}, NoRow)
      BY <1>6 DEF StartReject
    <2>2. {Row(k)} \in SUBSET Refs /\ "reject" \in Kinds
      BY <1>1, <2>1 DEF StartJob
    <2> QED BY <1>3, <1>4, <2>1, <2>2 DEF Approving
  <1>7. ASSUME NEW kind \in {"bulkApprove", "bulkReject"}, StartBulk(w, kind)
        PROVE  TypeInv'
    BY <1>2, <1>3, <1>4, <1>7 DEF StartBulk, StartJob, Approving
  <1>8. CASE StartDelete(w)
    <2>1. PICK k \in Keys : /\ id[k] < MaxRows
                            /\ StartJob(w, "delete", IF status[k] = "pending" THEN "unwatch"
                                                     ELSE "drop", {}, Row(k))
      BY <1>8 DEF StartDelete
    <2>2. Row(k) \in Refs /\ Row(k)[2] < MaxRows
      BY <1>1, <2>1 DEF Row
    <2> QED BY <1>3, <1>4, <2>1, <2>2 DEF StartJob
  <1>9. CASE StartReeval(w)
    BY <1>2, <1>3, <1>4, <1>9 DEF StartReeval, StartJob, Approving
  <1>10. CASE StartMaintain(w)
    <2>1. (IF AutoApprove THEN Rows({k \in due : status[k] = "pending"}) ELSE {})
            \in SUBSET Refs
      BY <1>2
    <2> QED BY <1>3, <1>4, <1>10, <2>1 DEF StartMaintain, StartJob, Approving
  <1>11. ASSUME NEW k \in Keys, StartRoute(w, k) PROVE TypeInv'
    <2>1. PICK at \in {"decide", "reroute", "add", "consume"} :
            op' = [op EXCEPT ![w] = [NoOp EXCEPT !.kind = "route", !.cur = Row(k), !.at = at]]
      BY <1>11 DEF StartRoute
    <2> DEFINE c == [NoOp EXCEPT !.kind = "route", !.cur = Row(k), !.at = at]
    <2>2. c \in OpType /\ OpOk(c)
      BY <1>1 DEF NoOp, OpType, OpOk, Stages, Decided, Routing, Deleting, AllKinds
    <2> HIDE DEF c
    <2>3. op' \in [Workers -> OpType] /\ OpsOk'
      BY <2>1, <2>2, OneJob DEF c
    <2> QED BY <1>11, <2>3 DEF StartRoute, RowsOk
  <1> QED BY <1>5, <1>6, <1>7, <1>8, <1>9, <1>10, <1>11 DEF Start

\* Only the job changes.
LEMMA JobType ==
    ASSUME TypeInv, NEW w \in Workers,
           \/ NextItem(w) \/ EndOfList(w) \/ CheckQuota(w) \/ Reread(w) \/ ReadRelated(w)
           \/ Fulfilled(w) \/ Decide(w) \/ CreateReads(w)
    PROVE  TypeInv'
PROOF
  <1> USE DEF TypeInv, TypeOK
  <1>1. op[w] \in OpType /\ OpOk(op[w])
    BY Moves
  <1>2. ASSUME op' \in [Workers -> OpType], OpsOk',
               UNCHANGED <<status, id, trigger, due, watching, usage, routed, granted, lost,
                           jobs, crashes>>
        PROVE  TypeInv'
    BY <1>2 DEF RowsOk
  <1>3. ASSUME NEW c \in OpType, OpOk(c), op' = [op EXCEPT ![w] = c]
        PROVE  op' \in [Workers -> OpType] /\ OpsOk'
    BY <1>3, OneJob
  <1>4. CASE NextItem(w)
    <2> DEFINE to(r) == CASE op[w].kind \in {"reject", "bulkReject"} -> "deny"
                          [] op[w].kind = "reeval" -> "quota"
                          [] OTHER -> "mark"
    <2>1. PICK r \in op[w].todo : op' = [op EXCEPT ![w].todo = @ \ {r}, ![w].cur = r,
                                                   ![w].at = to(r)]
      BY <1>4 DEF NextItem
    <2> DEFINE c == [op[w] EXCEPT !.todo = @ \ {r}, !.cur = r, !.at = to(r)]
    <2>2. r \in Refs /\ to(r) \in {"deny", "quota", "mark"}
      BY <1>1 DEF OpType
    <2>3. /\ op[w].at = "next" /\ (to(r) # "deny" => op[w].kind \in Approving)
          /\ to(r) = "deny" => op[w].kind \in {"reject", "bulkReject"}
      BY <1>1, <1>4 DEF NextItem, OpOk
    <2> HIDE DEF to
    <2>4. c \in OpType /\ OpOk(c)
      BY <1>1, <2>2, <2>3 DEF OpType, OpOk, Stages, Decided, Routing, Deleting
    <2>5. op' = [op EXCEPT ![w] = c]
      BY <2>1
    <2> QED BY <1>2, <1>3, <1>4, <2>4, <2>5 DEF NextItem
  <1>5. CASE EndOfList(w)
    <2>1. Go(w, "expire") \/ End(w)
      BY <1>5 DEF EndOfList
    <2>2. OpOk([op[w] EXCEPT !.at = "expire"])
      BY <1>1, <1>5 DEF EndOfList, OpOk, OpType, Decided, Routing, Deleting
    <2> QED BY <1>2, <1>5, <2>1, <2>2, Moves DEF EndOfList, Stages
  <1>6. CASE CheckQuota(w)
    <2>1. Go(w, "next") \/ Go(w, "mark")
      BY <1>6 DEF CheckQuota
    <2>2. OpOk([op[w] EXCEPT !.at = "next"]) /\ OpOk([op[w] EXCEPT !.at = "mark"])
      BY <1>1, <1>6 DEF CheckQuota, OpOk, OpType, Decided, Routing, Deleting
    <2> QED BY <1>2, <1>6, <2>1, <2>2, Moves DEF CheckQuota, Stages
  <1>7. CASE Reread(w)
    <2>1. Go(w, "next") \/ Go(w, "add") \/ Go(w, "rollback")
      BY <1>7 DEF Reread
    <2>2. /\ OpOk([op[w] EXCEPT !.at = "next"]) /\ OpOk([op[w] EXCEPT !.at = "add"])
          /\ OpOk([op[w] EXCEPT !.at = "rollback"])
      BY <1>1, <1>7 DEF Reread, OpOk, OpType, Decided, Routing, Deleting
    <2> QED BY <1>2, <1>7, <2>1, <2>2, Moves DEF Reread, Stages
  <1>8. CASE ReadRelated(w)
    <2>1. OpOk([op[w] EXCEPT !.at = "next"])
      BY <1>1, <1>8 DEF ReadRelated, OpOk, OpType, Decided, Routing, Deleting
    <2> DEFINE c == [op[w] EXCEPT !.at = "fulfil", !.related = Related(w)]
    <2>2. Related(w) \subseteq Refs /\ \A r \in Related(w) : r[1][2] = op[w].cur[1][2]
      BY DEF Related, Rows, Row, Refs, Key
    <2>3. c \in OpType /\ OpOk(c)
      BY <1>1, <1>8, <2>2
      DEF ReadRelated, OpOk, OpType, Stages, Decided, Routing, Deleting
    <2>4. op' = [op EXCEPT ![w] = c] \/ Go(w, "next")
      BY <1>8 DEF ReadRelated
    <2> HIDE DEF c
    <2> QED BY <1>2, <1>3, <1>8, <2>1, <2>3, <2>4, Moves DEF ReadRelated, Stages
  <1>9. CASE Fulfilled(w)
    <2> DEFINE c == [op[w] EXCEPT !.at = "next", !.related = {}]
    <2>1. c \in OpType /\ OpOk(c)
      BY <1>1, <1>9 DEF Fulfilled, OpOk, OpType, Stages, Decided, Routing, Deleting
    <2>2. op' = [op EXCEPT ![w] = c]
      BY <1>9 DEF Fulfilled
    <2> HIDE DEF c
    <2> QED BY <1>2, <1>3, <1>9, <2>1, <2>2 DEF Fulfilled
  <1>10. CASE Decide(w)
    <2>1. Go(w, "create") \/ Go(w, "consume")
      BY <1>10 DEF Decide
    <2>2. OpOk([op[w] EXCEPT !.at = "create"]) /\ OpOk([op[w] EXCEPT !.at = "consume"])
      BY <1>1, <1>10 DEF Decide, OpOk, OpType, Decided, Routing, Deleting
    <2> QED BY <1>2, <1>10, <2>1, <2>2, Moves DEF Decide, Stages
  <1>11. CASE CreateReads(w)
    <2>1. ~AtomicCreate /\ op[w].at \in {"create", "createQuota"} /\ Key(w) \in Keys
      BY <1>1, <1>11 DEF CreateReads, OpOk, Routing, Refs, Key
    <2> DEFINE r == <<Key(w), IF status[Key(w)] = "expired" THEN id[Key(w)] ELSE 0>>
               c == [op[w] EXCEPT !.at = IF @ = "create" THEN "insert" ELSE "insertQuota",
                                  !.cur = r]
    <2>2. r \in Refs
      BY <2>1, ApprovalAssumption DEF Refs
    <2>3. End(w) \/ op' = [op EXCEPT ![w] = c]
      BY <1>11 DEF CreateReads
    <2> HIDE DEF r
    <2>4. c \in OpType /\ OpOk(c)
      BY <1>1, <2>1, <2>2 DEF OpOk, OpType, Stages, Decided, Routing, Deleting
    <2> HIDE DEF c
    <2> QED BY <1>2, <1>3, <1>11, <2>3, <2>4, Moves DEF CreateReads
  <1> QED BY <1>4, <1>5, <1>6, <1>7, <1>8, <1>9, <1>10, <1>11

\* Rows are updated, dropped, expired or cleaned up.
LEMMA RowType ==
    ASSUME TypeInv, NEW w \in Workers,
           \/ Deny(w) \/ Mark(w) \/ Fulfil(w) \/ Rollback(w) \/ Drop(w) \/ ExpireOld(w)
           \/ CleanUp(w) \/ MarkAuto(w)
    PROVE  TypeInv'
PROOF
  <1> USE DEF TypeInv, TypeOK
  <1>1. op[w] \in OpType /\ OpOk(op[w])
    BY Moves
  <1>2. Statuses = {"pending", "approved", "rejected", "expired", "auto_approved"}
    BY DEF Statuses
  <1>3. UNCHANGED <<status, id, due>> => RowsOk'
    BY DEF RowsOk
  <1>4. \A r \in Refs : r[1] \in Keys
    BY DEF Refs
  <1>5. CASE Deny(w)
    <2>1. OpOk([op[w] EXCEPT !.at = "next"]) /\ op[w].cur \in Refs
      BY <1>1, <1>5 DEF Deny, OpOk, OpType, Decided, Routing, Deleting
    <2>2. op' \in [Workers -> OpType] /\ OpsOk'
      BY <1>5, <2>1, Moves DEF Deny, Stages
    <2>3. status' \in [Keys -> Statuses \cup {"none"}] /\ RowsOk'
      BY <1>2, <1>5, <2>1, UpdateRow DEF Deny
    <2> QED BY <1>5, <2>2, <2>3 DEF Deny
  <1>6. CASE Mark(w)
    <2>1. /\ OpOk([op[w] EXCEPT !.at = "next"]) /\ OpOk([op[w] EXCEPT !.at = "reread"])
          /\ op[w].cur \in Refs
      BY <1>1, <1>6 DEF Mark, OpOk, OpType, Decided, Routing, Deleting
    <2>2. Go(w, "next") \/ Go(w, "reread")
      BY <1>6 DEF Mark
    <2>3. op' \in [Workers -> OpType] /\ OpsOk'
      BY <2>1, <2>2, Moves DEF Stages
    <2>4. status' \in [Keys -> Statuses \cup {"none"}] /\ RowsOk'
      BY <1>2, <1>3, <1>6, <2>1, UpdateRow DEF Mark
    <2>5. granted' \subseteq Keys
      BY <1>4, <1>6, <2>1 DEF Mark, Key
    <2>6. lost' \subseteq Refs
      BY <1>6 DEF Mark
    <2> QED BY <1>6, <2>3, <2>4, <2>5, <2>6 DEF Mark
  <1>7. CASE Fulfil(w)
    <2>1. PICK r \in op[w].related :
            /\ Update(r, "approved")
            /\ granted' = IF Live(r) THEN granted \cup {r[1]} ELSE granted
            /\ op' = [op EXCEPT ![w].related = @ \ {r}]
      BY <1>7 DEF Fulfil
    <2> DEFINE c == [op[w] EXCEPT !.related = @ \ {r}]
    <2>2. r \in Refs /\ c \in OpType /\ OpOk(c)
      BY <1>1 DEF OpOk, OpType
    <2>3. op' = [op EXCEPT ![w] = c]
      BY <2>1
    <2> HIDE DEF c
    <2>4. op' \in [Workers -> OpType] /\ OpsOk'
      BY <2>2, <2>3, OneJob
    <2>5. status' \in [Keys -> Statuses \cup {"none"}] /\ RowsOk'
      BY <1>2, <1>7, <2>1, <2>2, UpdateRow DEF Fulfil
    <2> QED BY <1>4, <1>7, <2>1, <2>2, <2>4, <2>5 DEF Fulfil
  <1>8. CASE Rollback(w)
    <2>1. OpOk([op[w] EXCEPT !.at = "next"]) /\ op[w].cur \in Refs
      BY <1>1, <1>8 DEF Rollback, OpOk, OpType, Decided, Routing, Deleting
    <2>2. op' \in [Workers -> OpType] /\ OpsOk'
      BY <1>8, <2>1, Moves DEF Rollback, Stages
    <2>3. status' \in [Keys -> Statuses \cup {"none"}] /\ RowsOk'
      BY <1>2, <1>3, <1>8, <2>1, UpdateRow DEF Rollback
    <2>4. lost' \subseteq Refs
      BY <1>8, <2>1 DEF Rollback
    <2> QED BY <1>8, <2>2, <2>3, <2>4 DEF Rollback
  <1>9. CASE Drop(w)
    <2>1. op[w].cur \in Refs /\ op[w].cur[2] < MaxRows
      BY <1>1, <1>9 DEF Drop, OpOk, Deleting
    <2>2. op' \in [Workers -> OpType] /\ OpsOk'
      BY <1>9, Moves DEF Drop
    <2>3. status' \in [Keys -> Statuses \cup {"none"}] /\ RowsOk'
      BY <1>2, <1>9, <2>1, UpdateRow DEF Drop
    <2> QED BY <1>9, <2>2, <2>3 DEF Drop
  <1>10. CASE ExpireOld(w)
    <2>1. OpOk([op[w] EXCEPT !.at = "clean"])
      BY <1>1, <1>10 DEF ExpireOld, OpOk, OpType, Decided, Routing, Deleting
    <2>2. op' \in [Workers -> OpType] /\ OpsOk'
      BY <1>10, <2>1, Moves DEF ExpireOld, Stages
    <2>3. status' \in [Keys -> Statuses \cup {"none"}] /\ RowsOk'
      BY <1>2, <1>10 DEF ExpireOld, RowsOk
    <2> QED BY <1>10, <2>2, <2>3 DEF ExpireOld
  <1>11. CASE CleanUp(w)
    <2>1. op' \in [Workers -> OpType] /\ OpsOk'
      BY <1>11, Moves DEF CleanUp
    <2>2. PICK K \in SUBSET {k \in Keys : status[k] = "expired"} :
            status' = [k \in Keys |-> IF k \in K THEN "none" ELSE status[k]]
      BY <1>11 DEF CleanUp
    <2>3. status' \in [Keys -> Statuses \cup {"none"}] /\ RowsOk'
      BY <1>11, <2>2 DEF CleanUp, RowsOk
    <2> QED BY <1>11, <2>1, <2>3 DEF CleanUp
  <1>12. CASE MarkAuto(w)
    <2>1. op[w].cur \in Refs
      BY <1>1, <1>12 DEF MarkAuto, OpOk, Routing
    <2>2. op' \in [Workers -> OpType] /\ OpsOk'
      BY <1>12, Moves DEF MarkAuto
    <2>3. status' \in [Keys -> Statuses \cup {"none"}] /\ RowsOk'
      BY <1>2, <1>3, <1>12, <2>1, UpdateRow DEF MarkAuto
    <2> QED BY <1>12, <2>2, <2>3 DEF MarkAuto
  <1> QED BY <1>5, <1>6, <1>7, <1>8, <1>9, <1>10, <1>11, <1>12

\* Rows are made.
LEMMA NewRowType ==
    ASSUME TypeInv, NEW w \in Workers, CreateAtOnce(w) \/ CreateInserts(w) \/ Record(w)
    PROVE  TypeInv'
PROOF
  <1> USE DEF TypeInv, TypeOK
  <1>1. op[w] \in OpType /\ OpOk(op[w])
    BY Moves
  <1>2. UNCHANGED <<status, id, due>> => RowsOk'
    BY DEF RowsOk
  <1>3. TriggerOf(w) \in {"manual", "quota", "auto"}
    BY DEF TriggerOf
  <1>4. ASSUME op[w].at \in {"create", "createQuota", "insert", "insertQuota", "record"}
        PROVE  Key(w) \in Keys /\ op[w].kind = "route"
    BY <1>1, <1>4 DEF OpOk, Routing, Key, Refs
  <1>5. ASSUME op[w].at \in {"create", "createQuota", "insert", "insertQuota"},
               CreateThrows(w)
        PROVE  op' \in [Workers -> OpType] /\ OpsOk'
    <2>1. OpOk([op[w] EXCEPT !.at = "add"]) /\ OpOk([op[w] EXCEPT !.at = "consume"])
      BY <1>1, <1>4, <1>5 DEF OpOk, OpType, Decided, Routing, Deleting
    <2>2. Go(w, "add") \/ Go(w, "consume") \/ End(w)
      BY <1>5 DEF CreateThrows
    <2> QED BY <2>1, <2>2, Moves DEF Stages
  <1>6. CASE CreateAtOnce(w)
    <2>1. ASSUME NewRow(Key(w), TriggerOf(w)), status[Key(w)] \in {"none", "expired"}, End(w)
          PROVE  TypeInv'
      <3>1. id[Key(w)] < MaxRows
        BY <1>4, <1>6, <2>1 DEF CreateAtOnce, RowsOk
      <3> QED BY <1>3, <1>4, <1>6, <2>1, <3>1, MakeRow, Moves DEF CreateAtOnce
    <2>2. ASSUME UNCHANGED <<status, id, trigger, due>>, End(w) \/ CreateThrows(w)
          PROVE  TypeInv'
      BY <1>2, <1>5, <1>6, <2>2, Moves DEF CreateAtOnce
    <2> QED BY <1>6, <2>1, <2>2 DEF CreateAtOnce
  <1>7. CASE CreateInserts(w)
    <2>1. ASSUME NewRow(Key(w), TriggerOf(w)), id[Key(w)] < MaxRows, End(w)
          PROVE  TypeInv'
      BY <1>3, <1>4, <1>7, <2>1, MakeRow, Moves DEF CreateInserts
    <2>2. ASSUME UNCHANGED <<status, id, trigger, due>>, CreateThrows(w)
          PROVE  TypeInv'
      BY <1>2, <1>5, <1>7, <2>2, Moves DEF CreateInserts
    <2> QED BY <1>7, <2>1, <2>2 DEF CreateInserts
  <1>8. CASE Record(w)
    <2> DEFINE c == [op[w] EXCEPT !.at = "markAuto", !.cur = <<Key(w), id[Key(w)] + 1>>]
    <2>1. ASSUME NewRow(Key(w), "auto"), status[Key(w)] = "none", op' = [op EXCEPT ![w] = c]
          PROVE  TypeInv'
      <3>1. id[Key(w)] < MaxRows /\ Key(w) \in Keys
        BY <1>4, <1>8, <2>1 DEF Record, RowsOk
      <3>2. <<Key(w), id[Key(w)] + 1>> \in Refs
        BY <2>1, <3>1, MakeRow
      <3>3. c \in OpType /\ OpOk(c)
        BY <1>1, <1>4, <1>8, <3>2
        DEF Record, OpOk, OpType, Stages, Decided, Routing, Deleting
      <3> HIDE DEF c
      <3>4. op' \in [Workers -> OpType] /\ OpsOk'
        BY <2>1, <3>3, OneJob
      <3> QED BY <1>8, <2>1, <3>1, <3>4, MakeRow DEF Record
    <2>2. ASSUME UNCHANGED <<status, id, trigger, due>>, End(w)
          PROVE  TypeInv'
      BY <1>2, <1>8, <2>2, Moves DEF Record
    <2>3. \/ NewRow(Key(w), "auto") /\ status[Key(w)] = "none" /\ op' = [op EXCEPT ![w] = c]
          \/ UNCHANGED <<status, id, trigger, due>> /\ End(w)
      BY <1>8 DEF Record
    <2> HIDE DEF c
    <2> QED BY <2>1, <2>2, <2>3 DEF c
  <1> QED BY <1>6, <1>7, <1>8

\* Watchlist, quota and instances change, or time passes.
LEMMA OtherType ==
    ASSUME TypeInv, NEW w \in Workers,
           \/ Add(w) \/ Charge(w) \/ Unwatch(w) \/ Reroute(w) \/ Consume(w)
    PROVE  TypeInv'
PROOF
  <1> USE DEF TypeInv, TypeOK
  <1>1. op[w] \in OpType /\ OpOk(op[w])
    BY Moves
  <1>2. UNCHANGED <<status, id, due>> => RowsOk'
    BY DEF RowsOk
  <1>3. ASSUME op[w].at \in {"add", "charge", "unwatch", "reroute", "consume"}
        PROVE  Key(w) \in Keys /\ Key(w)[1] \in Users /\ Key(w)[2] \in Contents
    BY <1>1, <1>3 DEF OpOk, Decided, Routing, Deleting, Key, Refs, Keys
  <1>4. CASE Add(w)
    <2>1. /\ op[w].kind = "route" => OpOk([op[w] EXCEPT !.at = "record"])
          /\ op[w].kind # "route" => /\ OpOk([op[w] EXCEPT !.at = "charge"])
                                     /\ OpOk([op[w] EXCEPT !.at = "rollback"])
      BY <1>1, <1>4 DEF Add, OpOk, OpType, Decided, Routing, Deleting
    <2>2. op' \in [Workers -> OpType] /\ OpsOk'
      BY <1>4, <2>1, Moves DEF Add, Stages
    <2>3. routed' \subseteq Contents
      BY <1>3, <1>4 DEF Add
    <2> QED BY <1>2, <1>4, <2>2, <2>3 DEF Add
  <1>5. CASE Charge(w)
    <2> DEFINE more == IF op[w].kind = "reeval" /\ Key(w)[1] \in Limited
                       THEN op[w].spent \cup {Key(w)} ELSE op[w].spent
               c == [op[w] EXCEPT !.at = "related", !.spent = more]
    <2>1. more \in SUBSET Keys
      BY <1>1, <1>3, <1>5 DEF Charge, OpType
    <2>2. Go(w, "rollback") \/ op' = [op EXCEPT ![w] = c]
      BY <1>5 DEF Charge
    <2> HIDE DEF more
    <2>3. c \in OpType /\ OpOk(c) /\ OpOk([op[w] EXCEPT !.at = "rollback"])
      BY <1>1, <1>5, <2>1 DEF Charge, OpOk, OpType, Stages, Decided, Routing, Deleting
    <2> HIDE DEF c
    <2>4. op' \in [Workers -> OpType] /\ OpsOk'
      BY <2>2, <2>3, Moves, OneJob DEF Stages
    <2>5. usage' \in [Users -> Nat]
      BY <1>5 DEF Charge
    <2> QED BY <1>2, <1>5, <2>4, <2>5 DEF Charge
  <1>6. CASE Unwatch(w)
    <2>1. OpOk([op[w] EXCEPT !.at = "drop"])
      BY <1>1, <1>6 DEF Unwatch, OpOk, OpType, Decided, Routing, Deleting
    <2> QED BY <1>2, <1>6, <2>1, Moves DEF Unwatch, Stages
  <1>7. CASE Reroute(w)
    <2>1. routed' \subseteq Contents
      BY <1>3, <1>7 DEF Reroute
    <2> QED BY <1>2, <1>7, <2>1, Moves DEF Reroute
  <1>8. CASE Consume(w)
    <2>1. OpOk([op[w] EXCEPT !.at = "add"]) /\ OpOk([op[w] EXCEPT !.at = "createQuota"])
      BY <1>1, <1>8 DEF Consume, OpOk, OpType, Decided, Routing, Deleting
    <2>2. op' \in [Workers -> OpType] /\ OpsOk'
      BY <1>8, <2>1, Moves DEF Consume, Stages
    <2>3. usage' \in [Users -> Nat]
      BY <1>8 DEF Consume
    <2> QED BY <1>2, <1>8, <2>2, <2>3 DEF Consume
  <1> QED BY <1>4, <1>5, <1>6, <1>7, <1>8

LEMMA ClockType ==
    ASSUME TypeInv, (\E k \in Keys : PassDue(k)) \/ NewPeriod \/ Crash
    PROVE  TypeInv'
PROOF
  <1> USE DEF TypeInv, TypeOK
  <1>1. ASSUME NEW k \in Keys, PassDue(k) PROVE TypeInv'
    BY <1>1 DEF PassDue, RowsOk, OpsOk
  <1>2. CASE NewPeriod
    BY <1>2, ApprovalAssumption DEF NewPeriod, RowsOk, OpsOk
  <1>3. CASE Crash
    <2>1. op' \in [Workers -> OpType] /\ OpsOk'
      BY <1>3, NoOpOk DEF Crash, OpsOk
    <2>2. crashes' \in 0..MaxCrashes
      BY <1>3, ApprovalAssumption DEF Crash
    <2>3. \A w \in Workers : Holding(w) => op[w].cur \in Refs
      BY DEF Holding, OpsOk, OpOk, Decided
    <2>4. lost' \subseteq Refs
      BY <1>3, <2>3 DEF Crash
    <2> QED BY <1>3, <2>1, <2>2, <2>4 DEF Crash, RowsOk
  <1> QED BY <1>1, <1>2, <1>3

LEMMA TypeStep == TypeInv /\ [Next]_vars => TypeInv'
PROOF
  <1> SUFFICES ASSUME TypeInv, [Next]_vars PROVE TypeInv'
    OBVIOUS
  <1>1. CASE UNCHANGED vars
    BY <1>1 DEF vars, TypeInv, TypeOK, OpsOk, RowsOk
  <1>2. ASSUME NEW w \in Workers, Work(w) PROVE TypeInv'
    BY <1>2, JobType, RowType, NewRowType, OtherType DEF Work
  <1> QED BY <1>1, <1>2, StartType, ClockType DEF Next

LEMMA TypeInvariance == Spec => []TypeInv
BY InitType, TypeStep, PTL DEF Spec

\* The rows, their ids and triggers, the quotas and the jobs keep their types;
\* no row is made beyond the ids the constants allow.
THEOREM ApprovalTypeCorrect == Spec => []TypeOK
PROOF
  <1>1. TypeInv => TypeOK
    BY DEF TypeInv
  <1> QED BY <1>1, TypeInvariance, PTL

-----------------------------------------------------------------------------
\* What was routed stays routed, and a job that has routed its content knows it.
After == {"charge", "related", "fulfil", "record", "markAuto"}
RoutedOk == \A w \in Workers : op[w].at \in After => op[w].cur[1][2] \in routed

LEMMA RoutedGrows == [Next]_vars => routed \subseteq routed'
PROOF
  <1> SUFFICES ASSUME [Next]_vars PROVE routed \subseteq routed'
    OBVIOUS
  <1>1. ASSUME NEW w \in Workers, Start(w) PROVE routed \subseteq routed'
    BY <1>1 DEF Start, StartApprove, StartReject, StartBulk, StartDelete, StartReeval,
                StartMaintain, StartJob
  <1>2. ASSUME NEW w \in Workers, NEW k \in Keys, StartRoute(w, k)
        PROVE  routed \subseteq routed'
    BY <1>2 DEF StartRoute
  <1>3. ASSUME NEW w \in Workers, Work(w) PROVE routed \subseteq routed'
    <2>1. CASE Add(w)
      BY <2>1 DEF Add
    <2>2. CASE Reroute(w)
      BY <2>2 DEF Reroute
    <2>3. CASE \/ NextItem(w) \/ EndOfList(w) \/ Deny(w) \/ CheckQuota(w) \/ Mark(w)
               \/ Reread(w) \/ Charge(w) \/ ReadRelated(w) \/ Fulfil(w) \/ Fulfilled(w)
               \/ Rollback(w) \/ Unwatch(w) \/ Drop(w) \/ ExpireOld(w) \/ CleanUp(w)
      BY <2>3 DEF NextItem, EndOfList, Deny, CheckQuota, Mark, Reread, Charge, ReadRelated,
                  Fulfil, Fulfilled, Rollback, Unwatch, Drop, ExpireOld, CleanUp
    <2>4. CASE \/ Decide(w) \/ Consume(w) \/ CreateAtOnce(w) \/ CreateReads(w)
               \/ CreateInserts(w) \/ Record(w) \/ MarkAuto(w)
      BY <2>4 DEF Decide, Consume, CreateAtOnce, CreateReads, CreateInserts, Record, MarkAuto
    <2> QED BY <1>3, <2>1, <2>2, <2>3, <2>4 DEF Work
  <1>4. ASSUME (\E k \in Keys : PassDue(k)) \/ NewPeriod \/ Crash \/ UNCHANGED vars
        PROVE  routed \subseteq routed'
    BY <1>4 DEF PassDue, NewPeriod, Crash, vars
  <1> QED BY <1>1, <1>2, <1>3, <1>4 DEF Next

\* One job changes.
LEMMA OneRouted ==
    ASSUME TypeInv, RoutedOk, routed \subseteq routed', NEW w \in Workers, NEW c,
           op' = [op EXCEPT ![w] = c], c.at \in After => c.cur[1][2] \in routed'
    PROVE  RoutedOk'
BY DEF TypeInv, TypeOK, RoutedOk

LEMMA GoRouted ==
    ASSUME TypeInv, RoutedOk, routed \subseteq routed', NEW w \in Workers
    PROVE  /\ \A at \in Stages : Go(w, at) =>
                ((at \in After => op[w].cur[1][2] \in routed') => RoutedOk')
           /\ End(w) => RoutedOk'
PROOF
  <1>1. op \in [Workers -> OpType] /\ op[w] \in OpType
    BY DEF TypeInv, TypeOK
  <1>2. ASSUME NEW at \in Stages, Go(w, at), at \in After => op[w].cur[1][2] \in routed'
        PROVE  RoutedOk'
    <2> DEFINE c == [op[w] EXCEPT !.at = at]
    <2>1. op' = [op EXCEPT ![w] = c]
      BY <1>1, <1>2 DEF Go
    <2>2. c.at = at /\ c.cur = op[w].cur
      BY <1>1 DEF OpType
    <2> HIDE DEF c
    <2> QED BY <1>2, <2>1, <2>2, OneRouted
  <1>3. End(w) => RoutedOk'
    BY OneRouted DEF End, NoOp, After
  <1> QED BY <1>2, <1>3

LEMMA RoutedStep == TypeInv /\ RoutedOk /\ [Next]_vars => RoutedOk'
PROOF
  <1> SUFFICES ASSUME TypeInv, RoutedOk, [Next]_vars PROVE RoutedOk'
    OBVIOUS
  <1>1. routed \subseteq routed'
    BY RoutedGrows
  <1>2. \A w \in Workers : op[w] \in OpType /\ op \in [Workers -> OpType]
    BY DEF TypeInv, TypeOK
  <1>3. CASE UNCHANGED vars
    BY <1>3 DEF vars, RoutedOk
  <1>4. ASSUME NEW w \in Workers, NEW kind, NEW at, NEW todo, NEW cur,
               StartJob(w, kind, at, todo, cur), at \notin After
        PROVE  RoutedOk'
    BY <1>1, <1>4, OneRouted DEF StartJob, NoOp
  <1>5. ASSUME NEW w \in Workers, Start(w) PROVE RoutedOk'
    BY <1>4, <1>5 DEF Start, StartApprove, StartReject, StartBulk, StartDelete,
                      StartReeval, StartMaintain, After
  <1>6. ASSUME NEW w \in Workers, NEW k \in Keys, StartRoute(w, k) PROVE RoutedOk'
    <2>1. PICK at \in {"decide", "reroute", "add", "consume"} :
            op' = [op EXCEPT ![w] = [NoOp EXCEPT !.kind = "route", !.cur = Row(k), !.at = at]]
      BY <1>6 DEF StartRoute
    <2> QED BY <1>1, <2>1, OneRouted DEF NoOp, After
  <1>7. ASSUME NEW w \in Workers, Work(w) PROVE RoutedOk'
    <2> USE DEF Stages, After
    <2>1. CASE NextItem(w)
      <3>1. PICK r \in op[w].todo, at \in {"deny", "quota", "mark"} :
              op' = [op EXCEPT ![w].todo = @ \ {r}, ![w].cur = r, ![w].at = at]
        BY <2>1 DEF NextItem
      <3> DEFINE c == [op[w] EXCEPT !.todo = @ \ {r}, !.cur = r, !.at = at]
      <3>2. op' = [op EXCEPT ![w] = c]
        BY <3>1
      <3>3. c.at = at
        BY <1>2 DEF OpType
      <3> HIDE DEF c
      <3> QED BY <1>1, <3>2, <3>3, OneRouted
    <2>2. CASE EndOfList(w)
      BY <1>1, <2>2, GoRouted DEF EndOfList
    <2>3. CASE Deny(w) \/ CheckQuota(w) \/ Rollback(w) \/ Unwatch(w) \/ ExpireOld(w)
      BY <1>1, <2>3, GoRouted DEF Deny, CheckQuota, Rollback, Unwatch, ExpireOld
    <2>4. CASE Mark(w) \/ Reread(w) \/ Decide(w) \/ Consume(w)
      BY <1>1, <2>4, GoRouted DEF Mark, Reread, Decide, Consume
    <2>5. CASE Add(w)
      BY <1>1, <2>5, GoRouted DEF Add, Key
    <2>6. CASE Charge(w)
      <3> DEFINE more == IF op[w].kind = "reeval" /\ Key(w)[1] \in Limited
                         THEN op[w].spent \cup {Key(w)} ELSE op[w].spent
                 c == [op[w] EXCEPT !.at = "related", !.spent = more]
      <3>1. Go(w, "rollback") \/ op' = [op EXCEPT ![w] = c]
        BY <2>6 DEF Charge
      <3>2. op[w].cur[1][2] \in routed
        BY <2>6 DEF Charge, RoutedOk
      <3>3. c.cur = op[w].cur
        BY <1>2 DEF OpType
      <3> HIDE DEF c
      <3> QED BY <1>1, <3>1, <3>2, <3>3, GoRouted, OneRouted
    <2>7. CASE ReadRelated(w)
      <3> DEFINE c == [op[w] EXCEPT !.at = "fulfil", !.related = Related(w)]
      <3>1. Go(w, "next") \/ op' = [op EXCEPT ![w] = c]
        BY <2>7 DEF ReadRelated
      <3>2. op[w].cur[1][2] \in routed
        BY <2>7 DEF ReadRelated, RoutedOk
      <3>3. c.cur = op[w].cur
        BY <1>2 DEF OpType
      <3> HIDE DEF c
      <3> QED BY <1>1, <3>1, <3>2, <3>3, GoRouted, OneRouted
    <2>8. CASE Fulfil(w)
      <3>1. PICK r \in op[w].related : op' = [op EXCEPT ![w].related = @ \ {r}]
        BY <2>8 DEF Fulfil
      <3> DEFINE c == [op[w] EXCEPT !.related = @ \ {r}]
      <3>2. op[w].cur[1][2] \in routed
        BY <2>8 DEF Fulfil, RoutedOk
      <3>3. c.cur = op[w].cur /\ op' = [op EXCEPT ![w] = c]
        BY <1>2, <3>1 DEF OpType
      <3> HIDE DEF c
      <3> QED BY <1>1, <3>2, <3>3, OneRouted
    <2>9. CASE Fulfilled(w)
      <3> DEFINE c == [op[w] EXCEPT !.at = "next", !.related = {}]
      <3>1. op' = [op EXCEPT ![w] = c]
        BY <2>9 DEF Fulfilled
      <3>2. c.at = "next"
        BY <1>2 DEF OpType
      <3> HIDE DEF c
      <3> QED BY <1>1, <3>1, <3>2, OneRouted
    <2>10. CASE Drop(w) \/ CleanUp(w) \/ Reroute(w) \/ MarkAuto(w)
      BY <1>1, <2>10, GoRouted DEF Drop, CleanUp, Reroute, MarkAuto
    <2>11. CASE CreateAtOnce(w) \/ CreateInserts(w)
      BY <1>1, <2>11, GoRouted DEF CreateAtOnce, CreateInserts, CreateThrows
    <2>12. CASE CreateReads(w)
      <3> DEFINE r == <<Key(w), IF status[Key(w)] = "expired" THEN id[Key(w)] ELSE 0>>
                 c == [op[w] EXCEPT !.at = IF @ = "create" THEN "insert" ELSE "insertQuota",
                                    !.cur = r]
      <3>1. End(w) \/ op' = [op EXCEPT ![w] = c]
        BY <2>12 DEF CreateReads
      <3>2. c.at \in {"insert", "insertQuota"}
        BY <1>2 DEF OpType
      <3> HIDE DEF c
      <3> QED BY <1>1, <3>1, <3>2, GoRouted, OneRouted
    <2>13. CASE Record(w)
      <3> DEFINE c == [op[w] EXCEPT !.at = "markAuto", !.cur = <<Key(w), id[Key(w)] + 1>>]
      <3>1. End(w) \/ op' = [op EXCEPT ![w] = c]
        BY <2>13 DEF Record
      <3>2. op[w].cur[1][2] \in routed
        BY <2>13 DEF Record, RoutedOk
      <3>3. c.cur[1] = op[w].cur[1]
        BY <1>2 DEF OpType, Key
      <3> HIDE DEF c
      <3> QED BY <1>1, <3>1, <3>2, <3>3, GoRouted, OneRouted
    <2> QED
      BY <1>7, <2>1, <2>2, <2>3, <2>4, <2>5, <2>6, <2>7, <2>8, <2>9, <2>10, <2>11, <2>12,
         <2>13 DEF Work
  <1>8. ASSUME (\E k \in Keys : PassDue(k)) \/ NewPeriod PROVE RoutedOk'
    BY <1>8 DEF PassDue, NewPeriod, RoutedOk
  <1>9. CASE Crash
    BY <1>9 DEF Crash, RoutedOk, NoOp, After
  <1> QED BY <1>3, <1>5, <1>6, <1>7, <1>8, <1>9 DEF Next

-----------------------------------------------------------------------------
\* What a step of w may do to the row of k.
RowEffect(w, k) ==
    \/ status'[k] = status[k] /\ id'[k] = id[k]
    \/ /\ status'[k] = "pending"
       /\ id'[k] # id[k] => status[k] \in {"none", "expired"} \/ ~AtomicCreate
    \/ status'[k] \in {"rejected", "expired"} /\ id'[k] = id[k]
    \/ /\ status'[k] = "approved" /\ id'[k] = id[k]
       /\ \/ Mark(w) /\ op[w].cur = Row(k) /\ Live(op[w].cur)
          \/ op[w].at = "fulfil" /\ Row(k) \in op[w].related
    \/ /\ status'[k] = "auto_approved" /\ id'[k] = id[k]
       /\ op[w].at = "markAuto" /\ op[w].cur = Row(k)
    \/ /\ status'[k] = "none" /\ id'[k] = id[k]
       /\ status[k] = "expired" \/ (op[w].at = "drop" /\ op[w].cur = Row(k))

LEMMA UpdateEffect ==
    ASSUME TypeInv, NEW r \in Refs, NEW s, Update(r, s), NEW k \in Keys
    PROVE  status'[k] = status[k] \/ (status'[k] = s /\ r = Row(k) /\ Live(r))
PROOF
  <1>1. status \in [Keys -> Statuses \cup {"none"}]
    BY DEF TypeInv, TypeOK
  <1>2. r = <<r[1], r[2]>>
    BY DEF Refs
  <1> QED BY <1>1, <1>2 DEF Update, Live, Row

LEMMA NewRowEffect ==
    ASSUME TypeInv, NEW h \in Keys, NEW t, NewRow(h, t), NEW k \in Keys
    PROVE  (status'[k] = status[k] /\ id'[k] = id[k]) \/ (status'[k] = "pending" /\ k = h)
BY DEF NewRow, TypeInv, TypeOK

LEMMA WorkEffect ==
    ASSUME TypeInv, NEW w \in Workers, Work(w), NEW k \in Keys
    PROVE  RowEffect(w, k)
PROOF
  <1>1. op[w] \in OpType /\ OpOk(op[w])
    BY Moves
  <1>2. CASE \/ NextItem(w) \/ EndOfList(w) \/ CheckQuota(w) \/ Reread(w) \/ Add(w)
             \/ Charge(w) \/ ReadRelated(w) \/ Fulfilled(w) \/ Unwatch(w) \/ Reroute(w)
             \/ Decide(w) \/ Consume(w) \/ CreateReads(w)
    BY <1>2 DEF RowEffect, NextItem, EndOfList, CheckQuota, Reread, Add, Charge,
                ReadRelated, Fulfilled, Unwatch, Reroute, Decide, Consume, CreateReads
  <1>3. ASSUME op[w].at \in {"deny", "mark", "rollback", "drop", "markAuto"}
        PROVE  op[w].cur \in Refs
    BY <1>1, <1>3 DEF OpOk, Decided, Routing, Deleting
  <1>4. CASE Deny(w) \/ Rollback(w)
    <2>1. \/ status' = status
          \/ Update(op[w].cur, "rejected") \/ Update(op[w].cur, "pending")
      BY <1>4 DEF Deny, Rollback
    <2> QED BY <1>3, <1>4, <2>1, UpdateEffect DEF RowEffect, Deny, Rollback
  <1>5. CASE Mark(w)
    BY <1>3, <1>5, UpdateEffect DEF RowEffect, Mark
  <1>6. CASE Fulfil(w)
    <2>1. PICK r \in op[w].related : Update(r, "approved")
      BY <1>6 DEF Fulfil
    <2>2. r \in Refs
      BY <1>1, <2>1 DEF OpType
    <2> QED BY <1>6, <2>1, <2>2, UpdateEffect DEF RowEffect, Fulfil
  <1>7. CASE Drop(w)
    BY <1>3, <1>7, UpdateEffect DEF RowEffect, Drop
  <1>8. CASE ExpireOld(w)
    BY <1>8 DEF RowEffect, ExpireOld
  <1>9. CASE CleanUp(w)
    <2>1. PICK K \in SUBSET {h \in Keys : status[h] = "expired"} :
            status' = [h \in Keys |-> IF h \in K THEN "none" ELSE status[h]]
      BY <1>9 DEF CleanUp
    <2> QED BY <1>9, <2>1 DEF RowEffect, CleanUp
  <1>10. CASE MarkAuto(w)
    BY <1>3, <1>10, UpdateEffect DEF RowEffect, MarkAuto
  <1>11. CASE CreateAtOnce(w) \/ CreateInserts(w) \/ Record(w)
    <2>1. Key(w) \in Keys
      BY <1>1, <1>11
      DEF CreateAtOnce, CreateInserts, Record, OpOk, Routing, Key, Refs
    <2>2. \/ UNCHANGED <<status, id>>
          \/ \E t : /\ NewRow(Key(w), t)
                    /\ status[Key(w)] \in {"none", "expired"} \/ ~AtomicCreate
      BY <1>1, <1>11 DEF CreateAtOnce, CreateInserts, Record, OpOk
    <2> QED BY <2>1, <2>2, NewRowEffect DEF RowEffect
  <1> QED BY <1>2, <1>4, <1>5, <1>6, <1>7, <1>8, <1>9, <1>10, <1>11 DEF Work

\* Starting a job, time and restarts change no row.
LEMMA OthersEffect ==
    ASSUME NEW w \in Workers,
           \/ Start(w) \/ \E k \in Keys : StartRoute(w, k) \/ PassDue(k)
           \/ NewPeriod \/ Crash \/ UNCHANGED vars
    PROVE  UNCHANGED <<status, id>>
BY DEF Start, StartApprove, StartReject, StartBulk, StartDelete, StartReeval,
       StartMaintain, StartJob, StartRoute, PassDue, NewPeriod, Crash, vars

LEMMA StepEffect ==
    ASSUME TypeInv, [Next]_vars
    PROVE  UNCHANGED <<status, id>> \/ \E w \in Workers : \A k \in Keys : RowEffect(w, k)
PROOF
  <1>1. ASSUME NEW w \in Workers,
               Start(w) \/ Work(w) \/ \E k \in Keys : StartRoute(w, k)
        PROVE  UNCHANGED <<status, id>> \/ \E v \in Workers : \A k \in Keys : RowEffect(v, k)
    BY <1>1, WorkEffect, OthersEffect
  <1>2. ASSUME (\E k \in Keys : PassDue(k)) \/ NewPeriod \/ Crash \/ UNCHANGED vars
        PROVE  UNCHANGED <<status, id>>
    BY <1>2 DEF PassDue, NewPeriod, Crash, vars
  <1> QED BY <1>1, <1>2 DEF Next

-----------------------------------------------------------------------------
LEMMA AutoStep ==
    TypeInv /\ RoutedOk /\ AutoApprovedIsRouted /\ [Next]_vars => AutoApprovedIsRouted'
PROOF
  <1> SUFFICES ASSUME TypeInv, RoutedOk, AutoApprovedIsRouted, [Next]_vars,
                      NEW k \in Keys, status'[k] = "auto_approved"
               PROVE  k[2] \in routed'
    BY DEF AutoApprovedIsRouted
  <1>1. status[k] = "auto_approved" => k[2] \in routed
    BY DEF AutoApprovedIsRouted
  <1>2. CASE UNCHANGED <<status, id>>
    BY <1>1, <1>2, RoutedGrows
  <1>3. ASSUME NEW w \in Workers, RowEffect(w, k) PROVE k[2] \in routed'
    <2>1. status[k] = "auto_approved" \/ (op[w].at = "markAuto" /\ op[w].cur = Row(k))
      BY <1>3 DEF RowEffect
    <2>2. op[w].at = "markAuto" => op[w].cur[1][2] \in routed
      BY DEF RoutedOk, After
    <2> QED BY <1>1, <2>1, <2>2, RoutedGrows DEF Row
  <1> QED BY <1>2, <1>3, StepEffect

\* Under every failure and restart and any number of jobs, the record of an
\* automatic approval is made for content that was routed.
THEOREM AutoRecordsTrue == Spec => []AutoApprovedIsRouted
PROOF
  <1>1. Init => RoutedOk /\ AutoApprovedIsRouted
    BY DEF Init, NoOp, RoutedOk, AutoApprovedIsRouted, After
  <1>2. TypeInv /\ RoutedOk /\ AutoApprovedIsRouted /\ [Next]_vars =>
          RoutedOk' /\ AutoApprovedIsRouted'
    BY RoutedStep, AutoStep
  <1> QED BY <1>1, <1>2, TypeInvariance, PTL DEF Spec

\* With serial transactions, a row that is not expired is replaced or removed
\* only by the deletion that an administrator asked for.
THEOREM DecisionsSurvive == AtomicCreate => (Spec => DecisionsKept)
PROOF
  <1> SUFFICES ASSUME AtomicCreate PROVE Spec => DecisionsKept
    OBVIOUS
  <1>1. TypeInv /\ [Next]_vars =>
          [\A k \in Keys :
             status[k] \in Statuses \ {"expired"} /\ (status'[k] = "none" \/ id'[k] # id[k])
             => \E w \in Workers : op[w].kind = "delete" /\ op[w].cur = Row(k)]_vars
    <2> SUFFICES ASSUME TypeInv, [Next]_vars, NEW k \in Keys,
                        status[k] \in Statuses \ {"expired"},
                        status'[k] = "none" \/ id'[k] # id[k]
                 PROVE  \E w \in Workers : op[w].kind = "delete" /\ op[w].cur = Row(k)
      OBVIOUS
    <2>1. "none" \notin Statuses
      BY DEF Statuses
    <2>2. PICK w \in Workers : RowEffect(w, k)
      BY <2>1, StepEffect
    <2>3. op[w].at = "drop" => op[w].kind = "delete"
      BY Moves DEF OpOk, Deleting
    <2> QED BY <2>1, <2>2, <2>3 DEF RowEffect
  <1> QED BY <1>1, TypeInvariance, PTL DEF Spec, DecisionsKept

-----------------------------------------------------------------------------
\* A request that is approved is routed, or its worker holds it, or its approval
\* was cut short.
Holds(w, k) == Holding(w) /\ op[w].cur = Row(k)
Settled(k) ==
    status[k] \in {"approved", "auto_approved"} =>
        k[2] \in routed \/ Row(k) \in lost \/ \E w \in Workers : Holds(w, k)

\* A step of w leaves the other jobs alone.
LEMMA OneWorker ==
    ASSUME TypeInv, NEW w \in Workers, NEW v \in Workers \ {w},
           Start(w) \/ Work(w) \/ \E k \in Keys : StartRoute(w, k)
    PROVE  op'[v] = op[v]
PROOF
  <1>1. op \in [Workers -> OpType]
    BY DEF TypeInv, TypeOK
  <1> USE <1>1
  <1>2. CASE Start(w)
    BY <1>2 DEF Start, StartApprove, StartReject, StartBulk, StartDelete, StartReeval,
                StartMaintain, StartJob
  <1>3. ASSUME NEW k \in Keys, StartRoute(w, k) PROVE op'[v] = op[v]
    BY <1>3 DEF StartRoute
  <1>4. \A at : Go(w, at) => op'[v] = op[v]
    BY DEF Go
  <1>5. End(w) => op'[v] = op[v]
    BY DEF End
  <1>6. CASE \/ NextItem(w) \/ Charge(w) \/ ReadRelated(w) \/ Fulfil(w) \/ Fulfilled(w)
             \/ CreateReads(w) \/ Record(w)
    BY <1>4, <1>5, <1>6 DEF NextItem, Charge, ReadRelated, Fulfil, Fulfilled, CreateReads,
                            Record
  <1>7. CASE \/ EndOfList(w) \/ Deny(w) \/ CheckQuota(w) \/ Mark(w) \/ Reread(w) \/ Add(w)
             \/ Rollback(w) \/ Unwatch(w) \/ Drop(w) \/ ExpireOld(w) \/ CleanUp(w)
    BY <1>4, <1>5, <1>7 DEF EndOfList, Deny, CheckQuota, Mark, Reread, Add, Rollback,
                            Unwatch, Drop, ExpireOld, CleanUp
  <1>8. CASE \/ Reroute(w) \/ Decide(w) \/ Consume(w) \/ CreateAtOnce(w)
             \/ CreateInserts(w) \/ MarkAuto(w)
    BY <1>4, <1>5, <1>8 DEF Reroute, Decide, Consume, CreateAtOnce, CreateInserts,
                            CreateThrows, MarkAuto
  <1> QED BY <1>2, <1>3, <1>6, <1>7, <1>8 DEF Work

\* Only a new approval of a request clears the mark that one was cut short.
LEMMA LostStays ==
    ASSUME NEW w \in Workers, NEW r,
           Start(w) \/ Work(w) \/ \E k \in Keys : StartRoute(w, k)
    PROVE  r \in lost => r \in lost' \/ (Mark(w) /\ op[w].cur = r)
PROOF
  <1>1. CASE Start(w) \/ \E k \in Keys : StartRoute(w, k)
    BY <1>1 DEF Start, StartApprove, StartReject, StartBulk, StartDelete, StartReeval,
                StartMaintain, StartJob, StartRoute
  <1>2. CASE Mark(w)
    BY <1>2 DEF Mark
  <1>3. CASE Rollback(w)
    BY <1>3 DEF Rollback
  <1>4. CASE \/ NextItem(w) \/ EndOfList(w) \/ Deny(w) \/ CheckQuota(w) \/ Reread(w)
             \/ Add(w) \/ Charge(w) \/ ReadRelated(w) \/ Fulfil(w) \/ Fulfilled(w)
             \/ Unwatch(w) \/ Drop(w) \/ ExpireOld(w) \/ CleanUp(w)
    BY <1>4 DEF NextItem, EndOfList, Deny, CheckQuota, Reread, Add, Charge, ReadRelated,
                Fulfil, Fulfilled, Unwatch, Drop, ExpireOld, CleanUp
  <1>5. CASE \/ Reroute(w) \/ Decide(w) \/ Consume(w) \/ CreateAtOnce(w)
             \/ CreateReads(w) \/ CreateInserts(w) \/ Record(w) \/ MarkAuto(w)
    BY <1>5 DEF Reroute, Decide, Consume, CreateAtOnce, CreateReads, CreateInserts,
                Record, MarkAuto
  <1> QED BY <1>1, <1>2, <1>3, <1>4, <1>5 DEF Work

\* A step that neither approves the request of k nor lets it go.
LEMMA Bystander ==
    ASSUME TypeInv, NEW k \in Keys, NEW w \in Workers, Settled(k), routed \subseteq routed',
           \A v \in Workers \ {w} : op'[v] = op[v],
           Holds(w, k) => Holds(w, k)',
           Row(k) \in lost => Row(k) \in lost' \/ Holds(w, k)',
           UNCHANGED <<status[k], id[k]>>
    PROVE  Settled(k)'
PROOF
  <1> SUFFICES ASSUME status'[k] \in {"approved", "auto_approved"}, k[2] \notin routed',
                      Row(k) \notin lost'
               PROVE  \E v \in Workers : Holds(v, k)'
    BY DEF Settled, Row
  <1>1. CASE Row(k) \in lost
    BY <1>1 DEF Row
  <1>2. ASSUME NEW v \in Workers, Holds(v, k) PROVE Holds(v, k)'
    BY <1>2 DEF Holds, Holding, Row
  <1> QED BY <1>1, <1>2 DEF Settled

\* A worker that holds an approved request keeps it, routes it or undoes it, or
\* fails to undo it.
LEMMA HolderSettles ==
    ASSUME TypeInv, NEW k \in Keys, NEW w \in Workers, Work(w), Holds(w, k),
           status[k] \in {"approved", "auto_approved"}
    PROVE  Holds(w, k)' \/ k[2] \in routed' \/ Row(k) \in lost' \/ status'[k] = "pending"
PROOF
  <1>1. /\ op \in [Workers -> OpType] /\ op[w] \in OpType
        /\ status \in [Keys -> Statuses \cup {"none"}]
    BY DEF TypeInv, TypeOK
  <1>2. /\ op[w].cur = Row(k) /\ op[w].kind \in Approving
        /\ op[w].at \in {"reread", "add", "rollback"}
    BY DEF Holds, Holding
  <1>3. Key(w) = k /\ Live(op[w].cur) /\ op[w].cur[1] = k
    BY <1>2 DEF Key, Row, Live
  <1>4. op[w].kind # "route"
    BY <1>2 DEF Approving
  <1>5. ASSUME NEW at \in {"reread", "add", "rollback"}, Go(w, at), UNCHANGED id
        PROVE  Holds(w, k)'
    <2>1. op'[w].at = at /\ op'[w].cur = op[w].cur /\ op'[w].kind = op[w].kind
      BY <1>1, <1>5 DEF Go, OpType
    <2> QED BY <1>2, <1>5, <2>1 DEF Holds, Holding, Row
  <1>6. CASE Reread(w)
    BY <1>3, <1>5, <1>6 DEF Reread
  <1>7. CASE Add(w)
    BY <1>3, <1>4, <1>5, <1>7 DEF Add
  <1>8. CASE Rollback(w)
    BY <1>1, <1>2, <1>3, <1>8 DEF Rollback, Update
  <1> QED
    BY <1>2, <1>6, <1>7, <1>8
    DEF Work, NextItem, EndOfList, Deny, CheckQuota, Mark, Charge, ReadRelated,
        Fulfil, Fulfilled, Unwatch, Drop, ExpireOld, CleanUp, Reroute, Decide, Consume,
        CreateAtOnce, CreateReads, CreateInserts, Record, MarkAuto

\* An approval puts the request into the hands of its worker.
LEMMA MarkHolds ==
    ASSUME TypeInv, NEW k \in Keys, NEW w \in Workers, Mark(w), op[w].cur = Row(k),
           Live(op[w].cur)
    PROVE  Holds(w, k)' \/ UNCHANGED <<status, lost>>
PROOF
  <1>1. CASE Go(w, "reread")
    <2>1. op \in [Workers -> OpType] /\ op[w] \in OpType /\ op[w].kind \in Approving
      BY Moves DEF TypeInv, TypeOK, OpOk, Mark, Decided
    <2>2. op'[w].at = "reread" /\ op'[w].cur = op[w].cur /\ op'[w].kind = op[w].kind
      BY <1>1, <2>1 DEF Go, OpType
    <2>3. UNCHANGED id
      BY DEF Mark
    <2> QED BY <2>1, <2>2, <2>3 DEF Holds, Holding, Row
  <1> QED BY <1>1 DEF Mark

LEMMA SettledStep ==
    TypeInv /\ RoutedOk /\ ApprovedIsRouted /\ [Next]_vars => ApprovedIsRouted'
PROOF
  <1> SUFFICES ASSUME TypeInv, RoutedOk, ApprovedIsRouted, [Next]_vars, NEW k \in Keys
               PROVE  Settled(k)'
    BY DEF ApprovedIsRouted, Settled, Holds
  <1>1. Settled(k)
    BY DEF ApprovedIsRouted, Settled, Holds
  <1>2. routed \subseteq routed'
    BY RoutedGrows
  <1>3. ASSUME NEW w \in Workers, Start(w) \/ \E h \in Keys : StartRoute(w, h)
        PROVE  Settled(k)'
    <2>1. op[w].kind = "none" /\ UNCHANGED lost
      BY <1>3 DEF Start, StartApprove, StartReject, StartBulk, StartDelete, StartReeval,
                  StartMaintain, StartJob, StartRoute, Free
    <2>2. ~Holds(w, k)
      BY <2>1 DEF Holds, Holding, Approving
    <2>3. \A v \in Workers \ {w} : op'[v] = op[v]
      BY <1>3, OneWorker
    <2>4. UNCHANGED <<status, id>>
      BY <1>3, OthersEffect
    <2> QED BY <1>1, <1>2, <2>1, <2>2, <2>3, <2>4, Bystander
  <1>4. ASSUME NEW w \in Workers, Work(w) PROVE Settled(k)'
    <2>1. \A v \in Workers \ {w} : op'[v] = op[v]
      BY <1>4, OneWorker
    <2>2. RowEffect(w, k)
      BY <1>4, WorkEffect
    <2>3. CASE status'[k] = status[k] /\ id'[k] = id[k]
      <3>1. CASE status[k] \in {"approved", "auto_approved"} /\ Holds(w, k)
        <4>1. Holds(w, k)' \/ k[2] \in routed' \/ Row(k) \in lost'
          BY <1>4, <2>3, <3>1, HolderSettles
        <4> QED BY <2>3, <4>1 DEF Settled, Row
      <3>2. CASE status[k] \notin {"approved", "auto_approved"}
        BY <2>3, <3>2 DEF Settled
      <3>3. CASE ~Holds(w, k) /\ status[k] \in {"approved", "auto_approved"}
        <4>1. Row(k) \in lost => Row(k) \in lost' \/ Holds(w, k)'
          <5>1. Row(k) \in lost => Row(k) \in lost' \/ (Mark(w) /\ op[w].cur = Row(k))
            BY <1>4, LostStays
          <5>2. Live(Row(k))
            BY <3>3 DEF Live, Row
          <5>3. CASE Mark(w) /\ op[w].cur = Row(k)
            BY <5>2, <5>3, MarkHolds
          <5> QED BY <5>1, <5>3
        <4> QED BY <1>1, <1>2, <2>1, <2>3, <3>3, <4>1, Bystander
      <3> QED BY <3>1, <3>2, <3>3
    <2>4. CASE status'[k] \in {"pending", "rejected", "expired", "none"}
      BY <2>4 DEF Settled
    <2>5. CASE Mark(w) /\ op[w].cur = Row(k) /\ Live(op[w].cur) /\ id'[k] = id[k]
      <3>1. CASE status'[k] = status[k]
        BY <2>3, <2>5, <3>1
      <3>2. CASE status'[k] # status[k]
        BY <2>5, <3>2, MarkHolds DEF Settled
      <3> QED BY <3>1, <3>2
    <2>6. CASE op[w].at = "fulfil" /\ Row(k) \in op[w].related
      <3>1. Row(k)[1][2] = op[w].cur[1][2]
        BY <2>6, Moves DEF OpOk
      <3>2. k[2] \in routed
        BY <2>6, <3>1 DEF RoutedOk, After, Row
      <3> QED BY <1>2, <3>2 DEF Settled
    <2>7. CASE op[w].at = "markAuto" /\ op[w].cur = Row(k)
      <3>1. k[2] \in routed
        BY <2>7 DEF RoutedOk, After, Row
      <3> QED BY <1>2, <3>1 DEF Settled
    <2> QED BY <2>2, <2>3, <2>4, <2>5, <2>6, <2>7 DEF RowEffect
  <1>5. CASE (\E h \in Keys : PassDue(h)) \/ NewPeriod \/ UNCHANGED vars
    BY <1>1, <1>5 DEF PassDue, NewPeriod, vars, Settled, Holds, Holding, Row
  <1>6. CASE Crash
    <2>1. UNCHANGED <<status, id, routed>> /\ lost \subseteq lost'
      BY <1>6 DEF Crash
    <2>2. \A w \in Workers : Holds(w, k) => Row(k) \in lost'
      BY <1>6 DEF Crash, Holds
    <2> QED BY <1>1, <2>1, <2>2 DEF Settled, Row
  <1> QED BY <1>3, <1>4, <1>5, <1>6 DEF Next

\* No order of approvals, rejections, deletions, failed routings and their
\* rollbacks leaves an approved request that is neither routed nor held by the
\* worker that is to route it or undo it, unless a restart or a failing query
\* cut that approval short.
THEOREM ApprovedOnesRouted == Spec => []ApprovedIsRouted
PROOF
  <1>1. Init => RoutedOk /\ ApprovedIsRouted
    BY DEF Init, NoOp, RoutedOk, ApprovedIsRouted, After
  <1>2. TypeInv /\ RoutedOk /\ ApprovedIsRouted /\ [Next]_vars =>
          RoutedOk' /\ ApprovedIsRouted'
    BY RoutedStep, SettledStep
  <1> QED BY <1>1, <1>2, TypeInvariance, PTL DEF Spec

=============================================================================
