---------------------- MODULE ApprovalPromises_proofs ----------------------
(***************************************************************************)
(* What the approval system promises under conditions the proofs name:     *)
(* nothing restricted is routed without an approval, the quota holds, and  *)
(* the requests move as RequestLifecycle allows.                           *)
(***************************************************************************)
EXTENDS ApprovalRequests_proofs, FiniteSetTheorems

\* A job is of a kind that may be started.
KindsOk == \A w \in Workers : op[w].kind \in Kinds \cup {"none"}

\* The job of a worker after its step, as a record of its own.
LEMMA GoTo ==
    ASSUME TypeInv, NEW w \in Workers
    PROVE  /\ \A at : Go(w, at) => op'[w] = [op[w] EXCEPT !.at = at]
           /\ End(w) => op'[w] = NoOp
BY DEF TypeInv, TypeOK, Go, End

LEMMA NextJob ==
    ASSUME TypeInv, NEW w \in Workers, NextItem(w)
    PROVE  \E r \in op[w].todo, at \in {"deny", "quota", "mark"} :
             /\ op'[w] = [op[w] EXCEPT !.todo = @ \ {r}, !.cur = r, !.at = at]
             /\ at = "deny" <=> op[w].kind \in {"reject", "bulkReject"}
             /\ at = "quota" <=> op[w].kind = "reeval"
PROOF
  <1> DEFINE to == CASE op[w].kind \in {"reject", "bulkReject"} -> "deny"
                     [] op[w].kind = "reeval" -> "quota"
                     [] OTHER -> "mark"
  <1>1. PICK r \in op[w].todo : op' = [op EXCEPT ![w].todo = @ \ {r}, ![w].cur = r, ![w].at = to]
    BY DEF NextItem
  <1>2. /\ to \in {"deny", "quota", "mark"}
        /\ to = "deny" <=> op[w].kind \in {"reject", "bulkReject"}
        /\ to = "quota" <=> op[w].kind = "reeval"
    OBVIOUS
  <1> HIDE DEF to
  <1> DEFINE c == [op[w] EXCEPT !.todo = @ \ {r}, !.cur = r, !.at = to]
  <1>3. op' = [op EXCEPT ![w] = c]
    BY <1>1
  <1>4. op'[w] = c
    BY <1>3 DEF TypeInv, TypeOK
  <1> QED BY <1>2, <1>4

LEMMA ChargeJob ==
    ASSUME TypeInv, NEW w \in Workers, Charge(w)
    PROVE  \/ op'[w] = [op[w] EXCEPT !.at = "rollback"]
           \/ op'[w] = [op[w] EXCEPT !.at = "related",
                                     !.spent = IF op[w].kind = "reeval" /\ Key(w)[1] \in Limited
                                               THEN @ \cup {Key(w)} ELSE @]
PROOF
  <1> DEFINE more == IF op[w].kind = "reeval" /\ Key(w)[1] \in Limited
                     THEN op[w].spent \cup {Key(w)} ELSE op[w].spent
             c == [op[w] EXCEPT !.at = "related", !.spent = more]
  <1>1. Go(w, "rollback") \/ op' = [op EXCEPT ![w] = c]
    BY DEF Charge
  <1> HIDE DEF c
  <1>2. op' = [op EXCEPT ![w] = c] => op'[w] = c
    BY DEF TypeInv, TypeOK
  <1> QED BY <1>1, <1>2, GoTo DEF c

LEMMA RelatedJob ==
    ASSUME TypeInv, NEW w \in Workers
    PROVE  /\ ReadRelated(w) =>
                \/ op'[w] = [op[w] EXCEPT !.at = "fulfil", !.related = Related(w)]
                \/ op'[w] = [op[w] EXCEPT !.at = "next"]
           /\ Fulfil(w) =>
                \E r \in op[w].related :
                   /\ Update(r, "approved")
                   /\ granted' = IF Live(r) THEN granted \cup {r[1]} ELSE granted
                   /\ op'[w] = [op[w] EXCEPT !.related = @ \ {r}]
           /\ Fulfilled(w) => op'[w] = [op[w] EXCEPT !.at = "next", !.related = {}]
PROOF
  <1>1. op \in [Workers -> OpType]
    BY DEF TypeInv, TypeOK
  <1>2. ASSUME NEW c, op' = [op EXCEPT ![w] = c] PROVE op'[w] = c
    BY <1>1, <1>2
  <1>3. ASSUME ReadRelated(w)
        PROVE  \/ op'[w] = [op[w] EXCEPT !.at = "fulfil", !.related = Related(w)]
               \/ op'[w] = [op[w] EXCEPT !.at = "next"]
    <2> DEFINE c == [op[w] EXCEPT !.at = "fulfil", !.related = Related(w)]
    <2>1. op' = [op EXCEPT ![w] = c] \/ Go(w, "next")
      BY <1>3 DEF ReadRelated
    <2> HIDE DEF c
    <2>2. op'[w] = c \/ op'[w] = [op[w] EXCEPT !.at = "next"]
      BY <1>2, <2>1, GoTo
    <2> QED BY <2>2 DEF c
  <1>4. ASSUME Fulfil(w)
        PROVE  \E r \in op[w].related :
                  /\ Update(r, "approved")
                  /\ granted' = IF Live(r) THEN granted \cup {r[1]} ELSE granted
                  /\ op'[w] = [op[w] EXCEPT !.related = @ \ {r}]
    <2>1. PICK r \in op[w].related :
            /\ Update(r, "approved")
            /\ granted' = IF Live(r) THEN granted \cup {r[1]} ELSE granted
            /\ op' = [op EXCEPT ![w].related = @ \ {r}]
      BY <1>4 DEF Fulfil
    <2> DEFINE c == [op[w] EXCEPT !.related = @ \ {r}]
    <2>2. op' = [op EXCEPT ![w] = c]
      BY <2>1
    <2> HIDE DEF c
    <2>3. op'[w] = c
      BY <1>2, <2>2
    <2> QED BY <2>1, <2>3 DEF c
  <1>5. ASSUME Fulfilled(w)
        PROVE  op'[w] = [op[w] EXCEPT !.at = "next", !.related = {}]
    <2> DEFINE c == [op[w] EXCEPT !.at = "next", !.related = {}]
    <2>1. op' = [op EXCEPT ![w] = c]
      BY <1>5 DEF Fulfilled
    <2> HIDE DEF c
    <2>2. op'[w] = c
      BY <1>2, <2>1
    <2> QED BY <2>2 DEF c
  <1> QED BY <1>3, <1>4, <1>5

LEMMA CreateJob ==
    ASSUME TypeInv, NEW w \in Workers, CreateReads(w)
    PROVE  \/ op'[w] = NoOp
           \/ /\ status[Key(w)] # "pending"
              /\ \E at \in {"insert", "insertQuota"} :
                   op'[w] = [op[w] EXCEPT
                       !.at = at,
                       !.cur = <<Key(w), IF status[Key(w)] = "expired" THEN id[Key(w)] ELSE 0>>]
PROOF
  <1> DEFINE at == IF op[w].at = "create" THEN "insert" ELSE "insertQuota"
             r == <<Key(w), IF status[Key(w)] = "expired" THEN id[Key(w)] ELSE 0>>
             c == [op[w] EXCEPT !.at = at, !.cur = r]
  <1>1. End(w) \/ (status[Key(w)] # "pending" /\ op' = [op EXCEPT ![w] = c])
    BY DEF CreateReads
  <1>2. at \in {"insert", "insertQuota"}
    OBVIOUS
  <1> HIDE DEF c
  <1>3. op' = [op EXCEPT ![w] = c] => op'[w] = c
    BY DEF TypeInv, TypeOK
  <1> HIDE DEF at
  <1> QED BY <1>1, <1>2, <1>3, GoTo DEF c

LEMMA RecordJob ==
    ASSUME TypeInv, NEW w \in Workers, Record(w)
    PROVE  \/ op'[w] = NoOp /\ UNCHANGED <<status, id>>
           \/ /\ status[Key(w)] = "none" /\ NewRow(Key(w), "auto")
              /\ op'[w] = [op[w] EXCEPT !.at = "markAuto", !.cur = <<Key(w), id[Key(w)] + 1>>]
PROOF
  <1> DEFINE c == [op[w] EXCEPT !.at = "markAuto", !.cur = <<Key(w), id[Key(w)] + 1>>]
  <1>1. \/ status[Key(w)] = "none" /\ NewRow(Key(w), "auto") /\ op' = [op EXCEPT ![w] = c]
        \/ End(w) /\ UNCHANGED <<status, id>>
    BY DEF Record
  <1> HIDE DEF c
  <1>2. op' = [op EXCEPT ![w] = c] => op'[w] = c
    BY DEF TypeInv, TypeOK
  <1> QED BY <1>1, <1>2, GoTo DEF c

LEMMA WorkKind ==
    ASSUME TypeInv, NEW w \in Workers, Work(w)
    PROVE  op'[w].kind \in {op[w].kind, "none"}
PROOF
  <1>1. op[w] \in OpType
    BY DEF TypeInv, TypeOK
  <1>2. \A at : Go(w, at) => op'[w].kind = op[w].kind
    BY <1>1, GoTo DEF OpType
  <1>3. End(w) => op'[w].kind = "none"
    BY GoTo DEF NoOp
  <1>4. CASE NextItem(w)
    BY <1>1, <1>4, NextJob DEF OpType
  <1>5. CASE Charge(w)
    BY <1>1, <1>5, ChargeJob DEF OpType
  <1>6. CASE ReadRelated(w) \/ Fulfil(w) \/ Fulfilled(w)
    BY <1>1, <1>6, RelatedJob DEF OpType
  <1>7. CASE CreateReads(w)
    <2>2. NoOp.kind = "none"
      BY DEF NoOp
    <2>3. op'[w] = NoOp \/ \E at, r : op'[w] = [op[w] EXCEPT !.at = at, !.cur = r]
      BY <1>7, CreateJob
    <2>4. ASSUME NEW at, NEW r, op'[w] = [op[w] EXCEPT !.at = at, !.cur = r]
          PROVE  op'[w].kind = op[w].kind
      BY <1>1, <2>4 DEF OpType
    <2> QED BY <2>2, <2>3, <2>4
  <1>8. CASE Record(w)
    <2>1. \A r : [op[w] EXCEPT !.at = "markAuto", !.cur = r].kind = op[w].kind
      BY <1>1 DEF OpType
    <2>2. NoOp.kind = "none"
      BY DEF NoOp
    <2>3. op'[w] = NoOp \/ \E r : op'[w] = [op[w] EXCEPT !.at = "markAuto", !.cur = r]
      BY <1>8, RecordJob
    <2> QED BY <2>1, <2>2, <2>3
  <1>9. CASE \/ EndOfList(w) \/ Deny(w) \/ CheckQuota(w) \/ Mark(w) \/ Reread(w) \/ Add(w)
             \/ Rollback(w) \/ Unwatch(w) \/ Drop(w) \/ ExpireOld(w) \/ CleanUp(w)
    BY <1>2, <1>3, <1>9 DEF EndOfList, Deny, CheckQuota, Mark, Reread, Add, Rollback,
                            Unwatch, Drop, ExpireOld, CleanUp
  <1>10. CASE \/ Reroute(w) \/ Decide(w) \/ Consume(w) \/ CreateAtOnce(w)
              \/ CreateInserts(w) \/ MarkAuto(w)
    BY <1>2, <1>3, <1>10 DEF Reroute, Decide, Consume, CreateAtOnce, CreateInserts,
                             CreateThrows, MarkAuto
  <1> QED BY <1>4, <1>5, <1>6, <1>7, <1>8, <1>9, <1>10 DEF Work

\* A started job is of its kind and waits at the head of its list, or to delete.
LEMMA StartedJob ==
    ASSUME TypeInv, NEW w \in Workers, Start(w)
    PROVE  /\ op'[w].kind \in Kinds
           /\ op'[w].at \in {"next", "unwatch", "drop"}
           /\ op'[w].spent = {}
PROOF
  <1>1. op \in [Workers -> OpType]
    BY DEF TypeInv, TypeOK
  <1>2. ASSUME NEW kind, NEW at, NEW todo, NEW cur, StartJob(w, kind, at, todo, cur)
        PROVE  op'[w].kind \in Kinds /\ op'[w].at = at /\ op'[w].spent = {}
    BY <1>1, <1>2 DEF StartJob, NoOp
  <1> QED BY <1>2 DEF Start, StartApprove, StartReject, StartBulk, StartDelete, StartReeval,
                      StartMaintain

LEMMA StartedRoute ==
    ASSUME TypeInv, NEW w \in Workers, NEW k \in Keys, StartRoute(w, k)
    PROVE  /\ "route" \in Kinds
           /\ \E at \in {"decide", "reroute", "add", "consume"} :
                op'[w] = [NoOp EXCEPT !.kind = "route", !.cur = Row(k), !.at = at]
PROOF
  <1>1. op \in [Workers -> OpType]
    BY DEF TypeInv, TypeOK
  <1>2. PICK at \in {"decide", "reroute", "add", "consume"} :
          op' = [op EXCEPT ![w] = [NoOp EXCEPT !.kind = "route", !.cur = Row(k), !.at = at]]
    BY DEF StartRoute
  <1> QED BY <1>1, <1>2 DEF StartRoute

LEMMA KindsStep == TypeInv /\ KindsOk /\ [Next]_vars => KindsOk'
PROOF
  <1> SUFFICES ASSUME TypeInv, KindsOk, [Next]_vars, NEW v \in Workers
               PROVE  op'[v].kind \in Kinds \cup {"none"}
    BY DEF KindsOk
  <1>1. op[v].kind \in Kinds \cup {"none"}
    BY DEF KindsOk
  <1>2. ASSUME NEW w \in Workers, Start(w) \/ Work(w) \/ \E k \in Keys : StartRoute(w, k)
        PROVE  op'[v].kind \in Kinds \cup {"none"}
    <2>1. CASE v # w
      BY <1>1, <1>2, <2>1, OneWorker
    <2>2. CASE v = w /\ Work(w)
      BY <1>1, <2>2, WorkKind
    <2>3. CASE v = w /\ Start(w)
      BY <2>3, StartedJob
    <2>4. CASE v = w /\ \E k \in Keys : StartRoute(w, k)
      BY <2>4, StartedRoute DEF NoOp
    <2> QED BY <1>2, <2>1, <2>2, <2>3, <2>4
  <1>3. CASE (\E k \in Keys : PassDue(k)) \/ NewPeriod \/ UNCHANGED vars
    BY <1>1, <1>3 DEF PassDue, NewPeriod, vars
  <1>4. CASE Crash
    BY <1>4 DEF Crash, NoOp
  <1> QED BY <1>2, <1>3, <1>4 DEF Next

-----------------------------------------------------------------------------
\* Queries answer, transactions are serial, and nothing is rejected: the router
\* takes an error of the creation, which a rejection made meanwhile is too, for
\* a reason to route.
CreationHolds == AtomicCreate /\ ~DbFails /\ Kinds \cap {"reject", "bulkReject"} = {}

\* A job at one of these stages is on its way to Radarr or Sonarr, or back.
Underway == {"consume", "createQuota", "reread", "add", "record", "markAuto", "reroute"}

DecidedCleared ==
    \A k \in Keys : /\ status[k] # "rejected"
                    /\ status[k] = "approved" => k \in granted
                    /\ status[k] = "auto_approved" => Cleared(k)
JobsCleared == \A w \in Workers : op[w].at \in Underway => Cleared(Key(w))
ContentCleared == \A c \in routed : \E u \in Users : Cleared(<<u, c>>)

GrantInv == KindsOk /\ DecidedCleared /\ JobsCleared /\ ContentCleared

LEMMA GrantedGrows == [Next]_vars => granted \subseteq granted'
PROOF
  <1> SUFFICES ASSUME [Next]_vars PROVE granted \subseteq granted'
    OBVIOUS
  <1>1. ASSUME NEW w \in Workers, Start(w) \/ \E k \in Keys : StartRoute(w, k)
        PROVE  granted \subseteq granted'
    BY <1>1 DEF Start, StartApprove, StartReject, StartBulk, StartDelete, StartReeval,
                StartMaintain, StartJob, StartRoute
  <1>2. ASSUME NEW w \in Workers, Work(w) PROVE granted \subseteq granted'
    <2>1. CASE Mark(w) \/ Fulfil(w)
      BY <2>1 DEF Mark, Fulfil
    <2>2. CASE \/ NextItem(w) \/ EndOfList(w) \/ Deny(w) \/ CheckQuota(w) \/ Reread(w)
               \/ Add(w) \/ Charge(w) \/ ReadRelated(w) \/ Fulfilled(w) \/ Rollback(w)
               \/ Unwatch(w) \/ Drop(w) \/ ExpireOld(w) \/ CleanUp(w)
      BY <2>2 DEF NextItem, EndOfList, Deny, CheckQuota, Reread, Add, Charge, ReadRelated,
                  Fulfilled, Rollback, Unwatch, Drop, ExpireOld, CleanUp
    <2>3. CASE \/ Reroute(w) \/ Decide(w) \/ Consume(w) \/ CreateAtOnce(w)
               \/ CreateReads(w) \/ CreateInserts(w) \/ Record(w) \/ MarkAuto(w)
      BY <2>3 DEF Reroute, Decide, Consume, CreateAtOnce, CreateReads, CreateInserts,
                  Record, MarkAuto
    <2> QED BY <1>2, <2>1, <2>2, <2>3 DEF Work
  <1>3. CASE (\E k \in Keys : PassDue(k)) \/ NewPeriod \/ Crash \/ UNCHANGED vars
    BY <1>3 DEF PassDue, NewPeriod, Crash, vars
  <1> QED BY <1>1, <1>2, <1>3 DEF Next

\* k is cleared after the step.
ClearedNext(k) == k[1] \notin Restricted \/ k \in granted'

LEMMA ClearedStays == ASSUME [Next]_vars, NEW k, Cleared(k) PROVE ClearedNext(k)
BY GrantedGrows DEF Cleared, ClearedNext


\* No job rejects.
LEMMA NothingDenied ==
    ASSUME CreationHolds, TypeInv, KindsOk, NEW w \in Workers
    PROVE  ~Deny(w)
PROOF
  <1>1. op[w].kind \in Kinds \cup {"none"}
    BY DEF KindsOk
  <1>2. OpOk(op[w])
    BY Moves
  <1> QED BY <1>1, <1>2 DEF Deny, OpOk, CreationHolds, Approving

LEMMA DecidedStep ==
    ASSUME CreationHolds, TypeInv, GrantInv, [Next]_vars
    PROVE  DecidedCleared'
PROOF
  <1> SUFFICES ASSUME NEW k \in Keys
               PROVE  /\ status'[k] # "rejected"
                      /\ status'[k] = "approved" => k \in granted'
                      /\ status'[k] = "auto_approved" => ClearedNext(k)
    BY DEF DecidedCleared, Cleared, ClearedNext
  <1>1. /\ status[k] # "rejected"
        /\ status[k] = "approved" => k \in granted
        /\ status[k] = "auto_approved" => Cleared(k)
    BY DEF GrantInv, DecidedCleared
  <1>2. granted \subseteq granted' /\ (Cleared(k) => ClearedNext(k))
    BY GrantedGrows, ClearedStays
  <1>3. ASSUME status'[k] \in {status[k], "pending", "expired", "none"}
        PROVE  /\ status'[k] # "rejected"
               /\ status'[k] = "approved" => k \in granted'
               /\ status'[k] = "auto_approved" => ClearedNext(k)
    BY <1>1, <1>2, <1>3
  <1>4. ASSUME NEW w \in Workers, Work(w)
        PROVE  /\ status'[k] # "rejected"
               /\ status'[k] = "approved" => k \in granted'
               /\ status'[k] = "auto_approved" => ClearedNext(k)
    <2>1. op[w] \in OpType /\ OpOk(op[w]) /\ ~Deny(w)
      BY Moves, NothingDenied DEF GrantInv
    <2>2. op[w].at \in Decided \cup Routing \cup Deleting => op[w].cur \in Refs
      BY <2>1 DEF OpOk
    <2>3. CASE Mark(w)
      <3>1. op[w].cur \in Refs
        BY <2>2, <2>3 DEF Mark, Decided
      <3>2. Update(op[w].cur, "approved") \/ status' = status
        BY <2>3 DEF Mark
      <3>3. \/ status'[k] = status[k]
            \/ status'[k] = "approved" /\ op[w].cur = Row(k) /\ Live(op[w].cur)
        BY <3>1, <3>2, UpdateEffect
      <3>4. CASE status'[k] = "approved" /\ op[w].cur = Row(k) /\ Live(op[w].cur)
        <4>1. Key(w) = k
          BY <3>4 DEF Key, Row
        <4>2. status' # status => granted' = granted \cup {Key(w)}
          BY <2>3, <3>4 DEF Mark
        <4> QED BY <1>3, <3>4, <4>1, <4>2
      <3> QED BY <1>3, <3>3, <3>4
    <2>4. CASE Fulfil(w)
      <3>1. PICK r \in op[w].related :
              /\ Update(r, "approved")
              /\ granted' = IF Live(r) THEN granted \cup {r[1]} ELSE granted
        BY <2>4 DEF Fulfil
      <3>2. r \in Refs
        BY <2>1, <3>1 DEF OpType
      <3>3. status'[k] = status[k] \/ (status'[k] = "approved" /\ r = Row(k) /\ Live(r))
        BY <3>1, <3>2, UpdateEffect
      <3>4. r = Row(k) /\ Live(r) => k \in granted'
        BY <3>1 DEF Row
      <3> QED BY <1>3, <3>3, <3>4
    <2>5. CASE MarkAuto(w)
      <3>1. op[w].cur \in Refs /\ Cleared(Key(w))
        BY <2>2, <2>5 DEF MarkAuto, Routing, GrantInv, JobsCleared, Underway
      <3>2. Update(op[w].cur, "auto_approved") \/ status' = status
        BY <2>5 DEF MarkAuto
      <3>3. status'[k] = status[k] \/ (status'[k] = "auto_approved" /\ op[w].cur = Row(k))
        BY <3>1, <3>2, UpdateEffect
      <3>4. op[w].cur = Row(k) => Key(w) = k
        BY DEF Key, Row
      <3> QED BY <1>2, <1>3, <3>1, <3>3, <3>4
    <2>6. CASE Rollback(w) \/ Drop(w)
      <3>1. op[w].cur \in Refs
        BY <2>2, <2>6 DEF Rollback, Drop, Decided, Deleting
      <3>2. \/ Update(op[w].cur, "pending") \/ Update(op[w].cur, "none")
            \/ status' = status
        BY <2>6 DEF Rollback, Drop
      <3> QED BY <1>3, <3>1, <3>2, UpdateEffect
    <2>7. CASE ExpireOld(w)
      BY <1>3, <2>7 DEF ExpireOld
    <2>8. CASE CleanUp(w)
      <3>1. PICK K \in SUBSET {h \in Keys : status[h] = "expired"} :
              status' = [h \in Keys |-> IF h \in K THEN "none" ELSE status[h]]
        BY <2>8 DEF CleanUp
      <3> QED BY <1>3, <3>1
    <2>9. CASE CreateAtOnce(w) \/ CreateInserts(w) \/ Record(w)
      <3>1. Key(w) \in Keys
        BY <2>2, <2>9 DEF CreateAtOnce, CreateInserts, Record, Routing, Key, Refs
      <3>2. UNCHANGED <<status, id>> \/ \E t : NewRow(Key(w), t)
        BY <2>9 DEF CreateAtOnce, CreateInserts, Record
      <3> QED BY <1>3, <3>1, <3>2, NewRowEffect
    <2>10. CASE \/ NextItem(w) \/ EndOfList(w) \/ CheckQuota(w) \/ Reread(w) \/ Add(w)
                \/ Charge(w) \/ ReadRelated(w) \/ Fulfilled(w) \/ Unwatch(w) \/ Reroute(w)
                \/ Decide(w) \/ Consume(w) \/ CreateReads(w)
      <3>1. status' = status
        BY <2>10 DEF NextItem, EndOfList, CheckQuota, Reread, Add, Charge, ReadRelated,
                     Fulfilled, Unwatch, Reroute, Decide, Consume, CreateReads
      <3> QED BY <1>3, <3>1
    <2> QED BY <1>4, <2>1, <2>3, <2>4, <2>5, <2>6, <2>7, <2>8, <2>9, <2>10 DEF Work
  <1>5. ASSUME NEW w \in Workers, Start(w) \/ \E h \in Keys : StartRoute(w, h)
        PROVE  status' = status
    BY <1>5, OthersEffect
  <1>6. CASE (\E h \in Keys : PassDue(h)) \/ NewPeriod \/ Crash \/ UNCHANGED vars
    BY <1>3, <1>6 DEF PassDue, NewPeriod, Crash, vars
  <1> QED BY <1>3, <1>4, <1>5, <1>6 DEF Next

\* A step puts a job under way to Radarr or Sonarr only when its key is cleared.
LEMMA JobClearedStep ==
    ASSUME CreationHolds, TypeInv, GrantInv, [Next]_vars, NEW w \in Workers, Work(w),
           op'[w].at \in Underway
    PROVE  ClearedNext(op'[w].cur[1])
PROOF
  <1>1. op[w] \in OpType /\ OpOk(op[w])
    BY Moves
  <1>2. op[w].at \in Underway => ClearedNext(op[w].cur[1])
    BY ClearedStays DEF GrantInv, JobsCleared, Key
  <1>3. ASSUME NEW at, Go(w, at)
        PROVE  op'[w].at = at /\ op'[w].cur = op[w].cur
    <2>1. op'[w] = [op[w] EXCEPT !.at = at]
      BY <1>3, GoTo
    <2> QED BY <1>1, <2>1 DEF OpType
  <1>4. op'[w] # NoOp /\ ~End(w)
    BY GoTo DEF NoOp, Underway
  <1>5. \A at : Go(w, at) => at \in Underway
    BY <1>3
  <1> USE DEF Underway
  <1>6. CASE NextItem(w) \/ Charge(w) \/ ReadRelated(w) \/ Fulfil(w) \/ Fulfilled(w)
    <2>1. CASE NextItem(w)
      BY <1>1, <2>1, NextJob DEF OpType
    <2>2. CASE Charge(w)
      BY <1>1, <2>2, ChargeJob DEF OpType
    <2>3. CASE ReadRelated(w) \/ Fulfil(w) \/ Fulfilled(w)
      <3>1. op'[w].at \in {"fulfil", "next"}
        BY <1>1, <2>3, RelatedJob DEF Fulfil, OpType
      <3> QED BY <3>1
    <2> QED BY <1>6, <2>1, <2>2, <2>3
  <1>7. CASE \/ EndOfList(w) \/ Deny(w) \/ CheckQuota(w) \/ Rollback(w) \/ Unwatch(w)
             \/ Drop(w) \/ ExpireOld(w) \/ CleanUp(w) \/ Reroute(w) \/ MarkAuto(w)
    BY <1>4, <1>5, <1>7 DEF EndOfList, Deny, CheckQuota, Rollback, Unwatch, Drop, ExpireOld,
                            CleanUp, Reroute, MarkAuto
  <1>8. CASE Mark(w)
    <2>1. Go(w, "reread") /\ Live(op[w].cur) /\ granted' = granted \cup {Key(w)}
      BY <1>5, <1>8 DEF Mark, CreationHolds
    <2> QED BY <1>3, <2>1 DEF ClearedNext, Key
  <1>9. CASE Reread(w) \/ Add(w)
    BY <1>2, <1>3, <1>4, <1>9 DEF Reread, Add
  <1>10. CASE Decide(w)
    <2>1. Go(w, "consume") /\ Key(w)[1] \notin Restricted
      BY <1>5, <1>10 DEF Decide
    <2> QED BY <1>3, <2>1 DEF ClearedNext, Key
  <1>11. CASE Consume(w)
    BY <1>2, <1>3, <1>11 DEF Consume
  <1>12. CASE CreateAtOnce(w)
    <2>1. /\ CreateThrows(w)
          /\ status[Key(w)] \in {"approved", "rejected", "auto_approved"}
      BY <1>4, <1>12 DEF CreateAtOnce, CreationHolds
    <2>2. Key(w) \in Keys
      BY <1>1, <1>12 DEF CreateAtOnce, OpOk, Routing, Key, Refs
    <2>3. Cleared(Key(w))
      BY <2>1, <2>2 DEF GrantInv, DecidedCleared, Cleared
    <2>4. Go(w, "add") \/ Go(w, "consume")
      BY <1>4, <2>1 DEF CreateThrows
    <2> QED BY <1>3, <2>3, <2>4, ClearedStays DEF Key
  <1>13. CASE CreateReads(w) \/ CreateInserts(w)
    BY <1>1, <1>13 DEF CreateReads, CreateInserts, OpOk, CreationHolds
  <1>14. CASE Record(w)
    <2>1. op'[w] = [op[w] EXCEPT !.at = "markAuto", !.cur = <<Key(w), id[Key(w)] + 1>>]
      BY <1>4, <1>14, RecordJob
    <2>2. op'[w].cur[1] = op[w].cur[1]
      BY <1>1, <2>1 DEF OpType, Key
    <2> QED BY <1>2, <1>14, <2>2 DEF Record
  <1> QED
    BY <1>6, <1>7, <1>8, <1>9, <1>10, <1>11, <1>12, <1>13, <1>14 DEF Work

LEMMA JobsClearedStep ==
    ASSUME CreationHolds, TypeInv, GrantInv, [Next]_vars
    PROVE  JobsCleared'
PROOF
  <1> SUFFICES ASSUME NEW v \in Workers, op'[v].at \in Underway
               PROVE  ClearedNext(op'[v].cur[1])
    BY DEF JobsCleared, Key, Cleared, ClearedNext
  <1>1. op'[v] = op[v] => ClearedNext(op'[v].cur[1])
    BY ClearedStays DEF GrantInv, JobsCleared, Key
  <1>2. ASSUME NEW w \in Workers, Work(w) PROVE ClearedNext(op'[v].cur[1])
    BY <1>1, <1>2, JobClearedStep, OneWorker
  <1>3. ASSUME NEW w \in Workers, Start(w) PROVE ClearedNext(op'[v].cur[1])
    <2>1. v # w
      BY <1>3, StartedJob DEF Underway
    <2> QED BY <1>1, <1>3, <2>1, OneWorker
  <1>4. ASSUME NEW w \in Workers, NEW k \in Keys, StartRoute(w, k)
        PROVE  ClearedNext(op'[v].cur[1])
    <2>1. CASE v # w
      BY <1>1, <1>4, <2>1, OneWorker
    <2>2. CASE v = w
      <3>1. PICK at \in {"decide", "reroute"} :
              /\ op' = [op EXCEPT ![w] = [NoOp EXCEPT !.kind = "route", !.cur = Row(k), !.at = at]]
              /\ at = "reroute" => status[k] \in {"approved", "auto_approved"}
        BY <1>4 DEF StartRoute, CreationHolds
      <3>2. op'[w] = [NoOp EXCEPT !.kind = "route", !.cur = Row(k), !.at = at]
        BY <3>1 DEF TypeInv, TypeOK
      <3>3. op'[w].at = at /\ op'[w].cur[1] = k
        BY <3>2 DEF NoOp, Row
      <3>4. Cleared(k)
        BY <2>2, <3>1, <3>3 DEF Underway, GrantInv, DecidedCleared, Cleared
      <3> QED BY <2>2, <3>3, <3>4, ClearedStays
    <2> QED BY <2>1, <2>2
  <1>5. CASE (\E k \in Keys : PassDue(k)) \/ NewPeriod \/ UNCHANGED vars
    BY <1>1, <1>5 DEF PassDue, NewPeriod, vars
  <1>6. CASE Crash
    BY <1>6 DEF Crash, NoOp, Underway
  <1> QED BY <1>2, <1>3, <1>4, <1>5, <1>6 DEF Next

LEMMA RoutedBy ==
    ASSUME [Next]_vars, NEW c \in routed' \ routed
    PROVE  \E w \in Workers : op[w].at \in {"add", "reroute"} /\ c = Key(w)[2]
PROOF
  <1>1. ASSUME NEW w \in Workers, Start(w) \/ \E k \in Keys : StartRoute(w, k)
        PROVE  FALSE
    BY <1>1 DEF Start, StartApprove, StartReject, StartBulk, StartDelete, StartReeval,
                StartMaintain, StartJob, StartRoute
  <1>2. ASSUME NEW w \in Workers, Work(w)
        PROVE  op[w].at \in {"add", "reroute"} /\ c = Key(w)[2]
    <2>1. CASE Add(w) \/ Reroute(w)
      BY <2>1 DEF Add, Reroute
    <2>2. CASE \/ NextItem(w) \/ EndOfList(w) \/ Deny(w) \/ CheckQuota(w) \/ Mark(w)
               \/ Reread(w) \/ Charge(w) \/ ReadRelated(w) \/ Fulfil(w) \/ Fulfilled(w)
               \/ Rollback(w) \/ Unwatch(w) \/ Drop(w) \/ ExpireOld(w) \/ CleanUp(w)
      BY <2>2 DEF NextItem, EndOfList, Deny, CheckQuota, Mark, Reread, Charge, ReadRelated,
                  Fulfil, Fulfilled, Rollback, Unwatch, Drop, ExpireOld, CleanUp
    <2>3. CASE \/ Decide(w) \/ Consume(w) \/ CreateAtOnce(w) \/ CreateReads(w)
               \/ CreateInserts(w) \/ Record(w) \/ MarkAuto(w)
      BY <2>3 DEF Decide, Consume, CreateAtOnce, CreateReads, CreateInserts, Record, MarkAuto
    <2> QED BY <1>2, <2>1, <2>2, <2>3 DEF Work
  <1>3. CASE (\E k \in Keys : PassDue(k)) \/ NewPeriod \/ Crash \/ UNCHANGED vars
    BY <1>3 DEF PassDue, NewPeriod, Crash, vars
  <1> QED BY <1>1, <1>2, <1>3 DEF Next

LEMMA ContentStep ==
    ASSUME TypeInv, GrantInv, [Next]_vars
    PROVE  ContentCleared'
PROOF
  <1> SUFFICES ASSUME NEW c \in routed' PROVE \E u \in Users : ClearedNext(<<u, c>>)
    BY DEF ContentCleared, Cleared, ClearedNext
  <1>1. CASE c \in routed
    BY <1>1, ClearedStays DEF GrantInv, ContentCleared
  <1>2. CASE c \notin routed
    <2>1. PICK w \in Workers : op[w].at \in {"add", "reroute"} /\ c = Key(w)[2]
      BY <1>2, RoutedBy
    <2>2. Key(w) \in Keys
      BY <2>1, Moves DEF OpOk, Routing, Key, Refs
    <2>3. PICK u \in Users : Key(w) = <<u, c>>
      BY <2>1, <2>2 DEF Keys
    <2>4. Cleared(<<u, c>>)
      BY <2>1, <2>3 DEF GrantInv, JobsCleared, Underway
    <2> QED BY <2>4, ClearedStays
  <1> QED BY <1>1, <1>2

\* With serial transactions, queries that answer and no rejections, a restricted
\* user's content goes to Radarr or Sonarr only after a request of that user for
\* it was approved, whatever jobs run at once, fail, or are cut short.
THEOREM RoutedOnesGranted == CreationHolds => (Spec => []RoutedWasGranted)
PROOF
  <1> SUFFICES ASSUME CreationHolds PROVE Spec => []RoutedWasGranted
    OBVIOUS
  <1>1. Init => GrantInv
    BY DEF Init, NoOp, GrantInv, KindsOk, DecidedCleared, JobsCleared, ContentCleared,
           Underway
  <1>2. TypeInv /\ GrantInv /\ [Next]_vars => GrantInv'
    BY KindsStep, DecidedStep, JobsClearedStep, ContentStep DEF GrantInv
  <1>3. GrantInv => RoutedWasGranted
    BY DEF GrantInv, JobsCleared, ContentCleared, RoutedWasGranted, Underway
  <1> QED BY <1>1, <1>2, <1>3, TypeInvariance, PTL DEF Spec

-----------------------------------------------------------------------------
\* One job at a time, or no re-evaluation; and nobody approves by hand, nor
\* maintenance in an administrator's stead.
QuotaAlone ==
    /\ Kinds \cap {"approve", "bulkApprove"} = {}
    /\ "maintain" \in Kinds => ~AutoApprove
    /\ "reeval" \in Kinds => \A v, w \in Workers : v = w

SpentFinite == \A w \in Workers : IsFiniteSet(op[w].spent)
MaintainIdle ==
    \A w \in Workers : op[w].kind = "maintain" =>
        op[w].todo = {} /\ op[w].at \in {"next", "expire", "clean"}

\* What the re-evaluation found free is still free when it charges it.
RoomLeft ==
    \A w \in Workers :
        (/\ op[w].at \in {"mark", "reread", "add", "charge"} /\ op[w].kind \in Approving
         /\ Key(w)[1] \in Limited)
        => usage[Key(w)[1]] < Limit

QuotaInv == KindsOk /\ SpentFinite /\ MaintainIdle /\ RoomLeft /\ QuotaHeld

LEMMA WorkSpent ==
    ASSUME TypeInv, NEW w \in Workers, Work(w)
    PROVE  op'[w].spent \in {op[w].spent, op[w].spent \cup {Key(w)}, {}}
PROOF
  <1>1. op[w] \in OpType
    BY DEF TypeInv, TypeOK
  <1>2. \A at : Go(w, at) => op'[w].spent = op[w].spent
    BY <1>1, GoTo DEF OpType
  <1>3. NoOp.spent = {}
    BY DEF NoOp
  <1>4. End(w) => op'[w].spent = {}
    BY <1>3, GoTo
  <1>5. CASE NextItem(w)
    <2>1. PICK r, at : op'[w] = [op[w] EXCEPT !.todo = @ \ {r}, !.cur = r, !.at = at]
      BY <1>5, NextJob
    <2>2. op'[w].spent = op[w].spent
      BY <1>1, <2>1 DEF OpType
    <2> QED BY <2>2
  <1>6. CASE Charge(w)
    BY <1>1, <1>6, ChargeJob DEF OpType
  <1>7. CASE ReadRelated(w) \/ Fulfil(w) \/ Fulfilled(w)
    BY <1>1, <1>7, RelatedJob DEF OpType
  <1>8. CASE CreateReads(w)
    <2>1. op'[w] = NoOp \/ \E at, r : op'[w] = [op[w] EXCEPT !.at = at, !.cur = r]
      BY <1>8, CreateJob
    <2>2. ASSUME NEW at, NEW r, op'[w] = [op[w] EXCEPT !.at = at, !.cur = r]
          PROVE  op'[w].spent = op[w].spent
      BY <1>1, <2>2 DEF OpType
    <2> QED BY <1>3, <2>1, <2>2
  <1>9. CASE Record(w)
    <2>1. op'[w] = NoOp \/ \E r : op'[w] = [op[w] EXCEPT !.at = "markAuto", !.cur = r]
      BY <1>9, RecordJob
    <2>2. ASSUME NEW r, op'[w] = [op[w] EXCEPT !.at = "markAuto", !.cur = r]
          PROVE  op'[w].spent = op[w].spent
      BY <1>1, <2>2 DEF OpType
    <2> QED BY <1>3, <2>1, <2>2
  <1>10. CASE \/ EndOfList(w) \/ Deny(w) \/ CheckQuota(w) \/ Mark(w) \/ Reread(w) \/ Add(w)
              \/ Rollback(w) \/ Unwatch(w) \/ Drop(w) \/ ExpireOld(w) \/ CleanUp(w)
    BY <1>2, <1>4, <1>10 DEF EndOfList, Deny, CheckQuota, Mark, Reread, Add, Rollback,
                             Unwatch, Drop, ExpireOld, CleanUp
  <1>11. CASE \/ Reroute(w) \/ Decide(w) \/ Consume(w) \/ CreateAtOnce(w)
              \/ CreateInserts(w) \/ MarkAuto(w)
    BY <1>2, <1>4, <1>11 DEF Reroute, Decide, Consume, CreateAtOnce, CreateInserts,
                             CreateThrows, MarkAuto
  <1> QED BY <1>5, <1>6, <1>7, <1>8, <1>9, <1>10, <1>11 DEF Work

LEMMA SpentStep ==
    ASSUME TypeInv, SpentFinite, [Next]_vars
    PROVE  SpentFinite'
PROOF
  <1> SUFFICES ASSUME NEW v \in Workers PROVE IsFiniteSet(op'[v].spent)
    BY DEF SpentFinite
  <1>1. IsFiniteSet(op[v].spent) /\ IsFiniteSet({})
    BY FS_EmptySet DEF SpentFinite
  <1>2. NoOp.spent = {}
    BY DEF NoOp
  <1>3. ASSUME NEW w \in Workers, Work(w), v = w PROVE IsFiniteSet(op'[v].spent)
    <2>1. op'[v].spent \in {op[v].spent, op[v].spent \cup {Key(v)}, {}}
      BY <1>3, WorkSpent
    <2> QED BY <1>1, <2>1, FS_AddElement
  <1>4. ASSUME NEW w \in Workers, Start(w), v = w PROVE IsFiniteSet(op'[v].spent)
    BY <1>1, <1>4, StartedJob
  <1>5. ASSUME NEW w \in Workers, NEW k \in Keys, StartRoute(w, k), v = w
        PROVE  IsFiniteSet(op'[v].spent)
    <2>1. op'[v].spent = {}
      BY <1>5, StartedRoute DEF NoOp
    <2> QED BY <1>1, <2>1
  <1>6. ASSUME NEW w \in Workers, Start(w) \/ Work(w) \/ \E k \in Keys : StartRoute(w, k)
        PROVE  IsFiniteSet(op'[v].spent)
    <2>1. CASE v # w
      BY <1>1, <1>6, <2>1, OneWorker
    <2>2. CASE v = w
      BY <1>3, <1>4, <1>5, <1>6, <2>2
    <2> QED BY <2>1, <2>2
  <1>7. CASE (\E k \in Keys : PassDue(k)) \/ NewPeriod \/ UNCHANGED vars
    BY <1>1, <1>7 DEF PassDue, NewPeriod, vars
  <1>8. CASE Crash
    BY <1>1, <1>2, <1>8 DEF Crash
  <1> QED BY <1>6, <1>7, <1>8 DEF Next

\* Without automatic approvals, maintenance has nothing on its list.
LEMMA MaintainStep ==
    ASSUME QuotaAlone, TypeInv, KindsOk, MaintainIdle, [Next]_vars
    PROVE  MaintainIdle'
PROOF
  <1> DEFINE Idle(o) == o.kind = "maintain" => o.todo = {} /\ o.at \in {"next", "expire", "clean"}
  <1> SUFFICES ASSUME NEW v \in Workers PROVE Idle(op'[v])
    BY DEF MaintainIdle
  <1>1. Idle(op[v]) /\ Idle(NoOp)
    BY DEF MaintainIdle, NoOp
  <1> HIDE DEF Idle
  <1>2. ASSUME NEW w \in Workers, Work(w), v = w PROVE Idle(op'[v])
    <2>1. op[w] \in OpType /\ OpOk(op[w]) /\ op'[w].kind \in {op[w].kind, "none"}
      BY <1>2, Moves, WorkKind
    <2>2. CASE op[w].kind # "maintain"
      BY <1>2, <2>1, <2>2 DEF Idle
    <2>3. CASE op[w].kind = "maintain"
      <3>1. op[w].todo = {} /\ op[w].at \in {"next", "expire", "clean"}
        BY <1>1, <1>2, <2>3 DEF Idle
      <3>2. ASSUME NEW at \in {"next", "expire", "clean"}, Go(w, at) PROVE Idle(op'[w])
        <4>1. op'[w] = [op[w] EXCEPT !.at = at]
          BY <3>2, GoTo
        <4> QED BY <2>1, <3>1, <4>1 DEF OpType, Idle
      <3>3. End(w) => Idle(op'[w])
        BY <1>1, GoTo
      <3>4. EndOfList(w) \/ ExpireOld(w) \/ CleanUp(w)
        BY <1>2, <2>3, <3>1
        DEF Work, NextItem, Deny, CheckQuota, Mark, Reread, Add, Charge, ReadRelated, Fulfil,
            Fulfilled, Rollback, Unwatch, Drop, Reroute, Decide, Consume, CreateAtOnce,
            CreateReads, CreateInserts, Record, MarkAuto
      <3> QED BY <1>2, <3>2, <3>3, <3>4 DEF EndOfList, ExpireOld, CleanUp
    <2> QED BY <2>2, <2>3
  <1>3. ASSUME NEW w \in Workers, Start(w), v = w PROVE Idle(op'[v])
    <2>1. CASE StartMaintain(w)
      <3>1. ~AutoApprove
        BY <2>1 DEF StartMaintain, StartJob, QuotaAlone
      <3>2. op'[w] = [NoOp EXCEPT !.kind = "maintain", !.at = "next", !.todo = {}, !.cur = NoRow]
        BY <2>1, <3>1 DEF StartMaintain, StartJob, TypeInv, TypeOK
      <3> QED BY <1>3, <3>2 DEF Idle, NoOp
    <2>2. ASSUME NEW kind, NEW at, NEW todo, NEW cur, StartJob(w, kind, at, todo, cur),
                 kind # "maintain"
          PROVE  Idle(op'[w])
      <3>1. op'[w].kind = kind
        BY <2>2 DEF StartJob, TypeInv, TypeOK, NoOp
      <3> QED BY <2>2, <3>1 DEF Idle
    <2> QED BY <1>3, <2>1, <2>2 DEF Start, StartApprove, StartReject, StartBulk, StartDelete,
                                    StartReeval
  <1>4. ASSUME NEW w \in Workers, NEW k \in Keys, StartRoute(w, k), v = w PROVE Idle(op'[v])
    <2>1. op'[v].kind = "route"
      BY <1>4, StartedRoute DEF NoOp
    <2> QED BY <2>1 DEF Idle
  <1>5. ASSUME NEW w \in Workers, Start(w) \/ Work(w) \/ \E k \in Keys : StartRoute(w, k)
        PROVE  Idle(op'[v])
    <2>1. CASE v # w
      BY <1>1, <1>5, <2>1, OneWorker
    <2>2. CASE v = w
      BY <1>2, <1>3, <1>4, <1>5, <2>2
    <2> QED BY <2>1, <2>2
  <1>6. CASE (\E k \in Keys : PassDue(k)) \/ NewPeriod \/ UNCHANGED vars
    BY <1>1, <1>6 DEF PassDue, NewPeriod, vars
  <1>7. CASE Crash
    BY <1>1, <1>7 DEF Crash
  <1> QED BY <1>5, <1>6, <1>7 DEF Next

\* Only a job that approves holds a unit it is to charge: the re-evaluation.
LEMMA OnlyReeval ==
    ASSUME QuotaAlone, QuotaInv, NEW w \in Workers,
           op[w].at \in {"mark", "reread", "add", "charge"}, op[w].kind \in Approving
    PROVE  op[w].kind = "reeval" /\ \A v \in Workers : v = w
BY DEF QuotaInv, KindsOk, MaintainIdle, QuotaAlone, Approving

LEMMA UsageStep ==
    ASSUME QuotaAlone, TypeInv, QuotaInv, [Next]_vars
    PROVE  QuotaHeld'
PROOF
  <1> SUFFICES ASSUME NEW u \in Limited PROVE usage'[u] <= Limit
    BY DEF QuotaHeld
  <1>1. usage[u] <= Limit /\ u \in Users /\ usage \in [Users -> Nat] /\ Limit \in Nat
    BY ApprovalAssumption DEF QuotaInv, QuotaHeld, TypeInv, TypeOK
  <1>2. ASSUME NEW w \in Workers, Charge(w) PROVE usage'[u] <= Limit
    <2>1. Key(w)[1] = u => usage[u] < Limit
      BY <1>2, Moves DEF Charge, OpOk, Decided, QuotaInv, RoomLeft
    <2>2. usage' = usage \/ usage' = [usage EXCEPT ![Key(w)[1]] =
                                          IF Key(w)[1] \in Limited THEN @ + 1 ELSE @]
      BY <1>2 DEF Charge
    <2> QED BY <1>1, <2>1, <2>2
  <1>3. ASSUME NEW w \in Workers, Consume(w) PROVE usage'[u] <= Limit
    <2>1. \/ usage' = usage
          \/ /\ usage[Key(w)[1]] < Limit
             /\ usage' = [usage EXCEPT ![Key(w)[1]] = @ + 1]
      BY <1>3 DEF Consume
    <2> QED BY <1>1, <2>1
  <1>4. CASE NewPeriod
    BY <1>1, <1>4 DEF NewPeriod
  <1>5. ASSUME NEW w \in Workers, Start(w) \/ \E k \in Keys : StartRoute(w, k)
        PROVE  usage' = usage
    BY <1>5 DEF Start, StartApprove, StartReject, StartBulk, StartDelete, StartReeval,
                StartMaintain, StartJob, StartRoute
  <1>6. ASSUME NEW w \in Workers, Work(w), ~Charge(w), ~Consume(w) PROVE usage' = usage
    <2>1. CASE \/ NextItem(w) \/ EndOfList(w) \/ Deny(w) \/ CheckQuota(w) \/ Mark(w)
               \/ Reread(w) \/ Add(w) \/ ReadRelated(w) \/ Fulfil(w) \/ Fulfilled(w)
               \/ Rollback(w) \/ Unwatch(w) \/ Drop(w) \/ ExpireOld(w) \/ CleanUp(w)
      BY <2>1 DEF NextItem, EndOfList, Deny, CheckQuota, Mark, Reread, Add, ReadRelated,
                  Fulfil, Fulfilled, Rollback, Unwatch, Drop, ExpireOld, CleanUp
    <2>2. CASE \/ Reroute(w) \/ Decide(w) \/ CreateAtOnce(w) \/ CreateReads(w)
               \/ CreateInserts(w) \/ Record(w) \/ MarkAuto(w)
      BY <2>2 DEF Reroute, Decide, CreateAtOnce, CreateReads, CreateInserts, Record, MarkAuto
    <2> QED BY <1>6, <2>1, <2>2 DEF Work
  <1>7. CASE (\E k \in Keys : PassDue(k)) \/ Crash \/ UNCHANGED vars
    BY <1>1, <1>7 DEF PassDue, Crash, vars
  <1> QED BY <1>1, <1>2, <1>3, <1>4, <1>5, <1>6, <1>7 DEF Next

LEMMA RoomStep ==
    ASSUME QuotaAlone, TypeInv, QuotaInv, [Next]_vars
    PROVE  RoomLeft'
PROOF
  <1> DEFINE Held == {"mark", "reread", "add", "charge"}
  <1> SUFFICES ASSUME NEW v \in Workers, op'[v].at \in Held, op'[v].kind \in Approving,
                      op'[v].cur[1][1] \in Limited
               PROVE  usage'[op'[v].cur[1][1]] < Limit
    BY DEF RoomLeft, Key
  <1>1. usage \in [Users -> Nat] /\ Limit \in Nat /\ Limited \subseteq Users
    BY ApprovalAssumption DEF TypeInv, TypeOK
  <1>2. ASSUME op'[v] = op[v]
        PROVE  usage[op'[v].cur[1][1]] < Limit /\ \A w \in Workers : w = v
    BY <1>2, OnlyReeval DEF QuotaInv, RoomLeft, Key
  <1>3. ASSUME NEW w \in Workers, Work(w) PROVE usage'[op'[v].cur[1][1]] < Limit
    <2>1. v = w
      BY <1>2, <1>3, OneWorker
    <2>2. op[w] \in OpType /\ OpOk(op[w])
      BY Moves
    <2>3. op'[w] # NoOp /\ ~End(w)
      BY <2>1, GoTo DEF NoOp
    <2>4. ASSUME NEW at, Go(w, at)
          PROVE  at \in Held /\ op'[w].cur = op[w].cur /\ op'[w].kind = op[w].kind
      <3>1. op'[w] = [op[w] EXCEPT !.at = at]
        BY <2>4, GoTo
      <3> QED BY <2>1, <2>2, <3>1 DEF OpType
    <2>5. CASE NextItem(w)
      <3>1. PICK at \in {"deny", "quota", "mark"} :
              /\ op'[w].at = at /\ op'[w].kind = op[w].kind
              /\ at = "quota" <=> op[w].kind = "reeval"
              /\ op[w].todo # {}
        BY <2>2, <2>5, NextJob DEF OpType
      <3>2. op[w].kind # "reeval" /\ op[w].kind \in Approving
        BY <2>1, <3>1
      <3>3. op[w].kind = "maintain"
        BY <3>2 DEF QuotaInv, KindsOk, QuotaAlone, Approving
      <3> QED BY <3>1, <3>3 DEF QuotaInv, MaintainIdle
    <2>6. CASE Charge(w)
      <3>1. op'[w].at \in {"rollback", "related"}
        BY <2>2, <2>6, ChargeJob DEF OpType
      <3> QED BY <2>1, <3>1
    <2>7. CASE ReadRelated(w) \/ Fulfil(w) \/ Fulfilled(w)
      <3>1. op'[w].at \in {"fulfil", "next"}
        BY <2>2, <2>7, RelatedJob DEF Fulfil, OpType
      <3> QED BY <2>1, <3>1
    <2>8. CASE CheckQuota(w)
      <3>1. Key(w)[1] \in Limited => ~(EffectiveUsage(w, Key(w)[1]) >= Limit)
        BY <2>4, <2>8 DEF CheckQuota
      <3>2. Cardinality({k \in op[w].spent : k[1] = Key(w)[1]}) \in Nat
        <4>1. IsFiniteSet(op[w].spent)
          BY DEF QuotaInv, SpentFinite
        <4>2. IsFiniteSet({k \in op[w].spent : k[1] = Key(w)[1]})
          BY <4>1, FS_Subset
        <4> QED BY <4>2, FS_CardinalityType
      <3>3. op'[w].cur[1][1] = Key(w)[1] /\ usage' = usage
        BY <2>4, <2>8 DEF CheckQuota, Key
      <3>4. usage[Key(w)[1]] \in Nat
        BY <1>1, <2>1, <3>3
      <3> QED BY <1>1, <2>1, <3>1, <3>2, <3>3, <3>4 DEF EffectiveUsage
    <2>9. CASE Mark(w) \/ Reread(w) \/ Add(w)
      <3>1. usage' = usage /\ op[w].at \in Held /\ \E at : Go(w, at)
        BY <2>3, <2>9 DEF Mark, Reread, Add
      <3>2. op'[w].cur = op[w].cur /\ op'[w].kind = op[w].kind
        BY <2>4, <3>1
      <3> QED BY <2>1, <3>1, <3>2 DEF QuotaInv, RoomLeft, Key
    <2>10. CASE \/ EndOfList(w) \/ Deny(w) \/ Rollback(w) \/ Unwatch(w) \/ Drop(w)
                \/ ExpireOld(w) \/ CleanUp(w) \/ Reroute(w) \/ Decide(w) \/ MarkAuto(w)
      BY <2>3, <2>4, <2>10 DEF EndOfList, Deny, Rollback, Unwatch, Drop, ExpireOld, CleanUp,
                               Reroute, Decide, MarkAuto
    <2>11. CASE \/ Consume(w) \/ CreateAtOnce(w) \/ CreateReads(w) \/ CreateInserts(w)
                \/ Record(w)
      <3>1. op[w].kind = "route"
        BY <2>2, <2>11 DEF Consume, CreateAtOnce, CreateReads, CreateInserts, Record, OpOk,
                           Routing
      <3> QED BY <1>3, <2>1, <3>1, WorkKind DEF Approving
    <2> QED BY <1>3, <2>5, <2>6, <2>7, <2>8, <2>9, <2>10, <2>11 DEF Work
  <1>4. ASSUME NEW w \in Workers, Start(w) \/ \E k \in Keys : StartRoute(w, k) PROVE FALSE
    <2>1. v = w
      BY <1>2, <1>4, OneWorker
    <2>2. CASE Start(w)
      BY <2>1, <2>2, StartedJob
    <2>3. CASE \E k \in Keys : StartRoute(w, k)
      BY <2>1, <2>3, StartedRoute DEF NoOp, Approving
    <2> QED BY <1>4, <2>2, <2>3
  <1>5. CASE (\E k \in Keys : PassDue(k)) \/ UNCHANGED vars
    BY <1>2, <1>5 DEF PassDue, vars
  <1>6. CASE NewPeriod
    <2>1. op'[v] = op[v] /\ usage' = [u \in Users |-> 0]
      BY <1>6 DEF NewPeriod
    <2> QED BY <1>1, <1>2, <2>1
  <1>7. CASE Crash
    BY <1>7 DEF Crash, NoOp
  <1> QED BY <1>3, <1>4, <1>5, <1>6, <1>7 DEF Next

\* Where nobody approves by hand, the router and the re-evaluation keep each user
\* within the quota: any number of routers, or one job at a time with the
\* re-evaluation, under every failure and restart, and over any periods.
THEOREM QuotaStands == QuotaAlone => (Spec => []QuotaHeld)
PROOF
  <1> SUFFICES ASSUME QuotaAlone PROVE Spec => []QuotaHeld
    OBVIOUS
  <1>1. Init => QuotaInv
    <2> SUFFICES ASSUME Init PROVE QuotaInv
      OBVIOUS
    <2>1. \A w \in Workers : op[w].kind = "none" /\ op[w].at = "idle" /\ op[w].spent = {}
      BY DEF Init, NoOp
    <2>2. SpentFinite
      BY <2>1, FS_EmptySet DEF SpentFinite
    <2>3. KindsOk /\ MaintainIdle /\ RoomLeft
      BY <2>1 DEF KindsOk, MaintainIdle, RoomLeft
    <2>4. QuotaHeld
      BY ApprovalAssumption DEF Init, QuotaHeld
    <2> QED BY <2>2, <2>3, <2>4 DEF QuotaInv
  <1>2. TypeInv /\ QuotaInv /\ [Next]_vars => QuotaInv'
    BY KindsStep, SpentStep, MaintainStep, RoomStep, UsageStep DEF QuotaInv
  <1>3. QuotaInv => QuotaHeld
    BY DEF QuotaInv
  <1> QED BY <1>1, <1>2, <1>3, TypeInvariance, PTL DEF Spec

-----------------------------------------------------------------------------
\* One job at a time, and none of the bulk routes, which take any status.
OneAtATime ==
    /\ \A v, w \in Workers : v = w
    /\ Kinds \cap {"bulkApprove", "bulkReject"} = {}

Numbered == \A k \in Keys : status[k] # "none" => id[k] >= 1

\* The requests on a list, or about to be marked, may be approved.
Approvable(r) == Live(r) => status[r[1]] \in {"pending", "rejected", "approved"}
ListOk(o) ==
    /\ o.kind \in Approving => \A r \in o.todo : Approvable(r)
    /\ o.kind \in Approving /\ o.at \in {"quota", "mark"} => Approvable(o.cur)
    /\ o.at \in {"expire", "clean"} => o.todo = {}
RejectOk(o) ==
    o.kind = "reject" =>
        /\ \A r, s \in o.todo : r = s
        /\ \A r \in o.todo : Live(r) => status[r[1]] = "pending"
        /\ o.at = "deny" => o.todo = {} /\ (Live(o.cur) => status[o.cur[1]] = "pending")
HeldOk(o) ==
    o.kind \in Approving /\ o.at \in {"reread", "add", "charge", "rollback"} =>
        (Live(o.cur) => status[o.cur[1]] = "approved")
RelatedOk(o) ==
    o.at = "fulfil" =>
        \A r \in o.related : Live(r) => status[r[1]] \in {"pending", "approved"}
RouteOk(o) ==
    /\ o.at = "markAuto" => (Live(o.cur) => status[o.cur[1]] = "pending")
    /\ o.at \in {"insert", "insertQuota"} /\ status[o.cur[1]] \notin {"none", "expired"}
       => id[o.cur[1]] # o.cur[2]

LifeOk(o) == ListOk(o) /\ RejectOk(o) /\ HeldOk(o) /\ RelatedOk(o) /\ RouteOk(o)
LifeInv == KindsOk /\ Numbered /\ \A w \in Workers : LifeOk(op[w])

\* The one job there is, and what is known of it.
LEMMA OneJobLife ==
    ASSUME OneAtATime, TypeInv, LifeInv, NEW w \in Workers
    PROVE  /\ op[w] \in OpType /\ OpOk(op[w]) /\ LifeOk(op[w])
           /\ op[w].kind \notin {"bulkApprove", "bulkReject"}
           /\ \A v \in Workers : v = w
           /\ op[w].todo \subseteq Refs /\ op[w].related \subseteq Refs
           /\ \A r \in Refs : r[1] \in Keys
PROOF
  <1>1. op[w].kind \in Kinds \cup {"none"}
    BY DEF LifeInv, KindsOk
  <1>2. op[w].kind \notin {"bulkApprove", "bulkReject"}
    BY <1>1 DEF OneAtATime
  <1>3. op[w] \in OpType /\ OpOk(op[w])
    BY Moves
  <1>4. LifeOk(op[w]) /\ \A v \in Workers : v = w
    BY DEF OneAtATime, LifeInv
  <1> QED BY <1>2, <1>3, <1>4 DEF OpType, Refs

\* A job that ends, deletes or routes has nothing on its list.
LEMMA PlainLife ==
    ASSUME NEW w \in Workers,
           \/ op'[w] = NoOp
           \/ /\ op'[w].kind \in {"route", "delete"}
              /\ op'[w].at \notin {"expire", "clean", "fulfil", "markAuto", "insert",
                                   "insertQuota"}
    PROVE  LifeOk(op[w])'
PROOF
  <1>1. CASE op'[w] = NoOp
    <2>1. op'[w].kind = "none" /\ op'[w].at = "idle"
      BY <1>1 DEF NoOp
    <2> QED BY <2>1 DEF LifeOk, ListOk, RejectOk, HeldOk, RelatedOk, RouteOk, Approving
  <1>2. CASE /\ op'[w].kind \in {"route", "delete"}
             /\ op'[w].at \notin {"expire", "clean", "fulfil", "markAuto", "insert",
                                  "insertQuota"}
    BY <1>2 DEF LifeOk, ListOk, RejectOk, HeldOk, RelatedOk, RouteOk, Approving
  <1> QED BY <1>1, <1>2

\* A job that changes no row.
LEMMA QuietLife ==
    ASSUME OneAtATime, TypeInv, LifeInv, NEW w \in Workers, UNCHANGED <<status, id>>,
           \/ NextItem(w) \/ EndOfList(w) \/ CheckQuota(w) \/ Reread(w) \/ Add(w)
           \/ Charge(w) \/ ReadRelated(w) \/ Fulfilled(w) \/ Unwatch(w) \/ Reroute(w)
           \/ Decide(w) \/ Consume(w) \/ CreateReads(w)
    PROVE  LifeOk(op[w])'
PROOF
  <1>1. /\ op[w] \in OpType /\ OpOk(op[w]) /\ LifeOk(op[w])
        /\ op[w].kind \notin {"bulkApprove", "bulkReject"}
    BY OneJobLife
  <1>2. ASSUME NEW at, Go(w, at)
        PROVE  /\ op'[w].at = at /\ op'[w].kind = op[w].kind /\ op'[w].todo = op[w].todo
               /\ op'[w].cur = op[w].cur /\ op'[w].related = op[w].related
    <2>1. op'[w] = [op[w] EXCEPT !.at = at]
      BY <1>2, GoTo
    <2> QED BY <1>1, <2>1 DEF OpType
  <1>3. End(w) => LifeOk(op[w])'
    BY GoTo, PlainLife
  <1>4. CASE NextItem(w)
    <2>1. PICK r \in op[w].todo, at \in {"deny", "quota", "mark"} :
             /\ op'[w] = [op[w] EXCEPT !.todo = @ \ {r}, !.cur = r, !.at = at]
             /\ at = "deny" <=> op[w].kind \in {"reject", "bulkReject"}
             /\ at = "quota" <=> op[w].kind = "reeval"
      BY <1>4, NextJob
    <2>2. /\ op'[w].at = at /\ op'[w].kind = op[w].kind /\ op'[w].todo = op[w].todo \ {r}
          /\ op'[w].cur = r
      BY <1>1, <2>1 DEF OpType
    <2>3. CASE op[w].kind = "reject"
      <3>1. (\A q \in op[w].todo : q = r) /\ (Live(r) => status[r[1]] = "pending")
        BY <1>1, <2>3 DEF LifeOk, RejectOk
      <3> QED BY <2>1, <2>2, <2>3, <3>1
              DEF LifeOk, ListOk, RejectOk, HeldOk, RelatedOk, RouteOk, Approving, Live
    <2>4. CASE op[w].kind \in Approving
      <3>1. at \in {"quota", "mark"} /\ \A q \in op[w].todo : Approvable(q)
        BY <1>1, <2>1, <2>4 DEF LifeOk, ListOk, Approving
      <3> QED BY <2>1, <2>2, <2>4, <3>1
              DEF LifeOk, ListOk, RejectOk, HeldOk, RelatedOk, RouteOk, Approving, Approvable,
                  Live
    <2> QED BY <1>1, <1>4, <2>3, <2>4 DEF NextItem, OpOk
  <1>5. CASE EndOfList(w)
    <2>1. CASE Go(w, "expire")
      BY <1>2, <1>5, <2>1 DEF EndOfList, LifeOk, ListOk, RejectOk, HeldOk, RelatedOk, RouteOk
    <2> QED BY <1>3, <1>5, <2>1 DEF EndOfList
  <1>6. CASE CheckQuota(w) \/ Reread(w) \/ (Add(w) /\ op[w].kind # "route")
    <2>1. op[w].kind \in Approving
      BY <1>1, <1>6 DEF CheckQuota, Reread, Add, OpOk, Decided
    <2>2. PICK at \in {"next", "mark", "add", "rollback", "charge"} :
            /\ Go(w, at)
            /\ at = "mark" => op[w].at = "quota"
            /\ at \in {"add", "rollback", "charge"} => op[w].at \in {"reread", "add"}
      BY <1>6 DEF CheckQuota, Reread, Add
    <2>3. \A q \in op[w].todo : Approvable(q)
      BY <1>1, <2>1 DEF LifeOk, ListOk
    <2>4. op[w].at = "quota" => Approvable(op[w].cur)
      BY <1>1, <2>1 DEF LifeOk, ListOk
    <2>5. op[w].at \in {"reread", "add"} =>
            (Live(op[w].cur) => status[op[w].cur[1]] = "approved")
      BY <1>1, <2>1 DEF LifeOk, HeldOk
    <2> QED BY <1>2, <2>1, <2>2, <2>3, <2>4, <2>5
            DEF LifeOk, ListOk, RejectOk, HeldOk, RelatedOk, RouteOk, Approving, Approvable,
                Live
  <1>7. CASE Charge(w)
    <2>1. op[w].kind \in Approving
      BY <1>1, <1>7 DEF Charge, OpOk, Decided
    <2>2. /\ op'[w].at \in {"rollback", "related"} /\ op'[w].kind = op[w].kind
          /\ op'[w].todo = op[w].todo /\ op'[w].cur = op[w].cur
      BY <1>1, <1>7, ChargeJob DEF OpType
    <2>3. /\ \A q \in op[w].todo : Approvable(q)
          /\ Live(op[w].cur) => status[op[w].cur[1]] = "approved"
      BY <1>1, <1>7, <2>1 DEF LifeOk, ListOk, HeldOk, Charge
    <2> QED BY <2>1, <2>2, <2>3
            DEF LifeOk, ListOk, RejectOk, HeldOk, RelatedOk, RouteOk, Approving, Approvable,
                Live
  <1>8. CASE ReadRelated(w) \/ Fulfilled(w)
    <2>1. op[w].kind \in Approving
      BY <1>1, <1>8 DEF ReadRelated, Fulfilled, OpOk, Decided
    <2>2. \A q \in op[w].todo : Approvable(q)
      BY <1>1, <2>1 DEF LifeOk, ListOk
    <2>3. /\ op'[w].at \in {"fulfil", "next"} /\ op'[w].kind = op[w].kind
          /\ op'[w].todo = op[w].todo
          /\ op'[w].at = "fulfil" => op'[w].related = Related(w)
      <3>1. CASE op'[w] = [op[w] EXCEPT !.at = "fulfil", !.related = Related(w)]
        BY <1>1, <3>1 DEF OpType
      <3>2. CASE op'[w] = [op[w] EXCEPT !.at = "next"]
        BY <1>1, <3>2 DEF OpType
      <3>3. CASE op'[w] = [op[w] EXCEPT !.at = "next", !.related = {}]
        BY <1>1, <3>3 DEF OpType
      <3> QED BY <1>8, <3>1, <3>2, <3>3, RelatedJob
    <2>4. \A r \in Related(w) : status[r[1]] = "pending"
      BY DEF Related, Rows, Row
    <2> QED BY <2>1, <2>2, <2>3, <2>4
            DEF LifeOk, ListOk, RejectOk, HeldOk, RelatedOk, RouteOk, Approving, Approvable,
                Live
  <1>9. CASE CreateReads(w)
    <2>1. op[w].kind = "route" /\ Key(w) \in Keys
      BY <1>1, <1>9 DEF CreateReads, OpOk, Routing, Key, Refs
    <2> DEFINE r == <<Key(w), IF status[Key(w)] = "expired" THEN id[Key(w)] ELSE 0>>
    <2>2. ASSUME NEW at \in {"insert", "insertQuota"},
                 op'[w] = [op[w] EXCEPT !.at = at, !.cur = r]
          PROVE  LifeOk(op[w])'
      <3>1. r[1] = Key(w) /\ (status[Key(w)] # "expired" => r[2] = 0)
        OBVIOUS
      <3> HIDE DEF r
      <3>2. op'[w].at = at /\ op'[w].cur = r /\ op'[w].kind = "route"
        BY <1>1, <2>1, <2>2 DEF OpType
      <3>3. status[Key(w)] \notin {"none", "expired"} => id[Key(w)] # r[2]
        BY <2>1, <3>1 DEF LifeInv, Numbered
      <3> QED BY <3>1, <3>2, <3>3
              DEF LifeOk, ListOk, RejectOk, HeldOk, RelatedOk, RouteOk, Approving
    <2>3. op'[w] = NoOp => LifeOk(op[w])'
      BY PlainLife
    <2>4. \/ op'[w] = NoOp
          \/ \E at \in {"insert", "insertQuota"} :
               op'[w] = [op[w] EXCEPT !.at = at, !.cur = r]
      BY <1>9, CreateJob
    <2> HIDE DEF r
    <2> QED BY <2>2, <2>3, <2>4
  <1>10. CASE \/ Unwatch(w) \/ Reroute(w) \/ Decide(w) \/ Consume(w)
              \/ (Add(w) /\ op[w].kind = "route")
    <2>1. op[w].kind \in {"route", "delete"}
      BY <1>1, <1>10 DEF Unwatch, Reroute, Decide, Consume, OpOk, Routing, Deleting
    <2>2. End(w) \/ \E at \in {"drop", "create", "consume", "add", "createQuota", "record"} :
                      Go(w, at)
      BY <1>10 DEF Unwatch, Reroute, Decide, Consume, Add
    <2> QED BY <1>2, <1>3, <2>1, <2>2, PlainLife
  <1> QED BY <1>4, <1>5, <1>6, <1>7, <1>8, <1>9, <1>10

\* What a step does to the row of k, while one job runs.
RowMove(k) ==
    \/ status'[k] = status[k] /\ id'[k] = id[k]
    \/ /\ status[k] # "none" /\ id'[k] = id[k]
       /\ <<status[k], status'[k]>> \in Lifecycle!Moves
    \/ status[k] \in {"none", "expired"} /\ status'[k] = "pending" /\ id'[k] = id[k] + 1

\* A row is updated by its id, to a status it may move to.
LEMMA UpdateMove ==
    ASSUME TypeInv, NEW r \in Refs, NEW t, Update(r, t), id' = id,
           Live(r) => status[r[1]] = t \/ <<status[r[1]], t>> \in Lifecycle!Moves,
           NEW k \in Keys
    PROVE  RowMove(k)
PROOF
  <1>1. status'[k] = status[k] \/ (status'[k] = t /\ r = Row(k) /\ Live(r))
    BY UpdateEffect
  <1>2. r = Row(k) => r[1] = k
    BY DEF Row
  <1> QED BY <1>1, <1>2 DEF RowMove, Live

LEMMA NewRowMove ==
    ASSUME TypeInv, NEW h \in Keys, NEW t, NewRow(h, t), status[h] \in {"none", "expired"},
           NEW k \in Keys
    PROVE  RowMove(k)
BY DEF NewRow, TypeInv, TypeOK, RowMove

LEMMA WorkMove ==
    ASSUME OneAtATime, TypeInv, LifeInv, NEW w \in Workers, Work(w), ~Drop(w), NEW k \in Keys
    PROVE  RowMove(k)
PROOF
  <1>1. /\ op[w] \in OpType /\ OpOk(op[w]) /\ LifeOk(op[w])
        /\ op[w].kind \notin {"bulkApprove", "bulkReject"}
        /\ op[w].related \subseteq Refs
    BY OneJobLife
  <1>2. op[w].at \in Decided \cup Routing \cup {"deny"} => op[w].cur \in Refs
    BY <1>1 DEF OpOk
  <1>3. CASE Deny(w)
    <2>1. Live(op[w].cur) => status[op[w].cur[1]] = "pending"
      BY <1>1, <1>3 DEF Deny, OpOk, LifeOk, RejectOk
    <2>2. <<"pending", "rejected">> \in Lifecycle!Moves
      BY DEF Lifecycle!Moves
    <2> QED BY <1>2, <1>3, <2>1, <2>2, UpdateMove DEF Deny
  <1>4. CASE Mark(w)
    <2>1. Approvable(op[w].cur)
      BY <1>1, <1>4 DEF Mark, OpOk, Decided, LifeOk, ListOk
    <2>2. {<<"pending", "approved">>, <<"rejected", "approved">>} \subseteq Lifecycle!Moves
      BY DEF Lifecycle!Moves
    <2>3. CASE Update(op[w].cur, "approved")
      <3>1. op[w].cur \in Refs /\ id' = id
        BY <1>2, <1>4 DEF Mark, Decided
      <3> QED BY <2>1, <2>2, <2>3, <3>1, UpdateMove DEF Approvable
    <2> QED BY <1>4, <2>3 DEF Mark, RowMove
  <1>5. CASE Fulfil(w)
    <2>1. PICK r \in op[w].related : Update(r, "approved")
      BY <1>5 DEF Fulfil
    <2>2. Live(r) => status[r[1]] \in {"pending", "approved"}
      BY <1>1, <1>5, <2>1 DEF Fulfil, LifeOk, RelatedOk
    <2>3. <<"pending", "approved">> \in Lifecycle!Moves
      BY DEF Lifecycle!Moves
    <2>4. r \in Refs /\ id' = id
      BY <1>1, <1>5, <2>1 DEF Fulfil
    <2> QED BY <2>1, <2>2, <2>3, <2>4, UpdateMove
  <1>6. CASE Rollback(w)
    <2>1. Live(op[w].cur) => status[op[w].cur[1]] = "approved"
      BY <1>1, <1>6 DEF Rollback, OpOk, Decided, LifeOk, HeldOk
    <2>2. <<"approved", "pending">> \in Lifecycle!Moves
      BY DEF Lifecycle!Moves
    <2>3. CASE Update(op[w].cur, "pending")
      <3>1. op[w].cur \in Refs /\ id' = id
        BY <1>2, <1>6 DEF Rollback, Decided
      <3> QED BY <2>1, <2>2, <2>3, <3>1, UpdateMove
    <2> QED BY <1>6, <2>3 DEF Rollback, RowMove
  <1>7. CASE MarkAuto(w)
    <2>1. Live(op[w].cur) => status[op[w].cur[1]] = "pending"
      BY <1>1, <1>7 DEF MarkAuto, LifeOk, RouteOk
    <2>2. <<"pending", "auto_approved">> \in Lifecycle!Moves
      BY DEF Lifecycle!Moves
    <2>3. CASE Update(op[w].cur, "auto_approved")
      <3>1. op[w].cur \in Refs /\ id' = id
        BY <1>2, <1>7 DEF MarkAuto, Routing
      <3> QED BY <2>1, <2>2, <2>3, <3>1, UpdateMove
    <2> QED BY <1>7, <2>3 DEF MarkAuto, RowMove
  <1>8. CASE ExpireOld(w)
    <2>1. <<"pending", "expired">> \in Lifecycle!Moves
      BY DEF Lifecycle!Moves
    <2> QED BY <1>8, <2>1 DEF ExpireOld, RowMove
  <1>9. CASE CleanUp(w)
    <2>1. <<"expired", "none">> \in Lifecycle!Moves
      BY DEF Lifecycle!Moves
    <2>2. PICK K \in SUBSET {h \in Keys : status[h] = "expired"} :
            status' = [h \in Keys |-> IF h \in K THEN "none" ELSE status[h]]
      BY <1>9 DEF CleanUp
    <2> QED BY <1>9, <2>1, <2>2 DEF CleanUp, RowMove
  <1>10. CASE CreateAtOnce(w) \/ CreateInserts(w) \/ Record(w)
    <2>1. Key(w) \in Keys
      BY <1>2, <1>10 DEF CreateAtOnce, CreateInserts, Record, Routing, Key, Refs
    <2>2. \/ UNCHANGED <<status, id>>
          \/ \E t : NewRow(Key(w), t) /\ status[Key(w)] \in {"none", "expired"}
      <3>1. CASE CreateAtOnce(w) \/ Record(w)
        BY <3>1 DEF CreateAtOnce, Record
      <3>2. CASE CreateInserts(w)
        BY <1>1, <3>2 DEF CreateInserts, LifeOk, RouteOk, Key
      <3> QED BY <1>10, <3>1, <3>2
    <2>3. CASE UNCHANGED <<status, id>>
      BY <2>3 DEF RowMove
    <2> QED BY <2>1, <2>2, <2>3, NewRowMove
  <1>11. CASE \/ NextItem(w) \/ EndOfList(w) \/ CheckQuota(w) \/ Reread(w) \/ Add(w)
              \/ Charge(w) \/ ReadRelated(w) \/ Fulfilled(w) \/ Unwatch(w) \/ Reroute(w)
              \/ Decide(w) \/ Consume(w) \/ CreateReads(w)
    <2>1. UNCHANGED <<status, id>>
      BY <1>11 DEF NextItem, EndOfList, CheckQuota, Reread, Add, Charge, ReadRelated,
                   Fulfilled, Unwatch, Reroute, Decide, Consume, CreateReads
    <2> QED BY <2>1 DEF RowMove
  <1> QED
    BY <1>3, <1>4, <1>5, <1>6, <1>7, <1>8, <1>9, <1>10, <1>11 DEF Work

\* A job that may change a row.
LEMMA RowLife ==
    ASSUME OneAtATime, TypeInv, LifeInv, NEW w \in Workers,
           \/ Deny(w) \/ Mark(w) \/ Fulfil(w) \/ Rollback(w) \/ Drop(w) \/ ExpireOld(w)
           \/ CleanUp(w) \/ CreateAtOnce(w) \/ CreateInserts(w) \/ Record(w) \/ MarkAuto(w)
    PROVE  LifeOk(op[w])'
PROOF
  <1>1. /\ op[w] \in OpType /\ OpOk(op[w]) /\ LifeOk(op[w])
        /\ op[w].kind \notin {"bulkApprove", "bulkReject"}
        /\ op[w].todo \subseteq Refs /\ op[w].related \subseteq Refs
        /\ \A r \in Refs : r[1] \in Keys
    BY OneJobLife
  <1>2. ASSUME NEW at, Go(w, at)
        PROVE  /\ op'[w].at = at /\ op'[w].kind = op[w].kind /\ op'[w].todo = op[w].todo
               /\ op'[w].cur = op[w].cur /\ op'[w].related = op[w].related
    <2>1. op'[w] = [op[w] EXCEPT !.at = at]
      BY <1>2, GoTo
    <2> QED BY <1>1, <2>1 DEF OpType
  <1>3. End(w) => LifeOk(op[w])'
    BY GoTo, PlainLife
  <1>4. ASSUME NEW q \in Refs, NEW r \in Refs, NEW t \in {"pending", "approved"},
               Update(r, t) \/ status' = status, id' = id, Approvable(q)
        PROVE  Approvable(q)'
    <2>1. status'[q[1]] \in {status[q[1]], t}
      BY <1>1, <1>4, UpdateEffect
    <2> QED BY <1>4, <2>1 DEF Approvable, Live
  <1>5. op[w].kind \in Approving => \A q \in op[w].todo : Approvable(q)
    BY <1>1 DEF LifeOk, ListOk
  <1>6. CASE Deny(w)
    <2>1. op[w].kind = "reject" /\ op[w].todo = {}
      BY <1>1, <1>6 DEF Deny, OpOk, LifeOk, RejectOk
    <2>2. op'[w].at = "next" /\ op'[w].kind = "reject" /\ op'[w].todo = {}
      BY <1>2, <1>6, <2>1 DEF Deny
    <2> QED BY <2>2 DEF LifeOk, ListOk, RejectOk, HeldOk, RelatedOk, RouteOk, Approving
  <1>7. CASE Mark(w)
    <2>1. op[w].kind \in Approving /\ op[w].cur \in Refs /\ id' = id
      BY <1>1, <1>7 DEF Mark, OpOk, Decided
    <2>2. Update(op[w].cur, "approved") \/ status' = status
      BY <1>7 DEF Mark
    <2>3. \A q \in op[w].todo : Approvable(q)'
      BY <1>1, <1>4, <1>5, <2>1, <2>2
    <2>4. PICK at \in {"next", "reread"} :
            Go(w, at) /\ (at = "reread" => Update(op[w].cur, "approved") /\ Live(op[w].cur))
      BY <1>7 DEF Mark
    <2>5. at = "reread" => status'[op[w].cur[1]] = "approved"
      <3>1. op[w].cur[1] \in Keys /\ status \in [Keys -> Statuses \cup {"none"}]
        BY <1>1, <2>1 DEF TypeInv, TypeOK
      <3> QED BY <2>4, <3>1 DEF Update
    <2>6. /\ op'[w].at = at /\ op'[w].kind = op[w].kind /\ op'[w].todo = op[w].todo
          /\ op'[w].cur = op[w].cur
      BY <1>2, <2>4
    <2>7. ListOk(op[w])'
      BY <2>3, <2>4, <2>6 DEF ListOk
    <2>8. HeldOk(op[w])'
      BY <2>4, <2>5, <2>6 DEF HeldOk
    <2> QED BY <2>1, <2>4, <2>6, <2>7, <2>8 DEF LifeOk, RejectOk, RelatedOk, RouteOk, Approving
  <1>8. CASE Rollback(w)
    <2>1. op[w].kind \in Approving /\ op[w].cur \in Refs /\ id' = id
      BY <1>1, <1>8 DEF Rollback, OpOk, Decided
    <2>2. Update(op[w].cur, "pending") \/ status' = status
      BY <1>8 DEF Rollback
    <2>3. \A q \in op[w].todo : Approvable(q)'
      BY <1>1, <1>4, <1>5, <2>1, <2>2
    <2>4. op'[w].at = "next" /\ op'[w].kind = op[w].kind /\ op'[w].todo = op[w].todo
      BY <1>2, <1>8 DEF Rollback
    <2>5. ListOk(op[w])'
      BY <2>3, <2>4 DEF ListOk
    <2> QED BY <2>1, <2>4, <2>5 DEF LifeOk, RejectOk, HeldOk, RelatedOk, RouteOk, Approving
  <1>9. CASE Fulfil(w)
    <2>1. PICK r \in op[w].related :
            Update(r, "approved") /\ op'[w] = [op[w] EXCEPT !.related = @ \ {r}]
      BY <1>9, RelatedJob
    <2>2. /\ op'[w].at = "fulfil" /\ op'[w].kind = op[w].kind /\ op'[w].todo = op[w].todo
          /\ op'[w].related \subseteq op[w].related
      BY <1>1, <1>9, <2>1 DEF Fulfil, OpType
    <2>3. op[w].kind \in Approving /\ r \in Refs /\ id' = id
      BY <1>1, <1>9, <2>1 DEF Fulfil, OpOk, Decided
    <2>4. \A q \in op[w].todo : Approvable(q)'
      BY <1>1, <1>4, <1>5, <2>1, <2>3
    <2>5. ASSUME NEW q \in op'[w].related
          PROVE  Live(q)' => status'[q[1]] \in {"pending", "approved"}
      <3>1. Live(q) => status[q[1]] \in {"pending", "approved"}
        BY <1>1, <1>9, <2>2, <2>5 DEF Fulfil, LifeOk, RelatedOk
      <3>2. status'[q[1]] \in {status[q[1]], "approved"}
        BY <1>1, <2>1, <2>2, <2>3, <2>5, UpdateEffect
      <3> QED BY <2>3, <3>1, <3>2 DEF Live
    <2>6. ListOk(op[w])'
      BY <2>2, <2>4 DEF ListOk
    <2>7. RelatedOk(op[w])'
      BY <2>5 DEF RelatedOk
    <2> QED BY <2>2, <2>3, <2>6, <2>7 DEF LifeOk, RejectOk, HeldOk, RouteOk, Approving
  <1>10. CASE ExpireOld(w)
    <2>1. op[w].todo = {}
      BY <1>1, <1>10 DEF ExpireOld, LifeOk, ListOk
    <2>2. op'[w].at = "clean" /\ op'[w].todo = {}
      BY <1>2, <1>10, <2>1 DEF ExpireOld
    <2> QED BY <2>2 DEF LifeOk, ListOk, RejectOk, HeldOk, RelatedOk, RouteOk
  <1>11. CASE Drop(w) \/ CleanUp(w) \/ MarkAuto(w)
    BY <1>3, <1>11 DEF Drop, CleanUp, MarkAuto
  <1>12. CASE CreateAtOnce(w) \/ CreateInserts(w)
    <2>1. op[w].kind = "route"
      BY <1>1, <1>12 DEF CreateAtOnce, CreateInserts, OpOk, Routing
    <2>2. End(w) \/ \E at \in {"add", "consume"} : Go(w, at)
      BY <1>12 DEF CreateAtOnce, CreateInserts, CreateThrows
    <2> QED BY <1>2, <1>3, <2>1, <2>2, PlainLife
  <1>13. CASE Record(w)
    <2>1. op[w].kind = "route" /\ Key(w) \in Keys
      BY <1>1, <1>13 DEF Record, OpOk, Routing, Key, Refs
    <2> DEFINE r == <<Key(w), id[Key(w)] + 1>>
    <2>2. CASE /\ NewRow(Key(w), "auto")
               /\ op'[w] = [op[w] EXCEPT !.at = "markAuto", !.cur = r]
      <3>1. r[1] = Key(w)
        OBVIOUS
      <3> HIDE DEF r
      <3>2. op'[w].at = "markAuto" /\ op'[w].cur = r /\ op'[w].kind = "route"
        BY <1>1, <2>1, <2>2 DEF OpType
      <3>3. status'[Key(w)] = "pending"
        BY <2>1, <2>2 DEF NewRow, TypeInv, TypeOK
      <3> QED BY <3>1, <3>2, <3>3 DEF LifeOk, ListOk, RejectOk, HeldOk, RelatedOk, RouteOk, Approving
    <2>3. \/ op'[w] = NoOp
          \/ /\ NewRow(Key(w), "auto")
             /\ op'[w] = [op[w] EXCEPT !.at = "markAuto", !.cur = r]
      BY <1>13, RecordJob
    <2> HIDE DEF r
    <2> QED BY <2>2, <2>3, PlainLife
  <1> QED BY <1>6, <1>7, <1>8, <1>9, <1>10, <1>11, <1>12, <1>13

\* A job that starts.
LEMMA StartLife ==
    ASSUME OneAtATime, TypeInv, LifeInv, NEW w \in Workers,
           Start(w) \/ \E k \in Keys : StartRoute(w, k)
    PROVE  LifeOk(op[w])'
PROOF
  <1>1. ASSUME NEW k \in Keys, StartRoute(w, k) PROVE LifeOk(op[w])'
    <2>1. PICK at \in {"decide", "reroute", "add", "consume"} :
            op'[w] = [NoOp EXCEPT !.kind = "route", !.cur = Row(k), !.at = at]
      BY <1>1, StartedRoute
    <2>2. op'[w].kind = "route" /\ op'[w].at = at
      BY <2>1 DEF NoOp
    <2> QED BY <2>2, PlainLife
  <1>2. ASSUME NEW kind, NEW at, NEW todo, NEW cur, StartJob(w, kind, at, todo, cur)
        PROVE  /\ op'[w].kind = kind /\ op'[w].at = at /\ op'[w].todo = todo
               /\ UNCHANGED <<status, id>>
    <2> DEFINE c == [NoOp EXCEPT !.kind = kind, !.at = at, !.todo = todo, !.cur = cur]
    <2>1. c.kind = kind /\ c.at = at /\ c.todo = todo
      BY DEF NoOp
    <2>2. op' = [op EXCEPT ![w] = c] /\ UNCHANGED <<status, id>>
      BY <1>2 DEF StartJob
    <2> HIDE DEF c
    <2>3. op'[w] = c
      BY <2>2 DEF TypeInv, TypeOK
    <2> QED BY <2>1, <2>2, <2>3
  <1>3. ASSUME NEW kind \in Approving, NEW todo, NEW cur, StartJob(w, kind, "next", todo, cur),
               \A r \in todo : status[r[1]] \in {"pending", "rejected"}
        PROVE  LifeOk(op[w])'
    <2>1. op'[w].kind = kind /\ op'[w].at = "next" /\ op'[w].todo = todo /\ status' = status
      BY <1>2, <1>3
    <2> QED BY <1>3, <2>1 DEF LifeOk, ListOk, RejectOk, HeldOk, RelatedOk, RouteOk, Approving,
                              Approvable
  <1>4. \A k \in Keys : Row(k)[1] = k
    BY DEF Row
  <1>5. ASSUME NEW K \in SUBSET Keys, NEW r \in Rows(K) PROVE r[1] \in K
    BY <1>4, <1>5 DEF Rows
  <1>6. CASE StartApprove(w)
    <2>1. PICK k \in Keys : /\ status[k] \in {"pending", "rejected"}
                            /\ StartJob(w, "approve", "next", {Row(k)}, NoRow)
      BY <1>6 DEF StartApprove
    <2> QED BY <1>3, <1>4, <2>1 DEF Approving
  <1>7. CASE StartReject(w)
    <2>1. PICK k \in Keys : /\ status[k] = "pending"
                            /\ StartJob(w, "reject", "next", {Row(k)}, NoRow)
      BY <1>7 DEF StartReject
    <2>2. /\ op'[w].kind = "reject" /\ op'[w].at = "next" /\ op'[w].todo = {Row(k)}
          /\ status' = status
      BY <1>2, <2>1
    <2> QED BY <1>4, <2>1, <2>2 DEF LifeOk, ListOk, RejectOk, HeldOk, RelatedOk, RouteOk,
                                    Approving
  <1>8. CASE StartDelete(w)
    <2>1. PICK at \in {"unwatch", "drop"}, k \in Keys : StartJob(w, "delete", at, {}, Row(k))
      BY <1>8 DEF StartDelete
    <2>2. op'[w].kind = "delete" /\ op'[w].at = at
      BY <1>2, <2>1
    <2> QED BY <2>2, PlainLife
  <1>9. CASE StartReeval(w)
    <2> DEFINE K == {k \in Keys : status[k] = "pending" /\ trigger[k] = "quota"}
    <2>1. \A r \in Rows(K) : status[r[1]] = "pending"
      BY <1>5
    <2>2. StartJob(w, "reeval", "next", Rows(K), NoRow)
      BY <1>9 DEF StartReeval
    <2> HIDE DEF K
    <2> QED BY <1>3, <2>1, <2>2 DEF Approving
  <1>10. CASE StartMaintain(w)
    <2> DEFINE K == {k \in due : status[k] = "pending"}
               todo == IF AutoApprove THEN Rows(K) ELSE {}
    <2>1. K \in SUBSET Keys
      BY DEF TypeInv, TypeOK
    <2>2. \A r \in Rows(K) : status[r[1]] = "pending"
      BY <1>5, <2>1
    <2>3. StartJob(w, "maintain", "next", todo, NoRow)
      BY <1>10 DEF StartMaintain
    <2> HIDE DEF K
    <2>4. \A r \in todo : status[r[1]] = "pending"
      BY <2>2
    <2> HIDE DEF todo
    <2> QED BY <1>3, <2>3, <2>4 DEF Approving
  <1>11. ASSUME NEW kind \in {"bulkApprove", "bulkReject"}, StartBulk(w, kind) PROVE FALSE
    BY <1>11 DEF StartBulk, StartJob, OneAtATime
  <1> QED BY <1>1, <1>6, <1>7, <1>8, <1>9, <1>10, <1>11 DEF Start

LEMMA LifeStep ==
    ASSUME OneAtATime, TypeInv, LifeInv, [Next]_vars
    PROVE  LifeInv'
PROOF
  <1>1. KindsOk'
    BY KindsStep DEF LifeInv
  <1>2. \A w, v \in Workers : v = w
    BY DEF OneAtATime
  <1>3. id \in [Keys -> 0..MaxRows]
    BY DEF TypeInv, TypeOK
  <1>4. ASSUME UNCHANGED <<status, id>> PROVE Numbered'
    BY <1>4 DEF LifeInv, Numbered
  <1>5. ASSUME NEW w \in Workers, Work(w) PROVE Numbered'
    <2>1. CASE Drop(w)
      <3>1. op[w].cur \in Refs /\ id' = id /\ Update(op[w].cur, "none")
        BY <2>1, Moves DEF Drop, OpOk, Deleting
      <3>2. \A k \in Keys : status'[k] = "none" \/ status'[k] = status[k]
        BY <3>1, UpdateEffect
      <3> QED BY <3>1, <3>2 DEF LifeInv, Numbered
    <2>2. CASE ~Drop(w)
      <3>1. \A k \in Keys : RowMove(k)
        BY <1>5, <2>2, WorkMove
      <3>2. ASSUME NEW k \in Keys, status'[k] # "none" PROVE id'[k] >= 1
        <4>1. id[k] \in Nat /\ (status[k] # "none" => id[k] >= 1)
          BY <1>3 DEF LifeInv, Numbered
        <4>2. \/ id'[k] = id[k] /\ status[k] # "none"
              \/ id'[k] = id[k] + 1
          BY <3>1, <3>2 DEF RowMove
        <4> QED BY <4>1, <4>2
      <3> QED BY <3>2 DEF Numbered
    <2> QED BY <2>1, <2>2
  <1>6. ASSUME NEW w \in Workers, Work(w) PROVE LifeOk(op[w])'
    <2>1. CASE \/ NextItem(w) \/ EndOfList(w) \/ CheckQuota(w) \/ Reread(w) \/ Add(w)
               \/ Charge(w) \/ ReadRelated(w) \/ Fulfilled(w) \/ Unwatch(w) \/ Reroute(w)
               \/ Decide(w) \/ Consume(w) \/ CreateReads(w)
      <3>1. UNCHANGED <<status, id>>
        BY <2>1 DEF NextItem, EndOfList, CheckQuota, Reread, Add, Charge, ReadRelated,
                    Fulfilled, Unwatch, Reroute, Decide, Consume, CreateReads
      <3> QED BY <2>1, <3>1, QuietLife
    <2>2. CASE \/ Deny(w) \/ Mark(w) \/ Fulfil(w) \/ Rollback(w) \/ Drop(w) \/ ExpireOld(w)
               \/ CleanUp(w) \/ CreateAtOnce(w) \/ CreateInserts(w) \/ Record(w) \/ MarkAuto(w)
      BY <2>2, RowLife
    <2> QED BY <1>6, <2>1, <2>2 DEF Work
  <1>7. ASSUME NEW w \in Workers, Start(w) \/ \E k \in Keys : StartRoute(w, k)
        PROVE  LifeOk(op[w])' /\ Numbered'
    BY <1>4, <1>7, StartLife, OthersEffect
  <1>8. ASSUME NEW w \in Workers, (\E k \in Keys : PassDue(k)) \/ NewPeriod \/ UNCHANGED vars
        PROVE  LifeOk(op[w])' /\ Numbered'
    <2>1. UNCHANGED <<status, id, op>>
      BY <1>8 DEF PassDue, NewPeriod, vars
    <2>2. LifeOk(op[w])
      BY DEF LifeInv
    <2> QED BY <1>4, <2>1, <2>2 DEF LifeOk, ListOk, RejectOk, HeldOk, RelatedOk, RouteOk,
                                    Approvable, Live
  <1>9. ASSUME NEW w \in Workers, Crash PROVE LifeOk(op[w])' /\ Numbered'
    <2>1. UNCHANGED <<status, id>> /\ op'[w] = NoOp
      BY <1>9 DEF Crash
    <2> QED BY <1>4, <2>1, PlainLife
  <1>10. ASSUME NEW v \in Workers PROVE LifeOk(op[v])' /\ Numbered'
    <2>1. ASSUME NEW w \in Workers, Start(w) \/ Work(w) \/ \E k \in Keys : StartRoute(w, k)
          PROVE  LifeOk(op[v])' /\ Numbered'
      <3>1. v = w
        BY <1>2
      <3>2. LifeOk(op[w])' /\ Numbered'
        BY <1>5, <1>6, <1>7, <2>1
      <3> QED BY <3>1, <3>2
    <2> QED BY <1>8, <1>9, <2>1 DEF Next
  <1>11. Numbered'
    <2>1. CASE Workers = {}
      <3>1. UNCHANGED <<status, id>>
        BY <2>1 DEF Next, PassDue, NewPeriod, Crash, vars
      <3> QED BY <1>4, <3>1
    <2> QED BY <1>10, <2>1
  <1> QED BY <1>1, <1>10, <1>11 DEF LifeInv

\* Each step is one of the lifecycle's, or leaves the statuses as they are.
LEMMA LifecycleStep ==
    ASSUME OneAtATime, TypeInv, LifeInv, [Next]_vars
    PROVE  [Lifecycle!Next]_status
PROOF
  <1>1. ASSUME \A k \in Keys : RowMove(k) PROVE Lifecycle!Next
    <2>1. {<<"none", "pending">>, <<"expired", "pending">>} \subseteq Lifecycle!Moves
      BY DEF Lifecycle!Moves
    <2>2. \A k \in Keys : <<status[k], status'[k]>> \in Lifecycle!Moves \/ status'[k] = status[k]
      BY <1>1, <2>1 DEF RowMove
    <2> QED BY <2>2 DEF Lifecycle!Next, Lifecycle!Change
  <1>2. ASSUME NEW w \in Workers, Drop(w) PROVE Lifecycle!Next \/ status' = status
    <2>1. op[w].cur \in Refs /\ op[w].cur[1] \in Keys
      BY <1>2, Moves DEF Drop, OpOk, Deleting, Refs
    <2>2. \/ status' = status
          \/ status' = [status EXCEPT ![op[w].cur[1]] = "none"]
      BY <1>2 DEF Drop, Update
    <2> QED BY <2>1, <2>2 DEF Lifecycle!Next, Lifecycle!Delete
  <1>3. ASSUME NEW w \in Workers, Work(w), ~Drop(w) PROVE Lifecycle!Next
    BY <1>1, <1>3, WorkMove
  <1>4. ASSUME NEW w \in Workers, Start(w) \/ \E k \in Keys : StartRoute(w, k)
        PROVE  status' = status
    BY <1>4, OthersEffect
  <1>5. CASE (\E k \in Keys : PassDue(k)) \/ NewPeriod \/ Crash \/ UNCHANGED vars
    BY <1>5 DEF PassDue, NewPeriod, Crash, vars
  <1> QED BY <1>2, <1>3, <1>4, <1>5 DEF Next

\* While one job runs at a time and the bulk routes are not used, the requests
\* move only as the lifecycle allows: created, decided, taken back when they
\* cannot be routed, expired and cleaned up, or deleted, whatever fails or stops.
THEOREM FollowsLifecycle == OneAtATime => (Spec => LifecycleSpec)
PROOF
  <1> SUFFICES ASSUME OneAtATime PROVE Spec => LifecycleSpec
    OBVIOUS
  <1>1. Init => LifeInv /\ Lifecycle!Init
    <2> SUFFICES ASSUME Init PROVE LifeInv /\ Lifecycle!Init
      OBVIOUS
    <2>1. \A w \in Workers : op[w].kind = "none" /\ op[w].at = "idle"
      BY DEF Init, NoOp
    <2>2. \A w \in Workers : LifeOk(op[w])
      BY <2>1 DEF LifeOk, ListOk, RejectOk, HeldOk, RelatedOk, RouteOk, Approving
    <2>3. KindsOk /\ Numbered
      BY <2>1 DEF Init, KindsOk, Numbered
    <2> QED BY <2>2, <2>3 DEF Init, LifeInv, Lifecycle!Init
  <1>2. TypeInv /\ LifeInv /\ [Next]_vars => LifeInv' /\ [Lifecycle!Next]_status
    BY LifeStep, LifecycleStep
  <1> QED BY <1>1, <1>2, TypeInvariance, PTL DEF Spec, LifecycleSpec, Lifecycle!Spec

=============================================================================
