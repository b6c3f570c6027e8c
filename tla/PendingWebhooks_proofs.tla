----------------------- MODULE PendingWebhooks_proofs -----------------------
(***************************************************************************)
(* Type correctness, the separation of retry cycles, for episodes that     *)
(* nobody is told or recorded twice, and that a stored webhook is kept     *)
(* until somebody is: for any webhooks, users and restarts.                *)
(***************************************************************************)
EXTENDS PendingWebhooks, TLAPS

CallType == [at : Stages, retry : BOOLEAN, todo : SUBSET Users,
             who : Users \cup {Nobody}, tell : SUBSET Users]

\* A call chosen a user to record, exactly while it inserts.
WhoOk == \A w \in Webhooks : call[w].at = "inserting" => call[w].who \in Users

TypeInv == TypeOK /\ WhoOk

\* The call of w will deliver to u.
WillTell(w, u) == call[w].at # "deleting" /\ u \in call[w].tell

\* A record of an episode is unique, and is the licence for one message, which
\* one call holds until it is sent.
Licensed ==
    /\ \A u \in Users : records[u] <= 1 /\ told[u] <= records[u]
    /\ \A u \in Users, w \in Webhooks : WillTell(w, u) => records[u] = 1 /\ told[u] = 0
    /\ \A u \in Users, v, w \in Webhooks : WillTell(v, u) /\ WillTell(w, u) => v = w

LEMMA InitType == Init => TypeInv
BY PendingAssumption DEF Init, TypeInv, TypeOK, WhoOk, NoCall, Stages

\* Each action keeps the types.
LEMMA TypeStep == TypeInv /\ [Next]_vars => TypeInv'
PROOF
  <1> SUFFICES ASSUME TypeInv, [Next]_vars PROVE TypeInv'
    OBVIOUS
  <1> USE PendingAssumption DEF TypeInv, TypeOK, WhoOk, Works, Fails
  <1>0. NoCall \in CallType /\ NoCall.at = "none"
    BY DEF NoCall, CallType, Stages
  <1>1. CASE UNCHANGED vars
    BY <1>1 DEF vars
  <1>2. ASSUME NEW u \in Users, Watch(u) PROVE TypeInv'
    BY <1>2 DEF Watch
  <1>3. ASSUME NEW w \in Webhooks, NEW c \in CallType,
               c.at = "inserting" => c.who \in Users,
               call' = [call EXCEPT ![w] = c]
        PROVE  call' \in [Webhooks -> CallType] /\ WhoOk'
    BY <1>3 DEF CallType
  <1>4. ASSUME NEW w \in Webhooks, Receive(w) PROVE TypeInv'
    <2>1. [NoCall EXCEPT !.at = "lookup"] \in CallType
      BY DEF NoCall, CallType, Stages
    <2> QED BY <1>3, <1>4, <2>1 DEF Receive, CallType
  <1>5. ASSUME NEW w \in Webhooks, EndCall(w)
        PROVE  call' \in [Webhooks -> CallType] /\ WhoOk'
    BY <1>0, <1>3, <1>5 DEF EndCall
  <1>6. ASSUME NEW w \in Webhooks, NEW at \in Stages \ {"inserting"}, GoTo(w, at)
        PROVE  call' \in [Webhooks -> CallType] /\ WhoOk'
    BY <1>6 DEF GoTo, CallType
  <1>7. ASSUME NEW w \in Webhooks,
               LookUp(w) \/ AllChecked(w) \/ Suppress(w) \/ CallFails(w)
        PROVE  TypeInv'
    BY <1>5, <1>6, <1>7 DEF LookUp, AllChecked, Suppress, CallFails, Stages, CallType
  <1>8. ASSUME NEW w \in Webhooks, Store(w) \/ DeleteRow(w) PROVE TypeInv'
    BY <1>5, <1>8 DEF Store, DeleteRow, CallType
  <1>9. ASSUME NEW w \in Webhooks, Match(w) PROVE TypeInv'
    <2> DEFINE c == [call[w] EXCEPT !.at = "checking", !.todo = watching]
    <2>1. c \in CallType /\ c.at = "checking"
      BY DEF CallType, Stages
    <2>2. call' = [call EXCEPT ![w] = c]
      BY <1>9 DEF Match, CallType
    <2> HIDE DEF c
    <2>3. call' \in [Webhooks -> CallType] /\ WhoOk'
      BY <1>3, <2>1, <2>2
    <2> QED BY <1>9, <2>3 DEF Match, CallType
  <1>10. ASSUME NEW w \in Webhooks, Check(w) PROVE TypeInv'
    <2>1. PICK u \in call[w].todo :
            call' = IF records[u] > 0
                    THEN [call EXCEPT ![w].todo = @ \ {u}]
                    ELSE [call EXCEPT ![w].at = "inserting", ![w].who = u]
      BY <1>10 DEF Check
    <2>2. call[w] \in CallType /\ call[w].at = "checking" /\ u \in Users
      BY <1>10 DEF Check, CallType
    <2> DEFINE c == IF records[u] > 0 THEN [call[w] EXCEPT !.todo = @ \ {u}]
                    ELSE [call[w] EXCEPT !.at = "inserting", !.who = u]
    <2>3. c \in CallType /\ (c.at = "inserting" => c.who \in Users)
      BY <2>2 DEF CallType, Stages
    <2>4. call' = [call EXCEPT ![w] = c]
      BY <2>1, <2>2 DEF CallType
    <2> HIDE DEF c
    <2>5. call' \in [Webhooks -> CallType] /\ WhoOk'
      BY <1>3, <2>3, <2>4
    <2> QED BY <1>10, <2>5 DEF Check, CallType
  <1>11. ASSUME NEW w \in Webhooks, Insert(w) PROVE TypeInv'
    <2>1. call[w] \in CallType /\ call[w].at = "inserting" /\ call[w].who \in Users
      BY <1>11 DEF Insert, CallType
    <2>2. PICK new \in SUBSET Users :
            call' = [call EXCEPT ![w].at = "checking", ![w].who = Nobody,
                                 ![w].todo = @ \ {call[w].who}, ![w].tell = @ \cup new]
      BY <1>11, <2>1 DEF Insert
    <2> DEFINE c == [call[w] EXCEPT !.at = "checking", !.who = Nobody,
                                    !.todo = @ \ {call[w].who}, !.tell = @ \cup new]
    <2>3. c \in CallType /\ c.at = "checking"
      BY <2>1 DEF CallType, Stages
    <2>4. call' = [call EXCEPT ![w] = c]
      BY <2>1, <2>2 DEF CallType
    <2> HIDE DEF c
    <2>5. call' \in [Webhooks -> CallType] /\ WhoOk'
      BY <1>3, <2>3, <2>4
    <2>6. records' \in [Users -> Nat]
      BY <1>11, <2>1 DEF Insert
    <2> QED BY <1>11, <2>5, <2>6 DEF Insert, CallType
  <1>12. ASSUME NEW w \in Webhooks, Deliver(w) PROVE TypeInv'
    <2>1. told' \in [Users -> Nat]
      BY <1>12 DEF Deliver
    <2>2. call' \in [Webhooks -> CallType] /\ WhoOk'
      BY <1>5, <1>6, <1>12 DEF Deliver, Stages
    <2> QED BY <1>12, <2>1, <2>2 DEF Deliver, CallType
  <1>13. ASSUME NEW w \in Webhooks, Expire(w) PROVE TypeInv'
    BY <1>13 DEF Expire
  <1>14. CASE StartCycle \/ EndCycle \/ CleanupExpired
    BY <1>14 DEF StartCycle, EndCycle, CleanupExpired
  <1>15. CASE ReadRows
    <2> DEFINE c == [NoCall EXCEPT !.at = "lookup", !.retry = TRUE]
    <2>1. c \in CallType /\ c.at = "lookup"
      BY DEF NoCall, CallType, Stages
    <2> HIDE DEF c
    <2>2. \/ call' = [w \in Webhooks |-> IF row[w] = "live" THEN c ELSE call[w]]
          \/ call' = call
      BY <1>15 DEF ReadRows, c
    <2>3. call' \in [Webhooks -> CallType] /\ WhoOk'
      BY <2>1, <2>2 DEF CallType
    <2> QED BY <1>15, <2>3 DEF ReadRows, CallType
  <1>16. CASE Crash
    BY <1>0, <1>16 DEF Crash, CallType
  <1> QED
    BY <1>1, <1>2, <1>4, <1>7, <1>8, <1>9, <1>10, <1>11, <1>12, <1>13, <1>14, <1>15, <1>16
    DEF Next, Step

LEMMA TypeInvariance == Spec => []TypeInv
BY InitType, TypeStep, PTL DEF Spec

\* Rows, records, calls and counters keep their types.
THEOREM PendingTypeCorrect == Spec => []TypeOK
PROOF
  <1>1. TypeInv => TypeOK
    BY DEF TypeInv
  <1> QED BY <1>1, TypeInvariance, PTL

-----------------------------------------------------------------------------
\* What an action does to the stage and the recipients of a call.
CallsOf(w) ==
    /\ \A v \in Webhooks \ {w} : call'[v] = call[v]
    /\ call'[w].retry => call[w].retry

LEMMA OnlyItsCall ==
    ASSUME TypeInv, NEW w \in Webhooks, Step(w) \/ Suppress(w) \/ CallFails(w)
    PROVE  /\ CallsOf(w)
           /\ call[w].at # "none"
           /\ cycle' = cycle
PROOF
  <1> USE DEF TypeInv, TypeOK, CallsOf
  <1>1. ~NoCall.retry
    BY DEF NoCall
  <1>2. CASE LookUp(w) \/ AllChecked(w) \/ Suppress(w) \/ CallFails(w)
    BY <1>1, <1>2 DEF LookUp, AllChecked, Suppress, CallFails, GoTo, EndCall
  <1>3. CASE Store(w) \/ DeleteRow(w)
    BY <1>1, <1>3 DEF Store, DeleteRow, EndCall
  <1>4. CASE Match(w) \/ Check(w)
    BY <1>4 DEF Match, Check
  <1>5. CASE Insert(w)
    BY <1>5 DEF Insert
  <1>6. CASE Deliver(w)
    BY <1>1, <1>6 DEF Deliver, GoTo, EndCall
  <1> QED BY <1>2, <1>3, <1>4, <1>5, <1>6 DEF Step

LEMMA OverlapStep ==
    TypeInv /\ CyclesDoNotOverlap /\ [Next]_vars => CyclesDoNotOverlap'
PROOF
  <1> SUFFICES ASSUME TypeInv, CyclesDoNotOverlap, [Next]_vars,
                      cycle' \in {"off", "reading"}, NEW v \in Webhooks
               PROVE  ~Retrying(v)'
    BY DEF CyclesDoNotOverlap
  <1> USE DEF Retrying
  <1>1. CASE UNCHANGED vars
    BY <1>1 DEF vars, CyclesDoNotOverlap
  <1>2. ASSUME NEW w \in Webhooks, Step(w) \/ Suppress(w) \/ CallFails(w)
        PROVE  ~Retrying(v)'
    BY <1>2, OnlyItsCall DEF CyclesDoNotOverlap, CallsOf
  <1>3. ASSUME NEW w \in Webhooks, Receive(w) PROVE ~Retrying(v)'
    BY <1>3 DEF Receive, NoCall, CyclesDoNotOverlap, TypeInv, TypeOK
  <1>4. ASSUME NEW w \in Webhooks, Expire(w) PROVE ~Retrying(v)'
    BY <1>4 DEF Expire, CyclesDoNotOverlap
  <1>5. ASSUME NEW u \in Users, Watch(u) PROVE ~Retrying(v)'
    BY <1>5 DEF Watch, CyclesDoNotOverlap
  <1>6. CASE StartCycle \/ CleanupExpired \/ EndCycle
    BY <1>6 DEF StartCycle, CleanupExpired, EndCycle, CyclesDoNotOverlap
  <1>7. CASE ReadRows
    BY <1>7 DEF ReadRows
  <1>8. CASE Crash
    BY <1>8 DEF Crash, NoCall
  <1> QED BY <1>1, <1>2, <1>3, <1>4, <1>5, <1>6, <1>7, <1>8 DEF Next

\* Two retry cycles never handle rows at once (the finally block of
\* processPendingWebhooks resets the flag after Promise.allSettled).
THEOREM CyclesSeparate == Spec => []CyclesDoNotOverlap
PROOF
  <1>1. Init => CyclesDoNotOverlap
    BY DEF Init, CyclesDoNotOverlap, Retrying, NoCall
  <1> QED BY <1>1, TypeInvariance, OverlapStep, PTL DEF Spec

-----------------------------------------------------------------------------
LEMMA InitLicensed == Init => Licensed
BY DEF Init, Licensed, WillTell, NoCall

\* Where no call gains a recipient and no count changes, licences are kept.
LEMMA QuietKeeps ==
    ASSUME Licensed, UNCHANGED <<records, told>>,
           \A w \in Webhooks, u \in Users : WillTell(w, u)' => WillTell(w, u)
    PROVE  Licensed'
BY DEF Licensed

LEMMA LicensedStep ==
    ASSUME kind = "episode", TypeInv, Licensed, [Next]_vars
    PROVE  Licensed'
PROOF
  <1> USE DEF TypeInv, TypeOK
  <1>1. CASE UNCHANGED vars
    BY <1>1, QuietKeeps DEF vars, WillTell
  <1>2. ASSUME NEW w \in Webhooks,
               UNCHANGED <<records, told>>,
               \A v \in Webhooks \ {w} : call'[v] = call[v],
               call[w].at # "deleting",
               call'[w].tell \subseteq call[w].tell
        PROVE  Licensed'
    <2>1. ASSUME NEW v \in Webhooks, NEW u \in Users, WillTell(v, u)'
          PROVE  WillTell(v, u)
      BY <1>2, <2>1 DEF WillTell
    <2> QED BY <1>2, <2>1, QuietKeeps
  <1>3. ASSUME NEW w \in Webhooks,
               \/ LookUp(w) \/ Store(w) \/ AllChecked(w) \/ Match(w)
               \/ Suppress(w) \/ CallFails(w)
        PROVE  Licensed'
    <2>1. UNCHANGED <<records, told>>
      BY <1>3 DEF LookUp, Store, AllChecked, Suppress, CallFails, Match
    <2>2. CASE AllChecked(w) \/ Match(w)
      BY <1>2, <2>1, <2>2 DEF AllChecked, GoTo, Match
    <2>3. CASE LookUp(w) \/ Store(w) \/ Suppress(w) \/ CallFails(w)
      <3>1. /\ \A v \in Webhooks \ {w} : call'[v] = call[v]
            /\ call'[w].tell \subseteq call[w].tell
            /\ call[w].at # "deleting"
        BY <2>3 DEF LookUp, Store, Suppress, CallFails, GoTo, EndCall, NoCall
      <3> QED BY <1>2, <2>1, <3>1
    <2> QED BY <1>3, <2>2, <2>3
  <1>4. ASSUME NEW w \in Webhooks, Receive(w) \/ DeleteRow(w) PROVE Licensed'
    <2>1. /\ UNCHANGED <<records, told>>
          /\ \A v \in Webhooks \ {w} : call'[v] = call[v]
          /\ call'[w].tell = {}
      BY <1>4 DEF Receive, DeleteRow, EndCall, NoCall
    <2>2. ASSUME NEW v \in Webhooks, NEW u \in Users, WillTell(v, u)'
          PROVE  WillTell(v, u)
      BY <2>1, <2>2 DEF WillTell
    <2> QED BY <2>1, <2>2, QuietKeeps
  <1>5. ASSUME NEW w \in Webhooks, Insert(w) PROVE Licensed'
    <2> DEFINE u == call[w].who
    <2>1. call[w].at = "inserting" /\ u \in Users /\ UNCHANGED told
      BY <1>5 DEF Insert, WhoOk
    <2>2. \A v \in Webhooks \ {w} : call'[v] = call[v]
      BY <1>5 DEF Insert
    <2>3. \/ ~Conflicts(u) /\ records' = [records EXCEPT ![u] = @ + 1]
             /\ call'[w].tell = call[w].tell \cup {u}
          \/ records' = records /\ call'[w].tell = call[w].tell
      BY <1>5, <2>1 DEF Insert
    <2>4. CASE records' = records /\ call'[w].tell = call[w].tell
      BY <1>2, <2>1, <2>2, <2>4
    <2>5. CASE ~Conflicts(u) /\ records' = [records EXCEPT ![u] = @ + 1]
               /\ call'[w].tell = call[w].tell \cup {u}
      <3>0. records[u] = 0
        BY <2>1, <2>5 DEF Conflicts
      <3> HIDE DEF u
      <3>1. told[u] = 0 /\ \A v \in Webhooks : ~WillTell(v, u)
        BY <2>1, <3>0 DEF Licensed
      <3>2. ASSUME NEW v \in Webhooks, NEW x \in Users, WillTell(v, x)'
            PROVE  WillTell(v, x) \/ (v = w /\ x = u)
        BY <2>1, <2>2, <2>5, <3>2 DEF WillTell, u
      <3>3. /\ records'[u] = 1 /\ told'[u] = 0
            /\ \A x \in Users \ {u} : records'[x] = records[x] /\ told'[x] = told[x]
        BY <2>1, <2>5, <3>0, <3>1
      <3>4. \A x \in Users : records'[x] <= 1 /\ told'[x] <= records'[x]
        BY <3>3 DEF Licensed
      <3>5. \A x \in Users, v \in Webhooks : WillTell(v, x)' => records'[x] = 1 /\ told'[x] = 0
        BY <3>2, <3>3 DEF Licensed
      <3>6. \A x \in Users, v \in Webhooks, z \in Webhooks :
              WillTell(v, x)' /\ WillTell(z, x)' => v = z
        BY <3>1, <3>2 DEF Licensed
      <3> QED BY <3>4, <3>5, <3>6 DEF Licensed
    <2> QED BY <2>3, <2>4, <2>5
  <1>6. ASSUME NEW w \in Webhooks, Deliver(w) PROVE Licensed'
    <2>1. PICK T \in SUBSET call[w].tell :
            told' = [u \in Users |-> IF u \in T THEN told[u] + 1 ELSE told[u]]
      BY <1>6 DEF Deliver
    <2>2. call[w].at = "sending" /\ UNCHANGED records
      BY <1>6 DEF Deliver
    <2>3. /\ \A v \in Webhooks \ {w} : call'[v] = call[v]
          /\ \A u \in Users : ~WillTell(w, u)'
      BY <1>6 DEF Deliver, GoTo, EndCall, NoCall, WillTell
    <2>4. \A u \in T : u \in Users /\ WillTell(w, u) /\ records[u] = 1 /\ told[u] = 0
      BY <2>1, <2>2 DEF WillTell, Licensed
    <2>5. ASSUME NEW v \in Webhooks, NEW u \in Users, WillTell(v, u)'
          PROVE  WillTell(v, u) /\ v # w /\ u \notin T
      <3>1. WillTell(v, u) /\ v # w
        BY <2>3, <2>5 DEF WillTell
      <3> QED BY <2>4, <3>1 DEF Licensed
    <2>6. \A u \in Users : told'[u] <= records'[u] /\ (u \notin T => told'[u] = told[u])
      BY <2>1, <2>2, <2>4 DEF Licensed
    <2> QED BY <2>2, <2>5, <2>6 DEF Licensed
  <1>7. ASSUME NEW w \in Webhooks, Expire(w) PROVE Licensed'
    BY <1>7, QuietKeeps DEF Expire, WillTell
  <1>8. ASSUME NEW u \in Users, Watch(u) PROVE Licensed'
    BY <1>8, QuietKeeps DEF Watch, WillTell
  <1>9. CASE StartCycle \/ CleanupExpired \/ EndCycle
    BY <1>9, QuietKeeps DEF StartCycle, CleanupExpired, EndCycle, WillTell
  <1>10. CASE ReadRows
    BY <1>10, QuietKeeps DEF ReadRows, NoCall, WillTell
  <1>11. CASE Crash
    BY <1>11, QuietKeeps DEF Crash, NoCall, WillTell
  <1>12. ASSUME NEW w \in Webhooks, Check(w) PROVE Licensed'
    <2>1. PICK u \in call[w].todo :
            call' = IF records[u] > 0
                    THEN [call EXCEPT ![w].todo = @ \ {u}]
                    ELSE [call EXCEPT ![w].at = "inserting", ![w].who = u]
      BY <1>12 DEF Check
    <2>2. /\ \A v \in Webhooks \ {w} : call'[v] = call[v]
          /\ call'[w].tell = call[w].tell
      BY <2>1
    <2>3. call[w].at = "checking" /\ UNCHANGED <<records, told>>
      BY <1>12 DEF Check
    <2> QED BY <1>2, <2>2, <2>3
  <1> QED BY <1>1, <1>3, <1>4, <1>5, <1>6, <1>7, <1>8, <1>9, <1>10, <1>11, <1>12
          DEF Next, Step

\* What the webhooks name never changes.
LEMMA KindKept == [Next]_vars => UNCHANGED kind
BY DEF Next, Step, vars, Watch, Receive, LookUp, Store, Match, Check, Insert,
       AllChecked, Deliver, DeleteRow, Suppress, CallFails, Expire, StartCycle,
       ReadRows, EndCycle, CleanupExpired, Crash

\* For an episode, each user's notification is sent at most once, whatever
\* webhooks, retries, failures and restarts interleave (hasActiveNotification
\* and the unique index behind createNotificationRecord's onConflict).
THEOREM EpisodeToldOnce == Spec => []ToldOnce
PROOF
  <1> DEFINE Inv == kind = "episode" => Licensed
  <1>1. Init => Inv
    BY InitLicensed
  <1>2. [Next]_vars => UNCHANGED kind
    BY KindKept
  <1>3. TypeInv /\ Inv /\ [Next]_vars => Inv'
    BY <1>2, LicensedStep
  <1>4. TypeInv /\ Inv => ToldOnce
    BY DEF TypeInv, TypeOK, Licensed, ToldOnce
  <1> QED BY <1>1, <1>3, <1>4, TypeInvariance, PTL DEF Spec

\* createNotificationRecord's "the insertion is ignored" holds of an episode: its
\* key has no null, and the unique index keeps one active record a user.
THEOREM EpisodeRecordedOnce == Spec => [](kind = "episode" => RecordedOnce)
PROOF
  <1> DEFINE Inv == kind = "episode" => Licensed
  <1>1. Init => Inv
    BY InitLicensed
  <1>2. TypeInv /\ Inv /\ [Next]_vars => Inv'
    BY KindKept, LicensedStep
  <1>3. Inv => (kind = "episode" => RecordedOnce)
    BY DEF Licensed, RecordedOnce
  <1> QED BY <1>1, <1>2, <1>3, TypeInvariance, PTL DEF Spec

-----------------------------------------------------------------------------
\* Somebody has a record of the notification, or a record could not be made.
Recorded == (\E u \in Users : records[u] > 0) \/ "inserting" \in failed

\* A call matches only content that somebody watches; and once no user is left
\* to check, somebody has been recorded.
CallAnswered(w) ==
    /\ call[w].at = "matching" => watching # {}
    /\ call[w].at \in {"sending", "deleting"} => Recorded
    /\ call[w].at = "checking" /\ call[w].todo = {} => Recorded

Answered == \A w \in Webhooks : CallAnswered(w)

\* Watchers, records and failures only accumulate.
LEMMA RecordsGrow ==
    ASSUME TypeInv, [Next]_vars
    PROVE  /\ Recorded => Recorded'
           /\ watching # {} => watching' # {}
PROOF
  <1> USE DEF TypeInv, TypeOK
  <1>1. ASSUME UNCHANGED <<records, watching>>, failed \subseteq failed'
        PROVE  (Recorded => Recorded') /\ (watching # {} => watching' # {})
    BY <1>1 DEF Recorded
  <1>2. CASE UNCHANGED vars
    BY <1>1, <1>2 DEF vars
  <1>3. ASSUME NEW u \in Users, Watch(u)
        PROVE  (Recorded => Recorded') /\ (watching # {} => watching' # {})
    BY <1>3 DEF Watch, Recorded
  <1>4. ASSUME NEW w \in Webhooks, Insert(w)
        PROVE  (Recorded => Recorded') /\ (watching # {} => watching' # {})
    <2>1. call[w].who \in Users /\ UNCHANGED watching /\ failed \subseteq failed'
      BY <1>4 DEF Insert, WhoOk, Works, Fails
    <2>2. \A u \in Users : records[u] > 0 => records'[u] > 0
      BY <1>4, <2>1 DEF Insert
    <2> QED BY <2>1, <2>2 DEF Recorded
  <1>5. ASSUME NEW w \in Webhooks,
               \/ LookUp(w) \/ AllChecked(w) \/ Match(w) \/ Check(w) \/ Suppress(w)
               \/ Receive(w) \/ Expire(w)
        PROVE  (Recorded => Recorded') /\ (watching # {} => watching' # {})
    BY <1>1, <1>5
    DEF LookUp, AllChecked, Match, Check, Suppress, Receive, Expire
  <1>6. ASSUME NEW w \in Webhooks, Store(w) \/ Deliver(w) \/ DeleteRow(w) \/ CallFails(w)
        PROVE  (Recorded => Recorded') /\ (watching # {} => watching' # {})
    BY <1>1, <1>6 DEF Store, Deliver, DeleteRow, CallFails, Works, Fails
  <1>7. CASE StartCycle \/ ReadRows \/ EndCycle \/ CleanupExpired \/ Crash
    BY <1>1, <1>7
    DEF StartCycle, ReadRows, EndCycle, CleanupExpired, Crash, Works, Fails
  <1> QED BY <1>2, <1>3, <1>4, <1>5, <1>6, <1>7 DEF Next, Step

\* A call that ends, waits or has just begun claims nothing.
LEMMA EarlyClaimsNothing ==
    ASSUME NEW w \in Webhooks,
           call'[w].at \in {"none", "lookup", "storing", "inserting"}
    PROVE  CallAnswered(w)'
BY DEF CallAnswered

\* A call that the step leaves alone goes on claiming what it did.
LEMMA OthersAnswered ==
    ASSUME TypeInv, Answered, [Next]_vars, NEW w \in Webhooks, call'[w] = call[w]
    PROVE  CallAnswered(w)'
PROOF
  <1>1. CallAnswered(w)
    BY DEF Answered
  <1> QED BY <1>1, RecordsGrow DEF CallAnswered

\* The call that takes a step has claimed what the step needs.
LEMMA OwnAnswered ==
    ASSUME TypeInv, Answered, NEW w \in Webhooks, [Next]_vars,
           Step(w) \/ Suppress(w) \/ CallFails(w)
    PROVE  CallAnswered(w)'
PROOF
  <1> USE DEF TypeInv, TypeOK
  <1>0. NoCall.at = "none" /\ CallAnswered(w)
    BY DEF NoCall, Answered
  <1>1. CASE LookUp(w)
    BY <1>0, <1>1 DEF LookUp, GoTo, EndCall, CallAnswered
  <1>2. CASE Store(w) \/ Suppress(w) \/ CallFails(w) \/ DeleteRow(w)
    BY <1>0, <1>2, EarlyClaimsNothing DEF Store, Suppress, CallFails, DeleteRow, EndCall
  <1>3. CASE Match(w)
    BY <1>0, <1>3 DEF Match, CallAnswered
  <1>4. CASE Check(w)
    <2>1. PICK u \in call[w].todo :
            call' = IF records[u] > 0
                    THEN [call EXCEPT ![w].todo = @ \ {u}]
                    ELSE [call EXCEPT ![w].at = "inserting", ![w].who = u]
      BY <1>4 DEF Check
    <2>2. CASE records[u] > 0
      <3>1. Recorded
        BY <2>1, <2>2 DEF Recorded
      <3>2. call'[w].at = "checking"
        BY <1>4, <2>1, <2>2 DEF Check
      <3> QED BY <3>1, <3>2, RecordsGrow DEF CallAnswered
    <2>3. CASE ~(records[u] > 0)
      BY <2>1, <2>3, EarlyClaimsNothing
    <2> QED BY <2>2, <2>3
  <1>5. CASE Insert(w)
    <2>1. call[w].who \in Users
      BY <1>5 DEF Insert, WhoOk
    <2>2. call'[w].at = "checking"
      BY <1>5 DEF Insert
    <2>3. Recorded'
      BY <1>5, <2>1 DEF Insert, Recorded, Conflicts, Fails, Works
    <2> QED BY <2>2, <2>3 DEF CallAnswered
  <1>6. CASE AllChecked(w)
    <2>1. Recorded
      BY <1>0, <1>6 DEF AllChecked, CallAnswered
    <2>2. call'[w].at = "sending"
      BY <1>6 DEF AllChecked, GoTo
    <2> QED BY <2>1, <2>2, RecordsGrow DEF CallAnswered
  <1>7. CASE Deliver(w)
    <2>1. Recorded
      BY <1>0, <1>7 DEF Deliver, CallAnswered
    <2>2. call'[w].at \in {"deleting", "none"}
      BY <1>0, <1>7 DEF Deliver, GoTo, EndCall
    <2> QED BY <2>1, <2>2, RecordsGrow DEF CallAnswered
  <1> QED BY <1>1, <1>2, <1>3, <1>4, <1>5, <1>6, <1>7 DEF Step

LEMMA AnsweredStep == TypeInv /\ Answered /\ [Next]_vars => Answered'
PROOF
  <1> SUFFICES ASSUME TypeInv, Answered, [Next]_vars, NEW v \in Webhooks
               PROVE  CallAnswered(v)'
    BY DEF Answered
  <1> USE DEF TypeInv, TypeOK
  <1>1. CASE call' = call
    BY <1>1, OthersAnswered
  <1>2. ASSUME NEW w \in Webhooks, Step(w) \/ Suppress(w) \/ CallFails(w)
        PROVE  CallAnswered(v)'
    BY <1>2, OwnAnswered, OnlyItsCall, OthersAnswered DEF CallsOf
  <1>3. ASSUME NEW w \in Webhooks, Receive(w) PROVE CallAnswered(v)'
    <2>1. call'[v] = call[v] \/ call'[v].at = "lookup"
      BY <1>3 DEF Receive, NoCall
    <2> QED BY <2>1, OthersAnswered, EarlyClaimsNothing
  <1>4. CASE ReadRows
    <2>1. call'[v] = call[v] \/ call'[v].at = "lookup"
      BY <1>4 DEF ReadRows, NoCall
    <2> QED BY <2>1, OthersAnswered, EarlyClaimsNothing
  <1>5. CASE Crash
    BY <1>5, EarlyClaimsNothing DEF Crash, NoCall
  <1>6. \/ call' = call \/ ReadRows \/ Crash
        \/ \E w \in Webhooks : Receive(w) \/ Step(w) \/ Suppress(w) \/ CallFails(w)
    BY DEF Next, vars, Watch, Expire, StartCycle, EndCycle, CleanupExpired
  <1> QED BY <1>1, <1>2, <1>3, <1>4, <1>5, <1>6

\* Only the delete at the end of a retry takes a row that has not expired.
LEMMA OnlyDeleteTakes ==
    ASSUME TypeInv, [Next]_vars, NEW w \in Webhooks, row[w] = "live", row'[w] = "none"
    PROVE  call[w].at = "deleting"
PROOF
  <1> USE DEF TypeInv, TypeOK
  <1>1. ASSUME NEW v \in Webhooks, DeleteRow(v) PROVE call[w].at = "deleting"
    BY <1>1 DEF DeleteRow
  <1>2. CASE CleanupExpired
    BY <1>2 DEF CleanupExpired
  <1>3. ASSUME NEW v \in Webhooks, Store(v) \/ Expire(v) PROVE FALSE
    BY <1>3 DEF Store, Expire
  <1>4. \/ row' = row \/ CleanupExpired
        \/ \E v \in Webhooks : DeleteRow(v) \/ Store(v) \/ Expire(v)
    BY DEF Next, Step, vars, Watch, Receive, LookUp, Match, Check, Insert,
           AllChecked, Deliver, Suppress, CallFails, StartCycle, ReadRows,
           EndCycle, Crash
  <1> QED BY <1>1, <1>2, <1>3, <1>4

\* A stored webhook outlives every failure and restart until it expires, somebody
\* has a record of its notification, or a record could not be inserted
\* (processPendingWebhooks deletes the row only after sendMediaAvailable).
THEOREM RowsKept == Spec => KeptUntilRecorded
PROOF
  <1> DEFINE A == \A w \in Webhooks :
                    row[w] = "live" /\ row'[w] = "none" =>
                        (\E u \in Users : records[u] > 0) \/ "inserting" \in failed
  <1>1. Init => Answered
    BY DEF Init, Answered, CallAnswered, NoCall
  <1>2. TypeInv /\ Answered /\ [Next]_vars => A
    BY OnlyDeleteTakes DEF Answered, CallAnswered, Recorded
  <1>3. TypeInv /\ Answered /\ [Next]_vars => [A]_vars
    BY <1>2
  <1> QED BY <1>1, <1>3, TypeInvariance, AnsweredStep, PTL DEF Spec, KeptUntilRecorded

=============================================================================
