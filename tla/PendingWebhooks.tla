--------------------------- MODULE PendingWebhooks ---------------------------
(***************************************************************************)
(* The webhooks of one movie or one episode, stored until somebody has it  *)
(* on a watchlist, and the notifications they end in                       *)
(* (webhook-queue/persistence/, notifications/orchestration/               *)
(* media-available.ts, database/methods/webhook.ts and notification.ts).   *)
(*                                                                         *)
(* Several webhooks may name the same content: it is imported on two       *)
(* instances, or upgraded.  A call is the handling of one webhook, by the  *)
(* handler of the request or by the retry cycle, one action per await.     *)
(* Rows and notification records are in the database and survive a crash.  *)
(***************************************************************************)
EXTENDS Integers, FiniteSets

CONSTANTS
    Webhooks,      \* the webhooks that name the content
    Users,         \* the users who may put it on their watchlist
    Kinds,         \* what the content may be: "movie", "episode"
    MaxFailures,   \* bound: queries and deliveries that fail
    MaxCrashes,    \* bound: restarts of the process
    Nobody         \* no user

ASSUME PendingAssumption ==
    /\ Nobody \notin Users
    /\ Kinds \subseteq {"movie", "episode"}
    /\ MaxFailures \in Nat /\ MaxCrashes \in Nat

VARIABLES
    kind,       \* what the webhooks name
    row,        \* pending_webhooks: the row of each webhook
    watching,   \* watchlist_items: the users watching the content
    records,    \* notifications: active records of each user for it
    call,       \* the call that handles each webhook
    cycle,      \* processPendingWebhooks (state.processingWebhooks)
    told,       \* history: messages delivered to each user
    received,   \* the webhooks that have come
    failed,     \* the calls, by stage, that have failed: each at most once
    crashes

vars == <<kind, row, watching, records, call, cycle, told, received, failed, crashes>>

NoCall == [at |-> "none", retry |-> FALSE, todo |-> {}, who |-> Nobody, tell |-> {}]
Stages == {"none", "lookup", "storing", "matching", "checking", "inserting",
           "sending", "deleting"}

Init ==
    /\ kind \in Kinds
    /\ row = [w \in Webhooks |-> "none"]
    /\ watching = {}
    /\ records = [u \in Users |-> 0]
    /\ call = [w \in Webhooks |-> NoCall]
    /\ cycle = "off"
    /\ told = [u \in Users |-> 0]
    /\ received = {}
    /\ failed = {}
    /\ crashes = 0

\* The call of w goes on to stage at.
GoTo(w, at) == call' = [call EXCEPT ![w].at = at]

EndCall(w) == call' = [call EXCEPT ![w] = NoCall]

\* The awaited call settles, or rejects.
Works == UNCHANGED failed
Fails(at) ==
    /\ at \notin failed /\ Cardinality(failed) < MaxFailures
    /\ failed' = failed \cup {at}

-----------------------------------------------------------------------------
\* A user adds the content to a watchlist (the watchlist workflow).
Watch(u) ==
    /\ u \notin watching
    /\ watching' = watching \cup {u}
    /\ UNCHANGED <<kind, row, records, call, cycle, told, received, failed, crashes>>

\* handleMovieWebhook, notifyOrQueueShow: a webhook comes.
Receive(w) ==
    /\ w \notin received
    /\ received' = received \cup {w}
    /\ call' = [call EXCEPT ![w] = [NoCall EXCEPT !.at = "lookup"]]
    /\ UNCHANGED <<kind, row, watching, records, cycle, told, failed, crashes>>

\* Whose watchlist has it?  Nobody's: the handler stores the webhook, a retry
\* leaves its row.
LookUp(w) ==
    /\ call[w].at = "lookup"
    /\ IF watching # {} THEN GoTo(w, "matching")
       ELSE IF call[w].retry THEN EndCall(w) ELSE GoTo(w, "storing")
    /\ UNCHANGED <<kind, row, watching, records, cycle, told, received, failed, crashes>>

\* shouldSuppressRadarrNotification: the movie is being copied between
\* instances, and only its status is updated.
Suppress(w) ==
    /\ call[w].at = "matching" /\ ~call[w].retry /\ kind = "movie"
    /\ EndCall(w)
    /\ UNCHANGED <<kind, row, watching, records, cycle, told, received, failed, crashes>>

\* Mutant: an invalid maximum age is used as it is, and the row never expires.
StoreForever(w) ==
    /\ call[w].at = "storing"
    /\ row' = [row EXCEPT ![w] = "forever"]
    /\ EndCall(w)
    /\ UNCHANGED <<kind, watching, records, cycle, told, received, failed, crashes>>

\* queuePendingWebhook: a failed insert is logged and forgotten.
Store(w) ==
    /\ call[w].at = "storing"
    /\ \/ Works /\ row' = [row EXCEPT ![w] = "live"]
       \/ Fails("storing") /\ UNCHANGED row
    /\ EndCall(w)
    /\ UNCHANGED <<kind, watching, records, cycle, told, received, crashes>>

-----------------------------------------------------------------------------
\* Mutant: the row goes as soon as somebody is found watching.
MatchDeletes(w) ==
    /\ call[w].at = "matching"
    /\ call' = [call EXCEPT ![w].at = "checking", ![w].todo = watching]
    /\ row' = [row EXCEPT ![w] = "none"]
    /\ UNCHANGED <<kind, watching, records, cycle, told, received, failed, crashes>>

\* sendMediaAvailable: it reads the watchlists again, then goes through the
\* users one by one (buildUserNotifications).
Match(w) ==
    /\ call[w].at = "matching"
    /\ call' = [call EXCEPT ![w].at = "checking", ![w].todo = watching]
    /\ UNCHANGED <<kind, row, watching, records, cycle, told, received, failed, crashes>>

\* hasActiveNotification: a user who has a record is passed over.
Check(w) ==
    /\ call[w].at = "checking"
    /\ \E u \in call[w].todo :
         call' = IF records[u] > 0
                 THEN [call EXCEPT ![w].todo = @ \ {u}]
                 ELSE [call EXCEPT ![w].at = "inserting", ![w].who = u]
    /\ UNCHANGED <<kind, row, watching, records, cycle, told, received, failed, crashes>>

\* Mutant: the insert has no ON CONFLICT, and no index stops it.
NeverConflicts(u) == FALSE

\* The unique index covers user, item, type, season and episode, and a null
\* differs from every null: only an episode's key can conflict.
Conflicts(u) == kind = "episode" /\ records[u] > 0

\* createNotificationRecord, in a transaction with the watchlist item: ignored
\* on conflict; on error the user is skipped.
Insert(w) ==
    LET u == call[w].who
        next(new) == call' = [call EXCEPT ![w].at = "checking", ![w].who = Nobody,
                                          ![w].todo = @ \ {u}, ![w].tell = @ \cup new]
    IN  /\ call[w].at = "inserting"
        /\ \/ /\ ~Conflicts(u) /\ Works
              /\ records' = [records EXCEPT ![u] = @ + 1]
              /\ next({u})
           \/ /\ (Conflicts(u) /\ Works) \/ Fails("inserting")
              /\ next({})
              /\ UNCHANGED records
        /\ UNCHANGED <<kind, row, watching, cycle, told, received, crashes>>

AllChecked(w) ==
    /\ call[w].at = "checking" /\ call[w].todo = {}
    /\ GoTo(w, "sending")
    /\ UNCHANGED <<kind, row, watching, records, cycle, told, received, failed, crashes>>

\* processIndividualNotification: a channel that fails is logged and passed over.
Deliver(w) ==
    /\ call[w].at = "sending"
    /\ \E T \in SUBSET call[w].tell :
         /\ IF T = call[w].tell THEN Works ELSE Fails("sending")
         /\ told' = [u \in Users |-> IF u \in T THEN told[u] + 1 ELSE told[u]]
    /\ IF call[w].retry THEN GoTo(w, "deleting") ELSE EndCall(w)
    /\ UNCHANGED <<kind, row, watching, records, cycle, received, crashes>>

\* deleteWebhookAndCount; a failed delete returns false and leaves the row.
DeleteRow(w) ==
    /\ call[w].at = "deleting"
    /\ \/ Works /\ row' = [row EXCEPT ![w] = "none"]
       \/ Fails("deleting") /\ UNCHANGED row
    /\ EndCall(w)
    /\ UNCHANGED <<kind, watching, records, cycle, told, received, crashes>>

\* A query of the call throws: the handler answers 500, a retry is caught.
CallFails(w) ==
    /\ call[w].at \in {"lookup", "matching", "checking"}
    /\ Fails(call[w].at)
    /\ EndCall(w)
    /\ UNCHANGED <<kind, row, watching, records, cycle, told, received, crashes>>

-----------------------------------------------------------------------------
\* processPendingWebhooks, from the scheduler or at boot.

StartCycle ==
    /\ cycle = "off"
    /\ cycle' = "reading"
    /\ UNCHANGED <<kind, row, watching, records, call, told, received, failed, crashes>>

Retrying(w) == call[w].retry /\ call[w].at # "none"

\* getPendingWebhooks: the rows that have not expired, all handled at once
\* (pLimit(5); a read of more than 50 rows is cut).  An error reads as none.
ReadRows ==
    /\ cycle = "reading"
    /\ cycle' = "running"
    /\ \/ /\ Works
          /\ call' = [w \in Webhooks |->
                        IF row[w] = "live"
                        THEN [NoCall EXCEPT !.at = "lookup", !.retry = TRUE] ELSE call[w]]
       \/ Fails("reading") /\ UNCHANGED call
    /\ UNCHANGED <<kind, row, watching, records, told, received, crashes>>

\* Mutant: the flag is reset only by a cycle that left no webhook behind.
EndCycleEmptied ==
    /\ cycle = "running" /\ \A w \in Webhooks : row[w] # "live"
    /\ \A w \in Webhooks : ~Retrying(w)
    /\ cycle' = "off"
    /\ UNCHANGED <<kind, row, watching, records, call, told, received, failed, crashes>>

\* The finally block: every call of the cycle has ended.
EndCycle ==
    /\ cycle = "running"
    /\ \A w \in Webhooks : ~Retrying(w)
    /\ cycle' = "off"
    /\ UNCHANGED <<kind, row, watching, records, call, told, received, failed, crashes>>

\* expires_at passes.
Expire(w) ==
    /\ row[w] = "live"
    /\ row' = [row EXCEPT ![w] = "expired"]
    /\ UNCHANGED <<kind, watching, records, call, cycle, told, received, failed, crashes>>

\* cleanupExpiredWebhooks: one statement.
CleanupExpired ==
    /\ \E w \in Webhooks : row[w] = "expired"
    /\ row' = [w \in Webhooks |-> IF row[w] = "expired" THEN "none" ELSE row[w]]
    /\ UNCHANGED <<kind, watching, records, call, cycle, told, received, failed, crashes>>

\* The process stops and starts again.
Crash ==
    /\ crashes < MaxCrashes
    /\ crashes' = crashes + 1
    /\ call' = [w \in Webhooks |-> NoCall]
    /\ cycle' = "off"
    /\ UNCHANGED <<kind, row, watching, records, told, received, failed>>

Step(w) ==
    \/ LookUp(w) \/ Store(w) \/ Match(w) \/ Check(w) \/ Insert(w)
    \/ AllChecked(w) \/ Deliver(w) \/ DeleteRow(w)

Next ==
    \/ \E u \in Users : Watch(u)
    \/ \E w \in Webhooks :
         Receive(w) \/ Step(w) \/ Suppress(w) \/ CallFails(w) \/ Expire(w)
    \/ StartCycle \/ ReadRows \/ EndCycle \/ CleanupExpired \/ Crash

Spec == Init /\ [][Next]_vars

\* The scheduler keeps starting cycles, and calls settle.  Nothing obliges a
\* webhook, a user, an expiry or a crash to come.
Fairness ==
    /\ WF_vars(StartCycle) /\ WF_vars(ReadRows) /\ WF_vars(EndCycle)
    /\ \A w \in Webhooks : WF_vars(Step(w))

FairSpec == Spec /\ Fairness

-----------------------------------------------------------------------------
TypeOK ==
    /\ kind \in Kinds
    /\ row \in [Webhooks -> {"none", "live", "expired"}]
    /\ watching \subseteq Users
    /\ records \in [Users -> Nat]
    /\ call \in [Webhooks -> [at : Stages, retry : BOOLEAN, todo : SUBSET Users,
                              who : Users \cup {Nobody}, tell : SUBSET Users]]
    /\ cycle \in {"off", "reading", "running"}
    /\ told \in [Users -> Nat]
    /\ received \subseteq Webhooks
    /\ failed \subseteq Stages \cup {"reading"}
    /\ crashes \in 0..MaxCrashes

\* Nobody gets the notification of an episode twice, whatever calls overlap and
\* wherever a crash falls (hasActiveNotification and the unique index).
ToldOnce == kind = "episode" => \A u \in Users : told[u] <= 1

\* createNotificationRecord: "If a notification with the same user, watchlist
\* item, type, season, episode, and status already exists, the insertion is
\* ignored".  It is not for a movie.
RecordedOnce == \A u \in Users : records[u] <= 1

\* A stored webhook is kept until it expires or until somebody has a record of
\* the notification: a crash before that leaves it for the next cycle.  A record
\* that cannot be inserted does not keep it: the user is skipped, and the retry
\* deletes the row of a webhook nobody was recorded for.
KeptUntilRecorded ==
    [][\A w \in Webhooks :
         row[w] = "live" /\ row'[w] = "none" =>
             (\E u \in Users : records[u] > 0) \/ "inserting" \in failed]_vars

\* While no retry cycle runs, no retry call does: the flag is reset only after
\* every call has ended, so that two cycles never handle the same row.
CyclesDoNotOverlap ==
    cycle \in {"off", "reading"} => \A w \in Webhooks : ~Retrying(w)

\* A webhook that is stored while somebody watches its content, or that finds a
\* watcher before it expires, ends with somebody told: lookups, reads of the
\* rows and deletes that fail are made good by a later cycle.  It is excused by
\* an insert that failed, and by a record whose message was lost: the channel
\* failed, the process stopped, or the check of the next user threw.
WatcherTold ==
    \A w \in Webhooks :
        (row[w] = "live" /\ watching # {}) ~>
            \/ (\E u \in Users : told[u] > 0) \/ row[w] = "expired"
            \/ "inserting" \in failed
            \/ /\ \E u \in Users : records[u] > 0
               /\ crashes > 0 \/ failed \cap {"checking", "sending"} # {}

=============================================================================
