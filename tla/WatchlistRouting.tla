-------------------------- MODULE WatchlistRouting --------------------------
(***************************************************************************)
(* From a Plex watchlist to the content router, in ETag mode: the          *)
(* staggered poller with its baselines (plex-watchlist/etag/               *)
(* etag-poller.ts, watchlist-workflow/etag/), the deferred routing queue   *)
(* with its timer (deferred-routing-queue.service.ts) and the full         *)
(* reconciliation, at startup and from its periodic job                    *)
(* (watchlist-workflow.service.ts, watchlist-workflow/orchestration/).     *)
(*                                                                         *)
(* The three run concurrently, one action per await.  An outage of an      *)
(* instance or of the Plex server may come between any two of them: what   *)
(* a health check answered may be stale when it is used.  The setting      *)
(* skipIfExistsOnPlex is on.  Watchlists only grow, and the set of users   *)
(* is fixed.  What the database holds survives a restart.                  *)
(***************************************************************************)
EXTENDS Integers, FiniteSets, Sequences

CONSTANTS
    Users,         \* the users with a watchlist
    Items,         \* what they may put on it
    OnPlex,        \* the items a Plex library has already
    Drains,        \* bound: runs of the queue's timer that may overlap
    MaxOutages,    \* bound: outages of the instances or of the Plex server
    MaxFaults,     \* bound: failing queries, fetches and additions
    MaxRestarts,   \* bound: restarts of the process
    CalmOutages,   \* do outages begin only while nobody acts on a health check?
    None           \* no user, no item

Pairs == Users \X Items
Entries == [user : Users, items : (SUBSET Items) \ {{}}]

ASSUME RoutingAssumption ==
    /\ None \notin Users /\ None \notin Items
    /\ OnPlex \subseteq Items
    /\ MaxOutages \in Nat /\ MaxFaults \in Nat /\ MaxRestarts \in Nat
    /\ CalmOutages \in BOOLEAN

VARIABLES
    watched,    \* Plex: the watchlist of each user
    arrUp,      \* are all Sonarr and Radarr instances healthy?
    plexUp,     \* is the Plex server reachable?
    saved,      \* watchlist_items of each user
    routed,     \* what the content router was given
    status,     \* of the workflow: "stopped", "starting", "running"
    job,        \* is the periodic job scheduled?
    sync,       \* the full reconciliation
    baseline,   \* EtagPoller.cache: the items last seen of each user
    poll,       \* the user check of the staggered poller
    queue,      \* DeferredRoutingQueue.queue
    drain,      \* the runs of checkHealthAndDrain
    deferred,   \* history: the pairs enqueued and not tried yet
    missed,     \* history: unsaved pairs in a baseline that was taken anew, or
                \* whose check failed
    bounds      \* how many outages, faults and restarts there were

env == <<watched, arrUp, plexUp>>
history == <<deferred, missed>>
vars == <<env, saved, routed, status, job, sync, baseline, poll, queue, drain,
          history, bounds>>

NoBaseline == {None}
NoSync == [at |-> "off", first |-> FALSE, users |-> {}, pairs |-> {}]
NoPoll == [at |-> "idle", user |-> None, seen |-> NoBaseline, items |-> {}, healthy |-> FALSE]
NoDrain == [at |-> "idle", todo |-> <<>>, left |-> {}]

Of(u, is) == {<<u, i>> : i \in is}

Init ==
    /\ watched \in [Users -> SUBSET Items]
    /\ arrUp = TRUE /\ plexUp = TRUE
    /\ saved = [u \in Users |-> {}]
    /\ routed = {}
    /\ status = "stopped"
    /\ job = FALSE
    /\ sync = NoSync
    /\ baseline = [u \in Users |-> NoBaseline]
    /\ poll = NoPoll
    /\ queue = <<>>
    /\ drain = [d \in Drains |-> NoDrain]
    /\ deferred = {} /\ missed = {}
    /\ bounds = [outages |-> 0, faults |-> 0, restarts |-> 0]

\* A query, a fetch or an addition fails.
Fault ==
    /\ bounds.faults < MaxFaults
    /\ bounds' = [bounds EXCEPT !.faults = @ + 1]

-----------------------------------------------------------------------------
\* What is outside the process.
Watch(u, i) ==
    /\ i \notin watched[u]
    /\ watched' = [watched EXCEPT ![u] = @ \cup {i}]
    /\ UNCHANGED <<arrUp, plexUp, saved, routed, status, job, sync, baseline, poll, queue,
                   drain, history, bounds>>

ActingOnHealth ==
    \/ poll.at \in {"lookup", "save", "route"}
    \/ sync.at = "route"
    \/ \E d \in Drains : drain[d].at \in {"entry", "route"}

Outage ==
    /\ bounds.outages < MaxOutages
    /\ CalmOutages => ~ActingOnHealth
    /\ \/ arrUp /\ arrUp' = FALSE /\ plexUp' = plexUp
       \/ plexUp /\ plexUp' = FALSE /\ arrUp' = arrUp
    /\ bounds' = [bounds EXCEPT !.outages = @ + 1]
    /\ UNCHANGED <<watched, saved, routed, status, job, sync, baseline, poll, queue, drain,
                   history>>

Recovery ==
    /\ \/ ~arrUp /\ arrUp' = TRUE /\ plexUp' = plexUp
       \/ ~plexUp /\ plexUp' = TRUE /\ arrUp' = arrUp
    /\ UNCHANGED <<watched, saved, routed, status, job, sync, baseline, poll, queue, drain,
                   history, bounds>>

\* The process restarts: the database stays, and the scheduled job in it is
\* removed when the workflow starts.
Restart ==
    /\ status # "stopped" /\ bounds.restarts < MaxRestarts
    /\ bounds' = [bounds EXCEPT !.restarts = @ + 1]
    /\ status' = "stopped"
    /\ job' = FALSE
    /\ sync' = NoSync
    /\ baseline' = [u \in Users |-> NoBaseline]
    /\ poll' = NoPoll
    /\ queue' = <<>>
    /\ drain' = [d \in Drains |-> NoDrain]
    /\ deferred' = {} /\ missed' = {}
    /\ UNCHANGED <<env, saved, routed>>

-----------------------------------------------------------------------------
\* routeShow, routeMovie for one pair: without instances the item is skipped,
\* and so is one the Plex server is seen to have.  A server that does not
\* answer is taken to have nothing.
Route(p) ==
    /\ routed' = IF arrUp /\ ~(p[2] \in OnPlex /\ plexUp) THEN routed \cup {p} ELSE routed
    /\ bounds' = bounds

\* An error in it is logged by the loop over the items, which goes on.
RouteFails == Fault /\ routed' = routed

Try(p) ==
    /\ Route(p) \/ RouteFails
    /\ deferred' = deferred \ {p}

-----------------------------------------------------------------------------
\* The full reconciliation.

\* startWorkflow: a fresh queue, a default schedule for the job, and the
\* baselines before the first reconciliation.
Start ==
    /\ status = "stopped"
    /\ status' = "starting"
    /\ job' = TRUE
    /\ queue' = <<>>
    /\ sync' = [NoSync EXCEPT !.at = "prime", !.first = TRUE, !.users = Users]
    /\ UNCHANGED <<env, saved, routed, baseline, poll, drain, history, bounds>>

\* The periodic job does nothing unless the workflow is running.
JobTick ==
    /\ job /\ status = "running"
    /\ job' = FALSE
    /\ sync' = [NoSync EXCEPT !.at = "fetch", !.users = Users]
    /\ UNCHANGED <<env, saved, routed, status, baseline, poll, queue, drain, history, bounds>>

\* The next user of a stage that visits them all; after the last one the
\* reconciliation goes to stage at.
Visited(u, at) ==
    IF sync.users = {u} THEN [sync EXCEPT !.at = at, !.users = Users]
    ELSE [sync EXCEPT !.users = @ \ {u}]

\* establishPrimaryBaseline, establishFriendBaseline: a failed request is
\* logged and leaves the cache.
TakeBaseline(u) ==
    \/ /\ baseline' = [baseline EXCEPT ![u] = watched[u]]
       /\ missed' = missed \cup Of(u, watched[u] \ saved[u])
       /\ bounds' = bounds
    \/ Fault /\ UNCHANGED <<baseline, missed>>

Prime(u) ==
    /\ sync.at = "prime" /\ u \in sync.users
    /\ TakeBaseline(u)
    /\ sync' = Visited(u, "fetch")
    /\ UNCHANGED <<env, saved, routed, status, job, poll, queue, drain, deferred>>

\* getSelfWatchlist, getOthersWatchlists: a user whose watchlist cannot be
\* fetched keeps the rows the database has.
Fetch(u) ==
    /\ sync.at = "fetch" /\ u \in sync.users
    /\ job' = FALSE
    /\ \/ /\ saved' = [saved EXCEPT ![u] = @ \cup watched[u]]
          /\ missed' = missed \ Of(u, watched[u])
          /\ bounds' = bounds
       \/ Fault /\ UNCHANGED <<saved, missed>>
    /\ sync' = Visited(u, "health")
    /\ UNCHANGED <<env, routed, status, baseline, poll, queue, drain, deferred>>

\* Mutant: after an error the next periodic reconciliation is not scheduled.
SyncFailsForGood ==
    /\ sync.at \in {"fetch", "health"} /\ Fault
    /\ status' = IF sync.first THEN "stopped" ELSE status
    /\ sync' = NoSync
    /\ UNCHANGED <<env, saved, routed, job, baseline, poll, queue, drain, history>>

\* A reconciliation that throws is scheduled again; the first one also takes
\* the workflow down.
SyncFails ==
    /\ sync.at \in {"fetch", "health"} /\ Fault
    /\ job' = TRUE
    /\ status' = IF sync.first THEN "stopped" ELSE status
    /\ sync' = NoSync
    /\ UNCHANGED <<env, saved, routed, baseline, poll, queue, drain, history>>

\* syncWatchlistItems: nothing is routed unless everything is up.
Unrouted == {p \in Pairs : p[2] \in saved[p[1]]} \ routed

SyncHealth ==
    /\ sync.at = "health"
    /\ sync' = IF arrUp /\ plexUp /\ Unrouted # {}
               THEN [sync EXCEPT !.at = "route", !.pairs = Unrouted]
               ELSE [sync EXCEPT !.at = "baseline"]
    /\ UNCHANGED <<env, saved, routed, status, job, baseline, poll, queue, drain, history,
                   bounds>>

SyncRoute(p) ==
    /\ sync.at = "route" /\ p \in sync.pairs
    /\ Route(p) \/ RouteFails
    /\ sync' = [sync EXCEPT !.pairs = @ \ {p},
                            !.at = IF sync.pairs = {p} THEN "baseline" ELSE @]
    /\ UNCHANGED <<env, saved, status, job, baseline, poll, queue, drain, history>>

\* establishAllBaselines again, and the job's next date.
Rebase(u) ==
    /\ sync.at = "baseline" /\ u \in sync.users
    /\ TakeBaseline(u)
    /\ sync' = IF sync.users = {u} THEN NoSync ELSE [sync EXCEPT !.users = @ \ {u}]
    /\ job' = (sync.users = {u} \/ job)
    /\ status' = IF sync.users = {u} THEN "running" ELSE status
    /\ UNCHANGED <<env, saved, routed, poll, queue, drain, deferred>>

SyncStep ==
    \/ \E u \in Users : Prime(u) \/ Fetch(u) \/ Rebase(u)
    \/ SyncHealth
    \/ \E p \in Pairs : SyncRoute(p)

-----------------------------------------------------------------------------
\* The staggered poller, one user at a time.
PollStart(u) ==
    /\ status = "running" /\ poll.at = "idle"
    /\ poll' = [NoPoll EXCEPT !.at = "asked", !.user = u, !.seen = baseline[u]]
    /\ UNCHANGED <<env, saved, routed, status, job, sync, baseline, queue, drain, history,
                   bounds>>

\* checkPrimary, checkFriend: the answer is compared with the items the cache
\* held when the request was made; it replaces what the cache holds now.
PollAnswer ==
    LET u == poll.user
        new == IF poll.seen = NoBaseline THEN {} ELSE watched[u] \ poll.seen
    IN  /\ poll.at = "asked"
        /\ baseline' = [baseline EXCEPT ![u] = watched[u]]
        /\ missed' = IF poll.seen = NoBaseline THEN missed \cup Of(u, watched[u] \ saved[u])
                     ELSE missed
        /\ poll' = IF new = {} THEN NoPoll
                   ELSE [poll EXCEPT !.at = "health", !.items = new]
        /\ UNCHANGED <<env, saved, routed, status, job, sync, queue, drain, deferred, bounds>>

\* handleStaggeredPollResult: health first, for later.
PollHealth ==
    /\ poll.at = "health"
    /\ poll' = [poll EXCEPT !.at = "lookup", !.healthy = arrUp /\ plexUp]
    /\ UNCHANGED <<env, saved, routed, status, job, sync, baseline, queue, drain, history,
                   bounds>>

\* Mutant: the check goes on when every item was there already.
PollLookupAny ==
    /\ poll.at = "lookup"
    /\ poll' = [poll EXCEPT !.at = "save", !.items = @ \ saved[poll.user]]
    /\ UNCHANGED <<env, saved, routed, status, job, sync, baseline, queue, drain, history,
                   bounds>>

\* processItemsForUser: rows the user has already are left out.
PollLookup ==
    LET fresh == poll.items \ saved[poll.user]
    IN  /\ poll.at = "lookup"
        /\ poll' = IF fresh = {} THEN NoPoll
                   ELSE [poll EXCEPT !.at = "save", !.items = fresh]
        /\ UNCHANGED <<env, saved, routed, status, job, sync, baseline, queue, drain, history,
                       bounds>>

\* Mutant: while something is down the items are queued without their rows.
PollSaveHealthy ==
    /\ poll.at = "save"
    /\ IF poll.healthy
       THEN /\ saved' = [saved EXCEPT ![poll.user] = @ \cup poll.items]
            /\ missed' = missed \ Of(poll.user, poll.items)
            /\ poll' = [poll EXCEPT !.at = "route"]
            /\ UNCHANGED <<queue, deferred>>
       ELSE /\ queue' = Append(queue, [user |-> poll.user, items |-> poll.items])
            /\ deferred' = deferred \cup Of(poll.user, poll.items)
            /\ poll' = NoPoll
            /\ UNCHANGED <<saved, missed>>
    /\ UNCHANGED <<env, routed, status, job, sync, baseline, drain, bounds>>

\* The rows are inserted; the items are routed, or queued if something was down.
PollSave ==
    LET u == poll.user
        entry == [user |-> u, items |-> poll.items]
    IN  /\ poll.at = "save"
        /\ saved' = [saved EXCEPT ![u] = @ \cup poll.items]
        /\ missed' = missed \ Of(u, poll.items)
        /\ \/ /\ poll.healthy
              /\ poll' = [poll EXCEPT !.at = "route"]
              /\ UNCHANGED <<queue, deferred>>
           \/ /\ ~poll.healthy
              /\ queue' = Append(queue, entry)
              /\ deferred' = deferred \cup Of(u, poll.items)
              /\ poll' = NoPoll
        /\ UNCHANGED <<env, routed, status, job, sync, baseline, drain, bounds>>

PollRoute(i) ==
    /\ poll.at = "route" /\ i \in poll.items
    /\ Route(<<poll.user, i>>) \/ RouteFails
    /\ poll' = IF poll.items = {i} THEN NoPoll ELSE [poll EXCEPT !.items = @ \ {i}]
    /\ UNCHANGED <<env, saved, status, job, sync, baseline, queue, drain, history>>

\* Any other error ends the check of this user; the baseline stays ahead.
PollFails ==
    /\ poll.at # "idle" /\ Fault
    /\ poll' = NoPoll
    /\ missed' = missed \cup Of(poll.user, poll.items \ saved[poll.user])
    /\ UNCHANGED <<env, saved, routed, status, job, sync, baseline, queue, drain, deferred>>

PollStep == PollAnswer \/ PollHealth \/ PollLookup \/ PollSave \/ \E i \in Items : PollRoute(i)

-----------------------------------------------------------------------------
\* The deferred routing queue.  Its interval does not wait for the last run.
DrainTick(d) ==
    /\ status # "stopped" /\ drain[d].at = "idle" /\ queue # <<>>
    /\ drain' = [drain EXCEPT ![d].at = "health"]
    /\ UNCHANGED <<env, saved, routed, status, job, sync, baseline, poll, queue, history, bounds>>

\* Mutant: the queue is emptied only after the loop over its copy, so that
\* overlapping drains share entries.
DrainHealthKeeps(d) ==
    /\ drain[d].at = "health"
    /\ drain' = IF arrUp THEN [drain EXCEPT ![d].at = "entry", ![d].todo = queue]
                ELSE [drain EXCEPT ![d] = NoDrain]
    /\ UNCHANGED <<env, saved, routed, status, job, sync, baseline, poll, queue, history, bounds>>

\* The instances answer; the queue is copied and emptied.  Plex is not asked.
DrainHealth(d) ==
    /\ drain[d].at = "health"
    /\ \/ /\ arrUp
          /\ drain' = [drain EXCEPT ![d].at = "entry", ![d].todo = queue]
          /\ queue' = <<>>
       \/ /\ ~arrUp
          /\ drain' = [drain EXCEPT ![d] = NoDrain]
          /\ queue' = queue
    /\ UNCHANGED <<env, saved, routed, status, job, sync, baseline, poll, history, bounds>>

\* Mutant: an entry whose routing fails is not queued again.
DrainEntryDrops(d) ==
    /\ drain[d].at = "entry" /\ drain[d].todo # <<>>
    /\ \/ Fault /\ drain' = [drain EXCEPT ![d].todo = Tail(@)]
       \/ /\ drain' = [drain EXCEPT ![d].at = "route", ![d].left = Head(drain[d].todo).items]
          /\ bounds' = bounds
    /\ UNCHANGED <<env, saved, routed, status, job, sync, baseline, poll, queue, history>>

\* routeEnrichedItemsForUser: its first queries fail, and the entry is queued
\* again, or the items are visited.
DrainEntry(d) ==
    LET entry == Head(drain[d].todo)
    IN  /\ drain[d].at = "entry" /\ drain[d].todo # <<>>
        /\ \/ /\ Fault
              /\ queue' = Append(queue, entry)
              /\ drain' = [drain EXCEPT ![d].todo = Tail(@)]
           \/ /\ drain' = [drain EXCEPT ![d].at = "route", ![d].left = entry.items]
              /\ UNCHANGED <<queue, bounds>>
        /\ UNCHANGED <<env, saved, routed, status, job, sync, baseline, poll, history>>

DrainRoute(d, i) ==
    /\ drain[d].at = "route" /\ i \in drain[d].left
    /\ Try(<<Head(drain[d].todo).user, i>>)
    /\ drain' = [drain EXCEPT ![d] =
                    LET left == drain[d].left \ {i} IN
                    IF left = {} THEN [at |-> "entry", todo |-> Tail(drain[d].todo), left |-> {}]
                    ELSE [at |-> "route", todo |-> drain[d].todo, left |-> left]]
    /\ UNCHANGED <<env, saved, status, job, sync, baseline, poll, queue, missed>>

DrainEnd(d) ==
    /\ drain[d].at = "entry" /\ drain[d].todo = <<>>
    /\ drain' = [drain EXCEPT ![d] = NoDrain]
    /\ UNCHANGED <<env, saved, routed, status, job, sync, baseline, poll, queue, history, bounds>>

DrainStep(d) ==
    \/ DrainHealth(d) \/ DrainEntry(d) \/ DrainEnd(d)
    \/ \E i \in Items : DrainRoute(d, i)

-----------------------------------------------------------------------------
Next ==
    \/ \E u \in Users, i \in Items : Watch(u, i)
    \/ Outage \/ Recovery \/ Restart
    \/ Start \/ JobTick \/ SyncStep \/ SyncFails
    \/ \E u \in Users : PollStart(u)
    \/ PollStep \/ PollFails
    \/ \E d \in Drains : DrainTick(d) \/ DrainStep(d)

Spec == Init /\ [][Next]_vars

\* Timers fire, awaited calls return, and outages end.  Nobody has to start a
\* workflow that failed to start, and nobody has to change a watchlist.
Fairness ==
    /\ WF_vars(Recovery)
    /\ WF_vars(SyncStep) /\ WF_vars(JobTick)
    /\ WF_vars(PollStep)
    /\ \A d \in Drains : WF_vars(DrainTick(d)) /\ WF_vars(DrainStep(d))

FairSpec == Spec /\ Fairness

-----------------------------------------------------------------------------
\* Every variable has its type, and the parts of a record agree: who is visited
\* while visiting, what is routed while routing.
TypeOK ==
    /\ watched \in [Users -> SUBSET Items] /\ saved \in [Users -> SUBSET Items]
    /\ arrUp \in BOOLEAN /\ plexUp \in BOOLEAN /\ job \in BOOLEAN
    /\ routed \subseteq Pairs /\ deferred \subseteq Pairs /\ missed \subseteq Pairs
    /\ status \in {"stopped", "starting", "running"}
    /\ sync \in [at : {"off", "prime", "fetch", "health", "route", "baseline"},
                 first : BOOLEAN, users : SUBSET Users, pairs : SUBSET Pairs]
    /\ sync.at = "route" => sync.pairs # {}
    /\ baseline \in [Users -> (SUBSET Items) \cup {NoBaseline}]
    /\ poll \in [at : {"idle", "asked", "health", "lookup", "save", "route"},
                 user : Users \cup {None}, seen : (SUBSET Items) \cup {NoBaseline},
                 items : SUBSET Items, healthy : BOOLEAN]
    /\ poll.at # "idle" => poll.user \in Users
    /\ poll.items = {} <=> poll.at \in {"idle", "asked"}
    /\ queue \in Seq(Entries)
    /\ drain \in [Drains -> [at : {"idle", "health", "entry", "route"},
                             todo : Seq(Entries), left : SUBSET Items]]
    /\ \A d \in Drains : drain[d].at = "route" => drain[d].todo # <<>> /\ drain[d].left # {}
    /\ bounds \in [outages : 0 .. MaxOutages, faults : 0 .. MaxFaults,
                   restarts : 0 .. MaxRestarts]

\* Where a deferred pair is: in an entry of the queue, or of a drain.
Places(p) ==
    LET in(n, e, is) == p[1] = e[n].user /\ p[2] \in is
    IN  {<<"queue", n>> : n \in {n \in DOMAIN queue : in(n, queue, queue[n].items)}}
        \cup UNION {{<<d, n>> : n \in {n \in DOMAIN drain[d].todo :
                        in(n, drain[d].todo,
                           IF n = 1 /\ drain[d].at = "route" THEN drain[d].left
                           ELSE drain[d].todo[n].items)}} : d \in Drains}

\* What was deferred is in exactly one place until it is tried: overlapping
\* drains never share an entry, a drain that fails hands its entry back, and
\* what the poller appends while the queue is emptied stays (checkHealthAndDrain).
DeferredOnce ==
    \A p \in Pairs : Cardinality(Places(p)) = (IF p \in deferred THEN 1 ELSE 0)

\* The poller's cache runs ahead of the database only by what its check still
\* has in hand, by what failed, or by what a reconciliation took into a new
\* baseline: also when instances are down (handleStaggeredPollResult: 'ensures
\* items are persisted').
SeenIsSaved ==
    \A u \in Users : baseline[u] # NoBaseline =>
        \A i \in baseline[u] \ saved[u] :
            \/ <<u, i>> \in missed
            \/ poll.user = u /\ i \in poll.items

\* Whatever is on a watchlist is given to the router in the end, whatever
\* failed on the way and whatever the poller missed: unless the workflow is
\* left stopped, the periodic reconciliation catches it.
WatchedIsRouted ==
    <>[](status # "stopped") =>
        \A u \in Users, i \in Items \ OnPlex :
            i \in watched[u] ~> <<u, i>> \in routed

\* A deferred pair is tried once the instances are back, without waiting for a
\* reconciliation, or the process restarts.
DeferredIsTried == \A p \in Pairs : p \in deferred ~> p \notin deferred

\* With skipIfExistsOnPlex nothing a Plex library has is routed: 'If it's down,
\* existence checks would return "not found" for everything, causing
\* mass-routing' (sync-engine.ts:112), so that whoever routes checks it first.
OnPlexNotRouted == \A p \in routed : p[2] \notin OnPlex

=============================================================================
