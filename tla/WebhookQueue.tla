---------------------------- MODULE WebhookQueue ----------------------------
(***************************************************************************)
(* The in-memory queue of Sonarr download webhooks, for one show           *)
(* (services/webhook-queue.service.ts and services/webhook-queue/).        *)
(*                                                                         *)
(* A webhook names episodes of one season.  Recent episodes are announced  *)
(* at once; the others are pushed on the season's entry of the queue,      *)
(* which one processor announces when the season is complete or when its   *)
(* timer fires.  Handlers, timers and processors are concurrent: each runs *)
(* to its next await, and one action below is one such stretch of code.    *)
(* (Resuming from a promise that only hops through microtasks is joined to *)
(* the stretch before it: no timer and no request can run in between.)     *)
(*                                                                         *)
(* A season entry is a JavaScript object that outlives its place in the    *)
(* map: processors and handlers keep references to it.  A handler creates  *)
(* at most one entry and at most one timer, so entries and timers are      *)
(* named by the webhook whose handler created them.                        *)
(***************************************************************************)
EXTENDS Integers, FiniteSets

CONSTANTS
    Webhooks,        \* the webhooks the route accepts
    Seasons,         \* the seasons of the show
    Episodes,        \* the episode numbers of a season
    Requests,        \* the payloads a webhook can carry
    ExpectedCount,   \* the episode count Sonarr reports for each season
    CanFail,         \* may a send or an immediate notification throw?
    None             \* no webhook: no entry, no timer, no request

RequestType ==
    [season : Seasons,
     eps    : (SUBSET Episodes) \ {{}},   \* body.episodes
     recent : SUBSET Episodes,          \* those isRecentEpisode accepts
     bulk   : BOOLEAN,                  \* 'episodeFiles' in body
     pilot  : BOOLEAN]                  \* isPilotRolling

NoCount == -1     \* expectedEpisodeCount is undefined

EntryType ==
    [eps : SUBSET Episodes, notified : BOOLEAN, expected : Nat \cup {NoCount},
     timeoutId : Webhooks \cup {None}, pilot : BOOLEAN]

ASSUME QueueAssumption ==
    /\ None \notin Webhooks \cup Requests \cup EntryType
    /\ Episodes \subseteq Nat
    /\ Requests \subseteq RequestType
    /\ \A r \in Requests : r.recent \subseteq r.eps
    /\ \A r \in Requests : r.bulk \/ \E e \in Episodes : r.eps = {e}
    /\ ExpectedCount \in [Seasons -> Nat]
    /\ CanFail \in BOOLEAN

VARIABLES
    pc,        \* where the handler of each webhook is
    req,       \* the payload of each webhook received
    show,      \* queue[tvdbId] exists
    cur,       \* queue[tvdbId].seasons[s]: the entry in the map
    entry,     \* the season entries, by the webhook that created them
    timer,     \* the timers, by the webhook that created them
    proc,      \* the calls of processQueuedWebhooks in flight
    running,   \* shutdown() has not been called
    covered,   \* history: the episodes of an entry announced, stored or given up
    raced      \* history: the entries a concurrent call interfered with

queueVars == <<show, cur, entry, timer, proc>>
vars == <<pc, req, queueVars, running, covered, raced>>

Processors == {"timer", "handler"} \X Webhooks
Idle == [at |-> "idle", on |-> None, batch |-> {}]

NewEntry(w, r) ==
    [eps |-> {}, notified |-> FALSE, expected |-> NoCount,
     timeoutId |-> w, pilot |-> r.pilot]

Init ==
    /\ pc = [w \in Webhooks |-> "idle"]
    /\ req = [w \in Webhooks |-> None]
    /\ show = FALSE
    /\ cur = [s \in Seasons |-> None]
    /\ entry = [w \in Webhooks |-> None]
    /\ timer = [w \in Webhooks |-> "none"]
    /\ proc = [p \in Processors |-> Idle]
    /\ running = TRUE
    /\ covered = [w \in Webhooks |-> {}]
    /\ raced = {}

-----------------------------------------------------------------------------
\* Which episodes a handler announces at once, and which it queues.

Immediate(r) ==
    IF ~r.bulk /\ r.pilot /\ r.eps = {1} THEN r.eps ELSE r.recent

Queued(r) == r.eps \ Immediate(r)

\* Mutant: the old timer is left running.
NeverCleared(tm, t) == tm

\* clearTimeout: a timer that has already fired is not affected.
Cleared(tm, t) ==
    IF t # None /\ tm[t] = "armed" THEN [tm EXCEPT ![t] = "cleared"] ELSE tm

IsSeasonComplete(e) ==
    LET pilotApart == e.pilot /\ 1 \notin e.eps
        expected == IF ~pilotApart THEN e.expected
                    ELSE IF e.expected > 1 THEN e.expected - 1 ELSE 1
    IN  e.expected # NoCount /\ Cardinality(e.eps) >= expected

\* Mutant: only an emptied show is removed, with its last season.
CleanupKeepsSeason(s) ==
    /\ show' = (show /\ \E z \in Seasons \ {s} : cur[z] # None)
    /\ cur' = IF show' THEN cur ELSE [cur EXCEPT ![s] = None]

\* The map loses the season, and the show with its last season.
CleanupSeasonQueue(s) ==
    /\ cur' = [cur EXCEPT ![s] = None]
    /\ show' = (show /\ \E z \in Seasons \ {s} : cur[z] # None)

\* Mutant: the notified mark is not consulted.
AlwaysProcess(e) == TRUE

\* No queued episode is recent: it was not when it came, and only gets older.
ShouldProcessSeason(e) == ~e.notified

\* processQueuedWebhooks up to its first await, from entries es and timers tm.
\* An entry still waiting for its count is empty: it goes, and its timer stays.
StartProcessing(p, s, es, tm) ==
    LET c == cur[s]
        off == Cleared(tm, es[c].timeoutId)
    IN  \/ /\ c = None
           /\ entry' = es /\ timer' = tm
           /\ UNCHANGED <<show, cur, proc, raced>>
        \/ /\ c # None /\ es[c].eps = {}
           /\ entry' = es /\ timer' = tm
           /\ CleanupSeasonQueue(s)
           /\ raced' = IF es[c].timeoutId = p[2] THEN raced ELSE raced \cup {c}
           /\ UNCHANGED proc
        \/ /\ c # None /\ es[c].eps # {} /\ ~ShouldProcessSeason(es[c])
           /\ entry' = es /\ timer' = off
           /\ CleanupSeasonQueue(s)
           /\ raced' = raced \cup {c}
           /\ UNCHANGED proc
        \/ /\ c # None /\ es[c].eps # {} /\ ShouldProcessSeason(es[c])
           /\ entry' = [es EXCEPT ![c].notified = TRUE] /\ timer' = off
           /\ proc' = [proc EXCEPT ![p] =
                         [at |-> "sending", on |-> c, batch |-> es[c].eps]]
           /\ UNCHANGED <<show, cur, raced>>

-----------------------------------------------------------------------------
\* addEpisodeToQueue and addEpisodesToQueue after ensureSeasonQueue: es are
\* the entries as the fetch left them, isNew that this handler created one.

AddToQueue(w, r, isNew, es) ==
    LET s == r.season
        c == cur[s]
        fresh == Queued(r) \ es[c].eps
        pushed == [es EXCEPT ![c].eps = @ \cup fresh]
        stopped == [pushed EXCEPT ![c].timeoutId = None]
        reset == [pushed EXCEPT ![c].timeoutId = w]
        off == Cleared(timer, es[c].timeoutId)
        late == IF es[c].notified THEN raced \cup {c} ELSE raced
    IN  \/ \* the entry went away while the handler waited
           /\ c = None
           /\ pc' = [pc EXCEPT ![w] = "skipped"]
           /\ entry' = es
           /\ UNCHANGED <<show, cur, timer, proc, raced>>
        \/ \* every episode is queued already
           /\ c # None /\ fresh = {}
           /\ pc' = [pc EXCEPT ![w] = "duplicate"]
           /\ entry' = es
           /\ UNCHANGED <<show, cur, timer, proc, raced>>
        \/ \* the season is complete
           /\ c # None /\ fresh # {} /\ IsSeasonComplete(pushed[c])
           /\ pc' = [pc EXCEPT ![w] = "queued"]
           /\ StartProcessing(<<"handler", w>>, s, stopped, off)
        \/ \* wait for more, with a new timer unless the entry is this handler's
           /\ c # None /\ fresh # {} /\ ~IsSeasonComplete(pushed[c])
           /\ pc' = [pc EXCEPT ![w] = "queued"]
           /\ IF isNew THEN entry' = pushed /\ timer' = timer
              ELSE entry' = reset /\ timer' = [off EXCEPT ![w] = "armed"]
           /\ raced' = late
           /\ UNCHANGED <<show, cur, proc>>

\* ensureSeasonQueue for a show known or not to be in the map.
EnterSeason(w, r, known) ==
    LET s == r.season
    IN  \/ /\ ~known            \* 'Show ... not initialized in queue'
           /\ pc' = [pc EXCEPT ![w] = "failed"]
           /\ UNCHANGED <<queueVars, raced>>
        \/ /\ known /\ cur[s] = None
           /\ pc' = [pc EXCEPT ![w] = "fetching"]
           /\ show' = TRUE
           /\ cur' = [cur EXCEPT ![s] = w]
           /\ entry' = [entry EXCEPT ![w] = NewEntry(w, r)]
           /\ timer' = [timer EXCEPT ![w] = "armed"]
           /\ UNCHANGED <<proc, raced>>
        \/ /\ known /\ cur[s] # None
           /\ AddToQueue(w, r, FALSE, entry)

-----------------------------------------------------------------------------
\* handleSonarrWebhook: a request arrives and ensureShowQueue makes the show.
Receive(w) ==
    /\ running /\ pc[w] = "idle"
    /\ \E r \in Requests :
          /\ req' = [req EXCEPT ![w] = r]
          /\ IF Immediate(r) # {}
             THEN /\ pc' = [pc EXCEPT ![w] = "notifying"]
                  /\ show' = TRUE
                  /\ UNCHANGED <<cur, entry, timer, proc, raced>>
             ELSE EnterSeason(w, r, TRUE)
    /\ UNCHANGED <<running, covered>>

\* notifyOrQueueShow returned: announce, or store as pending, are both done.
ImmediateDone(w) ==
    /\ pc[w] = "notifying"
    /\ IF Queued(req[w]) = {}
       THEN pc' = [pc EXCEPT ![w] = "done"] /\ UNCHANGED <<queueVars, raced>>
       ELSE EnterSeason(w, req[w], show)
    /\ UNCHANGED <<req, running, covered>>

\* notifyOrQueueShow threw, and the route answers 500.
ImmediateFails(w) ==
    /\ CanFail /\ pc[w] = "notifying"
    /\ pc' = [pc EXCEPT ![w] = "failed"]
    /\ UNCHANGED <<req, queueVars, running, covered, raced>>

\* Mutant: the pilot is subtracted as the count is cached.
FetchDoneAdjusted(w) ==
    /\ pc[w] = "fetching"
    /\ \E n \in {ExpectedCount[req[w].season], NoCount} :
          AddToQueue(w, req[w], TRUE, [entry EXCEPT ![w].expected = n - 1])
    /\ UNCHANGED <<req, running, covered>>

\* fetchExpectedEpisodeCount settled: a count, or none after an error.  The
\* count is written to the entry the handler made, in the map or not.
FetchDone(w) ==
    /\ pc[w] = "fetching"
    /\ \E n \in {ExpectedCount[req[w].season], NoCount} :
          AddToQueue(w, req[w], TRUE, [entry EXCEPT ![w].expected = n])
    /\ UNCHANGED <<req, running, covered>>

\* Mutant: a timer that fires while the count is being fetched does nothing.
TimerFiresAfterFetch(w) ==
    /\ timer[w] = "armed"
    /\ IF pc[w] = "fetching"
       THEN /\ timer' = [timer EXCEPT ![w] = "fired"]
            /\ UNCHANGED <<show, cur, entry, proc, raced>>
       ELSE StartProcessing(<<"timer", w>>, req[w].season, entry,
                            [timer EXCEPT ![w] = "fired"])
    /\ UNCHANGED <<pc, req, running, covered>>

\* The callback of createQueueTimeout.
TimerFires(w) ==
    /\ timer[w] = "armed"
    /\ StartProcessing(<<"timer", w>>, req[w].season, entry,
                       [timer EXCEPT ![w] = "fired"])
    /\ UNCHANGED <<pc, req, running, covered>>

-----------------------------------------------------------------------------
\* processQueuedWebhooks after its awaits.

\* The message names the first episode, or the whole season when there were
\* several as the send began (isBulkRelease).
Announced(batch) == IF Cardinality(batch) > 1 THEN Episodes ELSE batch

\* The last statement of processQueuedWebhooks: whatever entry is now in the
\* map under the season goes.
Finish(p, told) ==
    LET s == req[p[2]].season
        o == proc[p].on
    IN  /\ proc' = [proc EXCEPT ![p] = Idle]
        /\ CleanupSeasonQueue(s)
        /\ covered' = [covered EXCEPT ![o] = @ \cup told]
        /\ raced' = IF cur[s] \in {None, o} THEN raced ELSE raced \cup {cur[s]}
        /\ UNCHANGED <<pc, req, entry, timer, running>>

\* sendMediaAvailable found users to tell.
SendMatched(p) ==
    /\ proc[p].at = "sending"
    /\ Finish(p, Announced(proc[p].batch))

\* Mutant: nothing is stored when there was nobody to tell.
SendUnmatchedDropped(p) ==
    /\ proc[p].at = "sending"
    /\ Finish(p, {})

\* It found none: the payload is built from the entry's live array.
SendUnmatched(p) ==
    /\ proc[p].at = "sending"
    /\ proc' = [proc EXCEPT ![p].at = "storing", ![p].batch = entry[proc[p].on].eps]
    /\ UNCHANGED <<pc, req, show, cur, entry, timer, running, covered, raced>>

\* queuePendingWebhook returned; it swallows a database error.
Stored(p) ==
    /\ proc[p].at = "storing"
    /\ Finish(p, proc[p].batch)

\* The send threw, or the insert failed: logged, and the batch is given up.
DispatchFails(p) ==
    /\ CanFail /\ proc[p].at \in {"sending", "storing"}
    /\ Finish(p, proc[p].batch)

-----------------------------------------------------------------------------
\* shutdown(): the timers of the entries in the map are cleared, the map is
\* emptied; what is in flight goes on.
Shutdown ==
    /\ running
    /\ running' = FALSE
    /\ timer' = [w \in Webhooks |->
                   IF \E s \in Seasons : cur[s] # None /\ entry[cur[s]].timeoutId = w
                      /\ timer[w] = "armed"
                   THEN "cleared" ELSE timer[w]]
    /\ cur' = [s \in Seasons |-> None]
    /\ show' = FALSE
    /\ raced' = raced \cup ({cur[s] : s \in Seasons} \ {None})
    /\ UNCHANGED <<pc, req, entry, proc, covered>>

Handler(w) == Receive(w) \/ ImmediateDone(w) \/ ImmediateFails(w) \/ FetchDone(w)
Processor(p) ==
    SendMatched(p) \/ SendUnmatched(p) \/ Stored(p) \/ DispatchFails(p)

Next ==
    \/ \E w \in Webhooks : Handler(w) \/ TimerFires(w)
    \/ \E p \in Processors : Processor(p)
    \/ Shutdown

Spec == Init /\ [][Next]_vars

\* Timers fire, and calls to the database and to the channels settle (they
\* have their own timeouts).  Webhooks need not come.
Fairness ==
    /\ \A w \in Webhooks : WF_vars(TimerFires(w))
    /\ \A w \in Webhooks : WF_vars(ImmediateDone(w) \/ FetchDone(w))
    /\ \A p \in Processors : WF_vars(Processor(p))

FairSpec == Spec /\ Fairness

-----------------------------------------------------------------------------
TypeOK ==
    /\ pc \in [Webhooks -> {"idle", "notifying", "fetching", "queued",
                            "duplicate", "skipped", "done", "failed"}]
    /\ req \in [Webhooks -> Requests \cup {None}]
    /\ show \in BOOLEAN
    /\ cur \in [Seasons -> Webhooks \cup {None}]
    /\ entry \in [Webhooks -> EntryType \cup {None}]
    /\ timer \in [Webhooks -> {"none", "armed", "cleared", "fired"}]
    /\ proc \in [Processors -> [at : {"idle", "sending", "storing"},
                                on : Webhooks \cup {None},
                                batch : SUBSET Episodes]]
    /\ running \in BOOLEAN
    /\ covered \in [Webhooks -> SUBSET Episodes]
    /\ raced \subseteq Webhooks

InFlight(o) == {p \in Processors : proc[p].at # "idle" /\ proc[p].on = o}

\* No entry is left in the map with nothing to take it out: its own timer is
\* armed, or a processor is sending its episodes.  Timers are cleared by
\* validateQueue, by completion and by every later episode, and re-created
\* only by some of these paths.
NoStrandedSeason ==
    \A s \in Seasons : cur[s] # None =>
        LET t == entry[cur[s]].timeoutId
        IN  (t # None /\ timer[t] = "armed") \/ InFlight(cur[s]) # {}

\* The episodes of one entry are sent by one call of processQueuedWebhooks
\* only, although leaked timers, the entry's timer and the handler that
\* completes the season can all start one while another is awaiting its send.
OneSendPerBatch ==
    \A o \in Webhooks : \A p, q \in InFlight(o) : p = q

\* An entry that left the map without any overlap (no episode pushed while its
\* send was in flight, not removed by a call working on another entry or by
\* shutdown) had every one of its episodes announced, stored as pending, or
\* given up after an error of its own dispatch.
QuietBatchesDispatched ==
    \A o \in Webhooks \ raced :
        (entry[o] # None /\ (\A s \in Seasons : cur[s] # o) /\ InFlight(o) = {})
            => entry[o].eps \subseteq covered[o]

\* A timer flushes only the entry whose wait it measures, unless that entry was
\* interfered with: a timer re-created during a send outlives its entry
\* (cleanupSeasonQueue clears none) and may cut the next one's wait short, and
\* when it takes that one out still empty, validateQueue leaves its timer too;
\* but no timer leaks in any other way.
LeakedTimersWereRaced ==
    [][\A w \in Webhooks :
         timer[w] = "armed" /\ timer'[w] = "fired" =>
           LET c == cur[req[w].season]
           IN  c # None /\ entry[c].timeoutId # w =>
                 \E o \in raced : entry[o].timeoutId = w]_vars

\* The map of seasons empties again and again: whatever webhooks do to each
\* other's entries, and whichever calls fail, no season keeps one for good.
SeasonsDrain == []<>(\A s \in Seasons : cur[s] = None)

-----------------------------------------------------------------------------
\* What a comment says and the code does not do.

\* "Process and dispatch all queued webhooks for a given TV show season":
\* whatever was pushed on an entry is announced or stored once it is gone.
AllQueuedDispatched ==
    running => \A o \in Webhooks :
        (entry[o] # None /\ (\A s \in Seasons : cur[s] # o) /\ InFlight(o) = {})
            => entry[o].eps \subseteq covered[o]

=============================================================================
