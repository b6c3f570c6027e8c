---------------------------- MODULE RollingMonitor ----------------------------
(***************************************************************************)
(* Rolling monitoring of one series on one Sonarr instance                 *)
(* (plex-session-monitor.service.ts, database/methods/session.ts): what    *)
(* users play in Plex raises what Sonarr monitors, season by season,       *)
(* progressive cleanup takes seasons back, and the inactivity reset all of *)
(* it.  Handlers of sessions run beside each other and beside the reset,   *)
(* one action per await that reads or writes shared state.                 *)
(*                                                                         *)
(* While server-sent events arrive, a session is handled when it starts,   *)
(* pauses or goes on, and the poll is skipped; without them the poll       *)
(* handles all sessions again and again.  Every user may trigger actions;  *)
(* progressive cleanup and the automatic reset are on; the series gets no  *)
(* new season.  An episode that starts is taken to be a new session.       *)
(***************************************************************************)
EXTENDS Integers, FiniteSets

CONSTANTS
    Users,
    Handlers,     \* bound: sessions handled at the same time, as numbers
    Kinds,        \* the monitoring types
    Seasons,      \* the number of seasons
    Episodes,     \* the number of episodes of each
    Threshold,    \* remainingEpisodes
    Plays,        \* the episodes each user may play, as pairs of season and episode
    MaxPlays,     \* bound: episodes started, paused or resumed
    MaxFaults,    \* bound: calls of Sonarr or the database that fail, and
                  \* times the events stop or start
    None          \* no episode

ASSUME RollingAssumption ==
    /\ Kinds \subseteq {"pilotRolling", "firstSeasonRolling", "allSeasonPilotRolling"}
    /\ Handlers \subseteq Nat
    /\ Seasons \in Nat \ {0} /\ Episodes \in Nat \ {0} /\ Threshold \in Nat \ {0}
    /\ Plays \in [Users -> SUBSET ((1..Seasons) \X (1..Episodes))]
    /\ MaxPlays \in Nat /\ MaxFaults \in Nat
    /\ None \notin Users /\ \A u \in Users : None \notin Plays[u]

VARIABLES
    kind,       \* monitoring_type
    playing,    \* Plex: what each user plays
    sse,        \* do events arrive?
    events,     \* users whose session has an event that is not handled yet
    sonarr,     \* of each season: not monitored, its pilot only, monitored,
                \* monitored and searched for
    rows,       \* the row of each user: last_watched and current_monitored_season
    recent,     \* the rows updated within the inactivity period
    handler,    \* processSession, for one user each
    reset,      \* resetInactiveRollingShows: "idle", "sonarr", "rows"
    excused,    \* history: seasons monitored and not searched because a call
                \* failed, or removed by a decision that users overtook
    missed,     \* history, while events arrive: users who play a session that
                \* was not handled, or in vain
    bounds

vars == <<kind, playing, sse, events, sonarr, rows, recent, handler, reset, excused, missed,
          bounds>>

Positions == {<<0, 0>>} \cup UNION {Plays[u] : u \in Users}
NoRow == [last |-> <<0, 0>>, mark |-> 0]
NewRow == [last |-> <<0, 0>>, mark |-> 1]
NoHandler == [at |-> "idle", poll |-> FALSE, user |-> None, pos |-> <<0, 0>>, prior |-> <<0, 0>>, mark |-> 0,
              todo |-> {}, seen |-> {}, target |-> 0]
\* What Sonarr monitors before anybody watches, and after a reset.
Baseline ==
    [s \in 1..Seasons |->
        IF kind = "allSeasonPilotRolling" THEN "pilot"
        ELSE IF s > 1 THEN "off"
        ELSE IF kind = "pilotRolling" THEN "pilot" ELSE "sought"]

Monitored == {"set", "sought"}

Init ==
    /\ kind \in Kinds
    /\ playing = [u \in Users |-> None]
    /\ sse \in BOOLEAN /\ events = {}
    /\ sonarr = Baseline
    /\ rows = [u \in Users |-> NoRow] /\ recent = {}
    /\ handler = [t \in Handlers |-> NoHandler]
    /\ reset = "idle"
    /\ excused = {} /\ missed = {}
    /\ bounds = [plays |-> 0, faults |-> 0]

Works == bounds' = bounds
Fault ==
    /\ bounds.faults < MaxFaults
    /\ bounds' = [bounds EXCEPT !.faults = @ + 1]

-----------------------------------------------------------------------------
\* Plex and time.

Watching == {u \in Users : playing[u] # None}

\* A session starts; with events, it may also pause or go on.
Play(u, p) ==
    /\ bounds.plays < MaxPlays
    /\ sse \/ playing[u] # p
    /\ bounds' = [bounds EXCEPT !.plays = @ + 1]
    /\ playing' = [playing EXCEPT ![u] = p]
    /\ events' = IF sse THEN events \cup {u} ELSE events
    /\ missed' = missed \ {u}
    /\ UNCHANGED <<kind, sse, sonarr, rows, recent, handler, reset, excused>>

Stop(u) ==
    /\ u \in Watching
    /\ playing' = [playing EXCEPT ![u] = None]
    /\ missed' = missed \ {u}
    /\ UNCHANGED <<kind, sse, events, sonarr, rows, recent, handler, reset, excused, bounds>>

\* The connection for events goes, or comes back: then the sessions that exist
\* are taken for known (SessionTracker.hydrate).
Switch ==
    /\ Fault
    /\ sse' = ~sse
    /\ events' = {}
    /\ missed' = IF sse THEN {} ELSE Watching
    /\ UNCHANGED <<kind, playing, sonarr, rows, recent, handler, reset, excused>>

\* The inactivity period of a row ends: nobody plays one episode that long.  The
\* row of the show itself, which only a reset writes, is taken to be old.
Elapse(u) ==
    /\ u \in recent
    /\ u \notin Watching /\ \A t \in Handlers : handler[t].user # u
    /\ reset = "idle"
    /\ recent' = recent \ {u}
    /\ UNCHANGED <<kind, playing, sse, events, sonarr, rows, handler, reset, excused, missed, bounds>>

-----------------------------------------------------------------------------
\* processSession.

Done(t) == handler' = [handler EXCEPT ![t] = NoHandler]
Go(t, at) == handler' = [handler EXCEPT ![t].at = at]

InVain(u) == missed' = IF sse THEN missed \cup ({u} \cap Watching) ELSE missed

HasRow(u) == rows[u] # NoRow

Idle(t) == handler[t].at = "idle"

\* The row of the user is read, or made.  Any free handler will do.
Begin(t, u, poll) ==
    LET row == IF HasRow(u) THEN rows[u] ELSE NewRow
    IN /\ Idle(t) /\ \A r \in Handlers : Idle(r) => t <= r
       /\ u \in Watching
       /\ handler' = [handler EXCEPT ![t] =
                        [NoHandler EXCEPT !.at = "progress", !.poll = poll, !.user = u,
                                          !.pos = playing[u], !.prior = row.last,
                                          !.mark = row.mark]]
       /\ rows' = [rows EXCEPT ![u] = row]
       /\ recent' = IF HasRow(u) THEN recent ELSE recent \cup {u}
       /\ UNCHANGED <<kind, playing, sse, sonarr, reset, excused>>

\* monitorSessions, by its job or because the events stopped: one session after
\* the other.
Poll(t, u) ==
    /\ ~sse /\ \A r \in Handlers : ~handler[r].poll
    /\ Begin(t, u, TRUE)
    /\ UNCHANGED <<events, missed, bounds>>

\* handlePlayingEvent; without the list of sessions the event is dropped.
Event(t, u) ==
    /\ u \in events
    /\ events' = events \ {u}
    /\ \/ Works /\ Begin(t, u, FALSE) /\ UNCHANGED missed
       \/ /\ IF u \in Watching THEN Fault ELSE Works
          /\ InVain(u)
          /\ UNCHANGED <<kind, playing, sse, sonarr, rows, recent, handler, reset, excused>>

\* userNeedsSeason, of users with a recent session.
NeedsIn(rs, active, u, s) ==
    /\ rs[u] # NoRow /\ u \in active
    /\ s \in rs[u].last[1]..(rs[u].last[1] + 1)

Needs(u, s) == NeedsIn(rows, recent, u, s)
Needed(s) == \E u \in Users : Needs(u, s)

\* Mutant: cleanup starts at the first season for every type.
EligibleFromOne(h, rs, active) ==
    {s \in 1..Seasons :
        /\ s < h.pos[1] /\ s < rs[h.user].mark
        /\ \A u \in Users : ~NeedsIn(rs, active, u, s)}

\* Mutant: the needs of other users do not count.
EligibleAlone(h, rs, active) ==
    LET first == IF kind = "allSeasonPilotRolling" THEN 1 ELSE 2
    IN {s \in 1..Seasons :
          /\ ~NeedsIn(rs, active, h.user, s)
          /\ \/ s >= first /\ s < h.pos[1] /\ s < rs[h.user].mark
             \/ s = 1 /\ kind = "pilotRolling" /\ h.pos[1] > 1 /\ sonarr[1] # "pilot"}

\* The seasons that checkAndPerformProgressiveCleanup removes.
Eligible(h, rs, active) ==
    LET first == IF kind = "allSeasonPilotRolling" THEN 1 ELSE 2
    IN {s \in 1..Seasons :
          /\ \A u \in Users : ~NeedsIn(rs, active, u, s)
          /\ \/ s >= first /\ s < h.pos[1] /\ s < rs[h.user].mark
             \/ s = 1 /\ kind = "pilotRolling" /\ h.pos[1] > 1 /\ sonarr[1] # "pilot"}

\* updateRollingShowProgress: when the season is a later one, cleanup follows.
\* A row that a reset deleted meanwhile is not written.
Progress(t) ==
    LET h == handler[t]
        todo == IF HasRow(h.user) /\ h.pos[1] > rows[h.user].last[1]
                THEN Eligible(h, rows', recent') ELSE {}
    IN /\ h.at = "progress"
       /\ \/ /\ Works
             /\ rows' = IF HasRow(h.user) THEN [rows EXCEPT ![h.user].last = h.pos] ELSE rows
             /\ recent' = IF HasRow(h.user) THEN recent \cup {h.user} ELSE recent
             /\ UNCHANGED missed
          \/ Fault /\ InVain(handler[t].user) /\ UNCHANGED <<rows, recent>>
       /\ handler' = [handler EXCEPT
                        ![t].at = IF todo = {} THEN "check" ELSE "clean",
                        ![t].todo = todo,
                        ![t].seen = {p \in Users \X todo : NeedsIn(rows', recent', p[1], p[2])}]
       /\ UNCHANGED <<kind, playing, sse, events, sonarr, reset, excused>>

\* The season a position asks for, 0 if none: its own at a pilot, the next one
\* near the end.
NearEnd(p) == Episodes - p[2] <= Threshold /\ p[1] < Seasons

Wanted(p) ==
    IF p = None THEN 0
    ELSE IF kind = "allSeasonPilotRolling" THEN IF p[2] = 1 THEN p[1] ELSE 0
    ELSE IF kind = "pilotRolling" /\ p = <<1, 1>> THEN 1
    ELSE IF NearEnd(p) THEN p[1] + 1 ELSE 0

\* Seasons go though a user has come to need them, wants one, or wanted it last:
\* a position that the row has already is not looked at again.
Overtaken(ss, seen) ==
    {s \in ss : \E u \in Users :
        \/ Needs(u, s) /\ <<u, s>> \notin seen
        \/ s \in {Wanted(playing[u]), Wanted(rows[u].last)}}

\* cleanupSpecificSeasons, cleanupSeasonsPreservePilots, resetSeasonToPilotOnly.
Clean(t) ==
    LET h == handler[t] IN
    /\ h.at = "clean"
    /\ \/ \E s \in h.todo :
            /\ \A r \in h.todo : s <= r
            /\ Works
            /\ sonarr' = [sonarr EXCEPT ![s] =
                            IF kind = "allSeasonPilotRolling" \/ s = 1 THEN "pilot" ELSE "off"]
            /\ excused' = excused \cup Overtaken({s}, h.seen)
            /\ handler' = [handler EXCEPT ![t].todo = @ \ {s},
                                          ![t].at = IF h.todo = {s} THEN "check" ELSE "clean"]
       \/ /\ Fault
          /\ handler' = [handler EXCEPT ![t].todo = {}, ![t].at = "check"]
          /\ UNCHANGED <<sonarr, excused>>
    /\ UNCHANGED <<kind, playing, sse, events, rows, recent, reset, missed>>

AtPilot(h) == Wanted(h.pos) = h.pos[1]

\* An expansion that fails: at a pilot it ends there, else progress goes back.
Fail(t) == IF AtPilot(handler[t]) THEN Done(t) ELSE Go(t, "revert")

\* handleRollingMonitoredShow, and the first query of an expansion: the pilots
\* first, then, unless the position is the one the row had, the end of the
\* season.  Nothing follows for a season that is monitored already.
Check(t) ==
    LET h == handler[t]
        wanted == Wanted(h.pos)
        asks == AtPilot(h) \/ (kind # "allSeasonPilotRolling" /\ h.prior # h.pos)
    IN /\ h.at = "check"
       /\ \/ /\ Works
             /\ IF asks /\ wanted # 0 /\ sonarr[wanted] \notin Monitored
                THEN handler' = [handler EXCEPT ![t].at = "monitor", ![t].target = wanted]
                ELSE Done(t)
             /\ UNCHANGED missed
          \/ asks /\ Fault /\ Fail(t) /\ InVain(handler[t].user)
       /\ UNCHANGED <<kind, playing, sse, events, sonarr, rows, recent, reset, excused>>

\* expandMonitoringToNextSeason, expandPilotToFullSeason.

\* The season and its episodes; with the season Sonarr may set the episodes,
\* so that when the second call fails they may be monitored.
Monitor(t) ==
    LET h == handler[t]
        set == [sonarr EXCEPT ![h.target] = IF @ = "sought" THEN @ ELSE "set"]
    IN /\ h.at = "monitor"
       /\ \/ Works /\ sonarr' = set /\ Go(t, "search") /\ UNCHANGED <<excused, missed>>
          \/ /\ Fault /\ Fail(t) /\ InVain(handler[t].user)
             /\ \/ sonarr' = set /\ excused' = excused \cup {h.target}
                \/ UNCHANGED <<sonarr, excused>>
       /\ UNCHANGED <<kind, playing, sse, events, rows, recent, reset>>

\* Only what is monitored is searched for.
Search(t) ==
    LET h == handler[t] IN
    /\ h.at = "search"
    /\ \/ /\ Works
          /\ IF sonarr[h.target] = "set"
             THEN /\ sonarr' = [sonarr EXCEPT ![h.target] = "sought"]
                  /\ excused' = excused \ {h.target}
             ELSE UNCHANGED <<sonarr, excused>>
          /\ Go(t, "mark")
          /\ UNCHANGED missed
       \/ /\ Fault /\ Fail(t) /\ InVain(handler[t].user)
          /\ excused' = excused \cup {h.target}
          /\ UNCHANGED sonarr
    /\ UNCHANGED <<kind, playing, sse, events, rows, recent, reset>>

\* Mutant: the mark is the season after the one that was expanded.
MarkNext(t) ==
    LET h == handler[t] IN
    /\ h.at = "mark"
    /\ rows' = IF HasRow(h.user) THEN [rows EXCEPT ![h.user].mark = h.target + 1] ELSE rows
    /\ Done(t)
    /\ UNCHANGED <<kind, playing, sse, events, sonarr, recent, reset, excused, missed, bounds>>

\* Mutant: the mark follows every expansion.
MarkAlways(t) ==
    LET h == handler[t] IN
    /\ h.at = "mark"
    /\ rows' = IF HasRow(h.user) THEN [rows EXCEPT ![h.user].mark = h.target] ELSE rows
    /\ recent' = IF HasRow(h.user) THEN recent \cup {h.user} ELSE recent
    /\ Done(t)
    /\ UNCHANGED <<kind, playing, sse, events, sonarr, reset, excused, missed, bounds>>

\* The mark of the row, against the one read at first.
Mark(t) ==
    LET h == handler[t] IN
    /\ h.at = "mark"
    /\ IF h.target > h.mark /\ HasRow(h.user)
       THEN \/ Works /\ rows' = [rows EXCEPT ![h.user].mark = h.target]
                     /\ recent' = recent \cup {h.user}
            \/ Fault /\ UNCHANGED <<rows, recent>>
       ELSE Works /\ UNCHANGED <<rows, recent>>
    /\ Done(t)
    /\ UNCHANGED <<kind, playing, sse, events, sonarr, reset, excused, missed>>

\* Mutant: the position stays.
RevertNothing(t) ==
    /\ handler[t].at = "revert"
    /\ Done(t) /\ InVain(handler[t].user)
    /\ UNCHANGED <<kind, playing, sse, events, sonarr, rows, recent, reset, excused, bounds>>

\* revertProgress.
Revert(t) ==
    LET h == handler[t] IN
    /\ h.at = "revert"
    /\ \/ /\ Works /\ HasRow(h.user)
          /\ rows' = [rows EXCEPT ![h.user].last = h.prior]
          /\ recent' = recent \cup {h.user}
       \/ (IF HasRow(h.user) THEN Fault ELSE Works) /\ UNCHANGED <<rows, recent>>
    /\ Done(t) /\ InVain(handler[t].user)
    /\ UNCHANGED <<kind, playing, sse, events, sonarr, reset, excused>>

HandlerStep(t) ==
    \/ Progress(t) \/ Clean(t)
    \/ Check(t) \/ Monitor(t) \/ Search(t) \/ Mark(t) \/ Revert(t)

-----------------------------------------------------------------------------
\* resetInactiveRollingShows.

\* Mutant: only shows with rows of users are listed.
ResetListUsers ==
    /\ reset = "idle" /\ recent = {} /\ \E u \in Users : HasRow(u)
    /\ reset' = "sonarr"
    /\ UNCHANGED <<kind, playing, sse, events, sonarr, rows, recent, handler, excused, missed, bounds>>

\* getInactiveRollingMonitoredShows: no row of the show is recent.
ResetList ==
    /\ reset = "idle" /\ recent = {}
    /\ reset' = "sonarr"
    /\ UNCHANGED <<kind, playing, sse, events, sonarr, rows, recent, handler, excused, missed, bounds>>

\* resetToPilotOnly, resetToFirstSeasonOnly, resetToAllSeasonPilots.  The first
\* season of firstSeasonRolling is left as it is.
ResetSonarr ==
    /\ reset = "sonarr"
    /\ \/ /\ Works /\ reset' = "rows"
          /\ sonarr' = Baseline
          /\ excused' = excused \cup Overtaken({s \in 1..Seasons : sonarr[s] # Baseline[s]}, {})
       \/ Fault /\ reset' = "idle" /\ UNCHANGED <<sonarr, excused>>
    /\ UNCHANGED <<kind, playing, sse, events, rows, recent, handler, missed>>

\* The reset starts the show afresh.
Undisturbed ==
    /\ sonarr = Baseline
    /\ Watching = {}
    /\ \A t \in Handlers : Idle(t)

\* resetRollingMonitoredShowToOriginal: one transaction, whoever came since.
ResetRows ==
    /\ reset = "rows"
    /\ reset' = "idle"
    /\ \/ /\ Works /\ rows' = [u \in Users |-> NoRow] /\ recent' = {}
          /\ excused' = IF Undisturbed THEN {} ELSE excused
       \/ Fault /\ UNCHANGED <<rows, recent, excused>>
    /\ UNCHANGED <<kind, playing, sse, events, sonarr, handler, missed>>

ResetStep == ResetList \/ ResetSonarr \/ ResetRows

Next ==
    \/ \E u \in Users : \E p \in Plays[u] : Play(u, p)
    \/ \E u \in Users : Stop(u)
    \/ Switch
    \/ \E u \in Users : Elapse(u)
    \/ \E t \in Handlers : HandlerStep(t)
    \/ \E t \in Handlers, u \in Users : Poll(t, u) \/ Event(t, u)
    \/ ResetStep

Spec == Init /\ [][Next]_vars

Polled(u) == \E t \in Handlers : handler[t].poll /\ handler[t].user = u

\* Every await returns, so that handlers and resets end (the same as weak
\* fairness of their steps, one of which is enabled until then), and each event
\* is handled; without events each session is polled again and again; time
\* passes and the reset runs from its schedule.
Fairness ==
    /\ \A t \in Handlers : []<>Idle(t)
    /\ []<>(reset = "idle")
    /\ \A u \in Users : []<>(u \notin events)
    /\ \A u \in Users : []<>(sse \/ u \notin Watching \/ Polled(u))
    /\ WF_vars(\E u \in Users : Elapse(u))
    /\ WF_vars(ResetList)

FairSpec == Spec /\ Fairness

-----------------------------------------------------------------------------
TypeOK ==
    /\ kind \in Kinds
    /\ playing \in [Users -> Positions \cup {None}]
    /\ \A u \in Users : playing[u] \in Plays[u] \cup {None}
    /\ sse \in BOOLEAN /\ events \subseteq Users
    /\ sonarr \in [1..Seasons -> {"off", "pilot"} \cup Monitored]
    /\ rows \in [Users -> [last : Positions, mark : 0..Seasons]]
    /\ recent \subseteq Users
    /\ handler \in [Handlers ->
         [at : {"idle", "progress", "clean", "check", "monitor", "search", "mark", "revert"},
          poll : BOOLEAN, user : Users \cup {None}, pos : Positions, prior : Positions,
          mark : 0..Seasons, todo : SUBSET (1..Seasons),
          seen : SUBSET (Users \X (1..Seasons)), target : 0..Seasons]]
    /\ reset \in {"idle", "sonarr", "rows"}
    /\ excused \subseteq 1..Seasons /\ missed \subseteq Watching /\ (~sse => missed = {})
    /\ bounds \in [plays : 0..MaxPlays, faults : 0..MaxFaults]

\* Whatever cleanups, resets and expansions run into each other, what the
\* monitoring type starts with stays monitored: the pilot, the first season,
\* the pilots of all seasons.
OriginalStateKept ==
    \A s \in 1..Seasons :
        /\ Baseline[s] = "pilot" => sonarr[s] # "off"
        /\ Baseline[s] = "sought" => sonarr[s] = "sought"

\* A season that an active user watches or will watch next is taken back only
\* by a cleanup or a reset that was decided before the user came to need it.
NeededKept ==
    [][\A s \in 1..Seasons :
         sonarr[s] \in Monitored /\ sonarr'[s] \notin Monitored /\ Needed(s) => s \in excused']_vars

\* The mark of a user goes down only when another handler of the same user has
\* raised it after this one read it.
MarkKept ==
    [][\A u \in Users :
         rows'[u].mark < rows[u].mark /\ rows'[u] # NoRow =>
            \E t \in Handlers : /\ handler[t].user = u /\ handler[t].at = "mark"
                                /\ handler[t].mark # rows[u].mark]_vars

\* Who stays near the end of a season, or at a pilot that asks for its season,
\* gets that season monitored and searched for; not if a call failed after the
\* season was monitored, or if a cleanup or reset overtook him; and with events
\* not if his event was dropped, handled in vain, or came before the connection.
SeasonSought ==
    \A u \in Users :
        []<>( \/ Wanted(playing[u]) = 0
              \/ sonarr[Wanted(playing[u])] = "sought"
              \/ Wanted(playing[u]) \in excused
              \/ sse /\ u \in missed)

\* A show that nobody watches any more gets back to its original state.
IdleShowResets == []<>(Watching # {} \/ sonarr = Baseline)

=============================================================================
