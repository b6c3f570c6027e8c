------------------------- MODULE RollingMonitor_proofs -------------------------
(***************************************************************************)
(* Type correctness of rolling monitoring, and that neither the original   *)
(* state of the show, nor a season that is needed, nor the mark of a user  *)
(* is lost.  For any users, handlers, seasons and episodes.                *)
(***************************************************************************)
EXTENDS RollingMonitor, TLAPS

-----------------------------------------------------------------------------
(* The inductive invariant.                                                *)

Stages == {"idle", "progress", "clean", "check", "monitor", "search", "mark", "revert"}

HandlerRecords ==
    [at : Stages, poll : BOOLEAN, user : Users \cup {None}, pos : Positions, prior : Positions,
     mark : 0..Seasons, todo : SUBSET (1..Seasons), seen : SUBSET (Users \X (1..Seasons)),
     target : 0..Seasons]

\* A handler works for a user, and what it monitors and searches is a season.
Sound(h) ==
    /\ h.at # "idle" => h.user \in Users
    /\ h.at \in {"monitor", "search", "mark"} => h.target # 0

\* Cleanup was decided when nobody needed the seasons it removes, and spares the
\* first season where that is all that is monitored at first.
Careful(h) ==
    /\ h.seen = {}
    /\ kind = "firstSeasonRolling" => 1 \notin h.todo

PlexOk ==
    /\ playing \in [Users -> Positions \cup {None}]
    /\ \A u \in Users : playing[u] \in Plays[u] \cup {None}
    /\ sse \in BOOLEAN /\ events \subseteq Users
    /\ missed \subseteq Watching /\ (~sse => missed = {})

SonarrOk ==
    /\ sonarr \in [1..Seasons -> {"off", "pilot"} \cup Monitored]
    /\ excused \subseteq 1..Seasons
    /\ OriginalStateKept

RowRecords == [last : Positions, mark : 0..Seasons]
RowsOk ==
    /\ rows \in [Users -> RowRecords]
    /\ recent \subseteq Users

HandlersOk ==
    /\ handler \in [Handlers -> HandlerRecords]
    /\ \A t \in Handlers : Sound(handler[t]) /\ Careful(handler[t])

BoundsOk == bounds \in [plays : 0..MaxPlays, faults : 0..MaxFaults]

MonitorInv ==
    /\ kind \in Kinds /\ reset \in {"idle", "sonarr", "rows"}
    /\ PlexOk /\ SonarrOk /\ RowsOk /\ HandlersOk /\ BoundsOk

LEMMA InvTyped == MonitorInv => TypeOK
BY DEF MonitorInv, PlexOk, SonarrOk, RowsOk, RowRecords, HandlersOk, HandlerRecords, Stages,
       BoundsOk, TypeOK

-----------------------------------------------------------------------------
(* What the parts of the state become.                                     *)

LEMMA BoundsCount ==
    ASSUME BoundsOk, Fault \/ Works
    PROVE  BoundsOk'
PROOF
  <1>1. CASE Fault BY <1>1, RollingAssumption DEF BoundsOk, Fault
  <1>2. CASE Works BY <1>2 DEF BoundsOk, Works
  <1> QED BY <1>1, <1>2

LEMMA PlayIsPosition ==
    ASSUME NEW u \in Users, NEW p \in Plays[u]
    PROVE  p \in Positions /\ p # None /\ p[1] \in 1..Seasons /\ p[2] \in 1..Episodes
BY RollingAssumption DEF Positions

LEMMA PositionParts ==
    ASSUME NEW p \in Positions
    PROVE  p = <<0, 0>> \/ (p[1] \in 1..Seasons /\ p[2] \in 1..Episodes)
PROOF
  <1>1. CASE p = <<0, 0>> BY <1>1
  <1>2. ASSUME NEW u \in Users, p \in Plays[u]
        PROVE  p[1] \in 1..Seasons /\ p[2] \in 1..Episodes
    BY <1>2, PlayIsPosition
  <1> QED BY <1>1, <1>2 DEF Positions

LEMMA WantedIsSeason ==
    ASSUME NEW p \in Positions
    PROVE  Wanted(p) \in 0..Seasons
PROOF
  <1>1. CASE p = <<0, 0>> BY <1>1, RollingAssumption DEF Wanted, NearEnd
  <1>2. CASE p[1] \in 1..Seasons /\ p[2] \in 1..Episodes
    BY <1>2, RollingAssumption DEF Wanted, NearEnd
  <1> QED BY <1>1, <1>2, PositionParts

LEMMA NoHandlerIdle == NoHandler \in HandlerRecords /\ Sound(NoHandler) /\ Careful(NoHandler)
BY RollingAssumption DEF NoHandler, HandlerRecords, Stages, Positions, Sound, Careful

\* One handler goes from record to record.
LEMMA HandlerBecomes ==
    ASSUME HandlersOk, UNCHANGED kind, NEW t \in Handlers, NEW r \in HandlerRecords,
           Sound(r), Careful(r), handler' = [handler EXCEPT ![t] = r]
    PROVE  HandlersOk'
PROOF
  <1>1. handler' \in [Handlers -> HandlerRecords] BY DEF HandlersOk
  <1>2. ASSUME NEW s \in Handlers PROVE Sound(handler'[s]) /\ Careful(handler'[s])
    BY DEF HandlersOk
  <1> QED BY <1>1, <1>2 DEF HandlersOk, Sound, Careful

LEMMA DoneKeeps ==
    ASSUME HandlersOk, UNCHANGED kind, NEW t \in Handlers, Done(t)
    PROVE  HandlersOk'
BY HandlerBecomes, NoHandlerIdle DEF Done

\* A handler goes on, with a target from "monitor" to "mark".
LEMMA GoKeeps ==
    ASSUME HandlersOk, UNCHANGED kind, NEW t \in Handlers, NEW at \in Stages, Go(t, at),
           handler[t].user \in Users,
           at \in {"monitor", "search", "mark"} => handler[t].target # 0
    PROVE  HandlersOk'
PROOF
  <1> DEFINE r == [handler[t] EXCEPT !.at = at]
  <1>1. handler[t] \in HandlerRecords BY DEF HandlersOk
  <1>2. r \in HandlerRecords BY <1>1 DEF HandlerRecords
  <1>3. r.at = at /\ r.user = handler[t].user /\ r.target = handler[t].target
        /\ r.seen = handler[t].seen /\ r.todo = handler[t].todo
    BY <1>1 DEF HandlerRecords
  <1>4. Sound(r) BY <1>3 DEF Sound
  <1>5. Careful(r) BY <1>3 DEF HandlersOk, Careful
  <1>6. handler' = [handler EXCEPT ![t] = r] BY DEF Go, HandlersOk
  <1> HIDE DEF r
  <1> QED BY <1>2, <1>4, <1>5, <1>6, HandlerBecomes

LEMMA InVainKeeps ==
    ASSUME PlexOk, NEW u \in Users, InVain(u), UNCHANGED <<playing, sse, events>>
    PROVE  PlexOk'
BY DEF PlexOk, InVain, Watching

\* Sonarr keeps at least the baseline of each season.
LEMMA SonarrBecomes ==
    ASSUME SonarrOk, kind \in Kinds, UNCHANGED kind, NEW s \in 1..Seasons,
           NEW v \in {"off", "pilot"} \cup Monitored,
           Baseline[s] = "pilot" => v # "off", Baseline[s] = "sought" => v = "sought",
           sonarr' = [sonarr EXCEPT ![s] = v], excused' \subseteq 1..Seasons
    PROVE  SonarrOk'
PROOF
  <1>1. Baseline' = Baseline BY DEF Baseline
  <1>2. sonarr' \in [1..Seasons -> {"off", "pilot"} \cup Monitored] BY DEF SonarrOk
  <1>3. \A r \in 1..Seasons : sonarr'[r] = IF r = s THEN v ELSE sonarr[r] BY DEF SonarrOk
  <1>4. OriginalStateKept' BY <1>1, <1>3 DEF SonarrOk, OriginalStateKept
  <1> QED BY <1>2, <1>4 DEF SonarrOk

-----------------------------------------------------------------------------
(* Plex and time.                                                          *)

LEMMA SonarrStays ==
    ASSUME SonarrOk, UNCHANGED <<kind, sonarr, excused>>
    PROVE  SonarrOk'
BY DEF SonarrOk, OriginalStateKept, Baseline

LEMMA HandlersStay ==
    ASSUME HandlersOk, UNCHANGED <<kind, handler>>
    PROVE  HandlersOk'
BY DEF HandlersOk, Sound, Careful

LEMMA PlexKeeps ==
    ASSUME MonitorInv,
           \/ \E u \in Users : (\E p \in Plays[u] : Play(u, p)) \/ Stop(u) \/ Elapse(u)
           \/ Switch
           \/ UNCHANGED vars
    PROVE  MonitorInv'
PROOF
  <1> USE DEF MonitorInv
  <1>1. ASSUME NEW u \in Users, NEW p \in Plays[u], Play(u, p) PROVE MonitorInv'
    <2>1. PlexOk' BY <1>1, PlayIsPosition DEF Play, PlexOk, Watching
    <2>2. BoundsOk' BY <1>1, RollingAssumption DEF Play, BoundsOk
    <2> QED BY <1>1, <2>1, <2>2, SonarrStays, HandlersStay DEF Play, RowsOk
  <1>2. ASSUME NEW u \in Users, Stop(u) PROVE MonitorInv'
    <2>1. PlexOk' BY <1>2 DEF Stop, PlexOk, Watching
    <2> QED BY <1>2, <2>1, SonarrStays, HandlersStay DEF Stop, RowsOk, BoundsOk
  <1>3. ASSUME NEW u \in Users, Elapse(u) PROVE MonitorInv'
    BY <1>3, SonarrStays, HandlersStay DEF Elapse, PlexOk, Watching, RowsOk, BoundsOk
  <1>4. CASE Switch
    <2>1. PlexOk' BY <1>4 DEF Switch, PlexOk, Watching
    <2> QED BY <1>4, <2>1, SonarrStays, HandlersStay, BoundsCount DEF Switch, RowsOk
  <1>5. CASE UNCHANGED vars
    BY <1>5, SonarrStays, HandlersStay DEF vars, PlexOk, Watching, RowsOk, BoundsOk
  <1> QED BY <1>1, <1>2, <1>3, <1>4, <1>5

-----------------------------------------------------------------------------
(* Handlers.                                                               *)

LEMMA BeginKeeps ==
    ASSUME RowsOk, HandlersOk, PlexOk, NEW t \in Handlers, NEW u \in Users, NEW poll \in BOOLEAN,
           Begin(t, u, poll)
    PROVE  RowsOk' /\ HandlersOk'
PROOF
  <1> DEFINE row == IF HasRow(u) THEN rows[u] ELSE NewRow
             r == [NoHandler EXCEPT !.at = "progress", !.poll = poll, !.user = u,
                                    !.pos = playing[u], !.prior = row.last, !.mark = row.mark]
  <1>1. row \in RowRecords
    BY RollingAssumption DEF RowsOk, RowRecords, NewRow, Positions
  <1>2. playing[u] \in Positions BY PlayIsPosition DEF Begin, PlexOk, Watching
  <1>3. RowsOk' BY <1>1 DEF Begin, RowsOk
  <1>4. /\ r.at = "progress" /\ r.poll = poll /\ r.user = u /\ r.pos = playing[u]
        /\ r.prior = row.last /\ r.mark = row.mark /\ r.todo = {} /\ r.seen = {} /\ r.target = 0
    BY DEF NoHandler
  <1>5. r \in HandlerRecords
    BY <1>1, <1>2, NoHandlerIdle DEF HandlerRecords, RowRecords, Stages
  <1>6. Sound(r) /\ Careful(r) BY <1>4 DEF Sound, Careful
  <1>7. handler' = [handler EXCEPT ![t] = r] /\ kind' = kind BY DEF Begin
  <1> HIDE DEF r
  <1> QED BY <1>3, <1>5, <1>6, <1>7, HandlerBecomes

LEMMA PollEventKeep ==
    ASSUME MonitorInv, NEW t \in Handlers, NEW u \in Users, Poll(t, u) \/ Event(t, u)
    PROVE  MonitorInv'
PROOF
  <1> USE DEF MonitorInv
  <1>1. CASE Poll(t, u)
    <2>1. RowsOk' /\ HandlersOk' BY <1>1, BeginKeeps DEF Poll
    <2> QED BY <1>1, <2>1, SonarrStays DEF Poll, Begin, PlexOk, Watching, BoundsOk
  <1>2. CASE Event(t, u) /\ Begin(t, u, FALSE) /\ Works /\ UNCHANGED missed
    <2>1. RowsOk' /\ HandlersOk' BY <1>2, BeginKeeps
    <2> QED BY <1>2, <2>1, SonarrStays, BoundsCount DEF Event, Begin, PlexOk, Watching
  <1>3. CASE /\ Event(t, u) /\ InVain(u) /\ (Fault \/ Works)
             /\ UNCHANGED <<kind, playing, sse, sonarr, rows, recent, handler, reset, excused>>
    <2>1. PlexOk' BY <1>3 DEF Event, PlexOk, InVain, Watching
    <2> QED BY <1>3, <2>1, SonarrStays, HandlersStay, BoundsCount DEF Event, RowsOk
  <1> QED BY <1>1, <1>2, <1>3 DEF Event

\* The row may be written, and what cleanup will remove is settled on the rows
\* as they are then.
LEMMA ProgressKeeps ==
    ASSUME MonitorInv, NEW t \in Handlers, Progress(t)
    PROVE  MonitorInv'
PROOF
  <1> USE DEF MonitorInv
  <1> DEFINE h == handler[t]
             todo == IF HasRow(h.user) /\ h.pos[1] > rows[h.user].last[1]
                     THEN Eligible(h, rows', recent') ELSE {}
             seen == {p \in Users \X todo : NeedsIn(rows', recent', p[1], p[2])}
             r == [h EXCEPT !.at = IF todo = {} THEN "check" ELSE "clean", !.todo = todo,
                            !.seen = seen]
  <1>1. h \in HandlerRecords /\ h.user \in Users
    BY DEF HandlersOk, Progress, Sound
  <1>2. /\ todo \subseteq 1..Seasons
        /\ \A s \in todo, u \in Users : ~NeedsIn(rows', recent', u, s)
        /\ kind = "firstSeasonRolling" => 1 \notin todo
    BY DEF Eligible
  <1>3. seen = {} BY <1>2
  <1>4. r \in HandlerRecords
    BY <1>1, <1>2, <1>3 DEF HandlerRecords, Stages
  <1>5. /\ r.at \in {"check", "clean"} /\ r.user = h.user /\ r.todo = todo /\ r.seen = {}
    BY <1>1, <1>3 DEF HandlerRecords
  <1>6. Sound(r) /\ Careful(r) BY <1>1, <1>2, <1>5 DEF Sound, Careful
  <1>7. handler' = [handler EXCEPT ![t] = r] /\ kind' = kind
    BY DEF Progress, HandlersOk
  <1>8. HandlersOk'
    <2> HIDE DEF r
    <2> QED BY <1>4, <1>6, <1>7, HandlerBecomes
  <1>9. RowsOk'
    <2>1. h.pos \in Positions BY <1>1 DEF HandlerRecords
    <2>2. [rows EXCEPT ![h.user].last = h.pos] \in [Users -> RowRecords]
      BY <1>1, <2>1 DEF RowsOk, RowRecords
    <2> QED BY <1>1, <2>2 DEF Progress, RowsOk
  <1>10. PlexOk' BY <1>1, InVainKeeps DEF Progress, PlexOk, Watching
  <1> HIDE DEF h, todo, seen, r
  <1> QED BY <1>8, <1>9, <1>10, SonarrStays, BoundsCount DEF Progress

\* Seasons of the baseline are not among those that cleanup turns off.
LEMMA CleanKeeps ==
    ASSUME MonitorInv, NEW t \in Handlers, Clean(t)
    PROVE  MonitorInv'
PROOF
  <1> USE DEF MonitorInv
  <1> DEFINE h == handler[t]
  <1>1. h \in HandlerRecords /\ h.at = "clean" /\ h.user \in Users /\ Careful(h)
    BY DEF HandlersOk, Clean, Sound
  <1>2. ASSUME NEW r \in HandlerRecords, r.user = h.user, r.at \in {"clean", "check"},
               r.seen = h.seen, r.todo \subseteq h.todo, kind' = kind,
               handler' = [handler EXCEPT ![t] = r]
        PROVE  HandlersOk'
    <2>1. Sound(r) /\ Careful(r) BY <1>1, <1>2 DEF Sound, Careful
    <2> QED BY <1>2, <2>1, HandlerBecomes
  <1>3. ASSUME NEW s \in h.todo, Clean(t), Works,
               sonarr' = [sonarr EXCEPT ![s] =
                            IF kind = "allSeasonPilotRolling" \/ s = 1 THEN "pilot" ELSE "off"],
               excused' = excused \cup Overtaken({s}, h.seen),
               handler' = [handler EXCEPT ![t].todo = @ \ {s},
                                          ![t].at = IF h.todo = {s} THEN "check" ELSE "clean"]
        PROVE  MonitorInv'
    <2> DEFINE r == [h EXCEPT !.todo = @ \ {s}, !.at = IF h.todo = {s} THEN "check" ELSE "clean"]
    <2>1. s \in 1..Seasons BY <1>1 DEF HandlerRecords
    <2>2. r \in HandlerRecords BY <1>1 DEF HandlerRecords, Stages
    <2>3. /\ r.user = h.user /\ r.at \in {"clean", "check"} /\ r.seen = h.seen
          /\ r.todo \subseteq h.todo
      BY <1>1 DEF HandlerRecords
    <2>4. handler' = [handler EXCEPT ![t] = r] BY <1>3 DEF HandlersOk
    <2>5. HandlersOk'
      <3> HIDE DEF r
      <3> QED BY <1>2, <1>3, <2>2, <2>3, <2>4 DEF Clean
    <2>6. SonarrOk'
      <3> DEFINE v == IF kind = "allSeasonPilotRolling" \/ s = 1 THEN "pilot" ELSE "off"
      <3>1. /\ v \in {"off", "pilot"} \cup Monitored
            /\ Baseline[s] = "pilot" => v # "off"
            /\ Baseline[s] = "sought" => v = "sought"
        BY <1>1, <2>1, RollingAssumption DEF Baseline, Careful
      <3>2. excused' \subseteq 1..Seasons BY <1>3, <2>1 DEF Overtaken, SonarrOk
      <3>3. sonarr' = [sonarr EXCEPT ![s] = v] BY <1>3
      <3> HIDE DEF v
      <3> QED BY <1>3, <2>1, <3>1, <3>2, <3>3, SonarrBecomes DEF Clean
    <2> QED BY <1>3, <2>5, <2>6, BoundsCount DEF Clean, PlexOk, Watching, RowsOk
  <1>4. CASE /\ Fault /\ handler' = [handler EXCEPT ![t].todo = {}, ![t].at = "check"]
             /\ UNCHANGED <<sonarr, excused>>
    <2> DEFINE r == [h EXCEPT !.todo = {}, !.at = "check"]
    <2>1. r \in HandlerRecords BY <1>1 DEF HandlerRecords, Stages
    <2>2. r.user = h.user /\ r.at = "check" /\ r.seen = h.seen /\ r.todo = {}
      BY <1>1 DEF HandlerRecords
    <2>3. handler' = [handler EXCEPT ![t] = r] BY <1>4 DEF HandlersOk
    <2>4. HandlersOk'
      <3> HIDE DEF r
      <3> QED BY <1>2, <2>1, <2>2, <2>3 DEF Clean
    <2> QED BY <1>4, <2>4, SonarrStays, BoundsCount DEF Clean, PlexOk, Watching, RowsOk
  <1> QED BY <1>3, <1>4 DEF Clean

LEMMA FailKeeps ==
    ASSUME HandlersOk, UNCHANGED kind, NEW t \in Handlers, Fail(t), handler[t].user \in Users
    PROVE  HandlersOk'
BY DoneKeeps, GoKeeps DEF Fail, Stages

LEMMA CheckKeeps ==
    ASSUME MonitorInv, NEW t \in Handlers, Check(t)
    PROVE  MonitorInv'
PROOF
  <1> USE DEF MonitorInv
  <1> DEFINE h == handler[t]
             wanted == Wanted(h.pos)
             r == [h EXCEPT !.at = "monitor", !.target = wanted]
  <1>1. h \in HandlerRecords /\ h.user \in Users /\ Careful(h)
    BY DEF HandlersOk, Check, Sound
  <1>2. wanted \in 0..Seasons BY <1>1, WantedIsSeason DEF HandlerRecords
  <1>3. ASSUME wanted # 0,
               handler' = [handler EXCEPT ![t].at = "monitor", ![t].target = wanted]
        PROVE  HandlersOk'
    <2>1. r \in HandlerRecords BY <1>1, <1>2 DEF HandlerRecords, Stages
    <2>2. r.user = h.user /\ r.target = wanted /\ r.seen = h.seen /\ r.todo = h.todo
      BY <1>1 DEF HandlerRecords
    <2>3. Sound(r) /\ Careful(r) BY <1>1, <1>3, <2>2 DEF Sound, Careful
    <2>4. handler' = [handler EXCEPT ![t] = r] BY <1>3 DEF HandlersOk
    <2>5. kind' = kind BY DEF Check
    <2> HIDE DEF r
    <2> QED BY <2>1, <2>3, <2>4, <2>5, HandlerBecomes
  <1>4. HandlersOk' BY <1>1, <1>3, DoneKeeps, FailKeeps DEF Check
  <1>5. PlexOk' BY <1>1, InVainKeeps DEF Check, PlexOk, Watching
  <1> QED BY <1>4, <1>5, SonarrStays, BoundsCount DEF Check, RowsOk

LEMMA MonitorKeeps ==
    ASSUME MonitorInv, NEW t \in Handlers, Monitor(t)
    PROVE  MonitorInv'
PROOF
  <1> USE DEF MonitorInv
  <1> DEFINE h == handler[t]
             v == IF sonarr[h.target] = "sought" THEN "sought" ELSE "set"
  <1>1. /\ h \in HandlerRecords /\ h.user \in Users
        /\ h.target # 0 /\ h.target \in 1..Seasons
    BY RollingAssumption DEF HandlersOk, HandlerRecords, Monitor, Sound
  <1>2. HandlersOk' BY <1>1, GoKeeps, FailKeeps DEF Monitor, Stages
  <1>3. PlexOk' BY <1>1, InVainKeeps DEF Monitor, PlexOk, Watching
  <1>4. ASSUME sonarr' = [sonarr EXCEPT ![h.target] = v], excused' \subseteq 1..Seasons
        PROVE  SonarrOk'
    <2>1. /\ v \in {"off", "pilot"} \cup Monitored
          /\ Baseline[h.target] = "pilot" => v # "off"
          /\ Baseline[h.target] = "sought" => v = "sought"
      BY <1>1 DEF Monitored, SonarrOk, OriginalStateKept
    <2> HIDE DEF v
    <2> QED BY <1>1, <1>4, <2>1, SonarrBecomes DEF Monitor
  <1>5. SonarrOk'
    <2>1. CASE UNCHANGED <<sonarr, excused>> BY <2>1, SonarrStays DEF Monitor
    <2>2. CASE /\ sonarr' = [sonarr EXCEPT ![h.target] = v]
               /\ excused' \in {excused, excused \cup {h.target}}
      <3>1. excused' \subseteq 1..Seasons BY <1>1, <2>2 DEF SonarrOk
      <3> QED BY <1>4, <2>2, <3>1
    <2>3. [sonarr EXCEPT ![h.target] = IF @ = "sought" THEN @ ELSE "set"]
            = [sonarr EXCEPT ![h.target] = v]
      BY <1>1 DEF SonarrOk
    <2> QED BY <2>1, <2>2, <2>3 DEF Monitor
  <1> QED BY <1>2, <1>3, <1>5, BoundsCount DEF Monitor, RowsOk

LEMMA SearchKeeps ==
    ASSUME MonitorInv, NEW t \in Handlers, Search(t)
    PROVE  MonitorInv'
PROOF
  <1> USE DEF MonitorInv
  <1> DEFINE h == handler[t]
  <1>1. /\ h \in HandlerRecords /\ h.user \in Users
        /\ h.target # 0 /\ h.target \in 1..Seasons
    BY RollingAssumption DEF HandlersOk, HandlerRecords, Search, Sound
  <1>2. HandlersOk' BY <1>1, GoKeeps, FailKeeps DEF Search, Stages
  <1>3. PlexOk' BY <1>1, InVainKeeps DEF Search, PlexOk, Watching
  <1>4. SonarrOk'
    <2>1. excused' \subseteq 1..Seasons BY <1>1 DEF Search, SonarrOk
    <2>2. CASE sonarr' = sonarr
      BY <2>1, <2>2 DEF Search, SonarrOk, OriginalStateKept, Baseline
    <2>3. CASE sonarr[h.target] = "set" /\ sonarr' = [sonarr EXCEPT ![h.target] = "sought"]
      BY <1>1, <2>1, <2>3, SonarrBecomes DEF Search, Monitored
    <2> QED BY <2>2, <2>3 DEF Search
  <1> QED BY <1>2, <1>3, <1>4, BoundsCount DEF Search, RowsOk

LEMMA MarkRevertKeep ==
    ASSUME MonitorInv, NEW t \in Handlers, Mark(t) \/ Revert(t)
    PROVE  MonitorInv'
PROOF
  <1> USE DEF MonitorInv
  <1> DEFINE h == handler[t]
  <1>1. /\ h \in HandlerRecords /\ h.user \in Users
        /\ h.prior \in Positions /\ h.target \in 0..Seasons
    BY DEF HandlersOk, HandlerRecords, Mark, Revert, Sound
  <1>2. HandlersOk' BY DoneKeeps DEF Mark, Revert
  <1>3. /\ [rows EXCEPT ![h.user].last = h.prior] \in [Users -> RowRecords]
        /\ [rows EXCEPT ![h.user].mark = h.target] \in [Users -> RowRecords]
    BY <1>1 DEF RowsOk, RowRecords
  <1>4. RowsOk' BY <1>1, <1>3 DEF Mark, Revert, RowsOk
  <1>5. PlexOk' BY <1>1, InVainKeeps DEF Mark, Revert, PlexOk, Watching
  <1>6. BoundsOk' BY BoundsCount DEF Mark, Revert
  <1> QED BY <1>2, <1>4, <1>5, <1>6, SonarrStays DEF Mark, Revert

-----------------------------------------------------------------------------
(* The reset.                                                              *)

LEMMA BaselineTyped ==
    ASSUME kind \in Kinds
    PROVE  Baseline \in [1..Seasons -> {"off", "pilot"} \cup Monitored]
BY DEF Baseline, Monitored

LEMMA ResetKeeps ==
    ASSUME MonitorInv, ResetStep
    PROVE  MonitorInv'
PROOF
  <1> USE DEF MonitorInv
  <1>1. CASE ResetList
    BY <1>1, SonarrStays, HandlersStay DEF ResetList, PlexOk, Watching, RowsOk, BoundsOk
  <1>2. CASE ResetSonarr
    <2>1. SonarrOk'
      <3>1. CASE UNCHANGED <<sonarr, excused>> BY <1>2, <3>1, SonarrStays DEF ResetSonarr
      <3>2. CASE /\ sonarr' = Baseline
                 /\ excused' = excused \cup Overtaken({s \in 1..Seasons : sonarr[s] # Baseline[s]}, {})
        <4>1. Baseline' = Baseline BY <1>2 DEF ResetSonarr, Baseline
        <4>2. excused' \subseteq 1..Seasons BY <3>2 DEF Overtaken, SonarrOk
        <4> QED BY <3>2, <4>1, <4>2, BaselineTyped DEF SonarrOk, OriginalStateKept
      <3> QED BY <1>2, <3>1, <3>2 DEF ResetSonarr
    <2> QED BY <1>2, <2>1, HandlersStay, BoundsCount DEF ResetSonarr, PlexOk, Watching, RowsOk
  <1>3. CASE ResetRows
    <2>1. RowsOk'
      BY <1>3, RollingAssumption DEF ResetRows, RowsOk, RowRecords, NoRow, Positions
    <2>2. SonarrOk'
      BY <1>3 DEF ResetRows, SonarrOk, OriginalStateKept, Baseline
    <2> QED BY <1>3, <2>1, <2>2, HandlersStay, BoundsCount DEF ResetRows, PlexOk, Watching
  <1> QED BY <1>1, <1>2, <1>3 DEF ResetStep

-----------------------------------------------------------------------------
(* The theorems.                                                           *)

LEMMA InitMonitored == Init => MonitorInv
PROOF
  <1> SUFFICES ASSUME Init PROVE MonitorInv
    OBVIOUS
  <1>1. PlexOk BY DEF Init, PlexOk, Watching
  <1>2. SonarrOk BY BaselineTyped DEF Init, SonarrOk, OriginalStateKept
  <1>3. RowsOk BY RollingAssumption DEF Init, RowsOk, RowRecords, NoRow, Positions
  <1>4. HandlersOk BY NoHandlerIdle DEF Init, HandlersOk
  <1>5. BoundsOk BY RollingAssumption DEF Init, BoundsOk
  <1> QED BY <1>1, <1>2, <1>3, <1>4, <1>5 DEF Init, MonitorInv

LEMMA MonitorHolds == Spec => []MonitorInv
PROOF
  <1>1. Init => MonitorInv BY InitMonitored
  <1>2. MonitorInv /\ [Next]_vars => MonitorInv'
    BY PlexKeeps, PollEventKeep, ProgressKeeps, CleanKeeps, CheckKeeps, MonitorKeeps,
       SearchKeeps, MarkRevertKeep, ResetKeeps DEF Next, HandlerStep
  <1> QED BY <1>1, <1>2, PTL DEF Spec

\* Sessions, rows, handlers, the reset and what Sonarr monitors keep their types,
\* however handlers of sessions, cleanups and resets interleave: TypeOK.
THEOREM MonitorTypeCorrect == Spec => []TypeOK
BY MonitorHolds, InvTyped, PTL

\* Whatever expansions, progressive cleanups and resets run into each other, the
\* seasons that the monitoring type starts with stay monitored:
\* OriginalStateKept.
THEOREM OriginalStays == Spec => []OriginalStateKept
PROOF
  <1>1. MonitorInv => OriginalStateKept BY DEF MonitorInv, SonarrOk
  <1> QED BY <1>1, MonitorHolds, PTL

\* Who comes to need a season before cleanup or a reset decides keeps it:
\* NeededKept.
THEOREM NeededStays == Spec => NeededKept
PROOF
  <1> DEFINE A == \A s \in 1..Seasons :
                sonarr[s] \in Monitored /\ sonarr'[s] \notin Monitored /\ Needed(s) => s \in excused'
  <1>1. ASSUME MonitorInv, [Next]_vars PROVE [A]_vars
    <2> SUFFICES ASSUME NEW s \in 1..Seasons, sonarr[s] \in Monitored,
                        sonarr'[s] \notin Monitored, Needed(s)
                 PROVE  s \in excused'
      OBVIOUS
    <2>1. PICK u \in Users : Needs(u, s) BY DEF Needed
    <2>2. ASSUME NEW t \in Handlers, Clean(t) PROVE s \in excused'
      <3>1. handler[t].seen = {} BY <1>1 DEF MonitorInv, HandlersOk, Careful
      <3>2. PICK r \in handler[t].todo :
              /\ sonarr' = [sonarr EXCEPT ![r] =
                              IF kind = "allSeasonPilotRolling" \/ r = 1 THEN "pilot" ELSE "off"]
              /\ excused' = excused \cup Overtaken({r}, handler[t].seen)
        BY <2>2 DEF Clean
      <3>3. r = s BY <1>1, <3>2 DEF MonitorInv, SonarrOk
      <3> QED BY <2>1, <3>1, <3>2, <3>3 DEF Overtaken
    <2>3. CASE ResetSonarr
      BY <2>1, <2>3 DEF ResetSonarr, Overtaken
    <2>4. ASSUME NEW t \in Handlers, Monitor(t) \/ Search(t) PROVE FALSE
      BY <1>1, <2>4 DEF Monitor, Search, Monitored, MonitorInv, SonarrOk
    <2>5. sonarr' # sonarr OBVIOUS
    <2> QED BY <1>1, <2>2, <2>3, <2>4, <2>5
            DEF Next, HandlerStep, ResetStep, Play, Stop, Switch, Elapse, Poll, Event, Begin,
                Progress, Check, Mark, Revert, ResetList, ResetRows, vars
  <1> QED BY <1>1, MonitorHolds, PTL DEF Spec, NeededKept

\* The mark of a user goes down only to a handler that read it before another
\* one raised it: MarkKept.
THEOREM MarkStays == Spec => MarkKept
PROOF
  <1> DEFINE A == \A u \in Users :
                rows'[u].mark < rows[u].mark /\ rows'[u] # NoRow =>
                  \E t \in Handlers : /\ handler[t].user = u /\ handler[t].at = "mark"
                                      /\ handler[t].mark # rows[u].mark
  <1>1. ASSUME MonitorInv, [Next]_vars PROVE [A]_vars
    <2> SUFFICES ASSUME NEW u \in Users, rows'[u].mark < rows[u].mark, rows'[u] # NoRow
                 PROVE  \E t \in Handlers : /\ handler[t].user = u /\ handler[t].at = "mark"
                                            /\ handler[t].mark # rows[u].mark
      OBVIOUS
    <2>1. rows \in [Users -> RowRecords] /\ rows[u].mark \in Nat
      BY <1>1 DEF MonitorInv, RowsOk, RowRecords
    <2>2. ASSUME NEW t \in Handlers, Mark(t)
          PROVE  handler[t].user = u /\ handler[t].at = "mark" /\ handler[t].mark # rows[u].mark
      <3>1. /\ rows' = [rows EXCEPT ![handler[t].user].mark = handler[t].target]
            /\ handler[t].target > handler[t].mark /\ handler[t].at = "mark"
        BY <2>1, <2>2 DEF Mark
      <3>2. handler[t].target \in Nat /\ handler[t].mark \in Nat
        BY <1>1 DEF MonitorInv, HandlersOk, HandlerRecords
      <3>3. handler[t].user = u /\ rows'[u].mark = handler[t].target
        BY <2>1, <3>1 DEF RowRecords
      <3> QED BY <2>1, <3>1, <3>2, <3>3
    <2>3. ASSUME NEW t \in Handlers, Progress(t) \/ Revert(t) PROVE FALSE
      <3> DEFINE v == handler[t].user
      <3>1. \/ rows' = rows
            \/ rows' = [rows EXCEPT ![v].last = handler[t].pos]
            \/ rows' = [rows EXCEPT ![v].last = handler[t].prior]
        BY <2>3 DEF Progress, Revert
      <3>2. rows'[u].mark = rows[u].mark
        BY <2>1, <3>1 DEF RowRecords
      <3> QED BY <2>1, <3>2
    <2>4. ASSUME NEW t \in Handlers, NEW v \in Users, Poll(t, v) \/ Event(t, v) PROVE FALSE
      <3>1. rows'[u] \in {rows[u], NewRow} /\ (rows'[u] = NewRow => rows[u] \in {NoRow, NewRow})
        BY <2>1, <2>4 DEF Poll, Event, Begin, HasRow
      <3> QED BY <2>1, <3>1 DEF NoRow, NewRow
    <2>5. CASE ResetRows BY <2>1, <2>5 DEF ResetRows
    <2>6. rows' # rows BY <2>1
    <2> QED BY <1>1, <2>2, <2>3, <2>4, <2>5, <2>6
            DEF Next, HandlerStep, ResetStep, Play, Stop, Switch, Elapse, Clean, Check, Monitor,
                Search, ResetList, ResetSonarr, vars
  <1> QED BY <1>1, MonitorHolds, PTL DEF Spec, MarkKept
=============================================================================
