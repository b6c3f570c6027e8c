------------------------ MODULE WebhookQueue_proofs ------------------------
(***************************************************************************)
(* Type correctness, the state invariants and the action property of the   *)
(* webhook queue, for any webhooks, seasons, episodes, payloads and        *)
(* episode counts.                                                         *)
(*                                                                         *)
(* A handler works on the queue in several synchronous steps that one      *)
(* action joins: it records its request, pushes episodes, stops a timer,   *)
(* starts a send.  Shape and Watched are therefore operators of the state, *)
(* so that the lemmas can speak of the values between two such steps.      *)
(***************************************************************************)
EXTENDS WebhookQueue, TLAPS

PcType == {"idle", "notifying", "fetching", "queued",
           "duplicate", "skipped", "done", "failed"}
TimerType == {"none", "armed", "cleared", "fired"}
ProcType == [at : {"idle", "sending", "storing"},
             on : Webhooks \cup {None}, batch : SUBSET Episodes]

QueueType(pcx, rq, sh, cu, en, tm, pr) ==
    /\ pcx \in [Webhooks -> PcType]
    /\ rq \in [Webhooks -> Requests \cup {None}]
    /\ sh \in BOOLEAN
    /\ cu \in [Seasons -> Webhooks \cup {None}]
    /\ en \in [Webhooks -> EntryType \cup {None}]
    /\ tm \in [Webhooks -> TimerType]
    /\ pr \in [Processors -> ProcType]

\* The map holds entries of the right season, in a show that exists.
MapOk(rq, sh, cu, en) ==
    \A s \in Seasons : cu[s] # None =>
        /\ sh /\ en[cu[s]] # None
        /\ rq[cu[s]] # None /\ rq[cu[s]].season = s

\* A handler makes its entry and its timer only after it entered the season.
HandlersOk(pcx, rq, en, tm) ==
    \A w \in Webhooks :
        /\ pcx[w] # "idle" => rq[w] # None
        /\ pcx[w] = "fetching" => en[w] # None
        /\ pcx[w] \in {"idle", "notifying"} => en[w] = None /\ tm[w] = "none"

\* The timer of an entry was made by a webhook of the same season.
TimersOk(rq, en) ==
    \A o \in Webhooks : en[o] # None =>
        /\ rq[o] # None
        /\ en[o].timeoutId # None =>
             /\ rq[en[o].timeoutId] # None
             /\ rq[en[o].timeoutId].season = rq[o].season

\* A processor in flight works on a notified entry of its own season; a timer
\* starts one by firing, a handler by queueing.
SendersOk(pcx, rq, en, tm, pr) ==
    \A p \in Processors : pr[p].at # "idle" =>
        /\ pr[p].on \in Webhooks
        /\ en[pr[p].on] # None /\ en[pr[p].on].notified
        /\ rq[pr[p].on] # None /\ rq[p[2]] # None
        /\ rq[p[2]].season = rq[pr[p].on].season
        /\ p[1] = "timer" => tm[p[2]] = "fired"
        /\ p[1] = "handler" => pcx[p[2]] = "queued"

SingleSender(pr) ==
    \A p, q \in Processors :
        (pr[p].at # "idle" /\ pr[q].at # "idle" /\ pr[p].on = pr[q].on) => p = q

Shape(pcx, rq, sh, cu, en, tm, pr) ==
    /\ QueueType(pcx, rq, sh, cu, en, tm, pr)
    /\ MapOk(rq, sh, cu, en)
    /\ HandlersOk(pcx, rq, en, tm)
    /\ TimersOk(rq, en)
    /\ SendersOk(pcx, rq, en, tm, pr)
    /\ SingleSender(pr)

\* The entries of the seasons in Z have an armed timer or a sender.
Watched(Z, cu, en, tm, pr) ==
    \A s \in Z : cu[s] # None =>
        \/ en[cu[s]].timeoutId # None /\ tm[en[cu[s]].timeoutId] = "armed"
        \/ \E p \in Processors : pr[p].at # "idle" /\ pr[p].on = cu[s]

HistoryType ==
    /\ running \in BOOLEAN
    /\ covered \in [Webhooks -> SUBSET Episodes]
    /\ raced \subseteq Webhooks

\* A webhook that has not come has no request.
IdleOk == \A w \in Webhooks : pc[w] = "idle" => req[w] = None

IInv ==
    /\ IdleOk
    /\ Shape(pc, req, show, cur, entry, timer, proc)
    /\ Watched(Seasons, cur, entry, timer, proc)
    /\ HistoryType

-----------------------------------------------------------------------------
\* A processor is named by its kind and by a webhook.
LEMMA ProcessorParts ==
    /\ \A p \in Processors : p[1] \in {"timer", "handler"} /\ p[2] \in Webhooks
    /\ \A w \in Webhooks : <<"timer", w>> \in Processors /\ <<"handler", w>> \in Processors
    /\ \A p \in Processors : p = <<p[1], p[2]>>
BY DEF Processors

\* The invariant gives the properties of the module.

LEMMA IInvImpliesTypeOK == IInv => TypeOK
BY DEF IInv, Shape, QueueType, HistoryType, TypeOK, PcType, TimerType, ProcType

LEMMA IInvImpliesNoStranded == IInv => NoStrandedSeason
BY DEF IInv, Watched, NoStrandedSeason, InFlight

LEMMA IInvImpliesOneSend == IInv => OneSendPerBatch
BY DEF IInv, Shape, SingleSender, OneSendPerBatch, InFlight

LEMMA InitIInv == Init => IInv
PROOF
  <1> SUFFICES ASSUME Init PROVE IInv
    OBVIOUS
  <1>1. Idle \in ProcType /\ Idle.at = "idle"
    BY DEF Idle, ProcType
  <1>2. QueueType(pc, req, show, cur, entry, timer, proc)
    BY <1>1 DEF Init, QueueType, PcType, TimerType
  <1>3. HistoryType
    BY DEF Init, HistoryType
  <1>4. MapOk(req, show, cur, entry) /\ Watched(Seasons, cur, entry, timer, proc)
    BY DEF Init, MapOk, Watched
  <1>5. HandlersOk(pc, req, entry, timer) /\ TimersOk(req, entry)
    BY DEF Init, HandlersOk, TimersOk
  <1>6. SendersOk(pc, req, entry, timer, proc) /\ SingleSender(proc)
    BY <1>1 DEF Init, SendersOk, SingleSender
  <1>7. IdleOk
    BY DEF Init, IdleOk
  <1> QED BY <1>2, <1>3, <1>4, <1>5, <1>6, <1>7 DEF IInv, Shape

-----------------------------------------------------------------------------
\* Clearing a timer changes that timer only.
LEMMA ClearedTimer ==
    ASSUME NEW tm \in [Webhooks -> TimerType], NEW t \in Webhooks \cup {None}
    PROVE  /\ Cleared(tm, t) \in [Webhooks -> TimerType]
           /\ \A u \in Webhooks \ {t} : Cleared(tm, t)[u] = tm[u]
           /\ \A u \in Webhooks : tm[u] # "armed" => Cleared(tm, t)[u] = tm[u]
BY DEF Cleared, TimerType

\* Removing a season from the map keeps the shape and the watch on the others.
LEMMA RemovalKeeps ==
    ASSUME NEW pcx, NEW rq, NEW es, NEW tm, NEW pr, NEW s \in Seasons,
           Shape(pcx, rq, show, cur, es, tm, pr),
           Watched(Seasons \ {s}, cur, es, tm, pr),
           CleanupSeasonQueue(s)
    PROVE  /\ Shape(pcx, rq, show', cur', es, tm, pr)
           /\ Watched(Seasons, cur', es, tm, pr)
PROOF
  <1>1. /\ cur' = [cur EXCEPT ![s] = None]
        /\ show' = (show /\ \E z \in Seasons \ {s} : cur[z] # None)
    BY DEF CleanupSeasonQueue
  <1>2. QueueType(pcx, rq, show', cur', es, tm, pr)
    BY <1>1 DEF Shape, QueueType
  <1>3. MapOk(rq, show', cur', es)
    BY <1>1 DEF Shape, MapOk, QueueType
  <1>4. Watched(Seasons, cur', es, tm, pr)
    BY <1>1 DEF Shape, QueueType, Watched
  <1> QED BY <1>2, <1>3, <1>4 DEF Shape

\* Stopping the timer of the season's own entry keeps the shape, and the watch
\* on the other seasons: their timers were made for them.
LEMMA StoppingKeeps ==
    ASSUME NEW pcx, NEW rq, NEW es, NEW tm, NEW pr, NEW s \in Seasons,
           Shape(pcx, rq, show, cur, es, tm, pr),
           Watched(Seasons \ {s}, cur, es, tm, pr),
           cur[s] # None
    PROVE  LET off == Cleared(tm, es[cur[s]].timeoutId)
           IN  /\ Shape(pcx, rq, show, cur, es, off, pr)
               /\ Watched(Seasons \ {s}, cur, es, off, pr)
PROOF
  <1> DEFINE c == cur[s]
             t == es[c].timeoutId
             off == Cleared(tm, t)
  <1> USE QueueAssumption
  <1>1. c \in Webhooks /\ es[c] \in EntryType /\ t \in Webhooks \cup {None}
    BY DEF Shape, QueueType, MapOk, EntryType
  <1>2. /\ off \in [Webhooks -> TimerType]
        /\ \A u \in Webhooks \ {t} : off[u] = tm[u]
        /\ \A u \in Webhooks : tm[u] # "armed" => off[u] = tm[u]
    BY <1>1, ClearedTimer DEF Shape, QueueType
  <1> HIDE DEF off
  <1>3. QueueType(pcx, rq, show, cur, es, off, pr)
    BY <1>2 DEF Shape, QueueType
  <1>4. HandlersOk(pcx, rq, es, off)
    BY <1>2 DEF Shape, HandlersOk
  <1>5. SendersOk(pcx, rq, es, off, pr)
    BY <1>2, ProcessorParts DEF Shape, SendersOk
  <1>6. Watched(Seasons \ {s}, cur, es, off, pr)
    <2> SUFFICES ASSUME NEW z \in Seasons \ {s}, cur[z] # None
                 PROVE  \/ es[cur[z]].timeoutId # None /\ off[es[cur[z]].timeoutId] = "armed"
                        \/ \E p \in Processors : pr[p].at # "idle" /\ pr[p].on = cur[z]
      BY DEF Watched
    <2>1. cur[z] \in Webhooks /\ es[cur[z]] # None /\ rq[cur[z]].season = z
      BY DEF Shape, QueueType, MapOk
    <2>2. rq[c].season = s /\ es[c] # None
      BY DEF Shape, MapOk
    <2>3. es[cur[z]].timeoutId # None => es[cur[z]].timeoutId # t
      BY <1>1, <2>1, <2>2 DEF Shape, TimersOk
    <2>4. es[cur[z]].timeoutId \in Webhooks \cup {None}
      BY <2>1 DEF Shape, QueueType, EntryType
    <2> QED BY <1>2, <2>3, <2>4 DEF Watched
  <1> QED BY <1>3, <1>4, <1>5, <1>6 DEF Shape, off

\* Starting to process a season keeps the shape and leaves no season unwatched,
\* whatever happened to the timer of that season just before.
LEMMA StartKeeps ==
    ASSUME NEW pcx, NEW rq, NEW es, NEW tm,
           NEW p \in Processors, NEW s \in Seasons,
           Shape(pcx, rq, show, cur, es, tm, proc),
           Watched(Seasons \ {s}, cur, es, tm, proc),
           proc[p].at = "idle",
           rq[p[2]] # None, rq[p[2]].season = s,
           p[1] = "timer" => tm[p[2]] = "fired",
           p[1] = "handler" => pcx[p[2]] = "queued",
           raced \subseteq Webhooks,
           StartProcessing(p, s, es, tm)
    PROVE  /\ Shape(pcx, rq, show', cur', entry', timer', proc')
           /\ Watched(Seasons, cur', entry', timer', proc')
           /\ raced' \subseteq Webhooks
PROOF
  <1> DEFINE c == cur[s]
             off == Cleared(tm, es[c].timeoutId)
  <1> USE QueueAssumption
  <1>1. CASE c = None
    <2>1. /\ entry' = es /\ timer' = tm /\ show' = show /\ cur' = cur
          /\ proc' = proc /\ raced' = raced
      BY <1>1 DEF StartProcessing
    <2>2. Watched(Seasons, cur, es, tm, proc)
      BY <1>1 DEF Watched
    <2> QED BY <2>1, <2>2
  <1>2. CASE c # None /\ es[c].eps = {}
    <2>1. /\ entry' = es /\ timer' = tm /\ CleanupSeasonQueue(s)
          /\ proc' = proc /\ raced' \in {raced, raced \cup {c}}
      BY <1>2 DEF StartProcessing
    <2>2. c \in Webhooks
      BY <1>2 DEF Shape, QueueType
    <2> HIDE DEF c
    <2> QED BY <2>1, <2>2, RemovalKeeps
  <1>3. CASE c # None /\ es[c].eps # {} /\ ~ShouldProcessSeason(es[c])
    <2>1. /\ entry' = es /\ timer' = off /\ CleanupSeasonQueue(s)
          /\ proc' = proc /\ raced' = raced \cup {c}
      BY <1>3 DEF StartProcessing
    <2>2. /\ Shape(pcx, rq, show, cur, es, off, proc)
          /\ Watched(Seasons \ {s}, cur, es, off, proc)
      BY <1>3, StoppingKeeps
    <2>3. c \in Webhooks
      BY <1>3 DEF Shape, QueueType
    <2> HIDE DEF off, c
    <2> QED BY <2>1, <2>2, <2>3, RemovalKeeps
  <1>4. CASE c # None /\ es[c].eps # {} /\ ShouldProcessSeason(es[c])
    <2> DEFINE sender == [at |-> "sending", on |-> c, batch |-> es[c].eps]
    <2>1. /\ entry' = [es EXCEPT ![c].notified = TRUE] /\ timer' = off
          /\ proc' = [proc EXCEPT ![p] = sender]
          /\ UNCHANGED <<show, cur, raced>>
      BY <1>4 DEF StartProcessing
    <2>2. /\ Shape(pcx, rq, show, cur, es, off, proc)
          /\ Watched(Seasons \ {s}, cur, es, off, proc)
      BY <1>4, StoppingKeeps
    <2>3. c \in Webhooks /\ es[c] \in EntryType /\ ~es[c].notified /\ rq[c] # None
          /\ rq[c].season = s
      BY <1>4 DEF Shape, QueueType, MapOk, ShouldProcessSeason
    <2>4. tm[p[2]] = "fired" => off[p[2]] = "fired"
      <3>1. es[c].timeoutId \in Webhooks \cup {None}
        BY <2>3 DEF EntryType
      <3> QED BY <3>1, ProcessorParts, ClearedTimer DEF Shape, QueueType
    <2> HIDE DEF off, c
    <2>5. sender \in ProcType /\ sender.at # "idle" /\ sender.on = c
      BY <2>3 DEF ProcType, EntryType
    <2> HIDE DEF sender
    <2>6. /\ entry' \in [Webhooks -> EntryType \cup {None}]
          /\ entry'[c] # None /\ entry'[c].notified
          /\ entry'[c].timeoutId = es[c].timeoutId
          /\ \A w \in Webhooks \ {c} : entry'[w] = es[w]
      BY <2>1, <2>2, <2>3 DEF Shape, QueueType, EntryType
    <2>7. /\ proc' \in [Processors -> ProcType]
          /\ proc'[p] = sender
          /\ \A q \in Processors \ {p} : proc'[q] = proc[q]
      BY <2>1, <2>2, <2>5 DEF Shape, QueueType
    <2>8. QueueType(pcx, rq, show', cur', entry', timer', proc')
      BY <2>1, <2>2, <2>6, <2>7 DEF Shape, QueueType
    <2>9. MapOk(rq, show', cur', entry')
      BY <2>1, <2>2, <2>6 DEF Shape, MapOk, QueueType
    <2>10. HandlersOk(pcx, rq, entry', timer') /\ TimersOk(rq, entry')
      BY <1>4, <2>1, <2>2, <2>3, <2>6 DEF Shape, HandlersOk, TimersOk
    <2>11. SendersOk(pcx, rq, entry', timer', proc')
      BY <2>1, <2>2, <2>3, <2>4, <2>5, <2>6, <2>7, ProcessorParts DEF Shape, SendersOk
    <2>12. SingleSender(proc')
      BY <2>2, <2>3, <2>5, <2>7 DEF Shape, SingleSender, SendersOk
    <2>13. Watched(Seasons, cur', entry', timer', proc')
      <3> SUFFICES ASSUME NEW z \in Seasons, cur[z] # None
                   PROVE  \/ /\ entry'[cur[z]].timeoutId # None
                             /\ timer'[entry'[cur[z]].timeoutId] = "armed"
                          \/ \E q \in Processors : proc'[q].at # "idle" /\ proc'[q].on = cur[z]
        BY <2>1 DEF Watched
      <3>1. CASE z = s
        BY <3>1, <2>5, <2>7 DEF c
      <3>2. CASE z # s
        <4>1. cur[z] \in Webhooks /\ cur[z] # c
          BY <3>2, <2>2, <2>3 DEF Shape, QueueType, MapOk
        <4>2. \/ es[cur[z]].timeoutId # None /\ off[es[cur[z]].timeoutId] = "armed"
              \/ \E q \in Processors : proc[q].at # "idle" /\ proc[q].on = cur[z]
          BY <3>2, <2>2 DEF Watched
        <4> QED BY <4>1, <4>2, <2>1, <2>6, <2>7
      <3> QED BY <3>1, <3>2
    <2> QED BY <2>1, <2>8, <2>9, <2>10, <2>11, <2>12, <2>13 DEF Shape
  <1> QED BY <1>1, <1>2, <1>3, <1>4

-----------------------------------------------------------------------------
\* Pushing episodes on the entry of a season, and replacing its timer by none
\* or by that of a webhook of the season, keeps the shape.
LEMMA EntryKeeps ==
    ASSUME NEW pcx, NEW rq, NEW es, NEW tm, NEW s \in Seasons,
           NEW e \in EntryType,
           Shape(pcx, rq, show, cur, es, tm, proc),
           Watched(Seasons \ {s}, cur, es, tm, proc),
           cur[s] # None,
           e.notified = es[cur[s]].notified,
           e.timeoutId # None =>
               rq[e.timeoutId] # None /\ rq[e.timeoutId].season = s
    PROVE  /\ Shape(pcx, rq, show, cur, [es EXCEPT ![cur[s]] = e], tm, proc)
           /\ Watched(Seasons \ {s}, cur, [es EXCEPT ![cur[s]] = e], tm, proc)
PROOF
  <1> DEFINE c == cur[s]
             en == [es EXCEPT ![c] = e]
  <1> USE QueueAssumption
  <1>1. /\ c \in Webhooks /\ es[c] # None
        /\ rq[c] # None /\ rq[c].season = s
    BY DEF Shape, QueueType, MapOk
  <1>2. e # None
    OBVIOUS
  <1>3. /\ en \in [Webhooks -> EntryType \cup {None}]
        /\ en[c] = e
        /\ \A w \in Webhooks \ {c} : en[w] = es[w]
    BY <1>1 DEF Shape, QueueType
  <1>4. \A z \in Seasons \ {s} : cur[z] # c
    BY <1>1 DEF Shape, MapOk
  <1> HIDE DEF en, c
  <1>5. QueueType(pcx, rq, show, cur, en, tm, proc)
    BY <1>3 DEF Shape, QueueType
  <1>6. MapOk(rq, show, cur, en)
    BY <1>2, <1>3 DEF Shape, MapOk, QueueType
  <1>7. HandlersOk(pcx, rq, en, tm)
    BY <1>1, <1>2, <1>3 DEF Shape, HandlersOk
  <1>8. TimersOk(rq, en)
    BY <1>1, <1>3 DEF Shape, TimersOk
  <1>9. SendersOk(pcx, rq, en, tm, proc)
    BY <1>1, <1>2, <1>3 DEF Shape, SendersOk, c
  <1>10. Watched(Seasons \ {s}, cur, en, tm, proc)
    <2> SUFFICES ASSUME NEW z \in Seasons \ {s}, cur[z] # None
                 PROVE  \/ en[cur[z]].timeoutId # None /\ tm[en[cur[z]].timeoutId] = "armed"
                        \/ \E q \in Processors : proc[q].at # "idle" /\ proc[q].on = cur[z]
      BY DEF Watched
    <2>1. cur[z] \in Webhooks \ {c}
      BY <1>4 DEF Shape, QueueType
    <2> QED BY <1>3, <2>1 DEF Watched
  <1> QED BY <1>5, <1>6, <1>7, <1>8, <1>9, <1>10 DEF Shape, en, c

\* A handler that leaves the waiting states for one after its season is entered.
LEMMA HandlerMoves ==
    ASSUME NEW pcx, NEW rq, NEW sh, NEW cu, NEW en, NEW tm, NEW pr,
           NEW w \in Webhooks, NEW at \in PcType,
           Shape(pcx, rq, sh, cu, en, tm, pr),
           pcx[w] # "queued", rq[w] # None,
           at \notin {"idle", "fetching"},
           at = "notifying" => pcx[w] = "idle"
    PROVE  Shape([pcx EXCEPT ![w] = at], rq, sh, cu, en, tm, pr)
PROOF
  <1> DEFINE px == [pcx EXCEPT ![w] = at]
  <1>1. px \in [Webhooks -> PcType] /\ px[w] = at /\ \A v \in Webhooks \ {w} : px[v] = pcx[v]
    BY DEF Shape, QueueType
  <1> HIDE DEF px
  <1>2. QueueType(px, rq, sh, cu, en, tm, pr)
    BY <1>1 DEF Shape, QueueType
  <1>3. HandlersOk(px, rq, en, tm)
    BY <1>1 DEF Shape, HandlersOk
  <1>4. SendersOk(px, rq, en, tm, pr)
    BY <1>1, ProcessorParts DEF Shape, SendersOk
  <1> QED BY <1>2, <1>3, <1>4 DEF Shape, px

\* Arming the timer of a handler that never had one.
LEMMA ArmingKeeps ==
    ASSUME NEW pcx, NEW rq, NEW en, NEW tm, NEW w \in Webhooks, NEW Z \in SUBSET Seasons,
           Shape(pcx, rq, show, cur, en, tm, proc),
           Watched(Z, cur, en, tm, proc),
           tm[w] = "none", pcx[w] \notin {"idle", "notifying"}
    PROVE  /\ Shape(pcx, rq, show, cur, en, [tm EXCEPT ![w] = "armed"], proc)
           /\ Watched(Z, cur, en, [tm EXCEPT ![w] = "armed"], proc)
PROOF
  <1> DEFINE tn == [tm EXCEPT ![w] = "armed"]
  <1>1. /\ tn \in [Webhooks -> TimerType] /\ tn[w] = "armed"
        /\ \A v \in Webhooks \ {w} : tn[v] = tm[v]
    BY DEF Shape, QueueType, TimerType
  <1> HIDE DEF tn
  <1>2. QueueType(pcx, rq, show, cur, en, tn, proc)
    BY <1>1 DEF Shape, QueueType
  <1>3. HandlersOk(pcx, rq, en, tn)
    BY <1>1 DEF Shape, HandlersOk
  <1>4. SendersOk(pcx, rq, en, tn, proc)
    BY <1>1, ProcessorParts DEF Shape, SendersOk
  <1>5. Watched(Z, cur, en, tn, proc)
    <2> SUFFICES ASSUME NEW z \in Z, cur[z] # None
                 PROVE  \/ en[cur[z]].timeoutId # None /\ tn[en[cur[z]].timeoutId] = "armed"
                        \/ \E q \in Processors : proc[q].at # "idle" /\ proc[q].on = cur[z]
      BY DEF Watched
    <2>1. cur[z] \in Webhooks /\ en[cur[z]] \in EntryType
      BY DEF Shape, QueueType, MapOk
    <2>2. en[cur[z]].timeoutId \in Webhooks \cup {None}
      BY <2>1 DEF EntryType
    <2> QED BY <1>1, <2>2 DEF Watched
  <1> QED BY <1>2, <1>3, <1>4, <1>5 DEF Shape, tn

\* addEpisode(s)ToQueue, from entries es in which the fetch may have written.
LEMMA AddKeeps ==
    ASSUME NEW rq, NEW es, NEW w \in Webhooks, NEW isNew \in BOOLEAN,
           Shape(pc, rq, show, cur, es, timer, proc),
           Watched(Seasons, cur, es, timer, proc),
           rq[w] # None,
           pc[w] # "queued",
           ~isNew => pc[w] \in {"idle", "notifying"},
           raced \subseteq Webhooks,
           AddToQueue(w, rq[w], isNew, es)
    PROVE  /\ Shape(pc', rq, show', cur', entry', timer', proc')
           /\ Watched(Seasons, cur', entry', timer', proc')
           /\ raced' \subseteq Webhooks
PROOF
  <1> DEFINE r == rq[w]
             s == r.season
             c == cur[s]
             fresh == Queued(r) \ es[c].eps
             pushed == [es EXCEPT ![c].eps = @ \cup fresh]
             stopped == [pushed EXCEPT ![c].timeoutId = None]
             reset == [pushed EXCEPT ![c].timeoutId = w]
             off == Cleared(timer, es[c].timeoutId)
  <1> USE QueueAssumption
  <1>1. r \in Requests /\ s \in Seasons /\ r.eps \subseteq Episodes
    BY DEF Shape, QueueType, RequestType
  <1>2. \A at \in {"skipped", "duplicate", "queued"} :
            Shape([pc EXCEPT ![w] = at], rq, show, cur, es, timer, proc)
    BY HandlerMoves DEF PcType
  <1>3. CASE c = None \/ (c # None /\ fresh = {})
    <2>1. /\ pc' = [pc EXCEPT ![w] = "skipped"] \/ pc' = [pc EXCEPT ![w] = "duplicate"]
          /\ entry' = es /\ UNCHANGED <<show, cur, timer, proc, raced>>
      BY <1>3 DEF AddToQueue
    <2> QED BY <1>2, <2>1
  <1>4. ASSUME c # None, fresh # {}
        PROVE  /\ c \in Webhooks /\ es[c] \in EntryType
               /\ es[c].eps \cup fresh \in SUBSET Episodes
               /\ rq[c] # None /\ rq[c].season = s
    BY <1>1, <1>4 DEF Shape, QueueType, MapOk, EntryType, Queued
  <1>5. Watched(Seasons \ {s}, cur, es, timer, proc)
    BY DEF Watched
  <1>6. CASE c # None /\ fresh # {} /\ IsSeasonComplete(pushed[c])
    <2> DEFINE e == [es[c] EXCEPT !.eps = @ \cup fresh, !.timeoutId = None]
               px == [pc EXCEPT ![w] = "queued"]
    <2>1. /\ pc' = px
          /\ StartProcessing(<<"handler", w>>, s, stopped, off)
      BY <1>6 DEF AddToQueue
    <2>2. e \in EntryType /\ e.notified = es[c].notified /\ e.timeoutId = None
      BY <1>4, <1>6 DEF EntryType
    <2>3. stopped = [es EXCEPT ![c] = e]
      BY <1>4, <1>6 DEF Shape, QueueType, EntryType
    <2>4. /\ Shape(px, rq, show, cur, es, off, proc)
          /\ Watched(Seasons \ {s}, cur, es, off, proc)
      BY <1>1, <1>2, <1>5, <1>6, StoppingKeeps
    <2>5. /\ Shape(px, rq, show, cur, stopped, off, proc)
          /\ Watched(Seasons \ {s}, cur, stopped, off, proc)
      <3> HIDE DEF e, off, px, stopped, s
      <3> QED BY <1>1, <1>6, <2>2, <2>3, <2>4, EntryKeeps
    <2>6. proc[<<"handler", w>>].at = "idle"
      BY ProcessorParts DEF Shape, SendersOk
    <2>7. px[w] = "queued"
      BY DEF Shape, QueueType
    <2> HIDE DEF stopped, off, px, e
    <2> QED BY <1>1, <2>1, <2>5, <2>6, <2>7, StartKeeps, ProcessorParts
  <1>7. CASE c # None /\ fresh # {} /\ ~IsSeasonComplete(pushed[c])
    <2> DEFINE px == [pc EXCEPT ![w] = "queued"]
    <2>1. /\ pc' = px
          /\ IF isNew THEN entry' = pushed /\ timer' = timer
             ELSE entry' = reset /\ timer' = [off EXCEPT ![w] = "armed"]
          /\ raced' \in {raced, raced \cup {c}}
          /\ UNCHANGED <<show, cur, proc>>
      BY <1>7 DEF AddToQueue
    <2>2. raced' \subseteq Webhooks
      BY <1>4, <1>7, <2>1
    <2>3. CASE isNew
      <3> DEFINE e == [es[c] EXCEPT !.eps = @ \cup fresh]
      <3>1. e \in EntryType /\ e.notified = es[c].notified /\ e.timeoutId = es[c].timeoutId
        BY <1>4, <1>7 DEF EntryType
      <3>2. pushed = [es EXCEPT ![c] = e]
        BY <1>4, <1>7 DEF Shape, QueueType, EntryType
      <3>3. e.timeoutId # None => rq[e.timeoutId] # None /\ rq[e.timeoutId].season = s
        BY <1>4, <1>7, <3>1 DEF Shape, TimersOk, MapOk
      <3>4. Shape(px, rq, show, cur, es, timer, proc)
        BY <1>2
      <3>5. /\ Shape(px, rq, show, cur, pushed, timer, proc)
            /\ Watched(Seasons \ {s}, cur, pushed, timer, proc)
        <4> HIDE DEF e, px, pushed, s
        <4> QED BY <1>1, <1>5, <1>7, <3>1, <3>2, <3>3, <3>4, EntryKeeps
      <3>6. pushed[c].timeoutId = es[c].timeoutId
        BY <1>4, <1>7, <3>1, <3>2 DEF Shape, QueueType
      <3>7. Watched(Seasons, cur, pushed, timer, proc)
        <4> HIDE DEF pushed
        <4> QED BY <1>1, <3>5, <3>6 DEF Watched
      <3> QED BY <2>1, <2>2, <2>3, <3>5, <3>7
    <2>4. CASE ~isNew
      <3> DEFINE e == [es[c] EXCEPT !.eps = @ \cup fresh, !.timeoutId = w]
                 tn == [off EXCEPT ![w] = "armed"]
      <3>1. e \in EntryType /\ e.notified = es[c].notified /\ e.timeoutId = w
        BY <1>4, <1>7 DEF EntryType
      <3>2. reset = [es EXCEPT ![c] = e]
        BY <1>4, <1>7 DEF Shape, QueueType, EntryType
      <3>3. /\ Shape(px, rq, show, cur, es, off, proc)
            /\ Watched(Seasons \ {s}, cur, es, off, proc)
        BY <1>1, <1>2, <1>5, <1>7, StoppingKeeps
      <3>4. off[w] = "none"
        <4>1. timer[w] = "none"
          BY <2>4 DEF Shape, HandlersOk
        <4>2. es[c].timeoutId \in Webhooks \cup {None}
          BY <1>4, <1>7 DEF EntryType
        <4>3. timer \in [Webhooks -> TimerType]
          BY DEF Shape, QueueType
        <4>4. \A u \in Webhooks : timer[u] # "armed" => off[u] = timer[u]
          BY <4>2, <4>3, ClearedTimer
        <4> HIDE DEF off
        <4> QED BY <4>1, <4>4
      <3>5. px[w] = "queued"
        BY DEF Shape, QueueType
      <3> HIDE DEF off, px
      <3>6. /\ Shape(px, rq, show, cur, es, tn, proc)
            /\ Watched(Seasons \ {s}, cur, es, tn, proc)
        BY <3>3, <3>4, <3>5, ArmingKeeps
      <3>7. tn[w] = "armed"
        BY <3>3 DEF Shape, QueueType
      <3> HIDE DEF tn
      <3>8. /\ Shape(px, rq, show, cur, reset, tn, proc)
            /\ Watched(Seasons \ {s}, cur, reset, tn, proc)
        <4>1. rq[w] # None /\ rq[w].season = s /\ w # None
          BY DEF s
        <4> HIDE DEF e, reset, s
        <4> QED BY <1>1, <1>7, <3>1, <3>2, <3>6, <4>1, EntryKeeps
      <3>9. reset[c].timeoutId = w
        BY <1>4, <1>7, <3>1, <3>2 DEF Shape, QueueType
      <3>10. Watched(Seasons, cur, reset, tn, proc)
        <4> HIDE DEF reset
        <4> QED BY <1>1, <3>7, <3>8, <3>9 DEF Watched
      <3> QED BY <2>1, <2>2, <2>4, <3>8, <3>10 DEF tn
    <2> QED BY <2>3, <2>4
  <1> QED BY <1>3, <1>6, <1>7

\* ensureSeasonQueue, and what follows it without waiting.
LEMMA EnterKeeps ==
    ASSUME NEW rq, NEW w \in Webhooks, NEW known \in BOOLEAN,
           Shape(pc, rq, show, cur, entry, timer, proc),
           Watched(Seasons, cur, entry, timer, proc),
           rq[w] # None,
           pc[w] \in {"idle", "notifying"},
           raced \subseteq Webhooks,
           EnterSeason(w, rq[w], known)
    PROVE  /\ Shape(pc', rq, show', cur', entry', timer', proc')
           /\ Watched(Seasons, cur', entry', timer', proc')
           /\ raced' \subseteq Webhooks
PROOF
  <1> DEFINE s == rq[w].season
  <1> USE QueueAssumption
  <1>1. rq[w] \in Requests /\ s \in Seasons /\ rq[w].pilot \in BOOLEAN
    BY DEF Shape, QueueType, RequestType
  <1>2. CASE ~known
    <2>1. pc' = [pc EXCEPT ![w] = "failed"] /\ UNCHANGED <<queueVars, raced>>
      BY <1>2 DEF EnterSeason
    <2>2. Shape([pc EXCEPT ![w] = "failed"], rq, show, cur, entry, timer, proc)
      BY HandlerMoves DEF PcType
    <2> QED BY <2>1, <2>2 DEF queueVars
  <1>3. CASE known /\ cur[s] # None
    <2>1. AddToQueue(w, rq[w], FALSE, entry)
      BY <1>3 DEF EnterSeason
    <2> QED BY <2>1, AddKeeps
  <1>4. CASE known /\ cur[s] = None
    <2> DEFINE e == NewEntry(w, rq[w])
    <2>1. e \in EntryType /\ e # None /\ e.timeoutId = w
      <3>1. e \in EntryType
        BY <1>1, Zenon DEF NewEntry, EntryType
      <3> QED BY <3>1 DEF NewEntry
    <2> HIDE DEF e
    <2>2. /\ pc' = [pc EXCEPT ![w] = "fetching"]
          /\ show' = TRUE
          /\ cur' = [cur EXCEPT ![s] = w]
          /\ entry' = [entry EXCEPT ![w] = e]
          /\ timer' = [timer EXCEPT ![w] = "armed"]
          /\ UNCHANGED <<proc, raced>>
      BY <1>4 DEF EnterSeason, e
    <2>3. entry[w] = None /\ timer[w] = "none"
      BY DEF Shape, HandlersOk
    <2>4. QueueType(pc', rq, show', cur', entry', timer', proc')
      <3>1. /\ pc' \in [Webhooks -> PcType]
            /\ timer' \in [Webhooks -> TimerType]
        BY <2>2 DEF Shape, QueueType, PcType, TimerType
      <3>2. /\ cur' \in [Seasons -> Webhooks \cup {None}]
            /\ entry' \in [Webhooks -> EntryType \cup {None}]
        BY <1>1, <2>1, <2>2 DEF Shape, QueueType
      <3> QED BY <2>2, <3>1, <3>2 DEF Shape, QueueType
    <2>5. \A z \in Seasons : cur[z] # w
      BY <2>3 DEF Shape, MapOk
    <2>6. /\ pc'[w] = "fetching" /\ \A v \in Webhooks \ {w} : pc'[v] = pc[v]
          /\ cur'[s] = w /\ \A z \in Seasons \ {s} : cur'[z] = cur[z]
          /\ entry'[w] = e /\ \A v \in Webhooks \ {w} : entry'[v] = entry[v]
          /\ timer'[w] = "armed" /\ \A v \in Webhooks \ {w} : timer'[v] = timer[v]
      BY <1>1, <2>2 DEF Shape, QueueType
    <2>7. MapOk(rq, show', cur', entry')
      BY <2>1, <2>2, <2>5, <2>6 DEF Shape, MapOk, QueueType
    <2>8. HandlersOk(pc', rq, entry', timer')
      BY <2>1, <2>6 DEF Shape, HandlersOk
    <2>9. TimersOk(rq, entry')
      BY <2>1, <2>6 DEF Shape, TimersOk
    <2>10. SendersOk(pc', rq, entry', timer', proc')
      BY <2>2, <2>3, <2>6, ProcessorParts DEF Shape, SendersOk
    <2>11. Watched(Seasons, cur', entry', timer', proc')
      <3> SUFFICES ASSUME NEW z \in Seasons, cur'[z] # None
                   PROVE  \/ /\ entry'[cur'[z]].timeoutId # None
                             /\ timer'[entry'[cur'[z]].timeoutId] = "armed"
                          \/ \E q \in Processors : proc[q].at # "idle" /\ proc[q].on = cur'[z]
        BY <2>2 DEF Watched
      <3>1. CASE z = s
        BY <3>1, <2>1, <2>6
      <3>2. CASE z # s
        <4>1. cur'[z] = cur[z] /\ cur[z] \in Webhooks \ {w} /\ entry[cur[z]] \in EntryType
          BY <3>2, <2>5, <2>6 DEF Shape, QueueType, MapOk
        <4>2. entry[cur[z]].timeoutId \in Webhooks \cup {None}
          BY <4>1 DEF EntryType
        <4> QED BY <4>1, <4>2, <2>3, <2>6 DEF Watched
      <3> QED BY <3>1, <3>2
    <2> QED BY <2>2, <2>4, <2>7, <2>8, <2>9, <2>10, <2>11 DEF Shape
  <1> QED BY <1>2, <1>3, <1>4

\* These steps move the handler to a state that is not idle, and no other.
LEMMA PcMoves ==
    ASSUME NEW w \in Webhooks, NEW r, NEW es,
           \/ \E known \in BOOLEAN : EnterSeason(w, r, known)
           \/ \E isNew \in BOOLEAN : AddToQueue(w, r, isNew, es)
    PROVE  \E at \in PcType \ {"idle"} : pc' = [pc EXCEPT ![w] = at]
BY DEF EnterSeason, AddToQueue, PcType

-----------------------------------------------------------------------------
\* One lemma per kind of action.

\* A request arrives: nothing in the queue refers to the webhook yet.
LEMMA ReceivedShape ==
    ASSUME IInv, NEW w \in Webhooks, NEW r \in Requests,
           pc[w] = "idle", req' = [req EXCEPT ![w] = r]
    PROVE  Shape(pc, req', show, cur, entry, timer, proc)
PROOF
  <1>1. pc[w] = "idle"
    OBVIOUS
  <1>2. /\ req'[w] = r /\ r # None
        /\ \A v \in Webhooks \ {w} : req'[v] = req[v]
        /\ req' \in [Webhooks -> Requests \cup {None}]
    BY QueueAssumption DEF IInv, Shape, QueueType
  <1>3. entry[w] = None /\ timer[w] = "none"
    BY <1>1 DEF IInv, Shape, HandlersOk
  <1>4. \A o \in Webhooks : entry[o] # None /\ entry[o].timeoutId # None
                            => entry[o].timeoutId \in Webhooks
    BY DEF IInv, Shape, QueueType, EntryType
  <1>5. Shape(pc, req', show, cur, entry, timer, proc)
    <2>1. QueueType(pc, req', show, cur, entry, timer, proc)
      BY <1>2 DEF IInv, Shape, QueueType
    <2>2. MapOk(req', show, cur, entry)
      BY <1>2, <1>3 DEF IInv, Shape, MapOk, QueueType
    <2>3. HandlersOk(pc, req', entry, timer)
      BY <1>2 DEF IInv, Shape, HandlersOk
    <2>4. TimersOk(req', entry)
      <3> SUFFICES ASSUME NEW o \in Webhooks, entry[o] # None
                   PROVE  /\ req'[o] # None
                          /\ entry[o].timeoutId # None =>
                               /\ req'[entry[o].timeoutId] # None
                               /\ req'[entry[o].timeoutId].season = req'[o].season
        BY DEF TimersOk
      <3>1. o # w /\ pc[o] # "idle"
        BY <1>3 DEF IInv, Shape, HandlersOk
      <3>2. entry[o].timeoutId # None => entry[o].timeoutId # w
        <4> SUFFICES ASSUME entry[o].timeoutId = w, w # None PROVE FALSE
          OBVIOUS
        <4> QED BY <1>1 DEF IInv, Shape, TimersOk, IdleOk
      <3> QED BY <1>2, <1>4, <3>1, <3>2 DEF IInv, Shape, TimersOk
    <2>5. SendersOk(pc, req', entry, timer, proc)
      BY <1>1, <1>2, <1>3, ProcessorParts DEF IInv, Shape, SendersOk
    <2> QED BY <2>1, <2>2, <2>3, <2>4, <2>5 DEF IInv, Shape
  <1> QED BY <1>5

LEMMA ReceiveStep ==
    ASSUME IInv, NEW w \in Webhooks, Receive(w)
    PROVE  IInv'
PROOF
  <1>1. PICK r \in Requests :
            /\ req' = [req EXCEPT ![w] = r]
            /\ IF Immediate(r) # {}
               THEN /\ pc' = [pc EXCEPT ![w] = "notifying"]
                    /\ show' = TRUE
                    /\ UNCHANGED <<cur, entry, timer, proc, raced>>
               ELSE EnterSeason(w, r, TRUE)
    BY DEF Receive
  <1>2. pc[w] = "idle" /\ UNCHANGED <<running, covered>>
    BY DEF Receive
  <1>3. /\ req'[w] = r /\ r # None
        /\ \A v \in Webhooks \ {w} : req'[v] = req[v]
        /\ req' \in [Webhooks -> Requests \cup {None}]
    BY <1>1, QueueAssumption DEF IInv, Shape, QueueType
  <1>4. entry[w] = None /\ timer[w] = "none"
    BY <1>2 DEF IInv, Shape, HandlersOk
  <1>5. \A o \in Webhooks : entry[o] # None /\ entry[o].timeoutId # None
                            => entry[o].timeoutId \in Webhooks
    BY DEF IInv, Shape, QueueType, EntryType
  <1>6. Shape(pc, req', show, cur, entry, timer, proc)
    BY <1>1, <1>2, ReceivedShape
  <1>7. CASE Immediate(r) # {}
    <2>1. Shape([pc EXCEPT ![w] = "notifying"], req', show, cur, entry, timer, proc)
      BY <1>2, <1>3, <1>6, HandlerMoves DEF PcType
    <2>2. Shape(pc', req', show', cur, entry, timer, proc)
      BY <1>1, <1>7, <2>1 DEF Shape, QueueType, MapOk
    <2>3. IdleOk'
      BY <1>1, <1>3, <1>7 DEF IInv, IdleOk, Shape, QueueType
    <2> QED BY <1>1, <1>2, <1>7, <2>2, <2>3 DEF IInv, HistoryType, Watched
  <1>8. CASE Immediate(r) = {}
    <2>1. EnterSeason(w, req'[w], TRUE)
      BY <1>1, <1>3, <1>8
    <2>2. \E at \in PcType \ {"idle"} : pc' = [pc EXCEPT ![w] = at]
      BY <2>1, PcMoves
    <2>3. IdleOk'
      BY <1>3, <2>2 DEF IInv, IdleOk, Shape, QueueType
    <2> QED BY <1>2, <1>3, <1>6, <2>1, <2>3, EnterKeeps DEF IInv, HistoryType
  <1> QED BY <1>7, <1>8

LEMMA ImmediateStep ==
    ASSUME IInv, NEW w \in Webhooks, ImmediateDone(w) \/ ImmediateFails(w)
    PROVE  IInv'
PROOF
  <1>1. pc[w] = "notifying" /\ UNCHANGED <<req, running, covered>>
    BY DEF ImmediateDone, ImmediateFails
  <1>2. req[w] # None
    BY <1>1 DEF IInv, Shape, HandlersOk
  <1>3. ASSUME NEW at \in {"done", "failed"},
               pc' = [pc EXCEPT ![w] = at], UNCHANGED <<queueVars, raced>>
        PROVE  IInv'
    <2>1. Shape(pc', req, show, cur, entry, timer, proc)
      <3>1. Shape(pc, req, show, cur, entry, timer, proc) /\ pc[w] # "queued"
        BY <1>1 DEF IInv
      <3> QED BY <1>2, <1>3, <3>1, HandlerMoves DEF PcType
    <2>2. IdleOk'
      BY <1>1, <1>3 DEF IInv, IdleOk, Shape, QueueType
    <2> QED BY <1>1, <1>3, <2>1, <2>2 DEF IInv, HistoryType, Watched, queueVars
  <1>4. CASE EnterSeason(w, req[w], show)
    <2>1. show \in BOOLEAN
      BY DEF IInv, Shape, QueueType
    <2>2. \E at \in PcType \ {"idle"} : pc' = [pc EXCEPT ![w] = at]
      BY <1>4, <2>1, PcMoves
    <2>3. IdleOk'
      BY <1>1, <2>2 DEF IInv, IdleOk, Shape, QueueType
    <2> QED BY <1>1, <1>2, <1>4, <2>1, <2>3, EnterKeeps DEF IInv, HistoryType
  <1> QED BY <1>3, <1>4 DEF ImmediateDone, ImmediateFails

\* The entries as the fetch left them: a count was written to one of them.
LEMMA FetchedEntries ==
    ASSUME IInv, NEW w \in Webhooks, FetchDone(w)
    PROVE  \E es : /\ AddToQueue(w, req[w], TRUE, es)
                   /\ Shape(pc, req, show, cur, es, timer, proc)
                   /\ Watched(Seasons, cur, es, timer, proc)
                   /\ \A o \in Webhooks :
                        /\ es[o] # None <=> entry[o] # None
                        /\ es[o] # None => /\ es[o].eps = entry[o].eps
                                           /\ es[o].notified = entry[o].notified
                                           /\ es[o].timeoutId = entry[o].timeoutId
PROOF
  <1> USE QueueAssumption
  <1>1. pc[w] = "fetching" /\ UNCHANGED <<req, running, covered>>
    BY DEF FetchDone
  <1>2. /\ req[w] # None /\ entry[w] # None
        /\ req[w] \in Requests /\ entry[w] \in EntryType
        /\ req[w].season \in Seasons
    BY <1>1 DEF IInv, Shape, HandlersOk, QueueType, RequestType
  <1>3. PICK n \in {ExpectedCount[req[w].season], NoCount} :
            AddToQueue(w, req[w], TRUE, [entry EXCEPT ![w].expected = n])
    BY DEF FetchDone
  <1> DEFINE e == [entry[w] EXCEPT !.expected = n]
             es == [entry EXCEPT ![w] = e]
  <1>4. [entry EXCEPT ![w].expected = n] = es
    BY <1>2 DEF IInv, Shape, QueueType
  <1>5. /\ e \in EntryType /\ e # None /\ e.notified = entry[w].notified
        /\ e.timeoutId = entry[w].timeoutId /\ e.eps = entry[w].eps
    BY <1>2 DEF EntryType, NoCount
  <1> HIDE DEF e
  <1>6. /\ es \in [Webhooks -> EntryType \cup {None}] /\ es[w] = e
        /\ \A v \in Webhooks \ {w} : es[v] = entry[v]
    BY <1>5 DEF IInv, Shape, QueueType
  <1> HIDE DEF es
  <1>7. \A o \in Webhooks :
            /\ es[o] # None <=> entry[o] # None
            /\ es[o] # None => /\ es[o].eps = entry[o].eps
                               /\ es[o].notified = entry[o].notified
                               /\ es[o].timeoutId = entry[o].timeoutId
    BY <1>2, <1>5, <1>6
  <1>8. Shape(pc, req, show, cur, es, timer, proc)
    <2>1. QueueType(pc, req, show, cur, es, timer, proc)
      BY <1>6 DEF IInv, Shape, QueueType
    <2>2. MapOk(req, show, cur, es)
      BY <1>7 DEF IInv, Shape, MapOk, QueueType
    <2>3. HandlersOk(pc, req, es, timer) /\ TimersOk(req, es)
      BY <1>7 DEF IInv, Shape, HandlersOk, TimersOk
    <2>4. SendersOk(pc, req, es, timer, proc)
      BY <1>7 DEF IInv, Shape, SendersOk
    <2> QED BY <2>1, <2>2, <2>3, <2>4 DEF IInv, Shape
  <1>9. Watched(Seasons, cur, es, timer, proc)
    BY <1>7 DEF IInv, Watched, Shape, QueueType, MapOk
  <1>10. AddToQueue(w, req[w], TRUE, es)
    BY <1>3, <1>4
  <1> QED BY <1>7, <1>8, <1>9, <1>10

LEMMA FetchStep ==
    ASSUME IInv, NEW w \in Webhooks, FetchDone(w)
    PROVE  IInv'
PROOF
  <1>1. pc[w] = "fetching" /\ req[w] # None /\ UNCHANGED <<req, running, covered>>
    BY DEF FetchDone, IInv, Shape, HandlersOk
  <1>2. PICK es : /\ AddToQueue(w, req[w], TRUE, es)
                  /\ Shape(pc, req, show, cur, es, timer, proc)
                  /\ Watched(Seasons, cur, es, timer, proc)
    BY FetchedEntries
  <1>3. \E at \in PcType \ {"idle"} : pc' = [pc EXCEPT ![w] = at]
    BY <1>2, PcMoves
  <1>4. IdleOk'
    BY <1>1, <1>3 DEF IInv, IdleOk, Shape, QueueType
  <1> QED BY <1>1, <1>2, <1>4, AddKeeps DEF IInv, HistoryType

LEMMA TimerStep ==
    ASSUME IInv, NEW w \in Webhooks, TimerFires(w)
    PROVE  IInv'
PROOF
  <1> DEFINE tm == [timer EXCEPT ![w] = "fired"]
             s == req[w].season
             p == <<"timer", w>>
  <1>1. /\ timer[w] = "armed" /\ StartProcessing(p, s, entry, tm)
        /\ UNCHANGED <<pc, req, running, covered>>
    BY DEF TimerFires
  <1>2. pc[w] \notin {"idle", "notifying"}
    BY <1>1 DEF IInv, Shape, HandlersOk
  <1>3. req[w] # None /\ s \in Seasons
    BY <1>2, QueueAssumption DEF IInv, Shape, HandlersOk, QueueType, RequestType
  <1>4. /\ tm \in [Webhooks -> TimerType] /\ tm[w] = "fired"
        /\ \A v \in Webhooks \ {w} : tm[v] = timer[v]
    BY DEF IInv, Shape, QueueType, TimerType
  <1>5. p \in Processors /\ p[1] = "timer" /\ p[2] = w
    BY ProcessorParts
  <1> HIDE DEF tm, p, s
  <1>6. Shape(pc, req, show, cur, entry, tm, proc)
    <2>1. QueueType(pc, req, show, cur, entry, tm, proc)
      BY <1>4 DEF IInv, Shape, QueueType
    <2>2. HandlersOk(pc, req, entry, tm)
      BY <1>2, <1>4 DEF IInv, Shape, HandlersOk
    <2>3. SendersOk(pc, req, entry, tm, proc)
      BY <1>4, ProcessorParts DEF IInv, Shape, SendersOk
    <2> QED BY <2>1, <2>2, <2>3 DEF IInv, Shape
  <1>7. Watched(Seasons \ {s}, cur, entry, tm, proc)
    <2> SUFFICES ASSUME NEW z \in Seasons \ {s}, cur[z] # None
                 PROVE  \/ entry[cur[z]].timeoutId # None /\ tm[entry[cur[z]].timeoutId] = "armed"
                        \/ \E q \in Processors : proc[q].at # "idle" /\ proc[q].on = cur[z]
      BY DEF Watched
    <2>1. /\ cur[z] \in Webhooks /\ entry[cur[z]] # None /\ req[cur[z]].season = z
          /\ entry[cur[z]].timeoutId \in Webhooks \cup {None}
      BY DEF IInv, Shape, QueueType, MapOk, EntryType
    <2>2. entry[cur[z]].timeoutId # None => entry[cur[z]].timeoutId # w
      BY <2>1 DEF IInv, Shape, TimersOk, s
    <2> QED BY <1>4, <2>1, <2>2 DEF IInv, Watched
  <1>8. proc[p].at = "idle"
    BY <1>1, <1>5 DEF IInv, Shape, SendersOk
  <1>9. /\ Shape(pc, req, show', cur', entry', timer', proc')
        /\ Watched(Seasons, cur', entry', timer', proc')
        /\ raced' \subseteq Webhooks
    <2>1. req[p[2]] # None /\ req[p[2]].season = s /\ tm[p[2]] = "fired"
      BY <1>3, <1>4, <1>5 DEF s
    <2>2. raced \subseteq Webhooks /\ p[1] # "handler"
      BY <1>5 DEF IInv, HistoryType
    <2> QED BY <1>1, <1>3, <1>5, <1>6, <1>7, <1>8, <2>1, <2>2, StartKeeps
  <1> QED BY <1>1, <1>9 DEF IInv, IdleOk, HistoryType

\* The end of processQueuedWebhooks, on every path.
LEMMA FinishStep ==
    ASSUME IInv, NEW p \in Processors, NEW told \in SUBSET Episodes,
           proc[p].at # "idle", Finish(p, told)
    PROVE  IInv'
PROOF
  <1> DEFINE s == req[p[2]].season
             o == proc[p].on
  <1> USE QueueAssumption
  <1>1. /\ proc' = [proc EXCEPT ![p] = Idle]
        /\ CleanupSeasonQueue(s)
        /\ covered' = [covered EXCEPT ![o] = @ \cup told]
        /\ raced' \in {raced, raced \cup {cur[s]}}
        /\ (raced' = raced \/ cur[s] # None)
        /\ UNCHANGED <<pc, req, entry, timer, running>>
    BY DEF Finish
  <1>2. /\ p[2] \in Webhooks /\ req[p[2]] # None /\ req[p[2]] \in Requests
        /\ s \in Seasons /\ o \in Webhooks
        /\ req[o].season = s
    BY ProcessorParts DEF IInv, Shape, SendersOk, QueueType, RequestType
  <1>3. /\ proc' \in [Processors -> ProcType] /\ proc'[p].at = "idle"
        /\ \A q \in Processors \ {p} : proc'[q] = proc[q]
    <2>1. Idle \in ProcType /\ Idle.at = "idle"
      BY DEF Idle, ProcType
    <2> QED BY <1>1, <2>1 DEF IInv, Shape, QueueType
  <1>4. Shape(pc, req, show, cur, entry, timer, proc')
    <2>1. QueueType(pc, req, show, cur, entry, timer, proc')
      BY <1>3 DEF IInv, Shape, QueueType
    <2>2. SendersOk(pc, req, entry, timer, proc')
      BY <1>3 DEF IInv, Shape, SendersOk
    <2>3. SingleSender(proc')
      BY <1>3 DEF IInv, Shape, SingleSender
    <2> QED BY <2>1, <2>2, <2>3 DEF IInv, Shape
  <1>5. Watched(Seasons \ {s}, cur, entry, timer, proc')
    <2> SUFFICES ASSUME NEW z \in Seasons \ {s}, cur[z] # None
                 PROVE  \/ /\ entry[cur[z]].timeoutId # None
                           /\ timer[entry[cur[z]].timeoutId] = "armed"
                        \/ \E q \in Processors : proc'[q].at # "idle" /\ proc'[q].on = cur[z]
      BY DEF Watched
    <2>1. cur[z] # o
      BY <1>2 DEF IInv, Shape, MapOk
    <2> QED BY <1>3, <2>1 DEF IInv, Watched
  <1>6. /\ Shape(pc, req, show', cur', entry, timer, proc')
        /\ Watched(Seasons, cur', entry, timer, proc')
    BY <1>1, <1>2, <1>4, <1>5, RemovalKeeps
  <1>7. HistoryType'
    <2>1. cur[s] # None => cur[s] \in Webhooks
      BY <1>2 DEF IInv, Shape, QueueType
    <2> HIDE DEF s, o
    <2>2. raced' \subseteq Webhooks
      BY <1>1, <2>1 DEF IInv, HistoryType
    <2>3. covered' \in [Webhooks -> SUBSET Episodes]
      BY <1>1, <1>2 DEF IInv, HistoryType
    <2> QED BY <1>1, <2>2, <2>3 DEF IInv, HistoryType
  <1> QED BY <1>1, <1>6, <1>7 DEF IInv, IdleOk

LEMMA ProcessorStep ==
    ASSUME IInv, NEW p \in Processors, Processor(p)
    PROVE  IInv'
PROOF
  <1>1. CASE SendMatched(p)
    <2>1. Announced(proc[p].batch) \in SUBSET Episodes
      BY DEF Announced, IInv, Shape, QueueType, ProcType
    <2> QED BY <1>1, <2>1, FinishStep DEF SendMatched
  <1>2. proc[p].batch \in SUBSET Episodes
    BY DEF IInv, Shape, QueueType, ProcType
  <1>3. CASE Stored(p) \/ DispatchFails(p)
    BY <1>2, <1>3, FinishStep DEF Stored, DispatchFails
  <1>4. CASE SendUnmatched(p)
    <2> DEFINE o == proc[p].on
               next == [proc[p] EXCEPT !.at = "storing", !.batch = entry[o].eps]
    <2>1. /\ proc[p].at = "sending"
          /\ proc' = [proc EXCEPT ![p].at = "storing", ![p].batch = entry[o].eps]
          /\ UNCHANGED <<pc, req, show, cur, entry, timer, running, covered, raced>>
      BY <1>4 DEF SendUnmatched
    <2>2. proc[p] \in ProcType /\ o \in Webhooks /\ entry[o] \in EntryType
      BY <2>1 DEF IInv, Shape, QueueType, SendersOk
    <2>3. next \in ProcType /\ next.at = "storing" /\ next.on = o
      BY <2>2 DEF ProcType, EntryType
    <2>4. proc' = [proc EXCEPT ![p] = next]
      BY <2>1, <2>2 DEF IInv, Shape, QueueType, ProcType
    <2> HIDE DEF next
    <2>5. /\ proc' \in [Processors -> ProcType]
          /\ \A q \in Processors : /\ proc'[q].at = "idle" <=> proc[q].at = "idle"
                                   /\ proc'[q].on = proc[q].on
      BY <2>1, <2>3, <2>4 DEF IInv, Shape, QueueType
    <2>6. Shape(pc, req, show, cur, entry, timer, proc')
      <3>1. QueueType(pc, req, show, cur, entry, timer, proc')
        BY <2>5 DEF IInv, Shape, QueueType
      <3>2. SendersOk(pc, req, entry, timer, proc') /\ SingleSender(proc')
        BY <2>5 DEF IInv, Shape, SendersOk, SingleSender
      <3> QED BY <3>1, <3>2 DEF IInv, Shape
    <2>7. Watched(Seasons, cur, entry, timer, proc')
      BY <2>5 DEF IInv, Watched
    <2> QED BY <2>1, <2>6, <2>7 DEF IInv, IdleOk, HistoryType
  <1> QED BY <1>1, <1>3, <1>4 DEF Processor

LEMMA ShutdownStep ==
    ASSUME IInv, Shutdown
    PROVE  IInv'
PROOF
  <1>1. /\ cur' = [s \in Seasons |-> None] /\ show' = FALSE /\ running' = FALSE
        /\ raced' = raced \cup ({cur[s] : s \in Seasons} \ {None})
        /\ UNCHANGED <<pc, req, entry, proc, covered>>
    BY DEF Shutdown
  <1>2. /\ timer' \in [Webhooks -> TimerType]
        /\ \A w \in Webhooks : timer[w] # "armed" => timer'[w] = timer[w]
    BY DEF Shutdown, IInv, Shape, QueueType, TimerType
  <1>3. QueueType(pc, req, show', cur', entry, timer', proc)
    BY <1>1, <1>2 DEF IInv, Shape, QueueType
  <1>4. MapOk(req, show', cur', entry) /\ Watched(Seasons, cur', entry, timer', proc)
    BY <1>1 DEF MapOk, Watched
  <1>5. HandlersOk(pc, req, entry, timer')
    BY <1>2 DEF IInv, Shape, HandlersOk
  <1>6. SendersOk(pc, req, entry, timer', proc)
    BY <1>2, ProcessorParts DEF IInv, Shape, SendersOk
  <1>7. HistoryType'
    <2>1. \A s \in Seasons : cur[s] # None => cur[s] \in Webhooks
      BY DEF IInv, Shape, QueueType
    <2>2. raced' \subseteq Webhooks
      BY <1>1, <2>1 DEF IInv, HistoryType
    <2> QED BY <1>1, <2>2 DEF IInv, HistoryType
  <1> QED BY <1>1, <1>3, <1>4, <1>5, <1>6, <1>7 DEF IInv, Shape, IdleOk

LEMMA StepIInv == IInv /\ [Next]_vars => IInv'
PROOF
  <1> SUFFICES ASSUME IInv, [Next]_vars PROVE IInv'
    OBVIOUS
  <1>1. CASE UNCHANGED vars
    BY <1>1 DEF IInv, IdleOk, Shape, QueueType, MapOk, HandlersOk, TimersOk, SendersOk,
                SingleSender, Watched, HistoryType, vars, queueVars
  <1>2. ASSUME NEW w \in Webhooks, Handler(w) \/ TimerFires(w) PROVE IInv'
    BY <1>2, ReceiveStep, ImmediateStep, FetchStep, TimerStep DEF Handler
  <1>3. ASSUME NEW p \in Processors, Processor(p) PROVE IInv'
    BY <1>3, ProcessorStep
  <1>4. CASE Shutdown
    BY <1>4, ShutdownStep
  <1> QED BY <1>1, <1>2, <1>3, <1>4 DEF Next

-----------------------------------------------------------------------------
\* What the history variables record of the entries.

Sends(q, o, pr) == pr[q].at # "idle" /\ pr[q].on = o

\* An entry nobody interfered with is sent as it stands, and every episode of
\* it is covered once it is out of the map and its send is over.
QuietEntry(o, cu, en, pr, ra, cov) ==
    o \notin ra /\ en[o] # None =>
        /\ \A q \in Processors : Sends(q, o, pr) => pr[q].batch = en[o].eps
        /\ ((\A z \in Seasons : cu[z] # o) /\ (\A q \in Processors : ~Sends(q, o, pr)))
             => en[o].eps \subseteq cov[o]

Quiet(cu, en, pr, ra, cov) ==
    \A o \in Webhooks : QuietEntry(o, cu, en, pr, ra, cov)

LEMMA QuietGivesDispatched ==
    Quiet(cur, entry, proc, raced, covered) => QuietBatchesDispatched
BY DEF Quiet, QuietEntry, Sends, QuietBatchesDispatched, InFlight

\* Only a notified entry is being sent.
LEMMA SendersNotified ==
    ASSUME NEW pcx, NEW rq, NEW en, NEW tm, NEW pr, SendersOk(pcx, rq, en, tm, pr),
           NEW q \in Processors, NEW o \in Webhooks, Sends(q, o, pr)
    PROVE  en[o] # None /\ en[o].notified
BY DEF SendersOk, Sends

\* Starting to process: an entry taken out of the map is empty or interfered
\* with, and the one sent was not being sent.
LEMMA StartQuiet ==
    ASSUME NEW es \in [Webhooks -> EntryType \cup {None}], NEW tm,
           NEW p \in Processors, NEW s \in Seasons,
           cur \in [Seasons -> Webhooks \cup {None}],
           proc \in [Processors -> ProcType], proc[p].at = "idle",
           covered \in [Webhooks -> SUBSET Episodes],
           cur[s] # None => es[cur[s]] # None,
           \A o \in Webhooks :
               \/ QuietEntry(o, cur, es, proc, raced, covered)
               \/ o = cur[s] /\ es[o].notified /\ es[o].eps # {},
           \A q \in Processors, o \in Webhooks : Sends(q, o, proc) => es[o].notified,
           StartProcessing(p, s, es, tm)
    PROVE  Quiet(cur', entry', proc', raced', covered)
PROOF
  <1> DEFINE c == cur[s]
  <1> USE QueueAssumption
  <1> SUFFICES ASSUME NEW o \in Webhooks
               PROVE  QuietEntry(o, cur', entry', proc', raced', covered)
    BY DEF Quiet
  <1>1. CASE c = None
    <2>1. entry' = es /\ UNCHANGED <<cur, proc, raced>>
      BY <1>1 DEF StartProcessing
    <2> QED BY <1>1, <2>1 DEF QuietEntry
  <1>2. CASE c # None /\ es[c].eps = {}
    <2>1. /\ entry' = es /\ proc' = proc /\ raced \subseteq raced'
          /\ cur' = [cur EXCEPT ![s] = None]
      BY <1>2 DEF StartProcessing, CleanupSeasonQueue
    <2>2. QuietEntry(o, cur, es, proc, raced, covered)
      BY <1>2
    <2>3. CASE o = c
      BY <1>2, <2>1, <2>2, <2>3 DEF QuietEntry
    <2>4. CASE o # c
      BY <2>1, <2>2, <2>4 DEF QuietEntry
    <2> QED BY <2>3, <2>4
  <1>3. CASE c # None /\ es[c].eps # {} /\ ~ShouldProcessSeason(es[c])
    <2>1. /\ entry' = es /\ proc' = proc /\ raced' = raced \cup {c}
          /\ cur' = [cur EXCEPT ![s] = None]
      BY <1>3 DEF StartProcessing, CleanupSeasonQueue
    <2>2. CASE o = c
      BY <2>1, <2>2 DEF QuietEntry
    <2>3. CASE o # c
      BY <2>1, <2>3 DEF QuietEntry
    <2> QED BY <2>2, <2>3
  <1>4. CASE c # None /\ es[c].eps # {} /\ ShouldProcessSeason(es[c])
    <2> DEFINE sender == [at |-> "sending", on |-> c, batch |-> es[c].eps]
    <2>1. /\ entry' = [es EXCEPT ![c].notified = TRUE]
          /\ proc' = [proc EXCEPT ![p] = sender]
          /\ UNCHANGED <<cur, raced>>
      BY <1>4 DEF StartProcessing
    <2>2. c \in Webhooks /\ es[c] \in EntryType /\ ~es[c].notified
      BY <1>4 DEF ShouldProcessSeason
    <2>3. entry'[c].eps = es[c].eps /\ \A v \in Webhooks \ {c} : entry'[v] = es[v]
      BY <2>1, <2>2 DEF EntryType
    <2>4. /\ proc'[p].at = "sending" /\ proc'[p].on = c /\ proc'[p].batch = es[c].eps
          /\ \A q \in Processors \ {p} : proc'[q] = proc[q]
      BY <2>1
    <2> HIDE DEF c
    <2>5. CASE o = c
      BY <2>2, <2>3, <2>4, <2>5 DEF QuietEntry, Sends
    <2>6. CASE o # c
      <3>1. QuietEntry(o, cur, es, proc, raced, covered)
        BY <2>6 DEF c
      <3>2. \A q \in Processors : Sends(q, o, proc') <=> (q # p /\ Sends(q, o, proc))
        BY <2>4, <2>6 DEF Sends
      <3>3. \A q \in Processors : Sends(q, o, proc) => q # p
        BY DEF Sends
      <3>4. cur' = cur /\ raced' = raced /\ entry'[o] = es[o]
        BY <2>1, <2>3, <2>6
      <3> QED BY <2>4, <3>1, <3>2, <3>3, <3>4 DEF QuietEntry
    <2> QED BY <2>5, <2>6
  <1> QED BY <1>1, <1>2, <1>3, <1>4

\* Pushing episodes: an entry whose send has begun is interfered with.
LEMMA AddQuiet ==
    ASSUME NEW rq, NEW es, NEW w \in Webhooks, NEW isNew \in BOOLEAN,
           Shape(pc, rq, show, cur, es, timer, proc),
           Quiet(cur, es, proc, raced, covered),
           covered \in [Webhooks -> SUBSET Episodes],
           rq[w] # None, pc[w] # "queued",
           AddToQueue(w, rq[w], isNew, es)
    PROVE  Quiet(cur', entry', proc', raced', covered)
PROOF
  <1> DEFINE r == rq[w]
             s == r.season
             c == cur[s]
             fresh == Queued(r) \ es[c].eps
             pushed == [es EXCEPT ![c].eps = @ \cup fresh]
             stopped == [pushed EXCEPT ![c].timeoutId = None]
             reset == [pushed EXCEPT ![c].timeoutId = w]
             off == Cleared(timer, es[c].timeoutId)
  <1> USE QueueAssumption
  <1>1. r \in Requests /\ s \in Seasons /\ r.eps \subseteq Episodes
    BY DEF Shape, QueueType, RequestType
  <1>2. \A q \in Processors, o \in Webhooks : Sends(q, o, proc) => es[o].notified
    BY SendersNotified DEF Shape
  <1>3. CASE c = None \/ (c # None /\ fresh = {})
    <2>1. entry' = es /\ UNCHANGED <<cur, proc, raced>>
      BY <1>3 DEF AddToQueue
    <2> QED BY <2>1
  <1>4. ASSUME c # None, fresh # {}
        PROVE  /\ c \in Webhooks /\ es[c] \in EntryType
               /\ es[c].eps \cup fresh \in SUBSET Episodes
               /\ \A z \in Seasons : cur[z] = c => z = s
    BY <1>1, <1>4 DEF Shape, QueueType, MapOk, EntryType, Queued
  \* the entry c after the push, if its send has not begun: nobody sends it
  <1>5. ASSUME NEW en, c # None, fresh # {},
               \A o \in Webhooks \ {c} : en[o] = es[o]
        PROVE  \A o \in Webhooks :
                   \/ QuietEntry(o, cur, en, proc, raced, covered)
                   \/ o = c /\ es[o].notified
    <2> SUFFICES ASSUME NEW o \in Webhooks, ~(o = c /\ es[o].notified)
                 PROVE  QuietEntry(o, cur, en, proc, raced, covered)
      OBVIOUS
    <2>1. CASE o = c
      <3>1. \A q \in Processors : ~Sends(q, o, proc)
        BY <1>2, <2>1
      <3>2. cur[s] = o
        BY <2>1
      <3> HIDE DEF c, s
      <3> QED BY <1>1, <3>1, <3>2 DEF QuietEntry
    <2>2. CASE o # c
      BY <1>5, <2>2 DEF Quiet, QuietEntry
    <2> QED BY <2>1, <2>2
  <1>6. CASE c # None /\ fresh # {} /\ IsSeasonComplete(pushed[c])
    <2> DEFINE e == [es[c] EXCEPT !.eps = @ \cup fresh, !.timeoutId = None]
    <2>1. StartProcessing(<<"handler", w>>, s, stopped, off)
      BY <1>6 DEF AddToQueue
    <2>2. e \in EntryType /\ e.notified = es[c].notified /\ e.eps # {} /\ e # None
      BY <1>4, <1>6 DEF EntryType
    <2>3. stopped = [es EXCEPT ![c] = e]
      BY <1>4, <1>6 DEF Shape, QueueType, EntryType
    <2> HIDE DEF e, stopped, off, fresh
    <2>4. /\ stopped \in [Webhooks -> EntryType \cup {None}]
          /\ stopped[c] = e /\ \A o \in Webhooks \ {c} : stopped[o] = es[o]
      <3> HIDE DEF c
      <3> QED BY <1>4, <1>6, <2>2, <2>3 DEF Shape, QueueType
    <2>5. \A o \in Webhooks : \/ QuietEntry(o, cur, stopped, proc, raced, covered)
                              \/ o = c /\ stopped[o].notified /\ stopped[o].eps # {}
      BY <1>5, <1>6, <2>2, <2>4
    <2>6. \A q \in Processors, o \in Webhooks : Sends(q, o, proc) => stopped[o].notified
      BY <1>2, <2>2, <2>4
    <2>7. <<"handler", w>> \in Processors /\ proc[<<"handler", w>>].at = "idle"
      BY ProcessorParts DEF Shape, SendersOk
    <2>8. /\ cur \in [Seasons -> Webhooks \cup {None}]
          /\ proc \in [Processors -> ProcType]
      BY DEF Shape, QueueType
    <2>9. stopped[cur[s]] # None
      BY <2>2, <2>4
    <2> QED BY <1>1, <2>1, <2>4, <2>5, <2>6, <2>7, <2>8, <2>9, StartQuiet
  <1>7. CASE c # None /\ fresh # {} /\ ~IsSeasonComplete(pushed[c])
    <2>1. /\ entry' \in {pushed, reset}
          /\ raced' = IF es[c].notified THEN raced \cup {c} ELSE raced
          /\ UNCHANGED <<cur, proc>>
      BY <1>7 DEF AddToQueue
    <2>2. \A o \in Webhooks \ {c} : entry'[o] = es[o]
      BY <1>4, <1>7, <2>1 DEF Shape, QueueType
    <2> HIDE DEF c, fresh, pushed, reset
    <2>3. \A o \in Webhooks : \/ QuietEntry(o, cur, entry', proc, raced, covered)
                              \/ o = c /\ es[o].notified
      BY <1>5, <1>7, <2>2
    <2> QED BY <2>1, <2>3 DEF Quiet, QuietEntry
  <1> QED BY <1>3, <1>6, <1>7

LEMMA EnterQuiet ==
    ASSUME NEW rq, NEW w \in Webhooks, NEW known \in BOOLEAN,
           Shape(pc, rq, show, cur, entry, timer, proc),
           Quiet(cur, entry, proc, raced, covered),
           covered \in [Webhooks -> SUBSET Episodes],
           rq[w] # None, pc[w] \in {"idle", "notifying"},
           EnterSeason(w, rq[w], known)
    PROVE  Quiet(cur', entry', proc', raced', covered)
PROOF
  <1> DEFINE s == rq[w].season
  <1> USE QueueAssumption
  <1>1. s \in Seasons
    BY DEF Shape, QueueType, RequestType
  <1>2. CASE ~known
    BY <1>2 DEF EnterSeason, queueVars
  <1>3. CASE known /\ cur[s] # None
    <2>1. AddToQueue(w, rq[w], FALSE, entry)
      BY <1>3 DEF EnterSeason
    <2> QED BY <2>1, AddQuiet
  <1>4. CASE known /\ cur[s] = None
    <2>1. /\ cur' = [cur EXCEPT ![s] = w]
          /\ entry' = [entry EXCEPT ![w] = NewEntry(w, rq[w])]
          /\ UNCHANGED <<proc, raced>>
      BY <1>4 DEF EnterSeason
    <2>2. entry[w] = None
      BY DEF Shape, HandlersOk
    <2>3. \A q \in Processors : ~Sends(q, w, proc)
      BY <2>2, SendersNotified DEF Shape
    <2>4. \A z \in Seasons : cur[z] # w
      BY <2>2 DEF Shape, MapOk
    <2>5. /\ cur'[s] = w /\ \A z \in Seasons \ {s} : cur'[z] = cur[z]
          /\ \A o \in Webhooks \ {w} : entry'[o] = entry[o]
      BY <1>1, <2>1 DEF Shape, QueueType
    <2> SUFFICES ASSUME NEW o \in Webhooks
                 PROVE  QuietEntry(o, cur', entry', proc', raced', covered)
      BY DEF Quiet
    <2>6. CASE o = w
      BY <1>1, <2>1, <2>3, <2>5, <2>6 DEF QuietEntry
    <2>7. CASE o # w
      <3>1. QuietEntry(o, cur, entry, proc, raced, covered)
        BY DEF Quiet
      <3>2. (\A z \in Seasons : cur'[z] # o) => \A z \in Seasons : cur[z] # o
        BY <1>4, <2>5
      <3> HIDE DEF s
      <3> QED BY <2>1, <2>5, <2>7, <3>1, <3>2 DEF QuietEntry
    <2> QED BY <2>6, <2>7
  <1> QED BY <1>2, <1>3, <1>4

\* The end of a send covers its batch; another entry it takes out of the map
\* is interfered with.
LEMMA FinishQuiet ==
    ASSUME IInv, Quiet(cur, entry, proc, raced, covered),
           NEW p \in Processors, NEW told \in SUBSET Episodes,
           proc[p].at # "idle", proc[p].batch \subseteq told, Finish(p, told)
    PROVE  Quiet(cur', entry', proc', raced', covered')
PROOF
  <1> DEFINE s == req[p[2]].season
             o == proc[p].on
  <1> USE QueueAssumption
  <1>1. /\ proc' = [proc EXCEPT ![p] = Idle]
        /\ cur' = [cur EXCEPT ![s] = None]
        /\ covered' = [covered EXCEPT ![o] = @ \cup told]
        /\ raced' = IF cur[s] \in {None, o} THEN raced ELSE raced \cup {cur[s]}
        /\ entry' = entry
    BY DEF Finish, CleanupSeasonQueue
  <1>2. /\ p[2] \in Webhooks /\ s \in Seasons /\ o \in Webhooks /\ entry[o] # None
    BY ProcessorParts DEF IInv, Shape, SendersOk, QueueType, RequestType
  <1>3. /\ proc'[p].at = "idle" /\ \A q \in Processors \ {p} : proc'[q] = proc[q]
    BY <1>1 DEF IInv, Shape, QueueType, Idle
  <1>4. /\ covered'[o] = covered[o] \cup told
        /\ \A v \in Webhooks \ {o} : covered'[v] = covered[v]
    BY <1>1, <1>2 DEF IInv, HistoryType
  <1>5. cur'[s] = None /\ \A z \in Seasons \ {s} : cur'[z] = cur[z]
    BY <1>1, <1>2 DEF IInv, Shape, QueueType
  <1> SUFFICES ASSUME NEW v \in Webhooks, v \notin raced', entry[v] # None
               PROVE  QuietEntry(v, cur', entry, proc', raced', covered')
    BY <1>1 DEF Quiet, QuietEntry
  <1>6. v \notin raced /\ (cur[s] = v => v = o)
    BY <1>1
  <1>7. QuietEntry(v, cur, entry, proc, raced, covered)
    BY DEF Quiet
  <1> HIDE DEF s, o
  <1>8. \A q \in Processors : Sends(q, v, proc') => Sends(q, v, proc) /\ proc'[q] = proc[q]
    BY <1>3 DEF Sends
  <1>9. CASE v = o
    <2>1. entry[v].eps = proc[p].batch
      BY <1>6, <1>7, <1>9 DEF QuietEntry, Sends, o
    <2> QED BY <1>4, <1>6, <1>7, <1>8, <1>9, <2>1 DEF QuietEntry
  <1>10. CASE v # o
    <2>1. \A q \in Processors : Sends(q, v, proc) => q # p
      BY <1>10 DEF Sends, o
    <2>2. \A q \in Processors : Sends(q, v, proc) => Sends(q, v, proc')
      BY <1>3, <2>1 DEF Sends
    <2>3. (\A z \in Seasons : cur'[z] # v) => \A z \in Seasons : cur[z] # v
      BY <1>5, <1>6, <1>10
    <2> QED BY <1>4, <1>6, <1>7, <1>8, <1>10, <2>2, <2>3 DEF QuietEntry
  <1> QED BY <1>9, <1>10

LEMMA QuietStep ==
    IInv /\ Quiet(cur, entry, proc, raced, covered) /\ [Next]_vars
        => Quiet(cur', entry', proc', raced', covered')
PROOF
  <1> SUFFICES ASSUME IInv, Quiet(cur, entry, proc, raced, covered), [Next]_vars
               PROVE  Quiet(cur', entry', proc', raced', covered')
    OBVIOUS
  <1> USE QueueAssumption
  <1>1. CASE UNCHANGED vars
    BY <1>1 DEF vars, queueVars
  <1>2. ASSUME NEW w \in Webhooks, Receive(w)
        PROVE  Quiet(cur', entry', proc', raced', covered')
    <2>1. PICK r \in Requests :
              /\ req' = [req EXCEPT ![w] = r]
              /\ \/ UNCHANGED <<cur, entry, proc, raced>>
                 \/ EnterSeason(w, r, TRUE)
      BY <1>2 DEF Receive
    <2>2. pc[w] = "idle" /\ covered' = covered
      BY <1>2 DEF Receive
    <2>3. req'[w] = r /\ r # None
      BY <2>1 DEF IInv, Shape, QueueType
    <2>4. Shape(pc, req', show, cur, entry, timer, proc)
      BY <2>1, <2>2, ReceivedShape
    <2>5. EnterSeason(w, r, TRUE) => Quiet(cur', entry', proc', raced', covered)
      BY <2>2, <2>3, <2>4, EnterQuiet DEF IInv, HistoryType
    <2> QED BY <2>1, <2>2, <2>5
  <1>3. ASSUME NEW w \in Webhooks, ImmediateDone(w) \/ ImmediateFails(w)
        PROVE  Quiet(cur', entry', proc', raced', covered')
    <2>1. /\ pc[w] = "notifying" /\ covered' = covered
          /\ \/ UNCHANGED <<queueVars, raced>>
             \/ EnterSeason(w, req[w], show)
      BY <1>3 DEF ImmediateDone, ImmediateFails
    <2>2. req[w] # None /\ show \in BOOLEAN
      BY <2>1 DEF IInv, Shape, HandlersOk, QueueType
    <2>3. EnterSeason(w, req[w], show) => Quiet(cur', entry', proc', raced', covered)
      BY <2>1, <2>2, EnterQuiet DEF IInv, HistoryType
    <2> QED BY <2>1, <2>3 DEF queueVars
  <1>4. ASSUME NEW w \in Webhooks, FetchDone(w)
        PROVE  Quiet(cur', entry', proc', raced', covered')
    <2>1. PICK es : /\ AddToQueue(w, req[w], TRUE, es)
                    /\ Shape(pc, req, show, cur, es, timer, proc)
                    /\ Watched(Seasons, cur, es, timer, proc)
                    /\ \A o \in Webhooks :
                         /\ es[o] # None <=> entry[o] # None
                         /\ es[o] # None => /\ es[o].eps = entry[o].eps
                                            /\ es[o].notified = entry[o].notified
                                            /\ es[o].timeoutId = entry[o].timeoutId
      BY <1>4, FetchedEntries
    <2>2. Quiet(cur, es, proc, raced, covered)
      BY <2>1 DEF Quiet, QuietEntry
    <2>3. pc[w] = "fetching" /\ req[w] # None /\ covered' = covered
      BY <1>4 DEF FetchDone, IInv, Shape, HandlersOk
    <2> QED BY <2>1, <2>2, <2>3, AddQuiet DEF IInv, HistoryType
  <1>5. ASSUME NEW w \in Webhooks, TimerFires(w)
        PROVE  Quiet(cur', entry', proc', raced', covered')
    <2> DEFINE s == req[w].season
               p == <<"timer", w>>
    <2>1. /\ timer[w] = "armed" /\ covered' = covered
          /\ StartProcessing(p, s, entry, [timer EXCEPT ![w] = "fired"])
      BY <1>5 DEF TimerFires
    <2>2. req[w] # None /\ s \in Seasons
      BY <2>1 DEF IInv, Shape, HandlersOk, QueueType, RequestType
    <2>3. p \in Processors /\ proc[p].at = "idle"
      BY <2>1, ProcessorParts DEF IInv, Shape, SendersOk
    <2>4. \A q \in Processors, o \in Webhooks : Sends(q, o, proc) => entry[o].notified
      BY SendersNotified DEF IInv, Shape
    <2>5. cur[s] # None => entry[cur[s]] # None
      BY <2>2 DEF IInv, Shape, MapOk
    <2>6. \A o \in Webhooks : QuietEntry(o, cur, entry, proc, raced, covered)
      BY DEF Quiet
    <2> HIDE DEF s, p
    <2> QED BY <2>1, <2>2, <2>3, <2>4, <2>5, <2>6, StartQuiet
            DEF IInv, Shape, QueueType, HistoryType
  <1>6. ASSUME NEW p \in Processors, Processor(p)
        PROVE  Quiet(cur', entry', proc', raced', covered')
    <2>1. proc[p].batch \in SUBSET Episodes
      BY DEF IInv, Shape, QueueType, ProcType
    <2>2. CASE SendMatched(p)
      <3>1. /\ Announced(proc[p].batch) \in SUBSET Episodes
            /\ proc[p].batch \subseteq Announced(proc[p].batch)
        BY <2>1 DEF Announced
      <3> QED BY <2>2, <3>1, FinishQuiet DEF SendMatched
    <2>3. CASE Stored(p) \/ DispatchFails(p)
      BY <2>1, <2>3, FinishQuiet DEF Stored, DispatchFails
    <2>4. CASE SendUnmatched(p)
      <3> DEFINE o == proc[p].on
      <3>1. /\ proc[p].at = "sending"
            /\ proc' = [proc EXCEPT ![p].at = "storing", ![p].batch = entry[o].eps]
            /\ UNCHANGED <<cur, entry, raced, covered>>
        BY <2>4 DEF SendUnmatched
      <3>2. /\ proc'[p].at = "storing" /\ proc'[p].on = o /\ proc'[p].batch = entry[o].eps
            /\ \A q \in Processors \ {p} : proc'[q] = proc[q]
        BY <3>1 DEF IInv, Shape, QueueType, ProcType
      <3> HIDE DEF o
      <3>3. \A q \in Processors, v \in Webhooks : Sends(q, v, proc') <=> Sends(q, v, proc)
        BY <3>1, <3>2 DEF Sends, o
      <3>4. \A q \in Processors, v \in Webhooks :
                Sends(q, v, proc') => \/ proc'[q].batch = entry[v].eps
                                      \/ Sends(q, v, proc) /\ proc'[q].batch = proc[q].batch
        BY <3>2 DEF Sends
      <3> QED BY <3>1, <3>3, <3>4 DEF Quiet, QuietEntry
    <2> QED BY <1>6, <2>2, <2>3, <2>4 DEF Processor
  <1>7. CASE Shutdown
    <2>1. /\ raced \subseteq raced' /\ \A z \in Seasons : cur[z] # None => cur[z] \in raced'
          /\ UNCHANGED <<entry, proc, covered>>
      BY <1>7 DEF Shutdown
    <2>2. \A o \in Webhooks \ raced' : \A z \in Seasons : cur[z] # o
      BY <2>1
    <2> QED BY <2>1, <2>2 DEF Quiet, QuietEntry
  <1> QED BY <1>1, <1>2, <1>3, <1>4, <1>5, <1>6, <1>7 DEF Next, Handler

-----------------------------------------------------------------------------
\* Which timers may be armed.

\* Timer w is that of an entry in the map, or of one that was interfered with.
HasTimer(o, w, en) == en[o] # None /\ en[o].timeoutId = w

Held(w, cu, en, ra) ==
    \/ \E z \in Seasons : cu[z] # None /\ HasTimer(cu[z], w, en)
    \/ \E o \in ra : HasTimer(o, w, en)

\* The timer of an entry was armed once; that of an entry being sent, or sent,
\* is over unless the entry was interfered with.
TimerOf(o, en, tm, ra) ==
    en[o] # None /\ en[o].timeoutId # None =>
        /\ tm[en[o].timeoutId] # "none"
        /\ o \notin ra /\ en[o].notified => tm[en[o].timeoutId] # "armed"

Leaks(cu, en, tm, ra) ==
    /\ \A w \in Webhooks : tm[w] = "armed" => Held(w, cu, en, ra)
    /\ \A o \in Webhooks : TimerOf(o, en, tm, ra)

\* What the lemmas below need of the season's own entry.
EntryAt(s, cu, en) ==
    cu[s] # None =>
        /\ cu[s] \in Webhooks /\ en[cu[s]] \in EntryType
        /\ en[cu[s]].timeoutId \in Webhooks \cup {None}
        /\ \A z \in Seasons : cu[z] = cu[s] => z = s

LEMMA ShapeEntryAt ==
    ASSUME NEW pcx, NEW rq, NEW sh, NEW cu, NEW en, NEW tm, NEW pr, NEW s \in Seasons,
           Shape(pcx, rq, sh, cu, en, tm, pr)
    PROVE  EntryAt(s, cu, en)
BY DEF Shape, QueueType, MapOk, EntryType, EntryAt

\* Stopping the timer of an entry leaves the others held by what held them.
LEMMA StoppedLeaks ==
    ASSUME NEW en \in [Webhooks -> EntryType \cup {None}],
           NEW tm \in [Webhooks -> TimerType], NEW o \in Webhooks, en[o] # None,
           Leaks(cur, en, tm, raced)
    PROVE  LET off == Cleared(tm, en[o].timeoutId)
           IN  /\ off \in [Webhooks -> TimerType]
               /\ Leaks(cur, en, off, raced)
               /\ en[o].timeoutId # None => off[en[o].timeoutId] # "armed"
               /\ \A u \in Webhooks : off[u] = "none" <=> tm[u] = "none"
PROOF
  <1> DEFINE t == en[o].timeoutId
             off == Cleared(tm, t)
  <1> USE QueueAssumption
  <1>1. t \in Webhooks \cup {None}
    BY DEF EntryType
  <1>2. /\ off \in [Webhooks -> TimerType]
        /\ \A u \in Webhooks \ {t} : off[u] = tm[u]
    BY <1>1, ClearedTimer
  <1>3. /\ t # None => off[t] # "armed"
        /\ t # None => (off[t] = "none" <=> tm[t] = "none")
    BY <1>1 DEF Cleared, TimerType
  <1> HIDE DEF off, t
  <1>4. \A u \in Webhooks : (off[u] = "armed" => tm[u] = "armed")
                            /\ (off[u] = "none" <=> tm[u] = "none")
    BY <1>1, <1>2, <1>3
  <1>5. \A v \in Webhooks : en[v] # None => en[v].timeoutId \in Webhooks \cup {None}
    BY DEF EntryType
  <1>6. Leaks(cur, en, off, raced)
    BY <1>4, <1>5 DEF Leaks, TimerOf
  <1> QED BY <1>2, <1>3, <1>4, <1>6 DEF off, t

\* An entry of the map goes: its timer is not armed, or it was interfered with.
LEMMA RemovedLeaks ==
    ASSUME NEW en, NEW tm, NEW s \in Seasons, NEW ra, raced \subseteq ra,
           cur \in [Seasons -> Webhooks \cup {None}],
           Leaks(cur, en, tm, raced),
           cur[s] # None =>
               \/ en[cur[s]].timeoutId \in Webhooks => tm[en[cur[s]].timeoutId] # "armed"
               \/ cur[s] \in ra
    PROVE  Leaks([cur EXCEPT ![s] = None], en, tm, ra)
PROOF
  <1> DEFINE cu == [cur EXCEPT ![s] = None]
  <1>1. cu[s] = None /\ \A z \in Seasons \ {s} : cu[z] = cur[z]
    OBVIOUS
  <1> HIDE DEF cu
  <1>2. ASSUME NEW w \in Webhooks, tm[w] = "armed"
        PROVE  Held(w, cu, en, ra)
    <2>1. Held(w, cur, en, raced)
      BY <1>2 DEF Leaks
    <2>2. CASE \E o \in raced : HasTimer(o, w, en)
      BY <2>2 DEF Held
    <2>3. ASSUME NEW z \in Seasons, cur[z] # None, HasTimer(cur[z], w, en)
          PROVE  Held(w, cu, en, ra)
      <3>1. CASE z # s
        BY <1>1, <2>3, <3>1 DEF Held
      <3>2. CASE z = s
        BY <1>2, <2>3, <3>2 DEF Held, HasTimer
      <3> QED BY <3>1, <3>2
    <2> QED BY <2>1, <2>2, <2>3 DEF Held
  <1>3. \A o \in Webhooks : TimerOf(o, en, tm, ra)
    BY DEF Leaks, TimerOf
  <1> QED BY <1>2, <1>3 DEF Leaks, cu

LEMMA StartLeaks ==
    ASSUME NEW es \in [Webhooks -> EntryType \cup {None}],
           NEW tm \in [Webhooks -> TimerType],
           NEW p \in Processors, NEW s \in Seasons,
           cur \in [Seasons -> Webhooks \cup {None}],
           EntryAt(s, cur, es),
           Leaks(cur, es, tm, raced),
           cur[s] # None /\ es[cur[s]].timeoutId = p[2] => tm[p[2]] # "armed",
           StartProcessing(p, s, es, tm)
    PROVE  Leaks(cur', entry', timer', raced')
PROOF
  <1> DEFINE c == cur[s]
             off == Cleared(tm, es[c].timeoutId)
             cu == [cur EXCEPT ![s] = None]
  <1> USE QueueAssumption
  <1>1. CASE c = None
    BY <1>1 DEF StartProcessing
  <1>2. ASSUME c # None
        PROVE  /\ c \in Webhooks /\ es[c] \in EntryType /\ es[c] # None
               /\ es[c].timeoutId \in Webhooks \cup {None}
    BY <1>2 DEF EntryAt
  <1>3. CASE c # None /\ es[c].eps = {}
    <2>1. /\ entry' = es /\ timer' = tm /\ cur' = cu
          /\ raced' = IF es[c].timeoutId = p[2] THEN raced ELSE raced \cup {c}
      BY <1>3 DEF StartProcessing, CleanupSeasonQueue
    <2>2. raced \subseteq raced'
      BY <2>1
    <2>3. \/ es[c].timeoutId \in Webhooks => tm[es[c].timeoutId] # "armed"
          \/ c \in raced'
      BY <1>3, <2>1
    <2> HIDE DEF c
    <2>4. Leaks(cu, es, tm, raced')
      BY <2>2, <2>3, RemovedLeaks DEF c
    <2> QED BY <2>1, <2>4
  <1>4. ASSUME c # None
        PROVE  /\ off \in [Webhooks -> TimerType]
               /\ Leaks(cur, es, off, raced)
               /\ es[c].timeoutId # None => off[es[c].timeoutId] # "armed"
    <2> HIDE DEF c
    <2> QED BY <1>2, <1>4, StoppedLeaks
  <1>5. CASE c # None /\ es[c].eps # {} /\ ~ShouldProcessSeason(es[c])
    <2>1. /\ entry' = es /\ timer' = off /\ cur' = cu /\ raced' = raced \cup {c}
      BY <1>5 DEF StartProcessing, CleanupSeasonQueue
    <2>2. raced \subseteq raced' /\ c \in raced'
      BY <2>1
    <2>3. Leaks(cur, es, off, raced)
      BY <1>4, <1>5
    <2> HIDE DEF c, off
    <2>4. Leaks(cu, es, off, raced')
      BY <2>2, <2>3, RemovedLeaks DEF c
    <2> QED BY <2>1, <2>4
  <1>6. CASE c # None /\ es[c].eps # {} /\ ShouldProcessSeason(es[c])
    <2>1. /\ entry' = [es EXCEPT ![c].notified = TRUE] /\ timer' = off
          /\ cur' = cur /\ raced' = raced
      BY <1>6 DEF StartProcessing
    <2>2. /\ entry'[c].timeoutId = es[c].timeoutId
          /\ \A v : v # c => entry'[v] = es[v]
      BY <1>2, <1>6, <2>1 DEF EntryType
    <2>3. entry'[c] # None /\ es[c] # None
      <3>1. entry'[c] \in EntryType
        BY <1>2, <1>6, <2>1 DEF EntryType
      <3> QED BY <1>2, <1>6, <3>1
    <2>4. /\ Leaks(cur, es, off, raced)
          /\ es[c].timeoutId # None => off[es[c].timeoutId] # "armed"
      BY <1>4, <1>6
    <2> HIDE DEF c, off
    <2>5. ASSUME NEW w \in Webhooks, off[w] = "armed"
          PROVE  Held(w, cur, entry', raced)
      <3>1. Held(w, cur, es, raced)
        BY <2>4, <2>5 DEF Leaks
      <3>2. \A v : HasTimer(v, w, es) => HasTimer(v, w, entry')
        BY <2>1, <2>2, <2>3 DEF HasTimer
      <3> QED BY <3>1, <3>2 DEF Held
    <2>6. \A o \in Webhooks : TimerOf(o, entry', off, raced)
      BY <2>2, <2>3, <2>4 DEF Leaks, TimerOf
    <2> QED BY <2>1, <2>5, <2>6 DEF Leaks
  <1> QED BY <1>1, <1>3, <1>5, <1>6

\* An entry changes, and keeps its timer unless that one is over.
LEMMA ReplacedLeaks ==
    ASSUME NEW en \in [Webhooks -> EntryType \cup {None}], NEW tm,
           NEW o \in Webhooks, NEW e \in EntryType, NEW ra, raced \subseteq ra,
           Leaks(cur, en, tm, raced),
           \/ e.timeoutId = en[o].timeoutId
           \/ en[o].timeoutId \in Webhooks => tm[en[o].timeoutId] # "armed",
           TimerOf(o, [en EXCEPT ![o] = e], tm, ra)
    PROVE  Leaks(cur, [en EXCEPT ![o] = e], tm, ra)
PROOF
  <1> DEFINE new == [en EXCEPT ![o] = e]
  <1>1. new[o] = e /\ \A v \in Webhooks \ {o} : new[v] = en[v]
    OBVIOUS
  <1>2. \A v : v # o => new[v] = en[v]
    OBVIOUS
  <1> HIDE DEF new
  <1>3. ASSUME NEW w \in Webhooks, tm[w] = "armed"
        PROVE  Held(w, cur, new, ra)
    <2>1. Held(w, cur, en, raced)
      BY <1>3 DEF Leaks
    <2>2. \A v : HasTimer(v, w, en) => HasTimer(v, w, new)
      BY <1>1, <1>2, <1>3, QueueAssumption DEF HasTimer
    <2> QED BY <2>1, <2>2 DEF Held
  <1>4. \A v \in Webhooks : TimerOf(v, new, tm, ra)
    <2> SUFFICES ASSUME NEW v \in Webhooks, v # o PROVE TimerOf(v, new, tm, ra)
      BY DEF new
    <2> QED BY <1>1 DEF Leaks, TimerOf
  <1> QED BY <1>3, <1>4 DEF Leaks, new

LEMMA AddLeaks ==
    ASSUME NEW rq, NEW es, NEW w \in Webhooks, NEW isNew \in BOOLEAN,
           Shape(pc, rq, show, cur, es, timer, proc),
           Leaks(cur, es, timer, raced),
           rq[w] # None,
           ~isNew => timer[w] = "none",
           AddToQueue(w, rq[w], isNew, es)
    PROVE  Leaks(cur', entry', timer', raced')
PROOF
  <1> DEFINE r == rq[w]
             s == r.season
             c == cur[s]
             fresh == Queued(r) \ es[c].eps
             pushed == [es EXCEPT ![c].eps = @ \cup fresh]
             stopped == [pushed EXCEPT ![c].timeoutId = None]
             reset == [pushed EXCEPT ![c].timeoutId = w]
             off == Cleared(timer, es[c].timeoutId)
  <1> USE QueueAssumption
  <1>1. r \in Requests /\ s \in Seasons /\ r.eps \subseteq Episodes
    BY DEF Shape, QueueType, RequestType
  <1>2. CASE c = None \/ (c # None /\ fresh = {})
    <2>1. entry' = es /\ UNCHANGED <<cur, timer, raced>>
      BY <1>2 DEF AddToQueue
    <2> QED BY <2>1
  <1>3. /\ es \in [Webhooks -> EntryType \cup {None}]
        /\ timer \in [Webhooks -> TimerType]
        /\ cur \in [Seasons -> Webhooks \cup {None}]
    BY DEF Shape, QueueType
  <1>4. ASSUME c # None
        PROVE  /\ c \in Webhooks /\ es[c] \in EntryType /\ es[c] # None
               /\ es[c].timeoutId \in Webhooks \cup {None}
               /\ es[c].eps \cup fresh \in SUBSET Episodes
               /\ off \in [Webhooks -> TimerType]
               /\ Leaks(cur, es, off, raced)
               /\ es[c].timeoutId # None => off[es[c].timeoutId] # "armed"
               /\ \A u \in Webhooks : off[u] = "none" <=> timer[u] = "none"
    <2>1. EntryAt(s, cur, es)
      BY <1>1, ShapeEntryAt
    <2>2. /\ c \in Webhooks /\ es[c] \in EntryType
          /\ es[c].timeoutId \in Webhooks \cup {None}
      BY <1>4, <2>1 DEF EntryAt
    <2>3. es[c].eps \cup fresh \in SUBSET Episodes
      BY <1>1, <2>2 DEF EntryType, Queued
    <2> HIDE DEF c
    <2> QED BY <1>3, <2>2, <2>3, StoppedLeaks
  <1>5. CASE c # None /\ fresh # {} /\ IsSeasonComplete(pushed[c])
    <2> DEFINE e == [es[c] EXCEPT !.eps = @ \cup fresh, !.timeoutId = None]
    <2>1. StartProcessing(<<"handler", w>>, s, stopped, off)
      BY <1>5 DEF AddToQueue
    <2>2. e \in EntryType /\ e.timeoutId = None /\ e # None
      BY <1>4, <1>5 DEF EntryType
    <2>3. stopped = [es EXCEPT ![c] = e]
      BY <1>3, <1>4, <1>5 DEF EntryType
    <2>4. c \in Webhooks
      BY <1>4, <1>5
    <2>5. /\ off \in [Webhooks -> TimerType]
          /\ Leaks(cur, es, off, raced)
          /\ es[c].timeoutId # None => off[es[c].timeoutId] # "armed"
      BY <1>4, <1>5
    <2> HIDE DEF e, stopped, off, fresh
    <2>6. /\ stopped \in [Webhooks -> EntryType \cup {None}] /\ stopped[c] = e
          /\ \A v \in Webhooks \ {c} : stopped[v] = es[v]
      <3> HIDE DEF c
      <3> QED BY <1>3, <2>2, <2>3, <2>4
    <2>7. TimerOf(c, stopped, off, raced)
      BY <2>2, <2>6 DEF TimerOf
    <2>8. Leaks(cur, stopped, off, raced)
      <3> HIDE DEF c
      <3> QED BY <1>3, <2>2, <2>3, <2>4, <2>5, <2>7, ReplacedLeaks
    <2>9. EntryAt(s, cur, stopped)
      <3>1. EntryAt(s, cur, es)
        BY <1>1, ShapeEntryAt
      <3>2. \A z \in Seasons : cur[z] = cur[s] => z = s
        BY <1>5, <3>1 DEF EntryAt
      <3>3. stopped[c].timeoutId \in Webhooks \cup {None}
        BY <2>2, <2>6
      <3> QED BY <2>2, <2>4, <2>6, <3>2, <3>3 DEF EntryAt
    <2>10. /\ <<"handler", w>> \in Processors /\ <<"handler", w>>[2] = w
           /\ stopped[c].timeoutId # w
      BY <2>2, <2>6, ProcessorParts
    <2> QED BY <1>1, <1>3, <2>1, <2>5, <2>6, <2>8, <2>9, <2>10, StartLeaks
  <1>6. CASE c # None /\ fresh # {} /\ ~IsSeasonComplete(pushed[c])
    <2>1. /\ IF isNew THEN entry' = pushed /\ timer' = timer
             ELSE entry' = reset /\ timer' = [off EXCEPT ![w] = "armed"]
          /\ raced' = IF es[c].notified THEN raced \cup {c} ELSE raced
          /\ cur' = cur
      BY <1>6 DEF AddToQueue
    <2>2. raced \subseteq raced' /\ (es[c].notified => c \in raced')
      BY <2>1
    <2>3. c \in Webhooks /\ es[c] # None /\ TimerOf(c, es, timer, raced)
      BY <1>4, <1>6 DEF Leaks
    <2>4. CASE isNew
      <3> DEFINE e == [es[c] EXCEPT !.eps = @ \cup fresh]
      <3>1. e \in EntryType /\ e.notified = es[c].notified /\ e.timeoutId = es[c].timeoutId
        BY <1>4, <1>6 DEF EntryType
      <3>2. entry' = [es EXCEPT ![c] = e]
        BY <1>3, <1>4, <1>6, <2>1, <2>4 DEF EntryType
      <3> HIDE DEF e, c
      <3>3. [es EXCEPT ![c] = e][c] = e
        BY <1>3, <2>3
      <3>4. TimerOf(c, [es EXCEPT ![c] = e], timer, raced')
        BY <2>2, <2>3, <3>1, <3>3 DEF TimerOf
      <3>5. Leaks(cur, [es EXCEPT ![c] = e], timer, raced')
        BY <1>3, <2>2, <2>3, <3>1, <3>4, ReplacedLeaks
      <3> QED BY <2>1, <2>4, <3>2, <3>5
    <2>5. CASE ~isNew
      <3> DEFINE e == [es[c] EXCEPT !.eps = @ \cup fresh, !.timeoutId = w]
      <3>1. e \in EntryType /\ e.notified = es[c].notified /\ e.timeoutId = w
        BY <1>4, <1>6 DEF EntryType
      <3>2. entry' = [es EXCEPT ![c] = e] /\ timer' = [off EXCEPT ![w] = "armed"]
        BY <1>3, <1>4, <1>6, <2>1, <2>5 DEF EntryType
      <3>3. /\ Leaks(cur, es, off, raced) /\ off \in [Webhooks -> TimerType]
            /\ es[c].timeoutId # None => off[es[c].timeoutId] # "armed"
            /\ off[w] = "none"
        BY <1>4, <1>6, <2>5
      <3> HIDE DEF e, c, off
      <3>4. /\ entry'[c] = e /\ \A v : v # c => entry'[v] = es[v]
            /\ timer'[w] = "armed" /\ \A u \in Webhooks \ {w} : timer'[u] = off[u]
        BY <1>3, <2>3, <3>2, <3>3
      <3>5. ASSUME NEW u \in Webhooks, timer'[u] = "armed"
            PROVE  Held(u, cur, entry', raced')
        <4>1. CASE u = w
          <5>1. HasTimer(cur[s], u, entry') /\ cur[s] # None
            BY <1>6, <3>1, <3>4, <4>1 DEF c, HasTimer
          <5> QED BY <1>1, <5>1 DEF Held
        <4>2. CASE u # w
          <5>1. off[u] = "armed" /\ Held(u, cur, es, raced)
            BY <3>3, <3>4, <3>5, <4>2 DEF Leaks
          <5>2. \A v : HasTimer(v, u, es) => HasTimer(v, u, entry')
            BY <3>3, <3>4, <5>1 DEF HasTimer
          <5> QED BY <2>2, <5>1, <5>2 DEF Held
        <4> QED BY <4>1, <4>2
      <3>6. ASSUME NEW o \in Webhooks PROVE TimerOf(o, entry', timer', raced')
        <4>1. CASE o = c
          BY <2>2, <3>1, <3>4, <4>1 DEF TimerOf
        <4>2. CASE o # c
          <5>1. TimerOf(o, es, off, raced) /\ entry'[o] = es[o]
            BY <3>3, <3>4, <4>2 DEF Leaks
          <5>2. es[o] # None => es[o].timeoutId \in Webhooks \cup {None}
            BY <1>3 DEF EntryType
          <5>3. es[o] # None => es[o].timeoutId # w
            BY <3>3, <5>1 DEF TimerOf
          <5> QED BY <2>2, <3>4, <5>1, <5>2, <5>3 DEF TimerOf
        <4> QED BY <4>1, <4>2
      <3> QED BY <2>1, <3>5, <3>6 DEF Leaks
    <2> QED BY <2>4, <2>5
  <1> QED BY <1>2, <1>5, <1>6

LEMMA EnterLeaks ==
    ASSUME NEW rq, NEW w \in Webhooks, NEW known \in BOOLEAN,
           Shape(pc, rq, show, cur, entry, timer, proc),
           Leaks(cur, entry, timer, raced),
           raced \subseteq Webhooks,
           rq[w] # None, pc[w] \in {"idle", "notifying"},
           EnterSeason(w, rq[w], known)
    PROVE  Leaks(cur', entry', timer', raced')
PROOF
  <1> DEFINE s == rq[w].season
  <1> USE QueueAssumption
  <1>1. s \in Seasons /\ rq[w].pilot \in BOOLEAN
    BY DEF Shape, QueueType, RequestType
  <1>2. entry[w] = None /\ timer[w] = "none"
    BY DEF Shape, HandlersOk
  <1>3. CASE ~known
    BY <1>3 DEF EnterSeason, queueVars
  <1>4. CASE known /\ cur[s] # None
    <2>1. AddToQueue(w, rq[w], FALSE, entry)
      BY <1>4 DEF EnterSeason
    <2> QED BY <1>2, <2>1, AddLeaks
  <1>5. CASE known /\ cur[s] = None
    <2>1. /\ cur' = [cur EXCEPT ![s] = w]
          /\ entry' = [entry EXCEPT ![w] = NewEntry(w, rq[w])]
          /\ timer' = [timer EXCEPT ![w] = "armed"]
          /\ raced' = raced
      BY <1>5 DEF EnterSeason
    <2>2. /\ cur'[s] = w /\ \A z \in Seasons \ {s} : cur'[z] = cur[z]
          /\ entry'[w] = NewEntry(w, rq[w])
          /\ \A o \in Webhooks \ {w} : entry'[o] = entry[o]
          /\ timer'[w] = "armed" /\ \A u \in Webhooks \ {w} : timer'[u] = timer[u]
      BY <1>1, <2>1 DEF Shape, QueueType
    <2>3. /\ entry'[w] # None
          /\ entry'[w].timeoutId = w /\ ~entry'[w].notified
      <3>1. NewEntry(w, rq[w]) \in EntryType
        BY <1>1, Zenon DEF NewEntry, EntryType
      <3>2. NewEntry(w, rq[w]) # None
        BY <3>1
      <3> QED BY <2>2, <3>2 DEF NewEntry
    <2>4. \A o \in Webhooks : entry[o] # None => entry[o].timeoutId # w
      BY <1>2 DEF Leaks, TimerOf
    <2>5. \A o \in Webhooks : entry[o] # None => entry[o].timeoutId \in Webhooks \cup {None}
      BY DEF Shape, QueueType, EntryType
    <2>6. /\ \A z \in Seasons : cur[z] # None => cur[z] \in Webhooks \ {w}
          /\ cur[s] = None
      BY <1>2, <1>5 DEF Shape, QueueType, MapOk
    <2> HIDE DEF s
    <2>7. \A z \in Seasons : cur[z] # None => cur'[z] = cur[z] /\ entry'[cur[z]] = entry[cur[z]]
      BY <2>2, <2>6
    <2>8. ASSUME NEW u \in Webhooks, timer'[u] = "armed"
          PROVE  Held(u, cur', entry', raced')
      <3>1. CASE u = w
        BY <1>1, <2>2, <2>3, <3>1 DEF Held, HasTimer
      <3>2. CASE u # w
        <4>1. Held(u, cur, entry, raced)
          BY <2>2, <2>8, <3>2 DEF Leaks
        <4>2. CASE \E z \in Seasons : cur[z] # None /\ HasTimer(cur[z], u, entry)
          BY <2>2, <2>7, <4>2 DEF Held, HasTimer
        <4>3. ASSUME NEW o \in raced, HasTimer(o, u, entry)
              PROVE  Held(u, cur', entry', raced')
          <5>1. o # w
            BY <1>2, <4>3 DEF HasTimer
          <5> QED BY <2>1, <2>2, <4>3, <5>1 DEF Held, HasTimer
        <4> QED BY <4>1, <4>2, <4>3 DEF Held
      <3> QED BY <3>1, <3>2
    <2>9. ASSUME NEW o \in Webhooks PROVE TimerOf(o, entry', timer', raced')
      <3>1. CASE o = w
        BY <2>2, <2>3, <3>1 DEF TimerOf
      <3>2. CASE o # w
        <4>1. TimerOf(o, entry, timer, raced) /\ entry'[o] = entry[o]
          BY <2>2, <3>2 DEF Leaks
        <4> QED BY <2>1, <2>2, <2>4, <2>5, <4>1 DEF TimerOf
      <3> QED BY <3>1, <3>2
    <2> QED BY <2>8, <2>9 DEF Leaks
  <1> QED BY <1>3, <1>4, <1>5

\* The end of a send takes its own entry out, whose timer is over, or another
\* one, which is interfered with.
LEMMA FinishLeaks ==
    ASSUME IInv, Leaks(cur, entry, timer, raced),
           NEW p \in Processors, NEW told, proc[p].at # "idle", Finish(p, told)
    PROVE  Leaks(cur', entry', timer', raced')
PROOF
  <1> DEFINE s == req[p[2]].season
             o == proc[p].on
  <1> USE QueueAssumption
  <1>1. /\ cur' = [cur EXCEPT ![s] = None]
        /\ raced' = IF cur[s] \in {None, o} THEN raced ELSE raced \cup {cur[s]}
        /\ entry' = entry /\ timer' = timer
    BY DEF Finish, CleanupSeasonQueue
  <1>2. /\ s \in Seasons /\ o \in Webhooks /\ entry[o] # None /\ entry[o].notified
    BY ProcessorParts DEF IInv, Shape, SendersOk, QueueType, RequestType
  <1>3. TimerOf(o, entry, timer, raced)
    BY <1>2 DEF Leaks
  <1> HIDE DEF s, o
  <1>4. raced \subseteq raced'
    BY <1>1
  <1>5. cur[s] # None =>
            \/ entry[cur[s]].timeoutId \in Webhooks => timer[entry[cur[s]].timeoutId] # "armed"
            \/ cur[s] \in raced'
    BY <1>1, <1>2, <1>3 DEF TimerOf
  <1>6. cur \in [Seasons -> Webhooks \cup {None}]
    BY DEF IInv, Shape, QueueType
  <1> QED BY <1>1, <1>2, <1>4, <1>5, <1>6, RemovedLeaks

LEMMA LeaksStep ==
    IInv /\ Leaks(cur, entry, timer, raced) /\ [Next]_vars
        => Leaks(cur', entry', timer', raced')
PROOF
  <1> SUFFICES ASSUME IInv, Leaks(cur, entry, timer, raced), [Next]_vars
               PROVE  Leaks(cur', entry', timer', raced')
    OBVIOUS
  <1> USE QueueAssumption
  <1>1. CASE UNCHANGED vars
    BY <1>1 DEF vars, queueVars
  <1>2. ASSUME NEW w \in Webhooks, Receive(w)
        PROVE  Leaks(cur', entry', timer', raced')
    <2>1. PICK r \in Requests :
              /\ req' = [req EXCEPT ![w] = r]
              /\ \/ UNCHANGED <<cur, entry, timer, raced>>
                 \/ EnterSeason(w, r, TRUE)
      BY <1>2 DEF Receive
    <2>2. pc[w] = "idle"
      BY <1>2 DEF Receive
    <2>3. req'[w] = r /\ r # None
      BY <2>1 DEF IInv, Shape, QueueType
    <2>4. Shape(pc, req', show, cur, entry, timer, proc)
      BY <2>1, <2>2, ReceivedShape
    <2>5. EnterSeason(w, r, TRUE) => Leaks(cur', entry', timer', raced')
      BY <2>2, <2>3, <2>4, EnterLeaks DEF IInv, HistoryType
    <2> QED BY <2>1, <2>5
  <1>3. ASSUME NEW w \in Webhooks, ImmediateDone(w) \/ ImmediateFails(w)
        PROVE  Leaks(cur', entry', timer', raced')
    <2>1. /\ pc[w] = "notifying"
          /\ \/ UNCHANGED <<queueVars, raced>>
             \/ EnterSeason(w, req[w], show)
      BY <1>3 DEF ImmediateDone, ImmediateFails
    <2>2. req[w] # None /\ show \in BOOLEAN
      BY <2>1 DEF IInv, Shape, HandlersOk, QueueType
    <2>3. EnterSeason(w, req[w], show) => Leaks(cur', entry', timer', raced')
      BY <2>1, <2>2, EnterLeaks DEF IInv, HistoryType
    <2> QED BY <2>1, <2>3 DEF queueVars
  <1>4. ASSUME NEW w \in Webhooks, FetchDone(w)
        PROVE  Leaks(cur', entry', timer', raced')
    <2>1. PICK es : /\ AddToQueue(w, req[w], TRUE, es)
                    /\ Shape(pc, req, show, cur, es, timer, proc)
                    /\ Watched(Seasons, cur, es, timer, proc)
                    /\ \A o \in Webhooks :
                         /\ es[o] # None <=> entry[o] # None
                         /\ es[o] # None => /\ es[o].eps = entry[o].eps
                                            /\ es[o].notified = entry[o].notified
                                            /\ es[o].timeoutId = entry[o].timeoutId
      BY <1>4, FetchedEntries
    <2>2. \A o \in Webhooks, v \in Webhooks : HasTimer(o, v, entry) => HasTimer(o, v, es)
      BY <2>1 DEF HasTimer
    <2>3. /\ \A z \in Seasons : cur[z] # None => cur[z] \in Webhooks
          /\ raced \subseteq Webhooks
      BY DEF IInv, Shape, QueueType, HistoryType
    <2>4. \A v \in Webhooks : Held(v, cur, entry, raced) => Held(v, cur, es, raced)
      BY <2>2, <2>3 DEF Held
    <2>5. Leaks(cur, es, timer, raced)
      BY <2>1, <2>4 DEF Leaks, TimerOf
    <2>6. req[w] # None
      BY <1>4 DEF FetchDone, IInv, Shape, HandlersOk
    <2> QED BY <2>1, <2>5, <2>6, AddLeaks
  <1>5. ASSUME NEW w \in Webhooks, TimerFires(w)
        PROVE  Leaks(cur', entry', timer', raced')
    <2> DEFINE s == req[w].season
               p == <<"timer", w>>
               tm == [timer EXCEPT ![w] = "fired"]
    <2>1. timer[w] = "armed" /\ StartProcessing(p, s, entry, tm)
      BY <1>5 DEF TimerFires
    <2>2. req[w] # None /\ s \in Seasons
      BY <2>1 DEF IInv, Shape, HandlersOk, QueueType, RequestType
    <2>3. p \in Processors /\ p[2] = w
      BY ProcessorParts
    <2>4. /\ tm \in [Webhooks -> TimerType] /\ tm[w] = "fired"
          /\ \A u \in Webhooks \ {w} : tm[u] = timer[u]
      BY DEF IInv, Shape, QueueType, TimerType
    <2> HIDE DEF s, p, tm
    <2>5. \A o \in Webhooks : entry[o] # None => entry[o].timeoutId \in Webhooks \cup {None}
      BY DEF IInv, Shape, QueueType, EntryType
    <2>6. Leaks(cur, entry, tm, raced)
      BY <2>4, <2>5 DEF Leaks, TimerOf
    <2>7. EntryAt(s, cur, entry)
      BY <2>2, ShapeEntryAt DEF IInv
    <2>8. /\ entry \in [Webhooks -> EntryType \cup {None}]
          /\ cur \in [Seasons -> Webhooks \cup {None}]
      BY DEF IInv, Shape, QueueType
    <2> QED BY <2>1, <2>2, <2>3, <2>4, <2>6, <2>7, <2>8, StartLeaks
  <1>6. ASSUME NEW p \in Processors, Processor(p)
        PROVE  Leaks(cur', entry', timer', raced')
    <2>1. CASE SendUnmatched(p)
      BY <2>1 DEF SendUnmatched
    <2>2. CASE SendMatched(p) \/ Stored(p) \/ DispatchFails(p)
      <3>1. proc[p].at # "idle" /\ \E told : Finish(p, told)
        BY <2>2 DEF SendMatched, Stored, DispatchFails
      <3> QED BY <3>1, FinishLeaks
    <2> QED BY <1>6, <2>1, <2>2 DEF Processor
  <1>7. CASE Shutdown
    <2>1. /\ raced \subseteq raced' /\ \A z \in Seasons : cur[z] # None => cur[z] \in raced'
          /\ entry' = entry
          /\ \A w \in Webhooks : \/ timer'[w] = timer[w]
                                 \/ timer[w] = "armed" /\ timer'[w] = "cleared"
      BY <1>7 DEF Shutdown
    <2>2. \A w \in Webhooks : Held(w, cur, entry, raced) => Held(w, cur', entry', raced')
      BY <2>1 DEF Held
    <2>3. \A o \in Webhooks : entry[o] # None => entry[o].timeoutId \in Webhooks \cup {None}
      BY DEF IInv, Shape, QueueType, EntryType
    <2> QED BY <2>1, <2>2, <2>3 DEF Leaks, TimerOf
  <1> QED BY <1>1, <1>2, <1>3, <1>4, <1>5, <1>6, <1>7 DEF Next, Handler

\* A timer that fires is that of the entry now in the map, or of one that was
\* interfered with.
LEMMA FiringIsHeld ==
    ASSUME IInv, Leaks(cur, entry, timer, raced), NEW w \in Webhooks, timer[w] = "armed"
    PROVE  LET c == cur[req[w].season]
           IN  c # None /\ entry[c].timeoutId # w =>
                 \E o \in raced : entry[o].timeoutId = w
PROOF
  <1>1. Held(w, cur, entry, raced)
    BY DEF Leaks
  <1>2. ASSUME NEW z \in Seasons, cur[z] # None, HasTimer(cur[z], w, entry)
        PROVE  entry[cur[req[w].season]].timeoutId = w
    <2>1. cur[z] \in Webhooks /\ req[cur[z]].season = z /\ entry[cur[z]] # None
      BY <1>2 DEF IInv, Shape, QueueType, MapOk
    <2>2. w # None
      BY QueueAssumption
    <2>3. req[w].season = z
      BY <1>2, <2>1, <2>2 DEF IInv, Shape, TimersOk, HasTimer
    <2> QED BY <1>2, <2>3 DEF HasTimer
  <1> QED BY <1>1, <1>2 DEF Held, HasTimer

-----------------------------------------------------------------------------
LEMMA Invariance == Spec => []IInv
PROOF
  <1>1. Init => IInv
    BY InitIInv
  <1>2. IInv /\ [Next]_vars => IInv'
    BY StepIInv
  <1> QED BY <1>1, <1>2, PTL DEF Spec

\* Every variable of the queue keeps its type.
THEOREM TypeCorrect == Spec => []TypeOK
BY Invariance, IInvImpliesTypeOK, PTL

\* A season entry in the map always has an armed timer of its own or a
\* processor sending it, however handlers, timers and sends interleave and
\* whichever calls fail (createQueueTimeout, clearSeasonTimeout,
\* cleanupSeasonQueue).
THEOREM NeverStranded == Spec => []NoStrandedSeason
BY Invariance, IInvImpliesNoStranded, PTL

\* At most one call of processQueuedWebhooks ever sends an entry
\* (notifiedSeasons in shouldProcessSeason).
THEOREM SentByOne == Spec => []OneSendPerBatch
BY Invariance, IInvImpliesOneSend, PTL

\* A season entry that left the map without any overlap had all its episodes
\* announced, stored as pending or given up after an error of its own dispatch
\* (processQueuedWebhooks, notifyOrQueueShow).
THEOREM QuietDispatched == Spec => []QuietBatchesDispatched
PROOF
  <1>1. Init => Quiet(cur, entry, proc, raced, covered)
    BY DEF Init, Quiet, QuietEntry
  <1>2. /\ IInv /\ Quiet(cur, entry, proc, raced, covered) /\ [Next]_vars
        => Quiet(cur, entry, proc, raced, covered)'
    BY QuietStep
  <1> QED BY <1>1, <1>2, Invariance, QuietGivesDispatched, PTL DEF Spec

\* A timer cuts short only the wait of its own entry, unless it was left behind
\* by an entry that was interfered with (clearSeasonTimeout, validateQueue,
\* cleanupSeasonQueue, createQueueTimeout).
THEOREM LeaksAreRaced == Spec => LeakedTimersWereRaced
PROOF
  <1> DEFINE L == Leaks(cur, entry, timer, raced)
             A == \A w \in Webhooks :
                    timer[w] = "armed" /\ timer'[w] = "fired" =>
                      LET c == cur[req[w].season]
                      IN  c # None /\ entry[c].timeoutId # w =>
                            \E o \in raced : entry[o].timeoutId = w
  <1>1. Init => L
    BY DEF Init, Leaks, TimerOf
  <1>2. IInv /\ L /\ [Next]_vars => L'
    BY LeaksStep
  <1>3. IInv /\ L => [A]_vars
    BY FiringIsHeld
  <1> QED BY <1>1, <1>2, <1>3, Invariance, PTL DEF Spec, LeakedTimersWereRaced

=============================================================================
