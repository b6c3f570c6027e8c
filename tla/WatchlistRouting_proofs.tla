---------------------- MODULE WatchlistRouting_proofs ----------------------
(***************************************************************************)
(* Type correctness, that the poller's cache never runs ahead of the       *)
(* database unaccounted, and that what was deferred is in one place until  *)
(* it is tried: for any users, items, drains, outages, failures and        *)
(* restarts.                                                               *)
(***************************************************************************)
EXTENDS WatchlistRouting, FiniteSetTheorems, TLAPS

SyncType == [at : {"off", "prime", "fetch", "health", "route", "baseline"},
             first : BOOLEAN, users : SUBSET Users, pairs : SUBSET Pairs]
PollType == [at : {"idle", "asked", "health", "lookup", "save", "route"},
             user : Users \cup {None}, seen : (SUBSET Items) \cup {NoBaseline},
             items : SUBSET Items, healthy : BOOLEAN]
DrainType == [at : {"idle", "health", "entry", "route"},
              todo : Seq(Entries), left : SUBSET Items]
BoundType == [outages : 0 .. MaxOutages, faults : 0 .. MaxFaults,
              restarts : 0 .. MaxRestarts]

\* TypeOK by variable, for the record each may become.
SyncOk(s) == s \in SyncType /\ (s.at = "route" => s.pairs # {})
PollOk(p) ==
    /\ p \in PollType
    /\ p.at # "idle" => p.user \in Users
    /\ p.items = {} <=> p.at \in {"idle", "asked"}
DrainOk(c) == c \in DrainType /\ (c.at = "route" => c.todo # <<>> /\ c.left # {})

DataOk ==
    /\ watched \in [Users -> SUBSET Items] /\ saved \in [Users -> SUBSET Items]
    /\ arrUp \in BOOLEAN /\ plexUp \in BOOLEAN /\ job \in BOOLEAN
    /\ routed \subseteq Pairs /\ deferred \subseteq Pairs /\ missed \subseteq Pairs
    /\ status \in {"stopped", "starting", "running"}
    /\ baseline \in [Users -> (SUBSET Items) \cup {NoBaseline}]
    /\ queue \in Seq(Entries)
    /\ bounds \in BoundType

DrainsOk ==
    /\ drain \in [Drains -> DrainType]
    /\ \A d \in Drains : DrainOk(drain[d])

LEMMA TypeParts == TypeOK <=> DataOk /\ SyncOk(sync) /\ PollOk(poll) /\ DrainsOk
BY DEF TypeOK, DataOk, SyncOk, PollOk, DrainsOk, DrainOk, SyncType, PollType, DrainType,
       BoundType

LEMMA InitType == Init => TypeOK
PROOF
  <1> SUFFICES ASSUME Init PROVE TypeOK
    OBVIOUS
  <1> USE RoutingAssumption DEF Init
  <1>1. DataOk
    <2>1. bounds \in BoundType
      BY DEF BoundType
    <2>2. baseline \in [Users -> (SUBSET Items) \cup {NoBaseline}]
      OBVIOUS
    <2>3. queue \in Seq(Entries)
      OBVIOUS
    <2> QED BY <2>1, <2>2, <2>3 DEF DataOk
  <1>2. SyncOk(sync) /\ PollOk(poll) /\ DrainsOk
    BY DEF SyncOk, PollOk, DrainsOk, DrainOk, SyncType, PollType, DrainType,
           NoSync, NoPoll, NoDrain
  <1> QED BY <1>1, <1>2, TypeParts

\* A pair of a typed user and typed items is a pair.
LEMMA OfType == ASSUME NEW u \in Users, NEW is \in SUBSET Items PROVE Of(u, is) \subseteq Pairs
BY DEF Of, Pairs

\* One drain changes.
LEMMA DrainChange ==
    ASSUME DrainsOk, NEW d \in Drains, NEW c, DrainOk(c), drain' = [drain EXCEPT ![d] = c]
    PROVE  DrainsOk'
BY DEF DrainsOk, DrainOk

\* Each action keeps the types.
LEMMA TypeStep == TypeOK /\ [Next]_vars => TypeOK'
PROOF
  <1> SUFFICES ASSUME DataOk, SyncOk(sync), PollOk(poll), DrainsOk, [Next]_vars
               PROVE  DataOk' /\ SyncOk(sync)' /\ PollOk(poll)' /\ DrainsOk'
    <2>1. DataOk' /\ SyncOk(sync)' /\ PollOk(poll)' /\ DrainsOk' => TypeOK'
      BY DEF TypeOK, DataOk, SyncOk, PollOk, DrainsOk, DrainOk, SyncType, PollType, DrainType,
             BoundType
    <2> QED BY <2>1, TypeParts
  <1> USE RoutingAssumption
  <1>0. SyncOk(NoSync) /\ PollOk(NoPoll) /\ DrainOk(NoDrain)
    <2>1. SyncOk(NoSync)
      BY DEF SyncOk, SyncType, NoSync
    <2>2. PollOk(NoPoll)
      BY DEF PollOk, PollType, NoPoll
    <2>3. DrainOk(NoDrain)
      BY DEF DrainOk, DrainType, NoDrain
    <2> QED BY <2>1, <2>2, <2>3
  <1>1. CASE UNCHANGED vars
    BY <1>1 DEF vars, env, history, DataOk, DrainsOk
  <1>2. Fault => bounds' \in BoundType
    BY DEF Fault, DataOk, BoundType
  <1>3. ASSUME NEW p \in Pairs, Route(p) \/ RouteFails
        PROVE  routed' \subseteq Pairs /\ bounds' \in BoundType
    BY <1>2, <1>3 DEF Route, RouteFails, DataOk
  <1>4. ASSUME \E u \in Users, i \in Items : Watch(u, i) PROVE DataOk' /\ SyncOk(sync)' /\ PollOk(poll)' /\ DrainsOk'
    BY <1>4 DEF Watch, history, DataOk, DrainsOk
  <1>5. CASE Outage \/ Recovery
    <2>1. Outage => bounds' \in BoundType
      BY DEF Outage, DataOk, BoundType
    <2>2. DataOk'
      BY <1>5, <2>1 DEF Outage, Recovery, history, DataOk
    <2> QED BY <1>5, <2>2 DEF Outage, Recovery, DrainsOk
  <1>6. CASE Restart
    <2>1. bounds' \in BoundType
      BY <1>6 DEF Restart, DataOk, BoundType
    <2>2. /\ baseline' \in [Users -> (SUBSET Items) \cup {NoBaseline}]
          /\ queue' \in Seq(Entries)
      BY <1>6 DEF Restart
    <2>3. DataOk'
      BY <1>6, <2>1, <2>2 DEF Restart, env, DataOk
    <2> QED BY <1>0, <1>6, <2>3 DEF Restart, DrainsOk, DrainOk
  <1>7. CASE Start
    <2>1. DataOk'
      BY <1>7 DEF Start, env, history, DataOk
    <2>2. SyncOk(sync)'
      BY <1>7 DEF Start, SyncOk, SyncType, NoSync
    <2> QED BY <1>7, <2>1, <2>2 DEF Start, DrainsOk
  <1>8. CASE JobTick
    BY <1>8 DEF JobTick, env, history, DataOk, DrainsOk, SyncOk, SyncType, NoSync
  <1>9. CASE SyncStep
    <2>1. ASSUME NEW u \in Users, TakeBaseline(u)
          PROVE  /\ baseline' \in [Users -> (SUBSET Items) \cup {NoBaseline}]
                 /\ missed' \subseteq Pairs /\ bounds' \in BoundType
      BY <1>2, <2>1 DEF TakeBaseline, DataOk, Of, Pairs
    <2>2. ASSUME NEW u \in Users, NEW at \in {"fetch", "health", "baseline"},
                 sync' = Visited(u, at)
          PROVE  SyncOk(sync)'
      BY <2>2 DEF Visited, SyncOk, SyncType
    <2>3. ASSUME NEW u \in Users, Prime(u) PROVE DataOk' /\ SyncOk(sync)'
      BY <2>1, <2>2, <2>3 DEF Prime, env, DataOk
    <2>4. ASSUME NEW u \in Users, Fetch(u) PROVE DataOk' /\ SyncOk(sync)'
      BY <1>2, <2>2, <2>4 DEF Fetch, env, DataOk
    <2>5. ASSUME NEW u \in Users, Rebase(u) PROVE DataOk' /\ SyncOk(sync)'
      <3>1. DataOk'
        BY <2>1, <2>5 DEF Rebase, env, DataOk
      <3>2. SyncOk(sync)'
        BY <1>0, <2>5 DEF Rebase, SyncOk, SyncType
      <3> QED BY <3>1, <3>2
    <2>6. ASSUME SyncHealth PROVE DataOk' /\ SyncOk(sync)'
      <3>1. DataOk'
        BY <2>6 DEF SyncHealth, env, history, DataOk
      <3>2. SyncOk(sync)'
        BY <2>6 DEF SyncHealth, Unrouted, SyncOk, SyncType
      <3> QED BY <3>1, <3>2
    <2>7. ASSUME NEW p \in Pairs, SyncRoute(p) PROVE DataOk' /\ SyncOk(sync)'
      <3>1. DataOk'
        BY <1>3, <2>7 DEF SyncRoute, env, history, DataOk
      <3>2. SyncOk(sync)'
        BY <2>7 DEF SyncRoute, SyncOk, SyncType
      <3> QED BY <3>1, <3>2
    <2>8. poll' = poll /\ drain' = drain
      BY <1>9 DEF SyncStep, Prime, Fetch, Rebase, SyncHealth, SyncRoute
    <2> QED BY <1>9, <2>3, <2>4, <2>5, <2>6, <2>7, <2>8 DEF SyncStep, DrainsOk
  <1>10. CASE SyncFails
    BY <1>0, <1>2, <1>10 DEF SyncFails, env, history, DataOk, DrainsOk
  <1>11. ASSUME NEW u \in Users, PollStart(u)
         PROVE  DataOk' /\ SyncOk(sync)' /\ PollOk(poll)' /\ DrainsOk'
    BY <1>11 DEF PollStart, env, history, DataOk, DrainsOk, PollOk, PollType, NoPoll
  <1>12. CASE PollStep
    <2>1. poll.at # "idle" /\ poll.user \in Users
      BY <1>12 DEF PollStep, PollAnswer, PollHealth, PollLookup, PollSave, PollRoute, PollOk
    <2>2. CASE PollAnswer
      <3>1. DataOk'
        BY <2>1, <2>2 DEF PollAnswer, env, DataOk, Of, Pairs
      <3>2. PollOk(poll)'
        BY <1>0, <2>1, <2>2 DEF PollAnswer, PollOk, PollType, DataOk
      <3> QED BY <2>2, <3>1, <3>2 DEF PollAnswer, DrainsOk
    <2>3. CASE PollHealth
      BY <2>1, <2>3 DEF PollHealth, env, history, DataOk, DrainsOk, PollOk, PollType
    <2>4. CASE PollLookup
      <3>1. PollOk(poll)'
        BY <1>0, <2>1, <2>4 DEF PollLookup, PollOk, PollType
      <3> QED BY <2>4, <3>1 DEF PollLookup, env, history, DataOk, DrainsOk
    <2>5. CASE PollSave
      <3> DEFINE entry == [user |-> poll.user, items |-> poll.items]
      <3>1. entry \in Entries
        BY <2>1, <2>5 DEF PollSave, PollOk, PollType, Entries
      <3>2. Append(queue, entry) \in Seq(Entries)
        BY <3>1 DEF DataOk
      <3>3. Of(poll.user, poll.items) \subseteq Pairs
        BY <2>1, OfType DEF PollOk, PollType
      <3>4. saved' \in [Users -> SUBSET Items]
        BY <2>1, <2>5 DEF PollSave, DataOk, PollOk, PollType
      <3>5. DataOk'
        BY <2>5, <3>2, <3>3, <3>4 DEF PollSave, env, DataOk
      <3>6. PollOk(poll)'
        BY <1>0, <2>1, <2>5 DEF PollSave, PollOk, PollType
      <3> QED BY <2>5, <3>5, <3>6 DEF PollSave, DrainsOk
    <2>6. ASSUME NEW i \in Items, PollRoute(i)
          PROVE  DataOk' /\ SyncOk(sync)' /\ PollOk(poll)' /\ DrainsOk'
      <3>1. <<poll.user, i>> \in Pairs
        BY <2>1 DEF Pairs
      <3>2. DataOk'
        BY <1>3, <2>6, <3>1 DEF PollRoute, env, history, DataOk
      <3>3. PollOk(poll)'
        BY <1>0, <2>1, <2>6 DEF PollRoute, PollOk, PollType
      <3> QED BY <2>6, <3>2, <3>3 DEF PollRoute, DrainsOk
    <2> QED BY <1>12, <2>2, <2>3, <2>4, <2>5, <2>6 DEF PollStep
  <1>13. CASE PollFails
    <2>1. poll.user \in Users /\ Of(poll.user, poll.items \ saved[poll.user]) \subseteq Pairs
      BY <1>13, OfType DEF PollFails, PollOk, PollType
    <2> QED BY <1>0, <1>2, <1>13, <2>1 DEF PollFails, env, DataOk, DrainsOk
  <1>14. ASSUME NEW d \in Drains, DrainTick(d)
         PROVE  DataOk' /\ SyncOk(sync)' /\ PollOk(poll)' /\ DrainsOk'
    <2>1. DrainOk([drain[d] EXCEPT !.at = "health"])
      BY DEF DrainsOk, DrainOk, DrainType
    <2>2. DrainsOk'
      BY <1>14, <2>1, DrainChange DEF DrainTick
    <2> QED BY <1>14, <2>2 DEF DrainTick, env, history, DataOk
  <1>15. ASSUME NEW d \in Drains, DrainStep(d)
         PROVE  DataOk' /\ SyncOk(sync)' /\ PollOk(poll)' /\ DrainsOk'
    <2>0. DrainOk(drain[d])
      BY DEF DrainsOk
    <2>1. CASE DrainHealth(d)
      <3>1. DrainOk([drain[d] EXCEPT !.at = "entry", !.todo = queue])
        BY <2>0 DEF DrainOk, DrainType, DataOk
      <3>2. \/ drain' = [drain EXCEPT ![d] = [drain[d] EXCEPT !.at = "entry", !.todo = queue]]
            \/ drain' = [drain EXCEPT ![d] = NoDrain]
        BY <2>1 DEF DrainHealth, DrainsOk, DrainType
      <3>3. DrainsOk'
        BY <1>0, <3>1, <3>2, DrainChange
      <3>4. queue' \in Seq(Entries)
        <4>1. <<>> \in Seq(Entries)
          OBVIOUS
        <4> QED BY <2>1, <4>1 DEF DrainHealth, DataOk
      <3> QED BY <2>1, <3>3, <3>4 DEF DrainHealth, env, history, DataOk
    <2>2. CASE DrainEntry(d)
      <3>1. /\ Head(drain[d].todo) \in Entries
            /\ Tail(drain[d].todo) \in Seq(Entries)
        BY <2>0, <2>2 DEF DrainEntry, DrainOk, DrainType
      <3>2. DrainOk([drain[d] EXCEPT !.todo = Tail(@)])
        BY <2>0, <2>2, <3>1 DEF DrainEntry, DrainOk, DrainType
      <3>3. DrainOk([drain[d] EXCEPT !.at = "route", !.left = Head(drain[d].todo).items])
        BY <2>0, <2>2, <3>1 DEF DrainEntry, DrainOk, DrainType, Entries
      <3>4. \/ drain' = [drain EXCEPT ![d] = [drain[d] EXCEPT !.todo = Tail(@)]]
            \/ drain' = [drain EXCEPT ![d] =
                           [drain[d] EXCEPT !.at = "route", !.left = Head(drain[d].todo).items]]
        BY <2>2 DEF DrainEntry, DrainsOk, DrainType
      <3>5. DrainsOk'
        BY <3>2, <3>3, <3>4, DrainChange
      <3>6. Append(queue, Head(drain[d].todo)) \in Seq(Entries)
        BY <3>1 DEF DataOk
      <3>7. queue' \in Seq(Entries) /\ bounds' \in BoundType
        BY <1>2, <2>2, <3>6 DEF DrainEntry, DataOk
      <3> QED BY <2>2, <3>5, <3>7 DEF DrainEntry, env, history, DataOk
    <2>3. CASE DrainEnd(d)
      <3>1. DrainsOk'
        BY <1>0, <2>3, DrainChange DEF DrainEnd
      <3> QED BY <2>3, <3>1 DEF DrainEnd, env, history, DataOk
    <2>4. ASSUME NEW i \in Items, DrainRoute(d, i)
          PROVE  DataOk' /\ SyncOk(sync)' /\ PollOk(poll)' /\ DrainsOk'
      <3>1. /\ Head(drain[d].todo) \in Entries
            /\ Tail(drain[d].todo) \in Seq(Entries)
        BY <2>0, <2>4 DEF DrainRoute, DrainOk, DrainType
      <3>2. <<Head(drain[d].todo).user, i>> \in Pairs
        BY <3>1 DEF Entries, Pairs
      <3>3. routed' \subseteq Pairs /\ deferred' \subseteq Pairs /\ bounds' \in BoundType
        BY <1>3, <2>4, <3>2 DEF DrainRoute, Try, DataOk
      <3>4. DataOk'
        BY <2>4, <3>3 DEF DrainRoute, env, DataOk
      <3>5. \A left \in SUBSET Items : left # {} =>
               /\ DrainOk([at |-> "entry", todo |-> Tail(drain[d].todo), left |-> {}])
               /\ DrainOk([at |-> "route", todo |-> drain[d].todo, left |-> left])
        BY <2>0, <2>4, <3>1 DEF DrainRoute, DrainOk, DrainType
      <3>6. drain[d].left \ {i} \in SUBSET Items
        BY <2>0 DEF DrainOk, DrainType
      <3>7. \E c : DrainOk(c) /\ drain' = [drain EXCEPT ![d] = c]
        BY <2>0, <2>4, <3>1, <3>5, <3>6 DEF DrainRoute, DrainOk, DrainType
      <3>8. DrainsOk'
        BY <3>7, DrainChange
      <3> QED BY <2>4, <3>4, <3>8 DEF DrainRoute
    <2> QED BY <1>15, <2>1, <2>2, <2>3, <2>4 DEF DrainStep
  <1> QED
    BY <1>1, <1>4, <1>5, <1>6, <1>7, <1>8, <1>9, <1>10, <1>11, <1>12, <1>13, <1>14, <1>15
    DEF Next

\* Every variable keeps its type, and the parts of each record agree, for any
\* number of users, items, overlapping drains, outages, failures and restarts.
THEOREM RoutingTypeCorrect == Spec => []TypeOK
PROOF
  <1>1. Init => TypeOK
    BY InitType
  <1>2. TypeOK /\ [Next]_vars => TypeOK'
    BY TypeStep
  <1> QED BY <1>1, <1>2, PTL DEF Spec

-----------------------------------------------------------------------------
\* What the poller compares its answer with was accounted for when it asked,
\* and what it routes has its rows.
AskedIsSaved ==
    poll.at = "asked" /\ poll.seen # NoBaseline =>
        \A i \in poll.seen \ saved[poll.user] : <<poll.user, i>> \in missed
RoutedIsSaved == poll.at = "route" => poll.items \subseteq saved[poll.user]

SeenInv == SeenIsSaved /\ AskedIsSaved /\ RoutedIsSaved

\* A new baseline with the unsaved items put down as missed, or none.
LEMMA TakenIsSaved ==
    ASSUME TypeOK, SeenInv, NEW u \in Users, TakeBaseline(u), saved' = saved, poll' = poll
    PROVE  SeenInv'
PROOF
  <1> USE DEF SeenInv
  <1>1. CASE UNCHANGED <<baseline, missed>>
    BY <1>1 DEF SeenIsSaved, AskedIsSaved, RoutedIsSaved
  <1>2. CASE /\ baseline' = [baseline EXCEPT ![u] = watched[u]]
             /\ missed' = missed \cup Of(u, watched[u] \ saved[u])
    <2>1. SeenIsSaved'
      BY <1>2 DEF SeenIsSaved, TypeOK, Of
    <2> QED BY <1>2, <2>1 DEF AskedIsSaved, RoutedIsSaved
  <1> QED BY <1>1, <1>2 DEF TakeBaseline

LEMMA SeenStep == TypeOK /\ SeenInv /\ [Next]_vars => SeenInv'
PROOF
  <1> SUFFICES ASSUME TypeOK, SeenInv, [Next]_vars PROVE SeenInv'
    OBVIOUS
  <1> USE DEF SeenInv
  <1>1. ASSUME UNCHANGED <<baseline, saved, missed, poll>> PROVE SeenInv'
    BY <1>1 DEF SeenIsSaved, AskedIsSaved, RoutedIsSaved
  <1>2. CASE UNCHANGED vars
    BY <1>1, <1>2 DEF vars, history
  <1>3. CASE \/ \E u \in Users, i \in Items : Watch(u, i)
             \/ Outage \/ Recovery \/ Start \/ JobTick \/ SyncFails
             \/ SyncHealth \/ \E p \in Pairs : SyncRoute(p)
             \/ \E d \in Drains : DrainTick(d) \/ DrainStep(d)
    BY <1>1, <1>3 DEF Watch, Outage, Recovery, Start, JobTick, SyncFails, SyncHealth, SyncRoute,
           DrainTick, DrainStep, DrainHealth, DrainEntry, DrainEnd, DrainRoute, history
  <1>4. CASE Restart
    BY <1>4 DEF Restart, NoPoll, SeenIsSaved, AskedIsSaved, RoutedIsSaved
  <1>5. ASSUME NEW u \in Users, Prime(u) \/ Rebase(u) PROVE SeenInv'
    BY <1>5, TakenIsSaved DEF Prime, Rebase
  <1>6. ASSUME NEW u \in Users, Fetch(u) PROVE SeenInv'
    <2>1. \/ /\ saved' = [saved EXCEPT ![u] = @ \cup watched[u]]
             /\ missed' = missed \ Of(u, watched[u])
          \/ UNCHANGED <<saved, missed>>
      BY <1>6 DEF Fetch
    <2>2. baseline' = baseline /\ poll' = poll
      BY <1>6 DEF Fetch
    <2>3. poll.at # "idle" => poll.user \in Users
      BY DEF TypeOK
    <2>4. \A v \in Users : /\ saved[v] \subseteq saved'[v]
                          /\ \A i : <<v, i>> \in missed => <<v, i>> \in missed' \/ i \in saved'[v]
      BY <2>1 DEF TypeOK, Of
    <2> QED BY <2>2, <2>3, <2>4 DEF SeenIsSaved, AskedIsSaved, RoutedIsSaved
  <1>7. ASSUME NEW u \in Users, PollStart(u) PROVE SeenInv'
    <2>1. poll.items = {}
      BY <1>7 DEF PollStart, TypeOK
    <2>2. /\ UNCHANGED <<baseline, saved, missed>>
          /\ poll' = [NoPoll EXCEPT !.at = "asked", !.user = u, !.seen = baseline[u]]
      BY <1>7 DEF PollStart, history
    <2>3. SeenIsSaved' /\ AskedIsSaved'
      BY <2>1, <2>2 DEF SeenIsSaved, AskedIsSaved, NoPoll
    <2> QED BY <2>2, <2>3 DEF RoutedIsSaved, NoPoll
  <1>8. CASE PollAnswer
    <2> DEFINE u == poll.user
               new == IF poll.seen = NoBaseline THEN {} ELSE watched[u] \ poll.seen
    <2>1. /\ poll.at = "asked" /\ u \in Users /\ poll.items = {} /\ saved' = saved
          /\ baseline' = [baseline EXCEPT ![u] = watched[u]]
          /\ missed' = IF poll.seen = NoBaseline THEN missed \cup Of(u, watched[u] \ saved[u])
                       ELSE missed
          /\ poll' = IF new = {} THEN NoPoll ELSE [poll EXCEPT !.at = "health", !.items = new]
      BY <1>8 DEF PollAnswer, TypeOK
    <2>2. ASSUME NEW v \in Users, v # u, baseline[v] # NoBaseline, NEW i \in baseline[v] \ saved[v]
          PROVE  <<v, i>> \in missed'
      BY <2>1, <2>2 DEF SeenIsSaved
    <2>3. ASSUME NEW i \in watched[u] \ saved[u] PROVE <<u, i>> \in missed' \/ i \in new
      BY <2>1, <2>3 DEF AskedIsSaved, Of
    <2>4. poll'.items = new /\ (new # {} => poll'.user = u) /\ poll'.at \in {"idle", "health"}
      BY <2>1 DEF NoPoll, TypeOK
    <2>5. SeenIsSaved'
      BY <2>1, <2>2, <2>3, <2>4 DEF SeenIsSaved, TypeOK
    <2> QED BY <2>4, <2>5 DEF AskedIsSaved, RoutedIsSaved
  <1>9. CASE PollHealth
    BY <1>9 DEF PollHealth, history, TypeOK, SeenIsSaved, AskedIsSaved, RoutedIsSaved
  <1>10. CASE PollLookup
    BY <1>10 DEF PollLookup, NoPoll, history, TypeOK, SeenIsSaved, AskedIsSaved, RoutedIsSaved
  <1>11. CASE PollSave
    <2>1. /\ poll.user \in Users /\ baseline' = baseline
          /\ saved' = [saved EXCEPT ![poll.user] = @ \cup poll.items]
          /\ missed' = missed \ Of(poll.user, poll.items)
          /\ poll' = NoPoll \/ poll' = [poll EXCEPT !.at = "route"]
      BY <1>11 DEF PollSave, TypeOK
    <2>2. SeenIsSaved'
      BY <2>1 DEF SeenIsSaved, TypeOK, Of
    <2>3. poll'.at = "idle" \/ (poll'.at = "route" /\ poll'.user = poll.user
                                  /\ poll'.items = poll.items)
      BY <2>1 DEF NoPoll, TypeOK
    <2>4. poll.items \subseteq saved'[poll.user]
      BY <2>1 DEF TypeOK
    <2>5. AskedIsSaved'
      BY <2>3 DEF AskedIsSaved
    <2>6. RoutedIsSaved'
      BY <2>3, <2>4 DEF RoutedIsSaved
    <2> QED BY <2>2, <2>5, <2>6
  <1>12. ASSUME NEW i \in Items, PollRoute(i) PROVE SeenInv'
    <2>1. /\ poll.at = "route" /\ UNCHANGED <<baseline, saved, missed>>
          /\ poll' = NoPoll \/ poll' = [poll EXCEPT !.items = @ \ {i}]
      BY <1>12 DEF PollRoute, history
    <2>2. \/ poll'.at = "idle"
          \/ poll'.at = "route" /\ poll'.user = poll.user /\ poll'.items \subseteq poll.items
      BY <2>1 DEF NoPoll, TypeOK
    <2>3. poll.user \in Users /\ poll.items \subseteq saved[poll.user]
      BY <2>1 DEF RoutedIsSaved, TypeOK
    <2>4. SeenIsSaved'
      BY <2>1, <2>3 DEF SeenIsSaved
    <2>5. AskedIsSaved' /\ RoutedIsSaved'
      BY <2>1, <2>2, <2>3 DEF AskedIsSaved, RoutedIsSaved
    <2> QED BY <2>4, <2>5
  <1>13. CASE PollFails
    BY <1>13 DEF PollFails, NoPoll, TypeOK, Of, SeenIsSaved, AskedIsSaved, RoutedIsSaved
  <1> QED
    BY <1>2, <1>3, <1>4, <1>5, <1>6, <1>7, <1>8, <1>9, <1>10, <1>11, <1>12, <1>13
    DEF Next, SyncStep, PollStep

\* The poller's cache is ahead of the database only by what its check has in
\* hand, by what failed, or by what a reconciliation took into a new baseline:
\* whatever outage, fetch or reconciliation comes between its awaits.
THEOREM SeenAreSaved == Spec => []SeenIsSaved
PROOF
  <1>1. Init => SeenInv
    BY DEF Init, SeenInv, SeenIsSaved, AskedIsSaved, RoutedIsSaved, NoPoll
  <1>2. TypeOK /\ SeenInv /\ [Next]_vars => SeenInv'
    BY SeenStep
  <1>3. SeenInv => SeenIsSaved
    BY DEF SeenInv
  <1> QED BY <1>1, <1>2, <1>3, RoutingTypeCorrect, PTL DEF Spec

-----------------------------------------------------------------------------
\* The deferred routing queue.  A pair is in the n-th entry of the queue, or of
\* what a drain took from it and has not visited yet.

InQueue(p, n, q) == n \in DOMAIN q /\ p[1] = q[n].user /\ p[2] \in q[n].items

InDrain(p, n, c) ==
    /\ n \in DOMAIN c.todo /\ p[1] = c.todo[n].user
    /\ p[2] \in IF n = 1 /\ c.at = "route" THEN c.left ELSE c.todo[n].items

Somewhere(p, q, dr) ==
    \/ \E n : InQueue(p, n, q)
    \/ \E d \in Drains : \E n : InDrain(p, n, dr[d])

OnePlace(p, q, dr) ==
    /\ \A m, n : InQueue(p, m, q) /\ InQueue(p, n, q) => m = n
    /\ \A d, e \in Drains : \A m, n :
         InDrain(p, m, dr[d]) /\ InDrain(p, n, dr[e]) => d = e /\ m = n
    /\ \A d \in Drains : \A m, n : ~(InQueue(p, m, q) /\ InDrain(p, n, dr[d]))

Once(q, dr, def) ==
    \A p \in Pairs : /\ OnePlace(p, q, dr)
                     /\ p \in def <=> Somewhere(p, q, dr)

\* The workflow polls and drains only while it runs.
Calm ==
    /\ status # "running" => /\ poll.at = "idle" /\ queue = <<>>
                             /\ \A d \in Drains : drain[d] = NoDrain
    /\ sync.first => status = "starting"

\* A drain has no entries before it took them.
TodoEmpty == \A d \in Drains : drain[d].at \in {"idle", "health"} => drain[d].todo = <<>>

\* What the poller defers has its rows; what it is about to save has none.
DeferredSaved == \A p \in deferred : p[2] \in saved[p[1]]
NewNotDeferred ==
    poll.at = "save" => \A i \in poll.items : <<poll.user, i>> \notin deferred

DeferInv ==
    /\ Calm /\ TodoEmpty /\ DeferredSaved /\ NewNotDeferred
    /\ Once(queue, drain, deferred)

LEMMA DeferInvGivesOnce ==
    ASSUME DeferInv PROVE DeferredOnce
PROOF
  <1> SUFFICES ASSUME NEW p \in Pairs
               PROVE  Cardinality(Places(p)) = (IF p \in deferred THEN 1 ELSE 0)
    BY DEF DeferredOnce
  <1>1. /\ OnePlace(p, queue, drain)
        /\ p \in deferred <=> Somewhere(p, queue, drain)
    BY DEF DeferInv, Once
  <1>2. \A x : x \in Places(p) <=>
            \/ \E n : InQueue(p, n, queue) /\ x = <<"queue", n>>
            \/ \E d \in Drains : \E n : InDrain(p, n, drain[d]) /\ x = <<d, n>>
    BY DEF Places, InQueue, InDrain
  <1>3. CASE p \notin deferred
    <2>1. Places(p) = {}
      BY <1>1, <1>2, <1>3 DEF Somewhere
    <2> QED BY <1>3, <2>1, FS_EmptySet
  <1>4. CASE p \in deferred
    <2>1. \E x : Places(p) = {x}
      <3>1. CASE \E n : InQueue(p, n, queue)
        <4>1. PICK n : InQueue(p, n, queue)
          BY <3>1
        <4>2. Places(p) = {<<"queue", n>>}
          BY <1>1, <1>2, <4>1 DEF OnePlace
        <4> QED BY <4>2
      <3>2. ASSUME NEW d \in Drains, NEW n, InDrain(p, n, drain[d])
            PROVE  \E x : Places(p) = {x}
        <4>1. Places(p) = {<<d, n>>}
          BY <1>1, <1>2, <3>2 DEF OnePlace
        <4> QED BY <4>1
      <3> QED BY <1>1, <1>4, <3>1, <3>2 DEF Somewhere
    <2> QED BY <1>4, <2>1, FS_Singleton
  <1> QED BY <1>3, <1>4

\* A pair that is only where it was is in one place still.
LEMMA FewerPlaces ==
    ASSUME NEW p, NEW q, NEW dr, NEW dx, OnePlace(p, q, dr),
           \A d \in Drains : \A n : InDrain(p, n, dx[d]) => InDrain(p, n, dr[d])
    PROVE  OnePlace(p, q, dx)
PROOF
  <1>1. \A m, n : InQueue(p, m, q) /\ InQueue(p, n, q) => m = n
    BY DEF OnePlace
  <1>2. ASSUME NEW d \in Drains, NEW e \in Drains, NEW m, NEW n,
               InDrain(p, m, dx[d]), InDrain(p, n, dx[e])
        PROVE  d = e /\ m = n
    <2>1. InDrain(p, m, dr[d]) /\ InDrain(p, n, dr[e])
      BY <1>2
    <2> QED BY <2>1 DEF OnePlace
  <1>3. ASSUME NEW d \in Drains, NEW m, NEW n, InQueue(p, m, q), InDrain(p, n, dx[d])
        PROVE  FALSE
    <2>1. InDrain(p, n, dr[d])
      BY <1>3
    <2> QED BY <1>3, <2>1 DEF OnePlace
  <1> QED BY <1>1, <1>2, <1>3 DEF OnePlace

\* The entries stay where they are.
LEMMA SameOnce ==
    ASSUME NEW q, NEW dr, NEW dx, NEW def, Once(q, dr, def),
           \A d \in Drains : \A p, n : InDrain(p, n, dx[d]) <=> InDrain(p, n, dr[d])
    PROVE  Once(q, dx, def)
PROOF
  <1> SUFFICES ASSUME NEW p \in Pairs
               PROVE  OnePlace(p, q, dx) /\ (p \in def <=> Somewhere(p, q, dx))
    BY DEF Once
  <1>1. OnePlace(p, q, dr) /\ (p \in def <=> Somewhere(p, q, dr))
    BY DEF Once
  <1>2. \A d \in Drains : \A n : InDrain(p, n, dx[d]) <=> InDrain(p, n, dr[d])
    OBVIOUS
  <1>3. OnePlace(p, q, dx)
    BY <1>1, <1>2, FewerPlaces
  <1>4. Somewhere(p, q, dx) <=> Somewhere(p, q, dr)
    BY <1>2 DEF Somewhere
  <1> QED BY <1>1, <1>3, <1>4

\* An entry is appended.
LEMMA AppendedPlaces ==
    ASSUME NEW q \in Seq(Entries), NEW e \in Entries, NEW p, NEW n
    PROVE  /\ InQueue(p, n, Append(q, e)) <=>
                 InQueue(p, n, q) \/ (n = Len(q) + 1 /\ p[1] = e.user /\ p[2] \in e.items)
           /\ ~InQueue(p, Len(q) + 1, q)
BY DEF InQueue

\* The first entry of a drain goes, and the others move up.
LEMMA TailPlaces ==
    ASSUME NEW c, NEW x, c.todo \in Seq(Entries), c.todo # <<>>, x.todo = Tail(c.todo),
           x.at # "route", NEW p, NEW n
    PROVE  InDrain(p, n, x) <=> n \in 1 .. (Len(c.todo) - 1) /\ InDrain(p, n + 1, c)
BY DEF InDrain

\* The poller defers pairs that were nowhere.
LEMMA AppendOnce ==
    ASSUME NEW q \in Seq(Entries), NEW e \in Entries, NEW dr, NEW def,
           Once(q, dr, def), \A i \in e.items : <<e.user, i>> \notin def
    PROVE  Once(Append(q, e), dr, def \cup Of(e.user, e.items))
PROOF
  <1> DEFINE qx == Append(q, e)
             dx == def \cup Of(e.user, e.items)
  <1> SUFFICES ASSUME NEW p \in Pairs
               PROVE  OnePlace(p, qx, dr) /\ (p \in dx <=> Somewhere(p, qx, dr))
    BY DEF Once
  <1>1. OnePlace(p, q, dr) /\ (p \in def <=> Somewhere(p, q, dr))
    BY DEF Once
  <1>2. p = <<p[1], p[2]>>
    BY DEF Pairs
  <1>3. p \in Of(e.user, e.items) <=> p[1] = e.user /\ p[2] \in e.items
    BY <1>2 DEF Of
  <1>4. \A n : InQueue(p, n, qx) <=>
                 InQueue(p, n, q) \/ (n = Len(q) + 1 /\ p \in Of(e.user, e.items))
    BY <1>3, AppendedPlaces
  <1>5. p \in Of(e.user, e.items) => ~Somewhere(p, q, dr)
    BY <1>1, <1>2, <1>3
  <1> HIDE DEF qx, dx
  <1>6. Somewhere(p, qx, dr) <=> Somewhere(p, q, dr) \/ p \in Of(e.user, e.items)
    BY <1>4 DEF Somewhere
  <1>7. OnePlace(p, qx, dr)
    <2>1. ~InQueue(p, Len(q) + 1, q)
      BY AppendedPlaces
    <2>2. CASE p \in Of(e.user, e.items)
      <3>1. \A n : InQueue(p, n, qx) <=> n = Len(q) + 1
        BY <1>4, <1>5, <2>2 DEF Somewhere
      <3>2. \A d \in Drains : \A n : ~InDrain(p, n, dr[d])
        BY <1>5, <2>2 DEF Somewhere
      <3>3. \A m, n : InQueue(p, m, qx) /\ InQueue(p, n, qx) => m = n
        BY <3>1
      <3>4. /\ \A a, b \in Drains : \A m, n :
                 InDrain(p, m, dr[a]) /\ InDrain(p, n, dr[b]) => a = b /\ m = n
            /\ \A a \in Drains : \A m, n : ~(InQueue(p, m, qx) /\ InDrain(p, n, dr[a]))
        BY <3>2
      <3> QED BY <3>3, <3>4 DEF OnePlace
    <2>3. CASE p \notin Of(e.user, e.items)
      <3>1. \A n : InQueue(p, n, qx) <=> InQueue(p, n, q)
        BY <1>4, <2>3
      <3> QED BY <1>1, <3>1 DEF OnePlace
    <2> QED BY <2>2, <2>3
  <1> QED BY <1>1, <1>6, <1>7 DEF dx

\* A drain takes the whole queue.
LEMMA TakeOnce ==
    ASSUME NEW q, NEW dr, NEW def, NEW d \in Drains, NEW dx,
           Once(q, dr, def), dr[d].todo = <<>>,
           \A e \in Drains \ {d} : dx[e] = dr[e],
           dx[d].todo = q, dx[d].at # "route"
    PROVE  Once(<<>>, dx, def)
PROOF
  <1>1. \A p, n : InDrain(p, n, dx[d]) <=> InQueue(p, n, q)
    BY DEF InDrain, InQueue
  <1>2. \A p, n : ~InQueue(p, n, <<>>) /\ ~InDrain(p, n, dr[d])
    BY DEF InDrain, InQueue
  <1>3. \A e \in Drains : e # d => \A p, n : InDrain(p, n, dx[e]) <=> InDrain(p, n, dr[e])
    OBVIOUS
  <1> SUFFICES ASSUME NEW p \in Pairs
               PROVE  OnePlace(p, <<>>, dx) /\ (p \in def <=> Somewhere(p, <<>>, dx))
    BY DEF Once
  <1>4. OnePlace(p, q, dr) /\ (p \in def <=> Somewhere(p, q, dr))
    BY DEF Once
  <1>5. Somewhere(p, <<>>, dx) <=> Somewhere(p, q, dr)
    BY <1>1, <1>2, <1>3 DEF Somewhere
  <1>6. \A a, b \in Drains : \A m, n :
            InDrain(p, m, dx[a]) /\ InDrain(p, n, dx[b]) => a = b /\ m = n
    <2> SUFFICES ASSUME NEW a \in Drains, NEW b \in Drains, NEW m, NEW n,
                        InDrain(p, m, dx[a]), InDrain(p, n, dx[b])
                 PROVE  a = b /\ m = n
      OBVIOUS
    <2>1. CASE a = d /\ b = d
      BY <1>1, <1>4, <2>1 DEF OnePlace
    <2>2. CASE a # d /\ b # d
      BY <1>3, <1>4, <2>2 DEF OnePlace
    <2>3. CASE a = d /\ b # d
      BY <1>1, <1>3, <1>4, <2>3 DEF OnePlace
    <2>4. CASE a # d /\ b = d
      BY <1>1, <1>3, <1>4, <2>4 DEF OnePlace
    <2> QED BY <2>1, <2>2, <2>3, <2>4
  <1>7. OnePlace(p, <<>>, dx)
    BY <1>2, <1>6 DEF OnePlace
  <1> QED BY <1>4, <1>5, <1>7

\* A drain hands its first entry back.
LEMMA HandBackOnce ==
    ASSUME NEW q \in Seq(Entries), NEW dr, NEW def, NEW d \in Drains, NEW dx,
           Once(q, dr, def), dr[d].todo \in Seq(Entries), dr[d].todo # <<>>,
           dr[d].at # "route",
           \A e \in Drains \ {d} : dx[e] = dr[e],
           dx[d].todo = Tail(dr[d].todo), dx[d].at # "route"
    PROVE  Once(Append(q, Head(dr[d].todo)), dx, def)
PROOF
  <1> DEFINE h == Head(dr[d].todo)
             qx == Append(q, h)
             len == Len(dr[d].todo)
  <1> SUFFICES ASSUME NEW p \in Pairs
               PROVE  OnePlace(p, qx, dx) /\ (p \in def <=> Somewhere(p, qx, dx))
    BY DEF Once
  <1>1. OnePlace(p, q, dr) /\ (p \in def <=> Somewhere(p, q, dr))
    BY DEF Once
  <1>2. h \in Entries /\ len \in Nat \ {0}
    OBVIOUS
  <1>3. InDrain(p, 1, dr[d]) <=> p[1] = h.user /\ p[2] \in h.items
    BY DEF InDrain
  <1>4. \A n : InQueue(p, n, qx) <=>
                 InQueue(p, n, q) \/ (n = Len(q) + 1 /\ InDrain(p, 1, dr[d]))
    BY <1>2, <1>3, AppendedPlaces
  <1>5. ~InQueue(p, Len(q) + 1, q)
    BY <1>2, AppendedPlaces
  <1>6. \A n : InDrain(p, n, dx[d]) <=> n \in 1 .. (len - 1) /\ InDrain(p, n + 1, dr[d])
    BY TailPlaces
  <1>7. \A n : InDrain(p, n, dr[d]) => n \in 1 .. len
    BY DEF InDrain
  <1>8. \A e \in Drains : e # d => \A n : InDrain(p, n, dx[e]) <=> InDrain(p, n, dr[e])
    OBVIOUS
  <1>9. \A n : InDrain(p, n, dr[d]) =>
                 \/ n = 1
                 \/ n - 1 \in 1 .. (len - 1) /\ (n - 1) + 1 = n
    BY <1>2, <1>7
  <1> HIDE DEF qx, h, len
  <1>10. OnePlace(p, qx, dx)
    <2>1. \A m, n : InQueue(p, m, qx) /\ InQueue(p, n, qx) => m = n
      <3>1. \A m, n : InQueue(p, m, q) /\ InQueue(p, n, q) => m = n
        BY <1>1 DEF OnePlace
      <3>2. \A m : ~(InQueue(p, m, q) /\ InDrain(p, 1, dr[d]))
        BY <1>1 DEF OnePlace
      <3> QED BY <1>4, <3>1, <3>2
    <2>2. \A n : InDrain(p, n, dx[d]) => n \in 1 .. (len - 1) /\ n + 1 # 1 /\ InDrain(p, n + 1, dr[d])
      BY <1>2, <1>6
    <2>3. \A m, n : InDrain(p, m, dx[d]) /\ InDrain(p, n, dx[d]) => m = n
      <3> SUFFICES ASSUME NEW m, NEW n, InDrain(p, m, dx[d]), InDrain(p, n, dx[d])
                   PROVE  m = n
        OBVIOUS
      <3>1. m + 1 = n + 1
        <4>1. InDrain(p, m + 1, dr[d]) /\ InDrain(p, n + 1, dr[d])
          BY <2>2
        <4>2. \A i, j : InDrain(p, i, dr[d]) /\ InDrain(p, j, dr[d]) => i = j
          BY <1>1 DEF OnePlace
        <4> QED BY <4>1, <4>2
      <3>2. m \in Int /\ n \in Int
        BY <1>2, <2>2
      <3> QED BY <3>1, <3>2
    <2>4. \A a, b \in Drains : \A m, n :
              InDrain(p, m, dx[a]) /\ InDrain(p, n, dx[b]) => a = b /\ m = n
      <3> SUFFICES ASSUME NEW a \in Drains, NEW b \in Drains, NEW m, NEW n,
                          InDrain(p, m, dx[a]), InDrain(p, n, dx[b])
                   PROVE  a = b /\ m = n
        OBVIOUS
      <3>1. CASE a = d /\ b = d
        BY <2>3, <3>1
      <3>2. CASE a # d /\ b # d
        BY <1>1, <1>8, <3>2 DEF OnePlace
      <3>3. CASE a = d /\ b # d
        <4>1. InDrain(p, m + 1, dr[a]) /\ InDrain(p, n, dr[b])
          BY <1>8, <2>2, <3>3
        <4> QED BY <1>1, <3>3, <4>1 DEF OnePlace
      <3>4. CASE a # d /\ b = d
        <4>1. InDrain(p, m, dr[a]) /\ InDrain(p, n + 1, dr[b])
          BY <1>8, <2>2, <3>4
        <4> QED BY <1>1, <3>4, <4>1 DEF OnePlace
      <3> QED BY <3>1, <3>2, <3>3, <3>4
    <2>5. \A a \in Drains : \A m, n : ~(InQueue(p, m, qx) /\ InDrain(p, n, dx[a]))
      <3> SUFFICES ASSUME NEW a \in Drains, NEW m, NEW n,
                          InQueue(p, m, qx), InDrain(p, n, dx[a])
                   PROVE  FALSE
        OBVIOUS
      <3>1. InQueue(p, m, q) \/ InDrain(p, 1, dr[d])
        BY <1>4
      <3>2. CASE a = d
        <4>1. InDrain(p, n + 1, dr[d]) /\ n + 1 # 1
          BY <2>2, <3>2
        <4> QED BY <1>1, <3>1, <4>1 DEF OnePlace
      <3>3. CASE a # d
        <4>1. InDrain(p, n, dr[a])
          BY <1>8, <3>3
        <4> QED BY <1>1, <3>1, <3>3, <4>1 DEF OnePlace
      <3> QED BY <3>2, <3>3
    <2> QED BY <2>1, <2>4, <2>5 DEF OnePlace
  <1>11. Somewhere(p, qx, dx) <=> Somewhere(p, q, dr)
    <2>1. ASSUME NEW n, InDrain(p, n, dr[d]) PROVE Somewhere(p, qx, dx)
      <3>1. CASE n = 1
        BY <1>4, <2>1, <3>1 DEF Somewhere
      <3>2. CASE n # 1
        <4>1. InDrain(p, n - 1, dx[d])
          BY <1>6, <1>9, <2>1, <3>2
        <4> QED BY <4>1 DEF Somewhere
      <3> QED BY <3>1, <3>2
    <2>2. Somewhere(p, q, dr) => Somewhere(p, qx, dx)
      BY <1>4, <1>8, <2>1 DEF Somewhere
    <2>3. Somewhere(p, qx, dx) => Somewhere(p, q, dr)
      BY <1>4, <1>6, <1>8 DEF Somewhere
    <2> QED BY <2>2, <2>3
  <1> QED BY <1>1, <1>10, <1>11 DEF qx

\* A drain visits an item of its first entry.
LEMMA VisitOnce ==
    ASSUME NEW q, NEW dr, NEW def, NEW d \in Drains, NEW dx, NEW i,
           Once(q, dr, def), dr[d].todo \in Seq(Entries), dr[d].todo # <<>>,
           dr[d].at = "route", i \in dr[d].left,
           \A e \in Drains \ {d} : dx[e] = dr[e],
           dx[d].todo = dr[d].todo, dx[d].at = "route", dx[d].left = dr[d].left \ {i}
    PROVE  Once(q, dx, def \ {<<Head(dr[d].todo).user, i>>})
PROOF
  <1> DEFINE v == <<Head(dr[d].todo).user, i>>
  <1> SUFFICES ASSUME NEW p \in Pairs
               PROVE  OnePlace(p, q, dx) /\ (p \in def \ {v} <=> Somewhere(p, q, dx))
    BY DEF Once
  <1>1. OnePlace(p, q, dr) /\ (p \in def <=> Somewhere(p, q, dr))
    BY DEF Once
  <1>2. p = v <=> p[1] = Head(dr[d].todo).user /\ p[2] = i
    BY DEF Pairs
  <1>3. \A n : InDrain(p, n, dx[d]) <=> InDrain(p, n, dr[d]) /\ ~(n = 1 /\ p = v)
    BY <1>2 DEF InDrain
  <1>4. p = v => InDrain(p, 1, dr[d])
    BY <1>2 DEF InDrain
  <1> HIDE DEF v
  <1>5. \A e \in Drains : e # d => \A n : InDrain(p, n, dx[e]) <=> InDrain(p, n, dr[e])
    OBVIOUS
  <1>6. CASE p # v
    <2>1. \A e \in Drains : \A n : InDrain(p, n, dx[e]) <=> InDrain(p, n, dr[e])
      BY <1>3, <1>5, <1>6
    <2>2. OnePlace(p, q, dx)
      BY <1>1, <2>1, FewerPlaces
    <2>3. Somewhere(p, q, dx) <=> Somewhere(p, q, dr)
      BY <2>1 DEF Somewhere
    <2> QED BY <1>1, <1>6, <2>2, <2>3
  <1>7. CASE p = v
    <2>1. ASSUME NEW e \in Drains, NEW n, InDrain(p, n, dx[e]) PROVE FALSE
      <3>1. InDrain(p, n, dr[e]) /\ ~(e = d /\ n = 1)
        BY <1>3, <1>5, <1>7, <2>1
      <3>2. InDrain(p, 1, dr[d])
        BY <1>4, <1>7
      <3> QED BY <1>1, <3>1, <3>2 DEF OnePlace
    <2>2. \A n : ~InQueue(p, n, q)
      BY <1>1, <1>4, <1>7 DEF OnePlace
    <2>3. ~Somewhere(p, q, dx)
      BY <2>1, <2>2 DEF Somewhere
    <2>4. OnePlace(p, q, dx)
      BY <1>1, <2>1, FewerPlaces
    <2> QED BY <1>7, <2>3, <2>4
  <1> QED BY <1>6, <1>7

\* A drain leaves its first entry when it has visited all of it.
LEMMA LeaveOnce ==
    ASSUME NEW q, NEW dr, NEW def, NEW d \in Drains, NEW dx,
           Once(q, dr, def), dr[d].todo \in Seq(Entries), dr[d].todo # <<>>,
           dr[d].at = "route", dr[d].left = {},
           \A e \in Drains \ {d} : dx[e] = dr[e],
           dx[d].todo = Tail(dr[d].todo), dx[d].at # "route"
    PROVE  Once(q, dx, def)
PROOF
  <1> DEFINE len == Len(dr[d].todo)
  <1> SUFFICES ASSUME NEW p \in Pairs
               PROVE  OnePlace(p, q, dx) /\ (p \in def <=> Somewhere(p, q, dx))
    BY DEF Once
  <1>1. OnePlace(p, q, dr) /\ (p \in def <=> Somewhere(p, q, dr))
    BY DEF Once
  <1>2. len \in Nat \ {0}
    OBVIOUS
  <1>3. \A n : InDrain(p, n, dr[d]) => n \in 1 .. len /\ n # 1
    BY DEF InDrain
  <1>4. \A n : InDrain(p, n, dx[d]) <=> n \in 1 .. (len - 1) /\ InDrain(p, n + 1, dr[d])
    BY TailPlaces
  <1> HIDE DEF len
  <1>5. ASSUME NEW n, InDrain(p, n, dr[d]) PROVE InDrain(p, n - 1, dx[d])
    <2>1. n - 1 \in 1 .. (len - 1) /\ (n - 1) + 1 = n
      BY <1>2, <1>3, <1>5
    <2>2. InDrain(p, (n - 1) + 1, dr[d])
      BY <1>5, <2>1
    <2> QED BY <1>4, <2>1, <2>2
  <1>6. \A e \in Drains : e # d => \A n : InDrain(p, n, dx[e]) <=> InDrain(p, n, dr[e])
    OBVIOUS
  <1>7. Somewhere(p, q, dx) <=> Somewhere(p, q, dr)
    BY <1>4, <1>5, <1>6 DEF Somewhere
  <1>8. \A a, b \in Drains : \A m, n :
            InDrain(p, m, dx[a]) /\ InDrain(p, n, dx[b]) => a = b /\ m = n
    <2> SUFFICES ASSUME NEW a \in Drains, NEW b \in Drains, NEW m, NEW n,
                        InDrain(p, m, dx[a]), InDrain(p, n, dx[b])
                 PROVE  a = b /\ m = n
      OBVIOUS
    <2>1. CASE a = d /\ b = d
      <3>1. InDrain(p, m + 1, dr[d]) /\ InDrain(p, n + 1, dr[d]) /\ m \in Int /\ n \in Int
        BY <1>2, <1>4, <2>1
      <3>2. m + 1 = n + 1
        BY <1>1, <3>1 DEF OnePlace
      <3> QED BY <2>1, <3>1, <3>2
    <2>2. CASE a # d /\ b # d
      BY <1>1, <1>6, <2>2 DEF OnePlace
    <2>3. CASE a = d /\ b # d
      <3>1. InDrain(p, m + 1, dr[a]) /\ InDrain(p, n, dr[b])
        BY <1>4, <1>6, <2>3
      <3> QED BY <1>1, <2>3, <3>1 DEF OnePlace
    <2>4. CASE a # d /\ b = d
      <3>1. InDrain(p, m, dr[a]) /\ InDrain(p, n + 1, dr[b])
        BY <1>4, <1>6, <2>4
      <3> QED BY <1>1, <2>4, <3>1 DEF OnePlace
    <2> QED BY <2>1, <2>2, <2>3, <2>4
  <1>9. \A a \in Drains : \A m, n : ~(InQueue(p, m, q) /\ InDrain(p, n, dx[a]))
    <2>1. \A a \in Drains : \A n : InDrain(p, n, dx[a]) => \E m : InDrain(p, m, dr[a])
      BY <1>4, <1>6
    <2> QED BY <1>1, <2>1 DEF OnePlace
  <1>10. OnePlace(p, q, dx)
    BY <1>1, <1>8, <1>9 DEF OnePlace
  <1> QED BY <1>1, <1>7, <1>10

-----------------------------------------------------------------------------
\* The steps, part by part of the invariant.

LEMMA CalmStep == TypeOK /\ Calm /\ [Next]_vars => Calm'
PROOF
  <1> SUFFICES ASSUME TypeOK, Calm, [Next]_vars PROVE Calm'
    OBVIOUS
  <1>1. ASSUME status = "running", status' = status, sync' = sync PROVE Calm'
    BY <1>1 DEF Calm
  <1>2. ASSUME UNCHANGED <<poll, queue, drain>>,
               status' = status \/ status' = "running" \/ status = "starting",
               sync'.first => status' = "starting"
        PROVE  Calm'
    BY <1>2 DEF Calm
  <1>3. CASE UNCHANGED vars
    BY <1>3 DEF vars, Calm
  <1>4. CASE \/ \E u \in Users, i \in Items : Watch(u, i)
             \/ Outage \/ Recovery
    BY <1>4 DEF Watch, Outage, Recovery, Calm
  <1>5. CASE Restart
    BY <1>5 DEF Restart, Calm, NoSync, NoPoll
  <1>6. CASE Start
    BY <1>6 DEF Start, Calm
  <1>7. CASE JobTick
    BY <1>1, <1>2, <1>7 DEF JobTick, NoSync
  <1>8. CASE SyncStep
    <2>1. ASSUME NEW u \in Users, NEW at, sync' = Visited(u, at) PROVE sync'.first = sync.first
      BY <2>1 DEF Visited, TypeOK
    <2>2. ASSUME NEW u \in Users, Prime(u) \/ Fetch(u) PROVE Calm'
      BY <1>2, <2>1, <2>2 DEF Prime, Fetch, Calm
    <2>3. ASSUME NEW u \in Users, Rebase(u) PROVE Calm'
      <3>1. /\ UNCHANGED <<poll, queue, drain>>
            /\ \/ status' = "running" /\ sync' = NoSync
               \/ status' = status /\ sync' = [sync EXCEPT !.users = @ \ {u}]
        BY <2>3 DEF Rebase
      <3>2. sync'.first => status' = "starting"
        BY <3>1 DEF NoSync, Calm, TypeOK
      <3> QED BY <1>2, <3>1, <3>2
    <2>4. CASE SyncHealth \/ \E p \in Pairs : SyncRoute(p)
      <3>1. UNCHANGED <<poll, queue, drain, status>>
        BY <2>4 DEF SyncHealth, SyncRoute
      <3>2. sync'.first = sync.first
        BY <2>4 DEF SyncHealth, SyncRoute, TypeOK
      <3> QED BY <1>2, <3>1, <3>2 DEF Calm
    <2> QED BY <1>8, <2>2, <2>3, <2>4 DEF SyncStep
  <1>9. CASE SyncFails
    <2>1. sync'.first = FALSE /\ UNCHANGED <<poll, queue, drain>>
      BY <1>9 DEF SyncFails, NoSync
    <2> QED BY <1>2, <1>9, <2>1 DEF SyncFails, Calm
  <1>10. CASE (\E u \in Users : PollStart(u)) \/ PollStep \/ PollFails
    <2>1. status = "running" /\ status' = status /\ sync' = sync
      BY <1>10 DEF PollStart, PollStep, PollAnswer, PollHealth, PollLookup, PollSave, PollRoute,
             PollFails, Calm
    <2> QED BY <1>1, <2>1
  <1>11. ASSUME NEW d \in Drains, DrainTick(d) \/ DrainStep(d) PROVE Calm'
    <2>1. queue # <<>> \/ drain[d].at # "idle"
      BY <1>11 DEF DrainTick, DrainStep, DrainHealth, DrainEntry, DrainRoute, DrainEnd
    <2>2. status = "running"
      BY <2>1 DEF Calm, NoDrain
    <2>3. status' = status /\ sync' = sync
      BY <1>11 DEF DrainTick, DrainStep, DrainHealth, DrainEntry, DrainRoute, DrainEnd
    <2> QED BY <1>1, <2>2, <2>3
  <1> QED
    BY <1>3, <1>4, <1>5, <1>6, <1>7, <1>8, <1>9, <1>10, <1>11 DEF Next

\* What a step of one drain does to the drains.
LEMMA DrainMoves ==
    ASSUME TypeOK, NEW d \in Drains, DrainTick(d) \/ DrainStep(d)
    PROVE  /\ \A e \in Drains \ {d} : drain'[e] = drain[e]
           /\ \/ /\ DrainTick(d) /\ queue' = queue /\ deferred' = deferred
                 /\ drain[d].at = "idle" /\ drain'[d].at = "health"
                 /\ drain'[d].todo = drain[d].todo
              \/ /\ deferred' = deferred /\ drain[d].at = "health"
                 /\ drain'[d].at = "entry" /\ drain'[d].todo = queue /\ queue' = <<>>
              \/ /\ deferred' = deferred /\ queue' = queue
                 /\ drain[d].at = "health" \/ (drain[d].at = "entry" /\ drain[d].todo = <<>>)
                 /\ drain'[d] = NoDrain
              \/ /\ deferred' = deferred /\ queue' = Append(queue, Head(drain[d].todo))
                 /\ drain[d].at = "entry" /\ drain[d].todo # <<>>
                 /\ drain'[d].at = "entry" /\ drain'[d].todo = Tail(drain[d].todo)
              \/ /\ deferred' = deferred /\ queue' = queue
                 /\ drain[d].at = "entry" /\ drain[d].todo # <<>>
                 /\ drain'[d].at = "route" /\ drain'[d].todo = drain[d].todo
                 /\ drain'[d].left = Head(drain[d].todo).items
              \/ /\ queue' = queue
                 /\ \E i \in drain[d].left :
                      /\ deferred' = deferred \ {<<Head(drain[d].todo).user, i>>}
                      /\ drain[d].at = "route" /\ drain[d].todo # <<>>
                      /\ \/ /\ drain[d].left \ {i} = {}
                            /\ drain'[d].at = "entry" /\ drain'[d].todo = Tail(drain[d].todo)
                         \/ /\ drain'[d].at = "route" /\ drain'[d].todo = drain[d].todo
                            /\ drain'[d].left = drain[d].left \ {i}
PROOF
  <1>1. drain \in [Drains -> DrainType] /\ drain[d] \in DrainType
    BY DEF TypeOK, DrainType
  <1>2. CASE DrainTick(d)
    BY <1>1, <1>2 DEF DrainTick, history, DrainType
  <1>3. CASE DrainHealth(d)
    BY <1>1, <1>3 DEF DrainHealth, history, DrainType
  <1>4. CASE DrainEntry(d)
    BY <1>1, <1>4 DEF DrainEntry, history, DrainType
  <1>5. CASE DrainEnd(d)
    BY <1>1, <1>5 DEF DrainEnd, history, DrainType
  <1>6. ASSUME NEW i \in Items, DrainRoute(d, i)
        PROVE  /\ \A e \in Drains \ {d} : drain'[e] = drain[e]
               /\ queue' = queue /\ i \in drain[d].left
               /\ deferred' = deferred \ {<<Head(drain[d].todo).user, i>>}
               /\ drain[d].at = "route" /\ drain[d].todo # <<>>
               /\ \/ /\ drain[d].left \ {i} = {}
                     /\ drain'[d].at = "entry" /\ drain'[d].todo = Tail(drain[d].todo)
                  \/ /\ drain'[d].at = "route" /\ drain'[d].todo = drain[d].todo
                     /\ drain'[d].left = drain[d].left \ {i}
    BY <1>1, <1>6 DEF DrainRoute, Try, TypeOK
  <1> QED BY <1>2, <1>3, <1>4, <1>5, <1>6 DEF DrainStep

\* Nothing else moves the drains while the process lives.
LEMMA OthersLeaveDrains ==
    ASSUME [Next]_vars, ~Restart, \A d \in Drains : ~(DrainTick(d) \/ DrainStep(d))
    PROVE  drain' = drain
BY DEF Next, vars, Watch, Outage, Recovery, Start, JobTick, SyncStep, Prime, Fetch, Rebase,
       SyncHealth, SyncRoute, SyncFails, PollStart, PollStep, PollAnswer, PollHealth, PollLookup,
       PollSave, PollRoute, PollFails

LEMMA TodoStep == TypeOK /\ TodoEmpty /\ [Next]_vars => TodoEmpty'
PROOF
  <1> SUFFICES ASSUME TypeOK, TodoEmpty, [Next]_vars PROVE TodoEmpty'
    OBVIOUS
  <1>1. CASE Restart
    BY <1>1 DEF Restart, NoDrain, TodoEmpty
  <1>2. ASSUME NEW d \in Drains, DrainTick(d) \/ DrainStep(d) PROVE TodoEmpty'
    <2>1. drain'[d].at \in {"idle", "health"} => drain'[d].todo = <<>>
      BY <1>2, DrainMoves DEF NoDrain, TodoEmpty
    <2>2. \A e \in Drains \ {d} : drain'[e] = drain[e]
      BY <1>2, DrainMoves
    <2> QED BY <2>1, <2>2 DEF TodoEmpty
  <1> QED BY <1>1, <1>2, OthersLeaveDrains DEF TodoEmpty

LEMMA RowsStep ==
    TypeOK /\ DeferredSaved /\ NewNotDeferred /\ [Next]_vars
        => DeferredSaved' /\ NewNotDeferred'
PROOF
  <1> SUFFICES ASSUME TypeOK, DeferredSaved, NewNotDeferred, [Next]_vars
               PROVE  DeferredSaved' /\ NewNotDeferred'
    OBVIOUS
  <1>1. deferred \subseteq Pairs /\ \A p \in Pairs : p[1] \in Users
    BY DEF TypeOK, Pairs
  <1>2. ASSUME deferred' \subseteq deferred, \A u \in Users : saved[u] \subseteq saved'[u],
               poll'.at = "save" => poll' = poll
        PROVE  DeferredSaved' /\ NewNotDeferred'
    BY <1>1, <1>2 DEF DeferredSaved, NewNotDeferred
  <1>3. ASSUME NEW u \in Users, Fetch(u) PROVE DeferredSaved' /\ NewNotDeferred'
    <2>1. \A v \in Users : saved[v] \subseteq saved'[v]
      BY <1>3 DEF Fetch, TypeOK
    <2> QED BY <1>2, <1>3, <2>1 DEF Fetch
  <1>4. CASE Restart
    BY <1>4 DEF Restart, NoPoll, DeferredSaved, NewNotDeferred
  <1>5. CASE PollLookup
    <2>1. /\ deferred' = deferred /\ saved' = saved
          /\ \/ poll' = NoPoll
             \/ poll'.user = poll.user /\ poll'.items = poll.items \ saved[poll.user]
      BY <1>5 DEF PollLookup, history, TypeOK
    <2>2. DeferredSaved'
      BY <2>1 DEF DeferredSaved
    <2>3. ASSUME NEW i \in poll.items \ saved[poll.user] PROVE <<poll.user, i>> \notin deferred
      BY <2>3 DEF DeferredSaved
    <2>4. NewNotDeferred'
      BY <2>1, <2>3 DEF NewNotDeferred, NoPoll
    <2> QED BY <2>2, <2>4
  <1>6. CASE PollSave
    <2>1. /\ poll.user \in Users /\ poll'.at # "save"
          /\ saved' = [saved EXCEPT ![poll.user] = @ \cup poll.items]
          /\ deferred' \subseteq deferred \cup Of(poll.user, poll.items)
      BY <1>6 DEF PollSave, TypeOK, NoPoll
    <2>2. /\ poll.items \subseteq saved'[poll.user]
          /\ \A v \in Users : saved[v] \subseteq saved'[v]
      BY <2>1 DEF TypeOK
    <2>3. DeferredSaved'
      BY <1>1, <2>1, <2>2 DEF DeferredSaved, Of
    <2> QED BY <2>1, <2>3 DEF NewNotDeferred
  <1>7. ASSUME NEW d \in Drains, DrainTick(d) \/ DrainStep(d)
        PROVE  DeferredSaved' /\ NewNotDeferred'
    <2>1. deferred' \subseteq deferred
      BY <1>7, DrainMoves
    <2>2. saved' = saved /\ poll' = poll
      BY <1>7 DEF DrainTick, DrainStep, DrainHealth, DrainEntry, DrainRoute, DrainEnd
    <2> QED BY <1>2, <2>1, <2>2
  <1>8. CASE (\E u \in Users : PollStart(u)) \/ PollAnswer \/ PollHealth \/ PollFails
             \/ \E i \in Items : PollRoute(i)
    <2>1. deferred' = deferred /\ saved' = saved
      <3>1. CASE (\E u \in Users : PollStart(u)) \/ PollHealth
        BY <3>1 DEF PollStart, PollHealth, history
      <3>2. CASE PollAnswer \/ PollFails
        BY <3>2 DEF PollAnswer, PollFails
      <3>3. CASE \E i \in Items : PollRoute(i)
        BY <3>3 DEF PollRoute, history
      <3> QED BY <1>8, <3>1, <3>2, <3>3
    <2>2. CASE (\E u \in Users : PollStart(u)) \/ PollFails
      <3>1. poll'.at \in {"idle", "asked"}
        <4>1. CASE \E u \in Users : PollStart(u)
          BY <4>1 DEF PollStart, NoPoll
        <4>2. CASE PollFails
          BY <4>2 DEF PollFails, NoPoll
        <4> QED BY <2>2, <4>1, <4>2
      <3>2. /\ deferred' \subseteq deferred
            /\ \A v \in Users : saved[v] \subseteq saved'[v]
            /\ poll'.at = "save" => poll' = poll
        BY <2>1, <3>1
      <3> QED BY <1>2, <3>2
    <2>3. CASE PollAnswer \/ PollHealth \/ \E i \in Items : PollRoute(i)
      <3>1. poll' = NoPoll \/ poll'.at \in {"health", "lookup", "route"}
        BY <2>3 DEF PollAnswer, PollHealth, PollRoute, TypeOK
      <3> QED BY <1>2, <2>1, <3>1 DEF NoPoll
    <2> QED BY <1>8, <2>2, <2>3
  <1>9. CASE \/ UNCHANGED vars
             \/ \E u \in Users, i \in Items : Watch(u, i)
             \/ Outage \/ Recovery \/ Start \/ JobTick \/ SyncFails
             \/ \E u \in Users : Prime(u) \/ Rebase(u)
             \/ SyncHealth \/ \E p \in Pairs : SyncRoute(p)
    <2>1. deferred' = deferred /\ saved' = saved /\ poll' = poll
      BY <1>9 DEF vars, history, Watch, Outage, Recovery, Start, JobTick, SyncFails, Prime,
             Rebase, SyncHealth, SyncRoute
    <2> QED BY <1>2, <2>1
  <1> QED
    BY <1>3, <1>4, <1>5, <1>6, <1>7, <1>8, <1>9 DEF Next, SyncStep, PollStep

LEMMA OnceStep ==
    TypeOK /\ DeferInv /\ [Next]_vars => Once(queue', drain', deferred')
PROOF
  <1> SUFFICES ASSUME TypeOK, DeferInv, [Next]_vars
               PROVE  Once(queue', drain', deferred')
    OBVIOUS
  <1>1. Once(queue, drain, deferred)
    BY DEF DeferInv
  <1>2. queue \in Seq(Entries) /\ drain \in [Drains -> DrainType]
    BY DEF TypeOK, DrainType
  <1>3. CASE Restart
    <2>1. queue' = <<>> /\ deferred' = {} /\ \A d \in Drains : drain'[d].todo = <<>>
      BY <1>3 DEF Restart, NoDrain
    <2>2. \A p, n : ~InQueue(p, n, queue') /\ \A d \in Drains : ~InDrain(p, n, drain'[d])
      BY <2>1 DEF InQueue, InDrain
    <2> QED BY <2>1, <2>2 DEF Once, OnePlace, Somewhere
  <1>4. CASE Start
    <2>1. queue = <<>>
      BY <1>4 DEF Start, DeferInv, Calm
    <2> QED BY <1>1, <1>4, <2>1 DEF Start, history
  <1>5. CASE PollSave
    <2> DEFINE e == [user |-> poll.user, items |-> poll.items]
    <2>1. e \in Entries
      BY <1>5 DEF PollSave, TypeOK, Entries
    <2>2. \A i \in e.items : <<e.user, i>> \notin deferred
      BY <1>5 DEF PollSave, DeferInv, NewNotDeferred
    <2>3. /\ drain' = drain
          /\ \/ UNCHANGED <<queue, deferred>>
             \/ queue' = Append(queue, e) /\ deferred' = deferred \cup Of(e.user, e.items)
      BY <1>5 DEF PollSave
    <2> HIDE DEF e
    <2> QED BY <1>1, <1>2, <2>1, <2>2, <2>3, AppendOnce
  <1>6. ASSUME NEW d \in Drains, DrainTick(d) \/ DrainStep(d)
        PROVE  Once(queue', drain', deferred')
    <2>1. /\ drain[d].todo \in Seq(Entries)
          /\ \A e \in Drains \ {d} : drain'[e] = drain[e]
      BY <1>2, <1>6, DrainMoves DEF DrainType
    <2>2. drain[d].at \in {"idle", "health"} => drain[d].todo = <<>>
      BY DEF DeferInv, TodoEmpty
    <2>3. ASSUME queue' = queue, deferred' = deferred,
                 \A p, n : InDrain(p, n, drain'[d]) <=> InDrain(p, n, drain[d])
          PROVE  Once(queue', drain', deferred')
      <3>1. \A e \in Drains : \A p, n : InDrain(p, n, drain'[e]) <=> InDrain(p, n, drain[e])
        BY <2>1, <2>3
      <3> QED BY <1>1, <2>3, <3>1, SameOnce
    <2>4. ASSUME queue' = queue, deferred' = deferred, drain[d].at = "idle",
                 drain'[d].at = "health", drain'[d].todo = drain[d].todo
          PROVE  Once(queue', drain', deferred')
      BY <2>2, <2>3, <2>4 DEF InDrain
    <2>5. ASSUME deferred' = deferred, drain[d].at = "health", drain'[d].at = "entry",
                 drain'[d].todo = queue, queue' = <<>>
          PROVE  Once(queue', drain', deferred')
      <3>1. drain[d].todo = <<>> /\ drain'[d].at # "route"
        BY <2>2, <2>5
      <3>2. Once(<<>>, drain', deferred)
        <4> DEFINE dr == drain
                   dx == drain'
        <4>1. /\ Once(queue, dr, deferred) /\ dr[d].todo = <<>>
              /\ \A e \in Drains \ {d} : dx[e] = dr[e]
              /\ dx[d].todo = queue /\ dx[d].at # "route"
          BY <1>1, <2>1, <2>5, <3>1
        <4> HIDE DEF dr, dx
        <4>2. Once(<<>>, dx, deferred)
          BY <4>1, TakeOnce
        <4> QED BY <4>2 DEF dx
      <3> QED BY <2>5, <3>2
    <2>6. ASSUME deferred' = deferred, queue' = queue, drain[d].todo = <<>>, drain'[d] = NoDrain
          PROVE  Once(queue', drain', deferred')
      BY <2>3, <2>6 DEF InDrain, NoDrain
    <2>7. ASSUME deferred' = deferred, queue' = Append(queue, Head(drain[d].todo)),
                 drain[d].at = "entry", drain[d].todo # <<>>,
                 drain'[d].at = "entry", drain'[d].todo = Tail(drain[d].todo)
          PROVE  Once(queue', drain', deferred')
      BY <1>1, <1>2, <2>1, <2>7, HandBackOnce
    <2>8. ASSUME deferred' = deferred, queue' = queue, drain[d].at = "entry",
                 drain[d].todo # <<>>, drain'[d].at = "route",
                 drain'[d].todo = drain[d].todo, drain'[d].left = Head(drain[d].todo).items
          PROVE  Once(queue', drain', deferred')
      BY <2>1, <2>3, <2>8 DEF InDrain
    <2>9. ASSUME queue' = queue, NEW i \in drain[d].left,
                 deferred' = deferred \ {<<Head(drain[d].todo).user, i>>},
                 drain[d].at = "route", drain[d].todo # <<>>,
                 \/ /\ drain[d].left \ {i} = {}
                    /\ drain'[d].at = "entry" /\ drain'[d].todo = Tail(drain[d].todo)
                 \/ /\ drain'[d].at = "route" /\ drain'[d].todo = drain[d].todo
                    /\ drain'[d].left = drain[d].left \ {i}
          PROVE  Once(queue', drain', deferred')
      <3> DEFINE c == [drain[d] EXCEPT !.left = @ \ {i}]
                 dr == [drain EXCEPT ![d] = c]
      <3>1. /\ dr[d].todo = drain[d].todo /\ dr[d].at = "route"
            /\ dr[d].left = drain[d].left \ {i}
            /\ \A e \in Drains \ {d} : dr[e] = drain[e]
        BY <1>2, <2>9 DEF DrainType
      <3> HIDE DEF dr
      <3>2. Once(queue, dr, deferred')
        BY <1>1, <2>1, <2>9, <3>1, VisitOnce
      <3>3. CASE drain'[d].at = "entry" /\ drain[d].left \ {i} = {}
                 /\ drain'[d].todo = Tail(drain[d].todo)
        <4>1. \A e \in Drains \ {d} : drain'[e] = dr[e]
          BY <2>1, <3>1
        <4>2. dr[d].todo \in Seq(Entries) /\ dr[d].todo # <<>> /\ dr[d].left = {}
              /\ drain'[d].todo = Tail(dr[d].todo)
          BY <2>1, <2>9, <3>1, <3>3
        <4> QED BY <2>9, <3>1, <3>2, <3>3, <4>1, <4>2, LeaveOnce
      <3>4. CASE drain'[d].at = "route" /\ drain'[d].todo = drain[d].todo
                 /\ drain'[d].left = drain[d].left \ {i}
        <4>1. \A e \in Drains : \A p, n : InDrain(p, n, drain'[e]) <=> InDrain(p, n, dr[e])
          BY <2>1, <3>1, <3>4 DEF InDrain
        <4> QED BY <2>9, <3>2, <4>1, SameOnce
      <3> QED BY <2>9, <3>3, <3>4
    <2> QED BY <1>6, <2>2, <2>4, <2>5, <2>6, <2>7, <2>8, <2>9, DrainMoves
  <1>7. CASE ~Restart /\ ~Start /\ ~PollSave /\ \A d \in Drains : ~(DrainTick(d) \/ DrainStep(d))
    <2>1. drain' = drain
      BY <1>7, OthersLeaveDrains
    <2>2. queue' = queue /\ deferred' = deferred
      BY <1>7 DEF Next, vars, history, Watch, Outage, Recovery, JobTick, SyncStep, Prime, Fetch,
             Rebase, SyncHealth, SyncRoute, SyncFails, PollStart, PollStep, PollAnswer,
             PollHealth, PollLookup, PollRoute, PollFails
    <2> QED BY <1>1, <2>1, <2>2
  <1> QED BY <1>3, <1>4, <1>5, <1>6, <1>7

\* Every deferred pair is in exactly one entry, of the queue or of one drain,
\* until it is tried, and no other pair is in any: for any number of drains
\* that overlap, fail, or run while the poller appends (checkHealthAndDrain,
\* handleStaggeredPollResult, routeEnrichedItemsForUser).
THEOREM DeferredOnlyOnce == Spec => []DeferredOnce
PROOF
  <1>1. Init => DeferInv
    <2> SUFFICES ASSUME Init PROVE DeferInv
      OBVIOUS
    <2>1. Calm /\ TodoEmpty /\ DeferredSaved /\ NewNotDeferred
      BY DEF Init, NoDrain, NoPoll, NoSync, Calm, TodoEmpty, DeferredSaved, NewNotDeferred
    <2>2. \A p, n : ~InQueue(p, n, queue) /\ \A d \in Drains : ~InDrain(p, n, drain[d])
      BY DEF Init, NoDrain, InQueue, InDrain
    <2>3. deferred = {}
      BY DEF Init
    <2>4. Once(queue, drain, deferred)
      BY <2>2, <2>3 DEF Once, OnePlace, Somewhere
    <2> QED BY <2>1, <2>4 DEF DeferInv
  <1>2. TypeOK /\ DeferInv /\ [Next]_vars => DeferInv'
    <2> SUFFICES ASSUME TypeOK, DeferInv, [Next]_vars PROVE DeferInv'
      OBVIOUS
    <2>1. Calm' /\ TodoEmpty'
      BY CalmStep, TodoStep DEF DeferInv
    <2>2. DeferredSaved' /\ NewNotDeferred'
      BY RowsStep DEF DeferInv
    <2>3. Once(queue', drain', deferred')
      BY OnceStep
    <2> QED BY <2>1, <2>2, <2>3 DEF DeferInv
  <1>3. DeferInv => DeferredOnce
    BY DeferInvGivesOnce
  <1> QED BY <1>1, <1>2, <1>3, RoutingTypeCorrect, PTL DEF Spec

=============================================================================
