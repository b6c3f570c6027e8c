--------------------------- MODULE DeleteSync_proofs ---------------------------
(***************************************************************************)
(* Type correctness of the delete sync, and its safety: what is watched or *)
(* protected stays, the limit holds, rolling rows and approval records     *)
(* follow the library.  For any users, contents, watchlists and limits,    *)
(* and whatever changes between two steps of a run.                        *)
(***************************************************************************)
EXTENDS DeleteSync, FiniteSetTheorems, TLAPS

-----------------------------------------------------------------------------
(* The inductive invariant.                                                *)

\* The stages before anything is deleted.
Early == {"idle", "refresh", "tags", "guids", "tracked", "shield", "check"}

\* What the run has chosen to delete, or has deleted.
Doomed == run.todo \cup run.deleted

NothingYet == run.at \in Early => Doomed = {}

\* What a run must respect is on a watchlist and in the database all along.
Known == held \cup due \subseteq wants \cap rows

\* What was watched when tags were last updated carries no removal tag.
DueUnmarked == \A p \in due : tag[p[2]] # "removed"

\* What the run must respect is out of its reach: unmarked when the library was
\* fetched, or on the watchlists it reads, which it does before it chooses.
HeldSpared ==
    /\ run.at = "tags" => TagMode
    /\ IF TagMode THEN WatchedIn(held) \cap run.marked = {}
       ELSE run.at \in {"tracked", "shield", "check"} => WatchedIn(held) \subseteq run.guids
    /\ WatchedIn(held) \cap Doomed = {}

KeptSpared ==
    /\ kept \subseteq shielded
    /\ run.at = "check" => kept \subseteq run.shield
    /\ kept \cap Doomed = {}

\* The run knows all of the library but what was added since the fetch.
LibraryKnown ==
    /\ run.at # "idle" => library \ fresh \subseteq run.lib
    /\ run.deleted \cap library \subseteq fresh

DoomedWithinLimit == ~TooMany(Cardinality(Doomed \ run.blind))

SafetyInv ==
    /\ NothingYet
    /\ Known /\ DueUnmarked /\ HeldSpared
    /\ KeptSpared
    /\ LibraryKnown
    /\ DoomedWithinLimit
    /\ RollingRowsFollow

-----------------------------------------------------------------------------
(* Types.                                                                  *)

Runs == [at : Stages, refresh : SUBSET {"self", "others"}, lib : SUBSET Contents,
         marked : SUBSET Contents, tagged : SUBSET Contents, guids : SUBSET Contents,
         tracked : SUBSET Contents, shield : SUBSET Contents, blind : SUBSET Contents,
         todo : SUBSET Contents, deleted : SUBSET Contents, aborted : BOOLEAN]
Bounds == [changes : 0..MaxChanges, faults : 0..MaxFaults, crashes : 0..MaxCrashes]

LEMMA WatchedAreContents ==
    ASSUME NEW S \in SUBSET Pairs
    PROVE  WatchedIn(S) \in SUBSET Contents
BY DEF WatchedIn, Pairs

LEMMA NoRunIsRun == NoRun \in Runs /\ [NoRun EXCEPT !.aborted = TRUE] \in Runs
BY DEF NoRun, Runs, Stages

LEMMA RunTyped ==
    ASSUME TypeOK
    PROVE  run \in Runs
BY DEF TypeOK, Runs

LEMMA RunGoesOn ==
    ASSUME NEW r \in Runs, NEW at \in Stages
    PROVE  /\ [r EXCEPT !.at = at] \in Runs
           /\ [r EXCEPT !.at = at, !.aborted = TRUE] \in Runs
BY DEF Runs

LEMMA BoundsCount ==
    ASSUME TypeOK, Fault \/ Works \/ (Change /\ UNCHANGED run)
    PROVE  bounds' \in Bounds
PROOF
  <1> USE DeleteAssumption DEF TypeOK, Bounds
  <1>1. CASE Fault BY <1>1 DEF Fault
  <1>2. CASE Works BY <1>2 DEF Works
  <1>3. CASE Change BY <1>3 DEF Change
  <1> QED BY <1>1, <1>2, <1>3

LEMMA InitTyped == Init => TypeOK
PROOF
  <1> SUFFICES ASSUME Init PROVE TypeOK
    OBVIOUS
  <1>1. run \in Runs BY NoRunIsRun DEF Init
  <1>2. bounds \in Bounds BY DeleteAssumption DEF Init, Bounds
  <1>3. tag \in [Contents -> Tags] BY DEF Init, Tags
  <1> QED BY <1>1, <1>2, <1>3, DeleteAssumption DEF Init, TypeOK, Runs, Bounds

\* What users and the rest of the process do.
Elsewhere ==
    \/ \E p \in Pairs : Watch(p) \/ Unwatch(p)
    \/ \E c \in Contents : Shield(c) \/ Unshield(c) \/ Approve(c) \/ Add(c) \/ Monitor(c)
    \/ \E u \in Users : Sync(u)

LEMMA WorldTyped ==
    ASSUME TypeOK, Elsewhere
    PROVE  TypeOK'
PROOF
  <1> USE DEF TypeOK, history
  <1>1. ASSUME NEW p \in Pairs, Watch(p) PROVE TypeOK'
    BY <1>1, BoundsCount DEF Watch, Change, Bounds
  <1>2. ASSUME NEW p \in Pairs, Unwatch(p) PROVE TypeOK'
    BY <1>2, BoundsCount DEF Unwatch, Change, Bounds
  <1>3. ASSUME NEW c \in Contents, Shield(c) PROVE TypeOK'
    BY <1>3, BoundsCount DEF Shield, Change, Bounds
  <1>4. ASSUME NEW c \in Contents, Unshield(c) PROVE TypeOK'
    BY <1>4, BoundsCount DEF Unshield, Change, Bounds
  <1>5. ASSUME NEW c \in Contents, Approve(c) PROVE TypeOK'
    BY <1>5, BoundsCount DEF Approve, Change, Bounds
  <1>6. ASSUME NEW c \in Contents, Add(c) PROVE TypeOK'
    BY <1>6, BoundsCount DEF Add, Bounds
  <1>7. ASSUME NEW c \in Contents, Monitor(c) PROVE TypeOK'
    BY <1>7, BoundsCount DEF Monitor, Change, Bounds
  <1>8. ASSUME NEW u \in Users, Sync(u) PROVE TypeOK'
    BY <1>8 DEF Sync, Of
  <1> QED BY <1>1, <1>2, <1>3, <1>4, <1>5, <1>6, <1>7, <1>8 DEF Elsewhere

LEMMA ReturnTyped ==
    ASSUME Return
    PROVE  run' \in Runs
BY NoRunIsRun DEF Return

LEMMA AbortTyped ==
    ASSUME TypeOK, Abort
    PROVE  run' \in Runs
PROOF
  <1>1. CASE TagMode
    BY <1>1, RunTyped, RunGoesOn DEF Abort, Stages
  <1>2. CASE ~TagMode
    BY <1>2, ReturnTyped DEF Abort
  <1> QED BY <1>1, <1>2

LEMMA RefreshTyped ==
    ASSUME TypeOK, NEW part \in {"self", "others"}, Refreshed(part)
    PROVE  run' \in Runs
BY DEF TypeOK, Refreshed, Runs, Stages

LEMMA RefreshesTyped ==
    ASSUME TypeOK, RefreshSelf \/ RefreshOthers \/ RefreshFails
    PROVE  TypeOK'
PROOF
  <1>1. CASE RefreshSelf
    <2>1. bounds' \in Bounds BY <1>1, BoundsCount DEF RefreshSelf
    <2>2. run' \in Runs BY <1>1, RefreshTyped DEF RefreshSelf, SaveRows
    <2>3. rows' \subseteq Pairs /\ held' \subseteq Pairs /\ due' \subseteq Pairs
      BY <1>1 DEF RefreshSelf, SaveRows, Forget, Of, TypeOK
    <2> QED BY <1>1, <2>1, <2>2, <2>3 DEF RefreshSelf, TypeOK, Runs, Bounds
  <1>2. CASE RefreshOthers
    <2>1. bounds' \in Bounds BY <1>2, BoundsCount DEF RefreshOthers
    <2>2. run' \in Runs BY <1>2, RefreshTyped DEF RefreshOthers, SaveRows
    <2>3. rows' \subseteq Pairs /\ held' \subseteq Pairs /\ due' \subseteq Pairs
      BY <1>2 DEF RefreshOthers, SaveRows, Forget, Of, TypeOK
    <2> QED BY <1>2, <2>1, <2>2, <2>3 DEF RefreshOthers, TypeOK, Runs, Bounds
  <1>3. CASE RefreshFails
    <2>1. run' \in Runs /\ bounds' \in Bounds
      BY <1>3, BoundsCount, ReturnTyped DEF RefreshFails
    <2> QED BY <1>3, <2>1 DEF RefreshFails, TypeOK, Runs, Bounds, world, history
  <1> QED BY <1>1, <1>2, <1>3

LEMMA CandidatesTyped == TypeOK => Candidates \in SUBSET Contents
BY DEF TypeOK, Candidates

LEMMA ChoiceTyped ==
    ASSUME TypeOK,
           UpdateTags \/ ReadWatchlists \/ LoadTracked \/ LoadProtection \/ SafetyCheck
    PROVE  TypeOK'
PROOF
  <1>1. CASE UpdateTags
    <2>1. bounds' \in Bounds BY <1>1, BoundsCount DEF UpdateTags
    <2>2. run' \in Runs BY <1>1, ReturnTyped, RunTyped, RunGoesOn DEF UpdateTags, Stages
    <2>3. tag' \in [Contents -> Tags]
      BY <1>1 DEF UpdateTags, NewTag, TypeOK, Tags
    <2>4. due' \subseteq Pairs BY <1>1 DEF UpdateTags, TypeOK
    <2> QED BY <1>1, <2>1, <2>2, <2>3, <2>4 DEF UpdateTags, TypeOK, Runs, Bounds
  <1>2. CASE ReadWatchlists
    <2>1. WatchedIn(rows) \in SUBSET Contents BY WatchedAreContents DEF TypeOK
    <2>2. [run EXCEPT !.at = "tracked", !.guids = WatchedIn(rows)] \in Runs
      BY <2>1, RunTyped DEF Runs, Stages
    <2>3. run' \in Runs
      BY <1>2, <2>2, ReturnTyped DEF ReadWatchlists
    <2> QED BY <1>2, <2>3 DEF ReadWatchlists, TypeOK, Runs, Bounds, world, history
  <1>3. CASE LoadTracked
    <2>1. bounds' \in Bounds BY <1>3, BoundsCount DEF LoadTracked
    <2>2. approved \in SUBSET Contents BY DEF TypeOK
    <2>3. [run EXCEPT !.at = "shield", !.tracked = approved] \in Runs
      BY <2>2, RunTyped DEF Runs, Stages
    <2>4. run' \in Runs BY <1>3, <2>3, AbortTyped DEF LoadTracked
    <2> QED BY <1>3, <2>1, <2>4 DEF LoadTracked, TypeOK, Runs, Bounds, world, history
  <1>4. CASE LoadProtection
    <2>1. bounds' \in Bounds BY <1>4, BoundsCount DEF LoadProtection
    <2>2. ASSUME NEW found \in SUBSET shielded
          PROVE  [run EXCEPT !.at = "check", !.shield = found] \in Runs
      <3>1. found \in SUBSET Contents BY DEF TypeOK
      <3> QED BY <3>1, RunTyped DEF Runs, Stages
    <2>3. run' \in Runs BY <1>4, <2>2, AbortTyped DEF LoadProtection
    <2>4. kept' \subseteq Contents BY <1>4 DEF LoadProtection, TypeOK
    <2> QED BY <1>4, <2>1, <2>3, <2>4 DEF LoadProtection, TypeOK, Runs, Bounds, world
  <1>5. CASE SafetyCheck
    <2>1. bounds' \in Bounds BY <1>5, BoundsCount DEF SafetyCheck
    <2>2. ASSUME NEW unread \in {{}, Shows, Contents \ Shows},
                 run' = [run EXCEPT !.at = "delete", !.todo = Candidates, !.blind = unread]
          PROVE  run' \in Runs
      BY <2>2, CandidatesTyped, DeleteAssumption DEF TypeOK, Runs, Stages
    <2>3. run' \in Runs BY <1>5, <2>2, AbortTyped DEF SafetyCheck
    <2> QED BY <1>5, <2>1, <2>3 DEF SafetyCheck, TypeOK, Runs, Bounds, world, history
  <1> QED BY <1>1, <1>2, <1>3, <1>4, <1>5

LEMMA DeletionTyped ==
    ASSUME TypeOK, (\E c \in Contents : Delete(c)) \/ AllProcessed
    PROVE  TypeOK'
PROOF
  <1>1. ASSUME NEW c \in Contents, Delete(c) PROVE TypeOK'
    <2>1. bounds' \in Bounds BY <1>1, BoundsCount DEF Delete
    <2>2. /\ [run EXCEPT !.todo = @ \ {c}] \in Runs
          /\ [run EXCEPT !.todo = @ \ {c}, !.deleted = @ \cup {c}] \in Runs
      BY RunTyped DEF Runs
    <2>3. run' \in Runs BY <1>1, <2>2 DEF Delete
    <2>4. tag' \in [Contents -> Tags] BY <1>1 DEF Delete, TypeOK, Tags
    <2>5. library' \subseteq Contents /\ due' \subseteq Pairs BY <1>1 DEF Delete, TypeOK
    <2> QED BY <1>1, <2>1, <2>3, <2>4, <2>5 DEF Delete, TypeOK, Runs, Bounds
  <1>2. CASE AllProcessed
    <2>1. run' \in Runs BY <1>2 DEF AllProcessed, TypeOK, Runs, Stages
    <2> QED BY <1>2, <2>1 DEF AllProcessed, TypeOK, Runs, Bounds, world, history
  <1> QED BY <1>1, <1>2

LEMMA RemoveTyped ==
    ASSUME TypeOK, NEW gone, NEW next \in Stages, Remove(gone, next)
    PROVE  TypeOK'
PROOF
  <1>1. bounds' \in Bounds BY BoundsCount DEF Remove
  <1>2. run' \in Runs BY DEF Remove, TypeOK, Runs, Stages
  <1> QED BY <1>1, <1>2 DEF Remove, TypeOK, Runs, Bounds, history

LEMMA CleanupTyped ==
    ASSUME TypeOK, StartRun \/ CleanupOrphans \/ CleanupDeleted \/ CleanupRolling \/ Crash
    PROVE  TypeOK'
PROOF
  <1>1. CASE StartRun
    <2>1. run' \in Runs BY <1>1 DEF StartRun, NoRun, TypeOK, Runs, Stages
    <2>2. held' \subseteq Pairs /\ kept' \subseteq Contents BY <1>1 DEF StartRun, TypeOK
    <2> QED BY <1>1, <2>1, <2>2 DEF StartRun, TypeOK, Runs, Bounds, world
  <1>2. CASE CleanupOrphans BY <1>2, RemoveTyped DEF CleanupOrphans, Stages
  <1>3. CASE CleanupDeleted BY <1>3, RemoveTyped DEF CleanupDeleted, Stages
  <1>4. CASE CleanupRolling
    <2>1. bounds' \in Bounds BY <1>4, BoundsCount DEF CleanupRolling
    <2>2. run' \in Runs BY <1>4, NoRunIsRun DEF CleanupRolling
    <2>3. rolling' \subseteq Shows /\ leaked' \subseteq Contents
      BY <1>4 DEF CleanupRolling, TypeOK
    <2> QED BY <1>4, <2>1, <2>2, <2>3 DEF CleanupRolling, TypeOK, Runs, Bounds
  <1>5. CASE Crash
    <2>1. bounds' \in Bounds BY <1>5, DeleteAssumption DEF Crash, TypeOK, Bounds
    <2>2. run' \in Runs BY <1>5, NoRunIsRun DEF Crash
    <2>3. leaked' \subseteq Contents BY <1>5 DEF Crash, TypeOK
    <2> QED BY <1>5, <2>1, <2>2, <2>3 DEF Crash, TypeOK, Runs, Bounds
  <1> QED BY <1>1, <1>2, <1>3, <1>4, <1>5

\* Settings, watchlists, rows, library, tags, records, the run and the histories
\* keep their types in every interleaving, failure and crash: TypeOK.
THEOREM DeleteTypeCorrect == Spec => []TypeOK
PROOF
  <1>1. Init => TypeOK BY InitTyped
  <1>2. TypeOK /\ [Next]_vars => TypeOK'
    <2> SUFFICES ASSUME TypeOK, [Next]_vars PROVE TypeOK'
      OBVIOUS
    <2>1. CASE UNCHANGED vars BY <2>1 DEF vars, world, history, TypeOK
    <2>2. CASE Next
      BY <2>2, WorldTyped, RefreshesTyped, ChoiceTyped, DeletionTyped, CleanupTyped
         DEF Next, RunStep, Elsewhere
    <2> QED BY <2>1, <2>2
  <1> QED BY <1>1, <1>2, PTL DEF Spec

-----------------------------------------------------------------------------
(* What a step does to the run.                                            *)

\* The run ends or is cut short, before anything was deleted or after.
Ends ==
    /\ run'.at = "idle"
    /\ run'.marked = {} /\ run'.blind = {} /\ run'.todo = {} /\ run'.deleted = {}
CutShort ==
    /\ TagMode /\ run'.at = "orphans"
    /\ run'.lib = run.lib /\ run'.marked = run.marked /\ run'.blind = run.blind
    /\ run'.todo = run.todo /\ run'.deleted = run.deleted
Stops == Ends \/ CutShort

LEMMA ElsewhereLeavesRun == Elsewhere => UNCHANGED <<config, run>>
BY DEF Elsewhere, Watch, Unwatch, Shield, Unshield, Approve, Add, Monitor, Sync, Change

LEMMA NoRunEnds == run' = NoRun \/ Return => Ends
BY DEF NoRun, Return, Ends

LEMMA AbortStops ==
    ASSUME TypeOK, Abort
    PROVE  Stops
PROOF
  <1>1. CASE TagMode
    BY <1>1, RunTyped DEF Abort, Runs, Stops, CutShort
  <1>2. CASE ~TagMode
    BY <1>2, NoRunEnds DEF Abort, Stops
  <1> QED BY <1>1, <1>2

\* The loop over the items only takes items off the list or deletes them.
LEMMA DeletionShrinks ==
    ASSUME TypeOK, (\E c \in Contents : Delete(c)) \/ AllProcessed
    PROVE  /\ run'.at \in {"delete", "orphans"}
           /\ run'.lib = run.lib /\ run'.marked = run.marked /\ run'.blind = run.blind
           /\ Doomed' \subseteq Doomed
PROOF
  <1>1. ASSUME NEW c \in Contents, Delete(c)
        PROVE  /\ run'.at = "delete"
               /\ run'.lib = run.lib /\ run'.marked = run.marked /\ run'.blind = run.blind
               /\ Doomed' \subseteq Doomed
    <2>1. /\ run'.at = run.at
          /\ run'.lib = run.lib /\ run'.marked = run.marked /\ run'.blind = run.blind
          /\ run'.todo = run.todo \ {c}
          /\ run'.deleted \in {run.deleted, run.deleted \cup {c}}
      BY <1>1, RunTyped DEF Delete, Runs
    <2> QED BY <1>1, <2>1 DEF Delete, Doomed
  <1>2. CASE AllProcessed
    BY <1>2, RunTyped DEF AllProcessed, Runs, Doomed
  <1> QED BY <1>1, <1>2

LEMMA NothingYetKept ==
    ASSUME TypeOK, NothingYet, [Next]_vars
    PROVE  NothingYet'
PROOF
  <1> USE DEF NothingYet, Doomed, Early
  <1>1. CASE UNCHANGED run BY <1>1
  <1>2. CASE Stops
    BY <1>2 DEF Stops, Ends, CutShort
  <1>3. CASE StartRun BY <1>3 DEF StartRun, NoRun
  <1>4. CASE RefreshSelf \/ RefreshOthers
    BY <1>4, RunTyped DEF RefreshSelf, RefreshOthers, SaveRows, Refreshed, Runs
  <1>5. CASE UpdateTags \/ ReadWatchlists
    BY <1>2, <1>5, NoRunEnds, RunTyped DEF UpdateTags, ReadWatchlists, Stops, Runs
  <1>6. CASE LoadTracked \/ LoadProtection
    BY <1>2, <1>6, AbortStops, RunTyped DEF LoadTracked, LoadProtection, Runs
  <1>7. CASE SafetyCheck
    BY <1>2, <1>7, AbortStops, RunTyped DEF SafetyCheck, Runs
  <1>8. CASE (\E c \in Contents : Delete(c)) \/ AllProcessed
    BY <1>8, RunTyped DEF Delete, AllProcessed, Runs
  <1>9. CASE CleanupOrphans \/ CleanupDeleted
    BY <1>9, RunTyped DEF CleanupOrphans, CleanupDeleted, Remove, Runs
  <1>10. CASE RefreshFails \/ CleanupRolling \/ Crash
    BY <1>2, <1>10, NoRunEnds DEF RefreshFails, CleanupRolling, Crash, Stops
  <1> QED BY <1>1, <1>3, <1>4, <1>5, <1>6, <1>7, <1>8, <1>9, <1>10, ElsewhereLeavesRun
          DEF Next, RunStep, Elsewhere, vars

-----------------------------------------------------------------------------
(* What is watched stays.                                                  *)

\* Only the steps that write rows, or what is known of them, matter.
LEMMA KnownKept ==
    ASSUME TypeOK, Known, [Next]_vars
    PROVE  Known'
PROOF
  <1> USE DEF Known
  <1>1. CASE UNCHANGED <<wants, rows, held, due>> BY <1>1
  <1>2. CASE \E p \in Pairs : Watch(p) \/ Unwatch(p)
    BY <1>2 DEF Watch, Unwatch, history
  <1>3. CASE \E u \in Users : Sync(u)
    BY <1>3 DEF Sync, history, Of
  <1>4. CASE StartRun BY <1>4 DEF StartRun, world
  <1>5. CASE RefreshSelf
    BY <1>5, DeleteAssumption DEF RefreshSelf, SaveRows, Forget, Of
  <1>6. CASE RefreshOthers
    BY <1>6, DeleteAssumption DEF RefreshOthers, SaveRows, Forget, Of
  <1>7. CASE UpdateTags BY <1>7 DEF UpdateTags
  <1>8. CASE \E c \in Contents : Delete(c) BY <1>8 DEF Delete
  <1>9. ASSUME \/ \E c \in Contents : Shield(c) \/ Unshield(c) \/ Approve(c) \/ Add(c) \/ Monitor(c)
               \/ RefreshFails \/ ReadWatchlists \/ LoadTracked \/ LoadProtection \/ SafetyCheck
               \/ AllProcessed \/ CleanupOrphans \/ CleanupDeleted \/ CleanupRolling \/ Crash
               \/ UNCHANGED vars
        PROVE  UNCHANGED <<wants, rows, held, due>>
    BY <1>9 DEF Shield, Unshield, Approve, Add, Monitor, RefreshFails, ReadWatchlists,
                LoadTracked, LoadProtection, SafetyCheck, AllProcessed, CleanupOrphans,
                CleanupDeleted, CleanupRolling, Remove, Crash, vars, world, history
  <1> QED BY <1>1, <1>2, <1>3, <1>4, <1>5, <1>6, <1>7, <1>8, <1>9 DEF Next, RunStep

LEMMA DueUnmarkedKept ==
    ASSUME TypeOK, Known, DueUnmarked, [Next]_vars
    PROVE  DueUnmarked'
PROOF
  <1> USE DEF DueUnmarked
  <1>1. CASE UNCHANGED tag /\ due' \subseteq due BY <1>1
  <1>2. CASE UpdateTags
    <2>1. ASSUME NEW done \in SUBSET run.lib,
                 tag' = [c \in Contents |-> IF c \in done THEN NewTag(c) ELSE tag[c]],
                 due' = due \cup {p \in wants \cap rows : p[2] \in done}
          PROVE  DueUnmarked'
      <3> SUFFICES ASSUME NEW p \in due' PROVE tag'[p[2]] # "removed"
        OBVIOUS
      <3>1. p[2] \in Contents /\ p[2] \in WatchedIn(rows)
        BY <2>1 DEF Known, TypeOK, Pairs, WatchedIn
      <3>2. p \in due \/ p[2] \in done BY <2>1
      <3> QED BY <2>1, <3>1, <3>2 DEF NewTag
    <2>2. CASE UNCHANGED <<tag, due>> BY <1>1, <2>2
    <2> QED BY <1>2, <2>1, <2>2 DEF UpdateTags
  <1>3. ASSUME NEW c \in Contents, Delete(c) PROVE DueUnmarked'
    <2>1. /\ due' \subseteq due
          /\ \A d \in Contents : tag'[d] \in {tag[d], "none"}
      BY <1>3 DEF Delete, TypeOK
    <2>2. \A p \in due : p[2] \in Contents BY DEF TypeOK, Pairs
    <2> QED BY <2>1, <2>2
  <1>4. ASSUME Elsewhere \/ UNCHANGED vars \/ StartRun \/ RefreshSelf \/ RefreshOthers
        PROVE  UNCHANGED tag /\ due' \subseteq due
    BY <1>4 DEF Elsewhere, Watch, Unwatch, Shield, Unshield, Approve, Add, Monitor, Sync,
                StartRun, RefreshSelf, RefreshOthers, Forget, vars, world, history
  <1>5. ASSUME \/ RefreshFails \/ ReadWatchlists \/ LoadTracked \/ LoadProtection \/ SafetyCheck
               \/ AllProcessed \/ CleanupOrphans \/ CleanupDeleted \/ CleanupRolling \/ Crash
        PROVE  UNCHANGED <<tag, due>>
    BY <1>5 DEF RefreshFails, ReadWatchlists, LoadTracked, LoadProtection, SafetyCheck,
                AllProcessed, CleanupOrphans, CleanupDeleted, CleanupRolling, Remove, Crash,
                world, history
  <1> QED BY <1>1, <1>2, <1>3, <1>4, <1>5 DEF Next, RunStep, Elsewhere

LEMMA ConfigStays == [Next]_vars => UNCHANGED config
BY ElsewhereLeavesRun
   DEF Next, RunStep, Elsewhere, vars, Crash, StartRun, RefreshSelf, RefreshOthers,
       RefreshFails, UpdateTags, ReadWatchlists, LoadTracked, LoadProtection, SafetyCheck,
       Delete, AllProcessed, CleanupOrphans, CleanupDeleted, CleanupRolling, Remove

\* What the check chooses is nothing the run must respect.
LEMMA CandidatesSpared ==
    ASSUME TypeOK, run.at = "check", HeldSpared, KeptSpared
    PROVE  Candidates \cap WatchedIn(held) = {} /\ Candidates \cap kept = {}
BY DEF HeldSpared, KeptSpared, Candidates

LEMMA HeldSparedKept ==
    ASSUME TypeOK, NothingYet, Known, DueUnmarked, HeldSpared, KeptSpared, [Next]_vars
    PROVE  HeldSpared'
PROOF
  <1> USE DEF Doomed
  <1>1. TagMode' = TagMode BY ConfigStays DEF TagMode
  <1>2. ASSUME UNCHANGED run, held' \subseteq held PROVE HeldSpared'
    BY <1>1, <1>2 DEF HeldSpared, WatchedIn
  <1>3. ASSUME Stops, held' = held PROVE HeldSpared'
    BY <1>1, <1>3 DEF Stops, Ends, CutShort, HeldSpared
  <1>4. CASE Elsewhere \/ UNCHANGED vars
    <2>1. UNCHANGED run BY <1>4, ElsewhereLeavesRun DEF vars
    <2>2. held' \subseteq held
      BY <1>4 DEF Elsewhere, Watch, Unwatch, Shield, Unshield, Approve, Add, Monitor, Sync,
                  vars, history
    <2> QED BY <1>2, <2>1, <2>2
  <1>5. CASE StartRun
    <2>1. /\ run'.at = "refresh" /\ run'.todo = {} /\ run'.deleted = {}
          /\ run'.marked = {c \in library : tag[c] = "removed"}
      BY <1>5 DEF StartRun, NoRun
    <2>2. TagMode => held' = due BY <1>5 DEF StartRun
    <2> QED BY <1>1, <2>1, <2>2 DEF HeldSpared, WatchedIn, DueUnmarked
  <1>6. CASE RefreshSelf \/ RefreshOthers
    <2>1. held' \subseteq held BY <1>6 DEF RefreshSelf, RefreshOthers, Forget
    <2>2. /\ run'.at \in {"refresh", "tags", "guids"}
          /\ run'.at = "tags" => TagMode
          /\ run'.marked = run.marked /\ run'.todo = run.todo /\ run'.deleted = run.deleted
      BY <1>6, RunTyped DEF RefreshSelf, RefreshOthers, SaveRows, Refreshed, Runs
    <2> QED BY <1>1, <2>1, <2>2 DEF HeldSpared, WatchedIn
  <1>7. CASE UpdateTags
    <2>1. CASE run' = [run EXCEPT !.at = "tracked"]
      <3>1. /\ run.at = "tags" /\ run'.at = "tracked" /\ run'.marked = run.marked
            /\ run'.todo = run.todo /\ run'.deleted = run.deleted /\ held' = held
        BY <1>7, <2>1, RunTyped DEF UpdateTags, Runs
      <3> QED BY <1>1, <3>1 DEF HeldSpared
    <2> QED BY <1>3, <1>7, <2>1, NoRunEnds DEF UpdateTags, Stops
  <1>8. CASE ReadWatchlists
    <2>1. WatchedIn(held) \subseteq WatchedIn(rows) BY DEF Known, WatchedIn
    <2>2. CASE run' = [run EXCEPT !.at = "tracked", !.guids = WatchedIn(rows)]
      <3>1. /\ run'.at = "tracked" /\ run'.marked = run.marked /\ run'.guids = WatchedIn(rows)
            /\ run'.todo = run.todo /\ run'.deleted = run.deleted /\ held' = held
        BY <1>8, <2>2, RunTyped DEF ReadWatchlists, history, Runs
      <3> QED BY <1>1, <2>1, <3>1 DEF HeldSpared
    <2> QED BY <1>3, <1>8, <2>2, NoRunEnds DEF ReadWatchlists, Stops, history
  <1>9. CASE LoadTracked \/ LoadProtection
    BY <1>1, <1>3, <1>9, AbortStops, RunTyped DEF LoadTracked, LoadProtection, HeldSpared,
                                                  history, Runs
  <1>10. CASE SafetyCheck
    <2>1. ASSUME NEW unread, run' = [run EXCEPT !.at = "delete", !.todo = Candidates, !.blind = unread]
          PROVE  HeldSpared'
      BY <1>1, <1>10, <2>1, CandidatesSpared, RunTyped DEF SafetyCheck, HeldSpared, history, Runs
    <2> QED BY <1>3, <1>10, <2>1, AbortStops DEF SafetyCheck, history
  <1>11. CASE (\E c \in Contents : Delete(c)) \/ AllProcessed
    <2>1. /\ run'.at \in {"delete", "orphans"} /\ run'.marked = run.marked /\ held' = held
          /\ run'.todo \cup run'.deleted \subseteq run.todo \cup run.deleted
      BY <1>11, DeletionShrinks DEF Delete, AllProcessed, history, Doomed
    <2> QED BY <1>1, <2>1 DEF HeldSpared
  <1>12. CASE CleanupOrphans \/ CleanupDeleted
    BY <1>1, <1>12, RunTyped DEF CleanupOrphans, CleanupDeleted, Remove, HeldSpared, history,
                                 Runs
  <1>13. CASE RefreshFails \/ CleanupRolling \/ Crash
    BY <1>3, <1>13, NoRunEnds DEF RefreshFails, CleanupRolling, Crash, Stops, history
  <1> QED BY <1>4, <1>5, <1>6, <1>7, <1>8, <1>9, <1>10, <1>11, <1>12, <1>13
          DEF Next, RunStep, Elsewhere

-----------------------------------------------------------------------------
(* What is protected stays.                                                *)

LEMMA KeptSparedKept ==
    ASSUME TypeOK, NothingYet, HeldSpared, KeptSpared, [Next]_vars
    PROVE  KeptSpared'
PROOF
  <1> USE DEF Doomed
  <1>1. ASSUME UNCHANGED <<run, shielded>>, kept' = kept PROVE KeptSpared'
    BY <1>1 DEF KeptSpared
  <1>2. ASSUME Stops, kept' = kept, shielded' = shielded PROVE KeptSpared'
    BY <1>2 DEF Stops, Ends, CutShort, KeptSpared
  <1>3. CASE Elsewhere \/ UNCHANGED vars
    <2>1. UNCHANGED run BY <1>3, ElsewhereLeavesRun DEF vars
    <2>2. CASE \E c \in Contents : Shield(c) \/ Unshield(c)
      BY <2>1, <2>2 DEF Shield, Unshield, KeptSpared, history
    <2>3. \/ \E c \in Contents : Shield(c) \/ Unshield(c)
          \/ UNCHANGED <<kept, shielded>>
      BY <1>3 DEF Elsewhere, Watch, Unwatch, Approve, Add, Monitor, Sync, vars, world, history
    <2> QED BY <1>1, <2>1, <2>2, <2>3
  <1>4. CASE StartRun BY <1>4 DEF StartRun, NoRun, KeptSpared, world
  <1>5. CASE RefreshSelf \/ RefreshOthers
    <2>1. /\ run'.at \in {"refresh", "tags", "guids"}
          /\ run'.todo = run.todo /\ run'.deleted = run.deleted
      BY <1>5, RunTyped DEF RefreshSelf, RefreshOthers, SaveRows, Refreshed, Runs
    <2> QED BY <1>5, <2>1 DEF RefreshSelf, RefreshOthers, KeptSpared
  <1>6. CASE UpdateTags \/ ReadWatchlists \/ LoadTracked
    BY <1>2, <1>6, NoRunEnds, AbortStops, RunTyped
       DEF UpdateTags, ReadWatchlists, LoadTracked, KeptSpared, Stops, world, history, Runs
  <1>7. CASE LoadProtection
    BY <1>2, <1>7, AbortStops, RunTyped DEF LoadProtection, KeptSpared, world, Runs
  <1>8. CASE SafetyCheck
    <2>1. ASSUME NEW unread, run' = [run EXCEPT !.at = "delete", !.todo = Candidates, !.blind = unread]
          PROVE  KeptSpared'
      BY <1>8, <2>1, CandidatesSpared, RunTyped DEF SafetyCheck, KeptSpared, world, history, Runs
    <2> QED BY <1>2, <1>8, <2>1, AbortStops DEF SafetyCheck, world, history
  <1>9. CASE (\E c \in Contents : Delete(c)) \/ AllProcessed
    <2>1. /\ run'.at \in {"delete", "orphans"} /\ kept' = kept /\ shielded' = shielded
          /\ run'.todo \cup run'.deleted \subseteq run.todo \cup run.deleted
      BY <1>9, DeletionShrinks DEF Delete, AllProcessed, world, history, Doomed
    <2> QED BY <2>1 DEF KeptSpared
  <1>10. CASE CleanupOrphans \/ CleanupDeleted
    BY <1>10, RunTyped DEF CleanupOrphans, CleanupDeleted, Remove, KeptSpared, history, Runs
  <1>11. CASE RefreshFails \/ CleanupRolling \/ Crash
    BY <1>2, <1>11, NoRunEnds DEF RefreshFails, CleanupRolling, Crash, Stops, world, history
  <1> QED BY <1>3, <1>4, <1>5, <1>6, <1>7, <1>8, <1>9, <1>10, <1>11
          DEF Next, RunStep, Elsewhere

-----------------------------------------------------------------------------
(* Records and rolling rows follow the library.                            *)

LEMMA LibraryKnownKept ==
    ASSUME TypeOK, NothingYet, LibraryKnown, [Next]_vars
    PROVE  LibraryKnown'
PROOF
  <1>1. ASSUME UNCHANGED <<library, fresh>>, run'.lib = run.lib, run'.deleted = run.deleted,
               run.at # "idle"
        PROVE  LibraryKnown'
    BY <1>1 DEF LibraryKnown
  <1>2. ASSUME Ends PROVE LibraryKnown'
    BY <1>2 DEF Ends, LibraryKnown
  <1>3. CASE Elsewhere \/ UNCHANGED vars
    <2>1. UNCHANGED run BY <1>3, ElsewhereLeavesRun DEF vars
    <2>2. \/ UNCHANGED <<library, fresh>>
          \/ \E c \in Contents : library' = library \cup {c} /\ fresh' = fresh \cup {c}
      BY <1>3 DEF Elsewhere, Watch, Unwatch, Shield, Unshield, Approve, Add, Monitor, Sync, vars,
                  world, history
    <2> QED BY <2>1, <2>2 DEF LibraryKnown
  <1>4. CASE StartRun BY <1>4 DEF StartRun, NoRun, LibraryKnown, world
  <1>5. CASE RefreshSelf \/ RefreshOthers
    BY <1>1, <1>5, RunTyped DEF RefreshSelf, RefreshOthers, SaveRows, Refreshed, Runs
  <1>6. CASE UpdateTags \/ ReadWatchlists \/ LoadTracked \/ LoadProtection \/ SafetyCheck
    <2>1. UNCHANGED <<library, fresh>> /\ run.at # "idle"
      BY <1>6 DEF UpdateTags, ReadWatchlists, LoadTracked, LoadProtection, SafetyCheck, world,
                  history
    <2>2. Stops \/ (run'.lib = run.lib /\ run'.deleted = run.deleted)
      BY <1>6, NoRunEnds, AbortStops, RunTyped
         DEF UpdateTags, ReadWatchlists, LoadTracked, LoadProtection, SafetyCheck, Stops, Runs
    <2> QED BY <1>1, <1>2, <2>1, <2>2 DEF Stops, CutShort
  <1>7. ASSUME NEW c \in Contents, Delete(c) PROVE LibraryKnown'
    <2>1. run'.lib = run.lib /\ run.at # "idle" /\ fresh' = fresh
      BY <1>7, RunTyped DEF Delete, Runs
    <2>2. \/ library' = library \ {c} /\ run'.deleted = run.deleted \cup {c}
          \/ library' = library /\ run'.deleted = run.deleted
      BY <1>7, RunTyped DEF Delete, Runs
    <2> QED BY <2>1, <2>2 DEF LibraryKnown
  <1>8. CASE AllProcessed \/ CleanupOrphans \/ CleanupDeleted
    BY <1>1, <1>8, RunTyped DEF AllProcessed, CleanupOrphans, CleanupDeleted, Remove, world,
                                history, Runs
  <1>9. CASE RefreshFails \/ CleanupRolling \/ Crash
    BY <1>2, <1>9, NoRunEnds DEF RefreshFails, CleanupRolling, Crash
  <1> QED BY <1>3, <1>4, <1>5, <1>6, <1>7, <1>8, <1>9 DEF Next, RunStep, Elsewhere

LEMMA RollingKept ==
    ASSUME TypeOK, NothingYet, RollingRowsFollow, [Next]_vars
    PROVE  RollingRowsFollow'
PROOF
  <1> USE DEF RollingRowsFollow
  <1>1. ASSUME rolling' \ library' \subseteq rolling \ library, leaked' = leaked,
               run'.deleted = run.deleted
        PROVE  RollingRowsFollow'
    BY <1>1
  <1>2. ASSUME run.deleted = {}, UNCHANGED <<rolling, library, leaked>> PROVE RollingRowsFollow'
    BY <1>2
  <1>3. CASE Elsewhere \/ UNCHANGED vars
    <2>1. UNCHANGED run BY <1>3, ElsewhereLeavesRun DEF vars
    <2>2. rolling' \ library' \subseteq rolling \ library /\ leaked' = leaked
      BY <1>3 DEF Elsewhere, Watch, Unwatch, Shield, Unshield, Approve, Add, Monitor, Sync, vars,
                  world, history
    <2> QED BY <1>1, <2>1, <2>2
  <1>4. CASE \/ StartRun \/ RefreshSelf \/ RefreshOthers \/ RefreshFails
             \/ UpdateTags \/ ReadWatchlists \/ LoadTracked \/ LoadProtection \/ SafetyCheck
    <2>1. run.at \in Early
      BY <1>4 DEF StartRun, RefreshSelf, RefreshOthers, RefreshFails, UpdateTags, ReadWatchlists,
                  LoadTracked, LoadProtection, SafetyCheck, Early
    <2>2. UNCHANGED <<rolling, library, leaked>>
      BY <1>4 DEF StartRun, RefreshSelf, RefreshOthers, RefreshFails, UpdateTags, ReadWatchlists,
                  LoadTracked, LoadProtection, SafetyCheck, world, history
    <2> QED BY <1>2, <2>1, <2>2 DEF NothingYet, Doomed
  <1>5. ASSUME NEW c \in Contents, Delete(c) PROVE RollingRowsFollow'
    <2>1. \/ library' = library \ {c} /\ run'.deleted = run.deleted \cup {c}
          \/ library' = library /\ run'.deleted = run.deleted
      BY <1>5, RunTyped DEF Delete, Runs
    <2> QED BY <1>5, <2>1 DEF Delete
  <1>6. CASE AllProcessed \/ CleanupOrphans \/ CleanupDeleted
    BY <1>1, <1>6, RunTyped DEF AllProcessed, CleanupOrphans, CleanupDeleted, Remove, world,
                                history, Runs
  <1>7. CASE CleanupRolling \/ Crash
    BY <1>7, NoRunEnds DEF CleanupRolling, Crash, Ends
  <1> QED BY <1>3, <1>4, <1>5, <1>6, <1>7 DEF Next, RunStep, Elsewhere

-----------------------------------------------------------------------------
(* The limit.                                                              *)

LEMMA FewerFit ==
    ASSUME NEW S, IsFiniteSet(S), NEW T \in SUBSET S, NEW m \in Int,
           ~(Cardinality(S) * 100 > m)
    PROVE  ~(Cardinality(T) * 100 > m)
PROOF
  <1>1. Cardinality(T) <= Cardinality(S) /\ IsFiniteSet(T) BY FS_Subset
  <1>2. Cardinality(S) \in Nat /\ Cardinality(T) \in Nat BY <1>1, FS_CardinalityType
  <1> QED BY <1>1, <1>2

\* Any share of any part of the library is a natural number.
LEMMA ShareTyped ==
    ASSUME NEW L \in SUBSET Contents
    PROVE  Limit * Cardinality(L) \in Nat
PROOF
  <1>1. Cardinality(L) \in Nat BY FS_Subset, FS_CardinalityType, DeleteAssumption
  <1> QED BY <1>1, DeleteAssumption

LEMMA NothingFits ==
    ASSUME NEW L \in SUBSET Contents
    PROVE  ~(Cardinality({}) * 100 > Limit * Cardinality(L))
BY ShareTyped, FS_EmptySet

LEMMA LimitKept ==
    ASSUME TypeOK, TypeOK', NothingYet, NothingYet', DoomedWithinLimit, [Next]_vars
    PROVE  DoomedWithinLimit'
PROOF
  <1>1. run.lib \in SUBSET Contents /\ run'.lib \in SUBSET Contents BY DEF TypeOK
  <1>2. IsFiniteSet(Doomed)
    <2>1. Doomed \in SUBSET Contents BY DEF TypeOK, Doomed
    <2> QED BY <2>1, FS_Subset, DeleteAssumption
  <1>3. ASSUME Doomed' = {} PROVE DoomedWithinLimit'
    <2>1. Doomed' \ run'.blind = {} BY <1>3
    <2> QED BY <1>1, <2>1, NothingFits DEF DoomedWithinLimit, TooMany
  <1>4. ASSUME Doomed' \subseteq Doomed, run'.lib = run.lib, run'.blind = run.blind
        PROVE  DoomedWithinLimit'
    <2>1. Doomed' \ run'.blind \in SUBSET (Doomed \ run.blind) BY <1>4
    <2>2. IsFiniteSet(Doomed \ run.blind) BY <1>2, FS_Subset
    <2>3. Limit * Cardinality(run.lib) \in Int BY <1>1, ShareTyped
    <2>4. ~(Cardinality(Doomed \ run.blind) * 100 > Limit * Cardinality(run.lib))
      BY DEF DoomedWithinLimit, TooMany
    <2>5. ~(Cardinality(Doomed' \ run'.blind) * 100 > Limit * Cardinality(run.lib))
      BY <2>1, <2>2, <2>3, <2>4, FewerFit
    <2> QED BY <1>4, <2>5 DEF DoomedWithinLimit, TooMany
  <1>5. CASE Elsewhere \/ UNCHANGED vars
    BY <1>4, <1>5, ElsewhereLeavesRun DEF vars, Doomed
  <1>6. CASE \/ StartRun \/ RefreshSelf \/ RefreshOthers \/ UpdateTags \/ ReadWatchlists
             \/ LoadTracked \/ LoadProtection \/ RefreshFails
    <2>1. run.at \in Early
      BY <1>6 DEF StartRun, RefreshSelf, RefreshOthers, UpdateTags, ReadWatchlists, LoadTracked,
                  LoadProtection, RefreshFails, Early
    <2>2. Stops \/ run'.at \in Early
      BY <1>6, NoRunEnds, AbortStops, RunTyped
         DEF StartRun, RefreshSelf, RefreshOthers, SaveRows, Refreshed, UpdateTags,
             ReadWatchlists, LoadTracked, LoadProtection, RefreshFails, Early, NoRun, Stops, Runs
    <2> QED BY <1>3, <2>1, <2>2 DEF NothingYet, Stops, Ends, CutShort, Doomed
  <1>7. CASE SafetyCheck
    <2>1. Doomed = {} BY <1>7 DEF SafetyCheck, NothingYet, Early
    <2>2. ASSUME NEW unread, ~TooMany(Cardinality(Candidates \ unread)),
                 run' = [run EXCEPT !.at = "delete", !.todo = Candidates, !.blind = unread]
          PROVE  DoomedWithinLimit'
      <3>1. /\ run'.lib = run.lib /\ run'.blind = unread
            /\ run'.todo = Candidates /\ run'.deleted = run.deleted
        BY <2>2, RunTyped DEF Runs
      <3>2. Doomed' \ run'.blind = Candidates \ unread BY <2>1, <3>1 DEF Doomed
      <3> QED BY <2>2, <3>1, <3>2 DEF DoomedWithinLimit, TooMany
    <2>3. CASE Stops BY <1>3, <2>1, <2>3 DEF Stops, Ends, CutShort, Doomed
    <2> QED BY <1>7, <2>2, <2>3, AbortStops DEF SafetyCheck
  <1>8. CASE (\E c \in Contents : Delete(c)) \/ AllProcessed
    BY <1>4, <1>8, DeletionShrinks
  <1>9. CASE CleanupOrphans \/ CleanupDeleted
    BY <1>4, <1>9, RunTyped DEF CleanupOrphans, CleanupDeleted, Remove, Doomed, Runs
  <1>10. CASE CleanupRolling \/ Crash
    BY <1>3, <1>10, NoRunEnds DEF CleanupRolling, Crash, Ends, Doomed
  <1> QED BY <1>5, <1>6, <1>7, <1>8, <1>9, <1>10 DEF Next, RunStep, Elsewhere

-----------------------------------------------------------------------------
(* The theorems.                                                           *)

LEMMA InitSafe == Init => SafetyInv
PROOF
  <1> SUFFICES ASSUME Init PROVE SafetyInv
    OBVIOUS
  <1>1. run = NoRun /\ held = {} /\ kept = {} BY DEF Init
  <1>2. NothingYet /\ HeldSpared /\ KeptSpared /\ LibraryKnown
    BY <1>1 DEF NothingYet, HeldSpared, KeptSpared, LibraryKnown, Doomed, NoRun, WatchedIn, Init
  <1>3. Known BY DEF Known, Init
  <1>4. DueUnmarked
    <2>1. \A p \in due : p[2] \in Contents BY DeleteAssumption DEF Init
    <2> QED BY <2>1 DEF DueUnmarked, Init
  <1>5. DoomedWithinLimit
    <2>1. Doomed \ run.blind = {} /\ run.lib = {} BY <1>1 DEF Doomed, NoRun
    <2> QED BY <2>1, NothingFits DEF DoomedWithinLimit, TooMany
  <1>6. RollingRowsFollow BY DEF RollingRowsFollow, Init
  <1> QED BY <1>2, <1>3, <1>4, <1>5, <1>6 DEF SafetyInv

LEMMA DeleteSafe == Spec => []SafetyInv
PROOF
  <1>1. Init => SafetyInv BY InitSafe
  <1>2. TypeOK /\ TypeOK' /\ SafetyInv /\ [Next]_vars => SafetyInv'
    BY NothingYetKept, KnownKept, DueUnmarkedKept, HeldSparedKept, KeptSparedKept,
       LibraryKnownKept, LimitKept, RollingKept DEF SafetyInv
  <1> QED BY <1>1, <1>2, DeleteTypeCorrect, PTL DEF Spec

\* A run of run() deletes nothing that was watched and known before it began:
\* WatchedIsKept, whatever changes, fails or crashes while it works.
THEOREM WatchedStays == Spec => []WatchedIsKept
PROOF
  <1>1. SafetyInv => WatchedIsKept
    BY DEF SafetyInv, HeldSpared, WatchedIsKept, Doomed
  <1> QED BY <1>1, DeleteSafe, PTL

\* A run deletes nothing that is on a protection playlist since before it began
\* and shown to it: ProtectedIsKept.
THEOREM ProtectedStays == Spec => []ProtectedIsKept
PROOF
  <1>1. SafetyInv => ProtectedIsKept
    BY DEF SafetyInv, KeptSpared, ProtectedIsKept, Doomed
  <1> QED BY <1>1, DeleteSafe, PTL

\* No run deletes more than maxDeletionPrevention percent of the library, but
\* for a kind whose labels the check could not read: WithinLimit, for every
\* library and limit.
THEOREM LimitHolds == Spec => []WithinLimit
PROOF
  <1>1. TypeOK /\ SafetyInv => WithinLimit
    <2> SUFFICES ASSUME TypeOK, SafetyInv PROVE WithinLimit
      OBVIOUS
    <2>1. run.deleted \ run.blind \in SUBSET (Doomed \ run.blind) BY DEF Doomed
    <2>2. IsFiniteSet(Doomed \ run.blind)
      <3>1. Doomed \ run.blind \in SUBSET Contents BY DEF TypeOK, Doomed
      <3> QED BY <3>1, FS_Subset, DeleteAssumption
    <2>3. Limit * Cardinality(run.lib) \in Int BY ShareTyped DEF TypeOK
    <2>4. ~(Cardinality(Doomed \ run.blind) * 100 > Limit * Cardinality(run.lib))
      BY DEF SafetyInv, DoomedWithinLimit, TooMany
    <2> QED BY <2>1, <2>2, <2>3, <2>4, FewerFit DEF WithinLimit, TooMany
  <1> QED BY <1>1, DeleteSafe, DeleteTypeCorrect, PTL

\* A rolling row without its show has a run that will remove it, or one that
\* crashed or failed to: RollingRowsFollow.
THEOREM RollingRowsGo == Spec => []RollingRowsFollow
PROOF
  <1>1. SafetyInv => RollingRowsFollow BY DEF SafetyInv
  <1> QED BY <1>1, DeleteSafe, PTL

\* The two cleanups of approval records never remove the record of content that
\* stays in the library: TrackedWhileKept.
THEOREM RecordsStay == Spec => TrackedWhileKept
PROOF
  <1>1. ASSUME SafetyInv, [Next]_vars
        PROVE  [\A c \in (approved \cap library) \ fresh : c \in approved']_vars
    <2>1. CASE CleanupOrphans
      BY <1>1, <2>1 DEF CleanupOrphans, Remove, Orphans, SafetyInv, LibraryKnown
    <2>2. CASE CleanupDeleted
      BY <1>1, <2>2 DEF CleanupDeleted, Remove, SafetyInv, LibraryKnown
    <2>3. ASSUME ~CleanupOrphans, ~CleanupDeleted, ~UNCHANGED vars
          PROVE  approved \subseteq approved'
      BY <1>1, <2>3
         DEF Next, RunStep, Watch, Unwatch, Shield, Unshield, Approve, Add, Monitor, Sync, Crash,
             StartRun, RefreshSelf, RefreshOthers, RefreshFails, UpdateTags, ReadWatchlists,
             LoadTracked, LoadProtection, SafetyCheck, Delete, AllProcessed, CleanupRolling,
             world, history
    <2> QED BY <2>1, <2>2, <2>3
  <1> QED BY <1>1, DeleteSafe, PTL DEF Spec, TrackedWhileKept
=============================================================================
