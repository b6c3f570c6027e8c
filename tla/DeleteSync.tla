------------------------------ MODULE DeleteSync ------------------------------
(***************************************************************************)
(* The delete sync: one run of delete-sync.service.ts at a time against    *)
(* Plex watchlists, the library held by Sonarr and Radarr, the user tags   *)
(* on it, the approval records and the rolling rows, all of which change   *)
(* while the run works on what it read.  One action per await that reads   *)
(* or writes them.                                                         *)
(*                                                                         *)
(* Both deletion modes are modelled, the tags in removedTagMode            *)
(* "special-tag", with protection playlists and the cleanup of approvals   *)
(* on.  Content stands for its GUIDs; every kind of content may be         *)
(* deleted; there are no exclusions and no dry runs.                       *)
(***************************************************************************)
EXTENDS Integers, FiniteSets

CONSTANTS
    Friends,      \* the users besides the owner of the token
    Owner,
    Contents, Shows,
    Configs,      \* the settings: deletionMode and deleteSyncTrackedOnly
    Limit,        \* maxDeletionPrevention, a percentage
    Wanted,       \* the watchlists at first, in Plex and in the database
    Stocked,      \* the library at first, all of it approved
    MaxChanges,   \* bound: what users and the rest of the process do
    MaxFaults,    \* bound: calls that fail
    MaxCrashes    \* bound: crashes of the process

Users == Friends \cup {Owner}
Pairs == Users \X Contents
Tags == {"none", "user", "removed"}

ASSUME DeleteAssumption ==
    /\ Owner \notin Friends
    /\ Shows \subseteq Contents /\ Stocked \subseteq Contents
    /\ Wanted \subseteq Pairs
    /\ IsFiniteSet(Contents)
    /\ Limit \in 0..100
    /\ Configs \subseteq [mode : {"watchlist", "tag-based"}, trackedOnly : BOOLEAN]
    /\ MaxChanges \in Nat /\ MaxFaults \in Nat /\ MaxCrashes \in Nat

VARIABLES
    config,
    wants,      \* Plex: who has what on a watchlist
    rows,       \* watchlist_items
    shielded,   \* Plex: the content of the protection playlists
    library,    \* what Sonarr and Radarr hold
    routing,    \* content being added to them
    tag,        \* the user tags of the content there
    approved,   \* content with an approved or auto-approved request
    rolling,    \* shows with rolling_monitored_shows rows
    run,        \* DeleteSyncService.run
    held,       \* history: the pairs this run must respect
    due,        \* history: the pairs seen when tags were last updated
    kept,       \* history: content protected ever since the fetch
    fresh,      \* history: content added since the fetch
    leaked,     \* history: deleted shows whose cleanup did not happen
    bounds

world == <<wants, rows, shielded, library, routing, tag, approved, rolling>>
history == <<held, due, kept, fresh, leaked>>
vars == <<config, world, run, history, bounds>>

Stages == {"idle", "refresh", "tags", "guids", "tracked", "shield", "check", "delete",
           "orphans", "cleanup", "rolling"}

NoRun == [at |-> "idle", refresh |-> {}, lib |-> {}, marked |-> {}, tagged |-> {},
          guids |-> {}, tracked |-> {}, shield |-> {}, blind |-> {}, todo |-> {},
          deleted |-> {}, aborted |-> FALSE]

TagMode == config.mode = "tag-based"
Of(pairs, us) == {p \in pairs : p[1] \in us}
WatchedIn(pairs) == {p[2] : p \in pairs}
Kind(c) == IF c \in Shows THEN Shows ELSE Contents \ Shows

Init ==
    /\ config \in Configs
    /\ wants = Wanted /\ rows = Wanted
    /\ shielded = {}
    /\ library = Stocked /\ routing = {}
    /\ tag = [c \in Contents |-> IF c \in Stocked \cap WatchedIn(Wanted) THEN "user" ELSE "none"]
    /\ approved = Stocked
    /\ rolling = Shows \cap Stocked
    /\ run = NoRun
    /\ held = {} /\ due = {p \in Wanted : p[2] \in Stocked}
    /\ kept = {} /\ fresh = {} /\ leaked = {}
    /\ bounds = [changes |-> 0, faults |-> 0, crashes |-> 0]

Change ==
    /\ bounds.changes < MaxChanges
    /\ bounds' = [bounds EXCEPT !.changes = @ + 1]
    /\ UNCHANGED <<config, run>>

Fault ==
    /\ bounds.faults < MaxFaults
    /\ bounds' = [bounds EXCEPT !.faults = @ + 1]

Works == bounds' = bounds

-----------------------------------------------------------------------------
\* What users do in Plex.
Watch(p) ==
    /\ p \notin wants
    /\ wants' = wants \cup {p}
    /\ Change
    /\ UNCHANGED <<rows, shielded, library, routing, tag, approved, rolling, history>>

Unwatch(p) ==
    /\ p \in wants
    /\ wants' = wants \ {p}
    /\ held' = held \ {p} /\ due' = due \ {p}
    /\ Change
    /\ UNCHANGED <<rows, shielded, library, routing, tag, approved, rolling, kept, fresh, leaked>>

Shield(c) ==
    /\ c \notin shielded
    /\ shielded' = shielded \cup {c}
    /\ Change
    /\ UNCHANGED <<wants, rows, library, routing, tag, approved, rolling, history>>

Unshield(c) ==
    /\ c \in shielded
    /\ shielded' = shielded \ {c}
    /\ kept' = kept \ {c}
    /\ Change
    /\ UNCHANGED <<wants, rows, library, routing, tag, approved, rolling, held, due, fresh, leaked>>

\* What the rest of the process does.

\* The watchlist workflow brings the rows of a user up to date.
Sync(u) ==
    /\ rows' = (rows \ Of(rows, {u})) \cup Of(wants, {u})
    /\ rows' # rows
    /\ UNCHANGED <<config, wants, shielded, library, routing, tag, approved, rolling, run,
                   history, bounds>>

\* A request is approved and its content on its way to an instance.
Approve(c) ==
    /\ c \in WatchedIn(rows) /\ c \notin library \cup routing
    /\ approved' = approved \cup {c}
    /\ routing' = routing \cup {c}
    /\ Change
    /\ UNCHANGED <<wants, rows, shielded, library, tag, rolling, history>>

\* The instance takes it, or refuses it and the record stays.
Add(c) ==
    /\ c \in routing
    /\ routing' = routing \ {c}
    /\ \/ Works /\ library' = library \cup {c} /\ fresh' = fresh \cup {c}
       \/ Fault /\ UNCHANGED <<library, fresh>>
    /\ UNCHANGED <<config, wants, rows, shielded, tag, approved, rolling, run, held, due,
                   kept, leaked>>

\* Mutant: any content gets a rolling row.
MonitorAny(c) ==
    /\ c \in library \ rolling
    /\ rolling' = rolling \cup {c}
    /\ Change
    /\ UNCHANGED <<wants, rows, shielded, library, routing, tag, approved, history>>

\* A show of the library is enrolled in rolling monitoring.
Monitor(c) ==
    /\ c \in (Shows \cap library) \ rolling
    /\ rolling' = rolling \cup {c}
    /\ Change
    /\ UNCHANGED <<wants, rows, shielded, library, routing, tag, approved, history>>

Crash ==
    /\ bounds.crashes < MaxCrashes
    /\ run.at # "idle" \/ routing # {}
    /\ bounds' = [bounds EXCEPT !.crashes = @ + 1]
    /\ run' = NoRun
    /\ routing' = {}
    /\ leaked' = leaked \cup run.deleted
    /\ UNCHANGED <<config, wants, rows, shielded, library, tag, approved, rolling, held, due,
                   kept, fresh>>

-----------------------------------------------------------------------------
\* A run starts, unless there is one, and fetches the whole library with its
\* tags.  A fetch that fails ends it with nothing changed.
StartRun ==
    /\ run.at = "idle"
    /\ run' = [NoRun EXCEPT !.at = "refresh", !.refresh = {"self", "others"},
                            !.lib = library,
                            !.marked = {c \in library : tag[c] = "removed"},
                            !.tagged = {c \in library : tag[c] = "user"}]
    /\ held' = IF TagMode THEN due ELSE wants \cap rows
    /\ kept' = shielded
    /\ fresh' = {}
    /\ UNCHANGED <<config, world, due, leaked, bounds>>

\* Safety triggered before processTagBasedDeleteSync: run() returns at once.
Return == run' = [NoRun EXCEPT !.aborted = TRUE]

\* Safety triggered later: in tag mode the cleanups still follow.
Abort == IF TagMode THEN run' = [run EXCEPT !.at = "orphans", !.aborted = TRUE] ELSE Return

Refreshed(part) ==
    LET left == run.refresh \ {part}
    IN run' = [run EXCEPT !.refresh = left,
                          !.at = IF left # {} THEN "refresh"
                                 ELSE IF TagMode THEN "tags" ELSE "guids"]

\* The rows of us become new; those forgotten are removed.
SaveRows(us, new, part) ==
    /\ rows' = (rows \ Of(rows, us)) \cup new
    /\ Refreshed(part)

\* Rows lost to an answer that was taken to be complete.
Forget(lost) == held' = held \ lost /\ due' = due \ lost

\* Mutant: the rows of what is no longer watched stay.
RefreshSelfKeeps ==
    /\ run.at = "refresh" /\ "self" \in run.refresh
    /\ Works
    /\ SaveRows({Owner}, Of(rows \cup wants, {Owner}), "self")
    /\ UNCHANGED <<config, wants, shielded, library, routing, tag, approved, rolling, history>>

\* getSelfWatchlist: the pages, or what came of them together with the rows
\* when a page fails; but pages cut short by the rate limit are taken for all.
RefreshSelf ==
    /\ run.at = "refresh" /\ "self" \in run.refresh
    /\ \E pages \in SUBSET Of(wants, {Owner}) :
         \/ /\ pages = Of(wants, {Owner})
            /\ Works
            /\ SaveRows({Owner}, pages, "self")
            /\ UNCHANGED <<held, due>>
         \/ /\ Fault
            /\ SaveRows({Owner}, Of(rows, {Owner}) \cup pages, "self")
            /\ UNCHANGED <<held, due>>
         \/ /\ pages # Of(wants, {Owner})
            /\ Fault
            /\ SaveRows({Owner}, pages, "self")
            /\ Forget(Of(wants, {Owner}) \ pages)
    /\ UNCHANGED <<config, wants, shielded, library, routing, tag, approved, rolling, kept,
                   fresh, leaked>>

\* Mutant: friends whose watchlists cannot be read have empty ones.
RefreshOthersEmpties ==
    /\ run.at = "refresh" /\ "others" \in run.refresh
    /\ \E read \in SUBSET Friends :
         /\ IF read = Friends THEN Works ELSE Fault
         /\ SaveRows(Friends, Of(wants, read), "others")
    /\ UNCHANGED <<config, wants, shielded, library, routing, tag, approved, rolling, history>>

\* getOthersWatchlists: friends whose watchlists cannot be read are left alone,
\* all of them when there is no list of friends; but one missing from a partial
\* list loses everything.
RefreshOthers ==
    /\ run.at = "refresh" /\ "others" \in run.refresh
    /\ \E read \in SUBSET Friends :
         \/ /\ IF read = Friends THEN Works ELSE Fault
            /\ SaveRows(read, Of(wants, read), "others")
            /\ UNCHANGED <<held, due>>
         \/ /\ read # Friends
            /\ Fault
            /\ SaveRows(Friends, Of(wants, read), "others")
            /\ Forget(Of(wants, Friends \ read))
    /\ UNCHANGED <<config, wants, shielded, library, routing, tag, approved, rolling, kept,
                   fresh, leaked>>

\* All attempts of refreshWatchlists failed.
RefreshFails ==
    /\ run.at = "refresh"
    /\ Fault
    /\ Return
    /\ UNCHANGED <<config, world, history>>

\* updateUserTags: what is watched carries user tags, what is not and was
\* tagged when it was fetched gets the removal tag.  Tagging is best effort;
\* a query that fails ends the run.
NewTag(c) ==
    IF c \in WatchedIn(rows) THEN "user" ELSE IF c \in run.tagged THEN "removed" ELSE tag[c]

UpdateTags ==
    /\ run.at = "tags"
    /\ \/ \E done \in SUBSET run.lib :
            /\ IF done = run.lib THEN Works ELSE Fault
            /\ tag' = [c \in Contents |-> IF c \in done THEN NewTag(c) ELSE tag[c]]
            /\ due' = due \cup {p \in wants \cap rows : p[2] \in done}
            /\ run' = [run EXCEPT !.at = "tracked"]
       \/ Fault /\ Return /\ UNCHANGED <<tag, due>>
    /\ UNCHANGED <<config, wants, rows, shielded, library, routing, approved, rolling, held,
                   kept, fresh, leaked>>

\* getWatchlistGuids; an empty set is taken for an error.
ReadWatchlists ==
    /\ run.at = "guids"
    /\ IF rows = {} THEN Return
       ELSE run' = [run EXCEPT !.at = "tracked", !.guids = WatchedIn(rows)]
    /\ UNCHANGED <<config, world, history, bounds>>

LoadTracked ==
    /\ run.at = "tracked"
    /\ \/ Works /\ run' = [run EXCEPT !.at = "shield", !.tracked = approved]
       \/ config.trackedOnly /\ Fault /\ Abort
    /\ UNCHANGED <<config, world, history>>

\* Mutant: without playlists the run goes on unprotected.
LoadProtectionOpen ==
    /\ run.at = "shield"
    /\ \/ Works /\ run' = [run EXCEPT !.at = "check", !.shield = shielded]
       \/ Fault /\ run' = [run EXCEPT !.at = "check"]
    /\ UNCHANGED <<config, world, history>>

\* getProtectedItems: users and items whose call fails are passed over; only
\* when no playlist can be read does the run stop.
LoadProtection ==
    /\ run.at = "shield"
    /\ \/ \E found \in SUBSET shielded :
            /\ IF found = shielded THEN Works ELSE Fault
            /\ run' = [run EXCEPT !.at = "check", !.shield = found]
            /\ kept' = kept \ (shielded \ found)
       \/ Fault /\ Abort /\ kept' = kept
    /\ UNCHANGED <<config, world, held, due, fresh, leaked>>

Candidates ==
    {c \in run.lib :
        /\ IF TagMode THEN c \in run.marked ELSE c \notin run.guids
        /\ config.trackedOnly => c \in run.tracked
        /\ c \notin run.shield}

TooMany(n) == n * 100 > Limit * Cardinality(run.lib)

\* Mutant: the check counts movies alone.
SafetyCheckMovies ==
    /\ run.at = "check"
    /\ IF TooMany(Cardinality(Candidates \ Shows)) THEN Abort
       ELSE run' = [run EXCEPT !.at = "delete", !.todo = Candidates]
    /\ UNCHANGED <<config, world, history, bounds>>

\* The limit on deletions.  In tag mode the labels are fetched for it, and
\* where that fails nothing seems marked.
SafetyCheck ==
    /\ run.at = "check"
    /\ \E unread \in {{}, Shows, Contents \ Shows} :
         /\ IF unread = {} THEN Works ELSE TagMode /\ Fault
         /\ IF TooMany(Cardinality(Candidates \ unread)) \/ (TagMode /\ run.lib = {})
            THEN Abort
            ELSE run' = [run EXCEPT !.at = "delete", !.todo = Candidates, !.blind = unread]
    /\ UNCHANGED <<config, world, history>>

\* Mutant: an item counts as deleted before the call that deletes it.
DeleteEager(c) ==
    /\ run.at = "delete" /\ c \in run.todo
    /\ run' = [run EXCEPT !.todo = @ \ {c}, !.deleted = @ \cup {c}]
    /\ \/ Works /\ library' = library \ {c} /\ tag' = [tag EXCEPT ![c] = "none"]
       \/ Fault /\ UNCHANGED <<library, tag>>
    /\ UNCHANGED <<config, wants, rows, shielded, routing, approved, rolling, history>>

\* processMovieDeletions, processShowDeletions: one item.  A failure is logged
\* and the loop goes on.
Delete(c) ==
    /\ run.at = "delete" /\ c \in run.todo
    /\ \/ /\ Works
          /\ library' = library \ {c}
          /\ tag' = [tag EXCEPT ![c] = "none"]
          /\ due' = {p \in due : p[2] # c}
          /\ run' = [run EXCEPT !.todo = @ \ {c}, !.deleted = @ \cup {c}]
       \/ /\ Fault
          /\ run' = [run EXCEPT !.todo = @ \ {c}]
          /\ UNCHANGED <<library, tag, due>>
    /\ UNCHANGED <<config, wants, rows, shielded, routing, approved, rolling, held, kept,
                   fresh, leaked>>

AllProcessed ==
    /\ run.at = "delete" /\ run.todo = {}
    /\ run' = [run EXCEPT !.at = "orphans"]
    /\ UNCHANGED <<config, world, history, bounds>>

\* Mutant: nothing is an orphan while there is nothing of some kind.
OrphansBoth ==
    {c \in approved \ run.lib : \A kind \in {Shows, Contents \ Shows} : run.lib \cap kind # {}}

\* Records of content that was not in the library when it was fetched, but for
\* a kind of which there was nothing.
Orphans == {c \in approved \ run.lib : run.lib \cap Kind(c) # {}}

Remove(gone, next) ==
    /\ \E done \in SUBSET gone :
         /\ IF done = gone THEN Works ELSE Fault
         /\ approved' = approved \ done
    /\ run' = [run EXCEPT !.at = next]
    /\ UNCHANGED <<config, wants, rows, shielded, library, routing, tag, rolling, history>>

CleanupOrphans == run.at = "orphans" /\ Remove(Orphans, "cleanup")

\* Mutant: the deleted items are forgotten with their records.
CleanupDeletedForgets ==
    /\ run.at = "cleanup"
    /\ approved' = approved \ run.deleted
    /\ run' = [run EXCEPT !.at = "rolling", !.deleted = {}]
    /\ UNCHANGED <<config, wants, rows, shielded, library, routing, tag, rolling, history, bounds>>

CleanupDeleted == run.at = "cleanup" /\ Remove(approved \cap run.deleted, "rolling")

CleanupRolling ==
    /\ run.at = "rolling"
    /\ \/ Works /\ rolling' = rolling \ run.deleted /\ UNCHANGED leaked
       \/ Fault /\ leaked' = leaked \cup run.deleted /\ UNCHANGED rolling
    /\ run' = NoRun
    /\ UNCHANGED <<config, wants, rows, shielded, library, routing, tag, approved, held, due,
                   kept, fresh>>

RunStep ==
    \/ StartRun
    \/ RefreshSelf \/ RefreshOthers \/ RefreshFails
    \/ UpdateTags \/ ReadWatchlists
    \/ LoadTracked \/ LoadProtection \/ SafetyCheck
    \/ \E c \in Contents : Delete(c)
    \/ AllProcessed
    \/ CleanupOrphans \/ CleanupDeleted \/ CleanupRolling

Next ==
    \/ RunStep
    \/ \E p \in Pairs : Watch(p) \/ Unwatch(p)
    \/ \E c \in Contents : Shield(c) \/ Unshield(c) \/ Approve(c) \/ Add(c) \/ Monitor(c)
    \/ \E u \in Users : Sync(u)
    \/ Crash

Spec == Init /\ [][Next]_vars

\* The job runs the delete sync again and again, each await of it returns, and
\* so does the addition of content.
Fairness ==
    /\ WF_vars(RunStep)
    /\ \A c \in Contents : WF_vars(Add(c))

FairSpec == Spec /\ Fairness

-----------------------------------------------------------------------------
TypeOK ==
    /\ config \in Configs
    /\ wants \subseteq Pairs /\ rows \subseteq Pairs
    /\ shielded \subseteq Contents
    /\ library \subseteq Contents /\ routing \subseteq Contents
    /\ tag \in [Contents -> Tags]
    /\ approved \subseteq Contents
    /\ rolling \subseteq Shows
    /\ run \in [at : Stages, refresh : SUBSET {"self", "others"}, lib : SUBSET Contents,
                marked : SUBSET Contents, tagged : SUBSET Contents, guids : SUBSET Contents,
                tracked : SUBSET Contents, shield : SUBSET Contents, blind : SUBSET Contents,
                todo : SUBSET Contents, deleted : SUBSET Contents, aborted : BOOLEAN]
    /\ held \subseteq Pairs /\ due \subseteq Pairs
    /\ kept \subseteq Contents /\ fresh \subseteq Contents /\ leaked \subseteq Contents
    /\ bounds \in [changes : 0..MaxChanges, faults : 0..MaxFaults, crashes : 0..MaxCrashes]

\* A run deletes nothing that a user has kept on a watchlist, and Pulsarr has
\* known to be there, since before the run began (in tag mode: since the tags
\* were last updated before it began), unless an answer of Plex that was cut
\* short and taken to be complete made it forget.
WatchedIsKept == run.deleted \cap WatchedIn(held) = {}

\* A run deletes nothing that has been on a protection playlist ever since the
\* run began, unless the call that would have shown it failed.
ProtectedIsKept == run.deleted \cap kept = {}

\* A run never deletes more than maxDeletionPrevention percent of the library,
\* not counting a kind whose tags could not be read for the check.
WithinLimit == ~TooMany(Cardinality(run.deleted \ run.blind))

\* A rolling row outlives its show only until the run that deleted the show
\* ends, unless that run crashed or its cleanup failed.
RollingRowsFollow == rolling \ library \subseteq run.deleted \cup leaked

\* Content that has been in the library since before the run keeps the record
\* that lets a later run delete it, also when its own deletion failed.
TrackedWhileKept ==
    [][\A c \in (approved \cap library) \ fresh : c \in approved']_vars

\* Content nobody watches or protects goes in the end, or the limit or an
\* empty set of watchlists stops the runs.
Unwatched(c) ==
    /\ c \in library
    /\ c \notin WatchedIn(wants) \cup shielded
    /\ config.trackedOnly => c \in approved
    /\ TagMode => tag[c] # "none"

UnwatchedGoes == \A c \in Contents : []<>(~Unwatched(c) \/ run.aborted)

\* Records of content that never arrived, or has gone, are removed in the end,
\* while anything of its kind is left.
OrphansGo ==
    \A c \in Contents :
        []<>(c \notin approved \/ c \in library \/ library \cap Kind(c) = {} \/ run.aborted)

=============================================================================
