--------------------------- MODULE WorkflowControl ---------------------------
(***************************************************************************)
(* Starting and stopping the watchlist workflow                            *)
(* (watchlist-workflow.service.ts, watchlist-workflow/lifecycle/), the     *)
(* scheduled reconciliation it keeps in the scheduler                      *)
(* (scheduler.service.ts) and the timer chain of the staggered poller      *)
(* (plex-watchlist/etag/etag-poller.ts).  What a reconciliation or a poll  *)
(* does with watchlists is in WatchlistRouting.                            *)
(*                                                                         *)
(* Starts, stops and runs of the job are calls that interleave at every    *)
(* await.  RSS feeds cannot be generated, so that the workflow polls.      *)
(* toad-scheduler, which is external, does not run a job object while it   *)
(* runs and refuses a second job of one id.                                *)
(***************************************************************************)
EXTENDS Integers

CONSTANTS
    Calls,        \* bound: calls in progress at the same time, as numbers
    Chains,       \* bound: timer chains of the poller, as numbers
    MaxStarts,    \* bound: starts, by an administrator or at boot
    MaxStops,     \* bound: stops by an administrator
    MaxFaults,    \* bound: queries and requests that fail
    MaxCrashes,   \* bound: restarts of the process
    None          \* no call, no chain

ASSUME ControlAssumption ==
    /\ Calls \subseteq Nat /\ Chains \subseteq Nat
    /\ None \notin Calls \cup Chains
    /\ MaxStarts \in Nat /\ MaxStops \in Nat /\ MaxFaults \in Nat /\ MaxCrashes \in Nat

VARIABLES
    status,        \* WatchlistWorkflowService.status
    call,          \* startWorkflow, stop and the job's handler in progress
    reconciling,   \* isReconciling
    row,           \* the schedule in the database: none, disabled, enabled
    job,           \* SchedulerService.jobs: none, a handler only, a job
    busy,          \* the call that the present job object runs
    active,        \* EtagPoller.isStaggeredPollingActive
    timer,         \* EtagPoller.staggeredTimer: the chain that set it last
    chain,         \* where each chain of polls is
    revived,       \* history: chains in an await when the poller was stopped
    cut,           \* history: did a start overlap a stop or another start?
    unscheduled,   \* history: did scheduling the job fail since it last did not?
    bounds

scheduler == <<row, job, busy>>
poller == <<active, timer, chain, revived>>
vars == <<status, call, reconciling, scheduler, poller, cut, unscheduled, bounds>>

NoCall == [kind |-> "none", at |-> "idle", seen |-> "none", had |-> FALSE, failed |-> FALSE]

Init ==
    /\ status = "stopped"
    /\ call = [p \in Calls |-> NoCall]
    /\ reconciling = FALSE
    /\ row = "none" /\ job = "none" /\ busy = None
    /\ active = FALSE /\ timer = None
    /\ chain = [c \in Chains |-> "none"]
    /\ revived = {} /\ cut = FALSE /\ unscheduled = FALSE
    /\ bounds = [starts |-> 0, stops |-> 0, faults |-> 0, crashes |-> 0]

Works == bounds' = bounds
Fault ==
    /\ bounds.faults < MaxFaults
    /\ bounds' = [bounds EXCEPT !.faults = @ + 1]

In(kinds) == {p \in Calls : call[p].kind \in kinds}
Free(p) == call[p] = NoCall /\ \A q \in Calls : call[q] = NoCall => p <= q
Unused(c) == chain[c] = "none" /\ \A d \in Chains : chain[d] = "none" => c <= d

Go(p, at) == call' = [call EXCEPT ![p].at = at]
Done(p) == call' = [call EXCEPT ![p] = NoCall]

\* An object that is replaced or removed no longer keeps its successor from
\* running.
NewJob == job' = "armed" /\ busy' = None
SameJob == UNCHANGED <<job, busy>>

-----------------------------------------------------------------------------
\* The routes of watchlist-workflow.ts.
StartWorkflow(p) ==
    /\ status = "stopped" /\ Free(p)
    /\ bounds.starts < MaxStarts
    /\ bounds' = [bounds EXCEPT !.starts = @ + 1]
    /\ status' = "starting"
    /\ call' = [call EXCEPT ![p] = [NoCall EXCEPT !.kind = "start", !.at = "lookup"]]
    /\ cut' = (In({"start", "stop"}) # {})
    /\ UNCHANGED <<reconciling, scheduler, poller, unscheduled>>

Stop(p) ==
    /\ status \in {"running", "starting"} /\ Free(p)
    /\ bounds.stops < MaxStops
    /\ bounds' = [bounds EXCEPT !.stops = @ + 1]
    /\ status' = "stopping"
    /\ call' = [call EXCEPT ![p] = [NoCall EXCEPT !.kind = "stop", !.at = "lookup"]]
    /\ cut' = (cut \/ In({"start"}) # {})
    /\ UNCHANGED <<reconciling, scheduler, poller, unscheduled>>

Live == {c \in Chains : chain[c] \in {"timer", "poll"}}

\* Mutant: the timer keeps running.
StopPollingKeepsTimer ==
    /\ active' = FALSE
    /\ timer' = None
    /\ revived' = {c \in Live : chain[c] # "timer"}
    /\ UNCHANGED chain

\* stopStaggeredPolling: the last timer is cleared.
StopPolling ==
    LET cleared == {c \in Chains : c = timer /\ chain[c] = "timer"}
    IN /\ active' = FALSE
       /\ timer' = None
       /\ chain' = [c \in Chains |-> IF c \in cleared THEN "none" ELSE chain[c]]
       /\ revived' = Live \ cleared

\* After cleanupExistingManualSync a start goes on, and a stop ends.
CleanedUp(p) ==
    \/ call[p].kind = "start" /\ Go(p, "ping") /\ UNCHANGED <<status, poller>>
    \/ call[p].kind = "stop" /\ Done(p) /\ status' = "stopped" /\ StopPolling

\* cleanupExistingManualSync: a schedule is unscheduled and deleted; errors are
\* logged.
Lookup(p) ==
    /\ call[p].at = "lookup"
    /\ \/ Works /\ row # "none"
          /\ job' = "none" /\ busy' = None
          /\ Go(p, "delete")
          /\ UNCHANGED <<status, poller>>
       \/ (IF row = "none" THEN Works ELSE Fault) /\ CleanedUp(p) /\ SameJob
    /\ UNCHANGED <<reconciling, row, cut, unscheduled>>

Delete(p) ==
    /\ call[p].at = "delete"
    /\ \/ Works /\ row' = "none"
       \/ Fault /\ row' = row
    /\ CleanedUp(p)
    /\ UNCHANGED <<reconciling, job, busy, cut, unscheduled>>

StartFails(p) == Done(p) /\ status' = "stopped"

\* pingPlex; then scheduleJob registers the handler.
Ping(p) ==
    /\ call[p].at = "ping"
    /\ \/ /\ Works
          /\ job' = IF job = "none" THEN "idle" ELSE job
          /\ call' = [call EXCEPT ![p].at = "row", ![p].had = (job # "none")]
          /\ status' = status
       \/ Fault /\ StartFails(p) /\ job' = job
    /\ UNCHANGED <<reconciling, row, busy, poller, cut, unscheduled>>

\* A job that was there is replaced; one that came meanwhile stays.
Arm(p) ==
    /\ IF call[p].had \/ job # "armed" THEN NewJob ELSE SameJob
    /\ Go(p, "baselines")

\* scheduleJob: the schedule is read, or made and read.  A read that fails
\* looks like no row; an insert that fails ends scheduleJob.
ReadRow(p) ==
    /\ call[p].at = "row"
    /\ \/ (IF row = "none" THEN Works ELSE Fault) /\ Go(p, "create") /\ SameJob
       \/ Works /\ row = "off" /\ Go(p, "baselines") /\ SameJob
       \/ Works /\ row = "on" /\ Arm(p)
    /\ UNCHANGED <<status, reconciling, row, poller, cut, unscheduled>>

CreateRow(p) ==
    /\ call[p].at = "create"
    /\ \/ Works /\ row = "none" /\ row' = "on" /\ Go(p, "created") /\ UNCHANGED unscheduled
       \/ Works /\ row # "none" /\ row' = row /\ Go(p, "baselines") /\ UNCHANGED unscheduled
       \/ Fault /\ row' = row /\ Go(p, "baselines") /\ unscheduled' = TRUE
    /\ UNCHANGED <<status, reconciling, job, busy, poller, cut>>

ReadCreated(p) ==
    /\ call[p].at = "created"
    /\ \/ Works /\ row = "on" /\ Arm(p)
       \/ (IF row = "on" THEN Fault ELSE Works) /\ Go(p, "baselines") /\ SameJob
    /\ UNCHANGED <<status, reconciling, row, poller, cut, unscheduled>>

\* reconcile: a call that finds another one waits.  It looks at a copy of the
\* flag (watchlist-workflow.service.ts:466), so that only the timeout ends it.
Reconcile(p) ==
    IF reconciling THEN Go(p, "wait") /\ UNCHANGED reconciling
    ELSE Go(p, "work") /\ reconciling' = TRUE

\* The first baselines; the query for the primary user may fail.
Baselines(p) ==
    /\ call[p].at = "baselines"
    /\ \/ Works /\ Reconcile(p) /\ status' = status
       \/ Fault /\ StartFails(p) /\ UNCHANGED reconciling
    /\ UNCHANGED <<scheduler, poller, cut, unscheduled>>

WaitTimesOut(p) ==
    /\ call[p].at = "wait"
    /\ Go(p, "work") /\ reconciling' = TRUE
    /\ UNCHANGED <<status, scheduler, poller, cut, unscheduled, bounds>>

Work(p) ==
    /\ call[p].at = "work"
    /\ \/ Works /\ Go(p, "read")
       \/ Fault /\ call' = [call EXCEPT ![p].at = "read", ![p].failed = TRUE]
    /\ reconciling' = FALSE
    /\ UNCHANGED <<status, scheduler, poller, cut, unscheduled>>

-----------------------------------------------------------------------------
\* schedulePendingReconciliation: updateJobSchedule(name, config, true), whose
\* result nobody looks at.

\* The handler of the job schedules once more after an error.  A start is over:
\* it fails, or the poller is launched.
Scheduled(p) ==
    \/ /\ call[p].kind = "tick" /\ call[p].failed
       /\ call' = [call EXCEPT ![p].at = "read", ![p].failed = FALSE]
       /\ UNCHANGED <<status, chain>>
    \/ /\ call[p].kind = "tick" /\ ~call[p].failed
       /\ Done(p)
       /\ UNCHANGED <<status, chain>>
    \/ /\ call[p].kind = "start" /\ call[p].failed
       /\ StartFails(p)
       /\ UNCHANGED chain
    \/ /\ call[p].kind = "start" /\ ~call[p].failed
       /\ Done(p)
       /\ status' = "running"
       /\ \E c \in Chains : Unused(c) /\ chain' = [chain EXCEPT ![c] = "launch"]

\* Mutant: an object that has run counts as running.
FreedNever(p) == busy' = busy

\* The job object is free again when its run is over.
Freed(p) == busy' = IF busy = p /\ call'[p] = NoCall THEN None ELSE busy

NotScheduled(p) == Fault /\ Scheduled(p) /\ unscheduled' = TRUE

ScheduleRead(p) ==
    /\ call[p].at = "read"
    /\ \/ /\ Works /\ row # "none"
          /\ call' = [call EXCEPT ![p].at = "write", ![p].seen = row]
          /\ UNCHANGED <<status, chain, unscheduled>>
       \/ Works /\ row = "none" /\ Scheduled(p) /\ UNCHANGED unscheduled
       \/ NotScheduled(p)
    /\ Freed(p)
    /\ UNCHANGED <<reconciling, row, job, active, timer, revived, cut>>

\* Whether the row was updated is not looked at.
ScheduleWrite(p) ==
    /\ call[p].at = "write"
    /\ \/ Works /\ row' = IF row = "none" THEN row ELSE "on"
       \/ Fault /\ row' = row
    /\ \/ job # "none" /\ Go(p, "arm") /\ UNCHANGED <<status, chain>>
       \/ job = "none" /\ Scheduled(p)
    /\ Freed(p)
    /\ UNCHANGED <<reconciling, job, active, timer, revived, cut, unscheduled>>

\* Mutant: a disabled job stays disabled.
ScheduleArmEnabled(p) ==
    /\ call[p].at = "arm"
    /\ Scheduled(p)
    /\ Works
    /\ IF row # "none" /\ call[p].seen = "on" THEN NewJob ELSE Freed(p) /\ job' = job
    /\ unscheduled' = (unscheduled /\ row = "none")
    /\ UNCHANGED <<reconciling, row, active, timer, revived, cut>>

\* A job that was enabled is replaced; one that was disabled is added, unless
\* somebody else has added it.
ScheduleArm(p) ==
    /\ call[p].at = "arm"
    /\ \/ /\ Works /\ Scheduled(p)
          /\ \/ /\ row # "none" /\ (call[p].seen = "on" \/ job # "armed")
                /\ NewJob
             \/ /\ row = "none" \/ (call[p].seen = "off" /\ job = "armed")
                /\ Freed(p) /\ job' = job
          /\ unscheduled' = (unscheduled /\ row = "none")
       \/ NotScheduled(p) /\ Freed(p) /\ job' = job
    /\ UNCHANGED <<reconciling, row, active, timer, revived, cut>>

-----------------------------------------------------------------------------
\* The job fires: nothing happens unless the workflow is running.
Tick(p) ==
    /\ job = "armed" /\ busy = None
    /\ status = "running" /\ Free(p)
    /\ busy' = p
    /\ call' = [call EXCEPT ![p] = [NoCall EXCEPT !.kind = "tick", !.at = "unread"]]
    /\ UNCHANGED <<status, reconciling, row, job, poller, cut, unscheduled, bounds>>

\* unschedulePendingReconciliation: updateJobSchedule(name, null, false); the
\* reconciliation follows whether it succeeds or not.
UnscheduleRead(p) ==
    /\ call[p].at = "unread"
    /\ \/ /\ Works /\ row # "none"
          /\ call' = [call EXCEPT ![p].at = "unwrite", ![p].seen = row]
          /\ UNCHANGED reconciling
       \/ (IF row = "none" THEN Works ELSE Fault) /\ Reconcile(p)
    /\ UNCHANGED <<status, scheduler, poller, cut, unscheduled>>

UnscheduleWrite(p) ==
    /\ call[p].at = "unwrite"
    /\ \/ Works /\ row' = IF row = "none" THEN row ELSE "off"
       \/ Fault /\ row' = row
    /\ IF job # "none" /\ call[p].seen = "on" THEN job' = "idle" /\ busy' = None
       ELSE SameJob
    /\ Reconcile(p)
    /\ UNCHANGED <<status, poller, cut, unscheduled>>

CallStep(p) ==
    \/ Lookup(p) \/ Delete(p) \/ Ping(p)
    \/ ReadRow(p) \/ CreateRow(p) \/ ReadCreated(p)
    \/ Baselines(p) \/ WaitTimesOut(p) \/ Work(p)
    \/ ScheduleRead(p) \/ ScheduleWrite(p) \/ ScheduleArm(p)
    \/ UnscheduleRead(p) \/ UnscheduleWrite(p)

-----------------------------------------------------------------------------
\* startStaggeredPolling, with the users or without.
Launched(c) ==
    /\ chain[c] = "launch"
    /\ \/ Works /\ ~active /\ active' = TRUE /\ chain' = [chain EXCEPT ![c] = "poll"]
       \/ (IF active THEN Works ELSE Fault) /\ chain' = [chain EXCEPT ![c] = "none"]
          /\ active' = active
    /\ UNCHANGED <<status, call, reconciling, scheduler, timer, revived, cut, unscheduled>>

\* pollNextUser begins, unless the poller was stopped.
TimerFires(c) ==
    /\ chain[c] = "timer"
    /\ chain' = [chain EXCEPT ![c] = IF active THEN "poll" ELSE "none"]
    /\ revived' = IF active THEN revived ELSE revived \ {c}
    /\ UNCHANGED <<status, call, reconciling, scheduler, active, timer, cut, unscheduled, bounds>>

\* The user is polled and the friends refreshed if the cycle is over; then the
\* chain goes on, or ends because the poller is not active.
Polled(c) ==
    /\ chain[c] = "poll"
    /\ chain' = [chain EXCEPT ![c] = IF active THEN "timer" ELSE "none"]
    /\ timer' = IF active THEN c ELSE timer
    /\ revived' = IF active THEN revived ELSE revived \ {c}
    /\ UNCHANGED <<status, call, reconciling, scheduler, active, cut, unscheduled, bounds>>

ChainStep(c) == Launched(c) \/ TimerFires(c) \/ Polled(c)

\* The process restarts; the schedule stays in the database.
Crash ==
    /\ status # "stopped" /\ bounds.crashes < MaxCrashes
    /\ bounds' = [bounds EXCEPT !.crashes = @ + 1]
    /\ status' = "stopped"
    /\ call' = [p \in Calls |-> NoCall]
    /\ reconciling' = FALSE
    /\ job' = "none" /\ busy' = None
    /\ active' = FALSE /\ timer' = None
    /\ chain' = [c \in Chains |-> "none"]
    /\ revived' = {} /\ cut' = FALSE /\ unscheduled' = FALSE
    /\ UNCHANGED row

Next ==
    \/ \E p \in Calls : StartWorkflow(p) \/ Stop(p) \/ Tick(p) \/ CallStep(p)
    \/ \E c \in Chains : ChainStep(c)
    \/ Crash

Spec == Init /\ [][Next]_vars

\* Queries and requests return, waits time out, and the scheduler runs the job
\* when its time has come.  Nobody has to start or stop anything.
Fairness ==
    /\ \A p \in Calls : WF_vars(CallStep(p))
    /\ WF_vars(\E p \in Calls : Tick(p))

FairSpec == Spec /\ Fairness

-----------------------------------------------------------------------------
CallStages == {"idle", "lookup", "delete", "ping", "row", "create", "created", "baselines",
               "wait", "work", "read", "write", "arm", "unread", "unwrite"}

\* Every variable keeps its type, and a call that is over is forgotten.
TypeOK ==
    /\ status \in {"stopped", "starting", "running", "stopping"}
    /\ call \in [Calls -> [kind : {"none", "start", "stop", "tick"}, at : CallStages,
                           seen : {"none", "off", "on"}, had : BOOLEAN, failed : BOOLEAN]]
    /\ \A p \in Calls : call[p].kind = "none" <=> call[p] = NoCall
    /\ reconciling \in BOOLEAN
    /\ row \in {"none", "off", "on"} /\ job \in {"none", "idle", "armed"}
    /\ busy \in Calls \cup {None} /\ (busy # None => call[busy].kind = "tick")
    /\ active \in BOOLEAN /\ timer \in Chains \cup {None}
    /\ chain \in [Chains -> {"none", "launch", "timer", "poll"}]
    /\ revived \subseteq Live
    /\ cut \in BOOLEAN /\ unscheduled \in BOOLEAN
    /\ bounds \in [starts : 0..MaxStarts, stops : 0..MaxStops, faults : 0..MaxFaults,
                   crashes : 0..MaxCrashes]

\* However starts, stops and polls overlap, two chains poll at once only when
\* the poller was stopped during an await of one of them and started again
\* before it returned (startStaggeredPolling: 'already active').
SecondPollerWasRevived ==
    \A c, d \in Live : c # d => {c, d} \cap revived # {}

\* A running workflow reconciles again and again: its job is scheduled on every
\* path, also when runs of the job, stops and starts overlap; not if a start was
\* cut by a stop, or if scheduling failed.
RunningReconciles ==
    []<>(status # "running" \/ cut \/ unscheduled \/ \E p \in Calls : call[p].at = "work")

=============================================================================
