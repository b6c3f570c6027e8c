----------------------- MODULE WorkflowControl_proofs -----------------------
(***************************************************************************)
(* Type correctness, and that a second timer chain of the poller is always *)
(* one revived by a stop and a start: for any number of calls, chains,     *)
(* starts, stops, failures and restarts.                                   *)
(***************************************************************************)
EXTENDS WorkflowControl, TLAPS

-----------------------------------------------------------------------------
(* The poller.  Its variables change in five ways only.                    *)

ChainStages == {"none", "launch", "timer", "poll"}

\* TypeOK's part, and why chains are kept apart: while the poller is stopped
\* every chain is a revived one, and beside those there is at most one.
PollerOk ==
    /\ active \in BOOLEAN /\ timer \in Chains \cup {None}
    /\ chain \in [Chains -> ChainStages]
    /\ revived \subseteq Live
    /\ ~active => Live \subseteq revived
    /\ \A c, d \in Live \ revived : c = d

\* A start that succeeds leaves a chain that is not polling yet.
Launching ==
    /\ \E c \in Chains : chain[c] = "none" /\ chain' = [chain EXCEPT ![c] = "launch"]
    /\ UNCHANGED <<active, timer, revived>>

LEMMA PollerStays ==
    ASSUME PollerOk, UNCHANGED poller
    PROVE  PollerOk'
BY DEF PollerOk, poller, Live

LEMMA LaunchingKeeps ==
    ASSUME PollerOk, Launching
    PROVE  PollerOk'
PROOF
  <1> PICK c \in Chains : chain[c] = "none" /\ chain' = [chain EXCEPT ![c] = "launch"]
    BY DEF Launching
  <1>1. chain' \in [Chains -> ChainStages]
    BY DEF PollerOk, ChainStages
  <1>2. Live' = Live
    BY DEF Live, PollerOk
  <1> QED BY <1>1, <1>2 DEF PollerOk, Launching

\* After stopStaggeredPolling every chain that is left is a revived one.
LEMMA StopPollingKeeps ==
    ASSUME PollerOk, StopPolling
    PROVE  PollerOk'
PROOF
  <1>1. chain' \in [Chains -> ChainStages]
    BY DEF PollerOk, ChainStages, StopPolling
  <1>2. Live' = revived'
    BY DEF Live, PollerOk, StopPolling
  <1> QED BY <1>1, <1>2 DEF PollerOk, StopPolling

LEMMA ChainStepKeeps ==
    ASSUME PollerOk, NEW c \in Chains, ChainStep(c)
    PROVE  PollerOk'
PROOF
  <1>1. CASE Launched(c) /\ chain' = [chain EXCEPT ![c] = "poll"]
    <2>1. ~active /\ active' /\ chain' \in [Chains -> ChainStages] /\ UNCHANGED <<timer, revived>>
      BY <1>1 DEF Launched, PollerOk, ChainStages
    <2>2. Live' = Live \cup {c}
      BY <1>1 DEF Live, PollerOk
    <2> QED BY <2>1, <2>2 DEF PollerOk
  <1>2. CASE Launched(c) /\ chain' = [chain EXCEPT ![c] = "none"]
    <2>1. chain' \in [Chains -> ChainStages] /\ UNCHANGED <<active, timer, revived>>
      BY <1>2 DEF Launched, PollerOk, ChainStages
    <2>2. Live' = Live
      BY <1>2 DEF Launched, Live, PollerOk
    <2> QED BY <2>1, <2>2 DEF PollerOk
  <1>3. CASE TimerFires(c) \/ Polled(c)
    <2>1. chain' \in [Chains -> ChainStages] /\ timer' \in Chains \cup {None} /\ active' = active
      BY <1>3 DEF TimerFires, Polled, PollerOk, ChainStages
    <2>2. c \in Live
      BY <1>3 DEF TimerFires, Polled, Live
    <2>3. CASE active
      <3>1. Live' = Live /\ revived' = revived
        BY <1>3, <2>3, <2>2 DEF TimerFires, Polled, Live, PollerOk
      <3> QED BY <2>1, <3>1 DEF PollerOk
    <2>4. CASE ~active
      <3>1. Live' = Live \ {c} /\ revived' = revived \ {c}
        BY <1>3, <2>4 DEF TimerFires, Polled, Live, PollerOk
      <3> QED BY <2>1, <2>4, <3>1 DEF PollerOk
    <2> QED BY <2>3, <2>4
  <1> QED BY <1>1, <1>2, <1>3 DEF ChainStep, Launched

\* What the calls do to the poller.
LEMMA CallsAndPoller ==
    ASSUME NEW p \in Calls, StartWorkflow(p) \/ Stop(p) \/ Tick(p) \/ CallStep(p)
    PROVE  UNCHANGED poller \/ Launching \/ StopPolling
PROOF
  <1>1. CASE StartWorkflow(p) \/ Stop(p) \/ Tick(p)
    BY <1>1 DEF StartWorkflow, Stop, Tick
  <1>2. CASE Lookup(p) \/ Delete(p)
    BY <1>2 DEF Lookup, Delete, CleanedUp, poller
  <1>3. CASE Ping(p) \/ ReadRow(p) \/ CreateRow(p) \/ ReadCreated(p)
    BY <1>3 DEF Ping, ReadRow, CreateRow, ReadCreated
  <1>4. CASE Baselines(p) \/ WaitTimesOut(p) \/ Work(p)
    BY <1>4 DEF Baselines, WaitTimesOut, Work
  <1>5. CASE ScheduleRead(p) \/ ScheduleWrite(p) \/ ScheduleArm(p)
    <2>1. UNCHANGED <<active, timer, revived>>
      BY <1>5 DEF ScheduleRead, ScheduleWrite, ScheduleArm
    <2>2. UNCHANGED chain \/ Scheduled(p)
      BY <1>5 DEF ScheduleRead, ScheduleWrite, ScheduleArm, NotScheduled
    <2>3. CASE Scheduled(p)
      BY <2>1, <2>3 DEF Scheduled, Launching, poller, Unused
    <2> QED BY <2>1, <2>2, <2>3 DEF poller
  <1>6. CASE UnscheduleRead(p) \/ UnscheduleWrite(p)
    BY <1>6 DEF UnscheduleRead, UnscheduleWrite
  <1> QED BY <1>1, <1>2, <1>3, <1>4, <1>5, <1>6 DEF CallStep

LEMMA InitPoller == Init => PollerOk
BY DEF Init, PollerOk, Live, ChainStages

LEMMA PollerStep == PollerOk /\ [Next]_vars => PollerOk'
PROOF
  <1> SUFFICES ASSUME PollerOk, [Next]_vars PROVE PollerOk'
    OBVIOUS
  <1>1. CASE UNCHANGED vars
    BY <1>1, PollerStays DEF vars
  <1>2. ASSUME NEW p \in Calls, StartWorkflow(p) \/ Stop(p) \/ Tick(p) \/ CallStep(p)
        PROVE  PollerOk'
    BY <1>2, CallsAndPoller, PollerStays, LaunchingKeeps, StopPollingKeeps
  <1>3. ASSUME NEW c \in Chains, ChainStep(c) PROVE PollerOk'
    BY <1>3, ChainStepKeeps
  <1>4. CASE Crash
    BY <1>4 DEF Crash, PollerOk, Live, ChainStages
  <1> QED BY <1>1, <1>2, <1>3, <1>4 DEF Next

\* Two chains poll at once only when one of them was in an await while the
\* poller was stopped and started again, however many starts and stops overlap
\* (stopStaggeredPolling clears the one timer it knows, startStaggeredPolling
\* refuses while active).
THEOREM SecondChainWasRevived == Spec => []SecondPollerWasRevived
PROOF
  <1>1. PollerOk => SecondPollerWasRevived
    BY DEF PollerOk, SecondPollerWasRevived
  <1> QED BY <1>1, InitPoller, PollerStep, PTL DEF Spec

-----------------------------------------------------------------------------
(* Types.  The stages of a call fit its kind.                              *)

CallType == [kind : {"none", "start", "stop", "tick"}, at : CallStages,
             seen : {"none", "off", "on"}, had : BOOLEAN, failed : BOOLEAN]

CallOk(o) ==
    /\ o \in CallType
    /\ o.kind = "none" <=> o = NoCall
    /\ o.at \in {"ping", "row", "create", "created", "baselines"} => o.kind = "start"
    /\ o.at \in {"unread", "unwrite"} => o.kind = "tick"
    /\ o.at # "idle" => o.kind # "none"

CallsOk == call \in [Calls -> CallType] /\ \A p \in Calls : CallOk(call[p])

BoundType == [starts : 0..MaxStarts, stops : 0..MaxStops, faults : 0..MaxFaults,
              crashes : 0..MaxCrashes]

DataOk ==
    /\ status \in {"stopped", "starting", "running", "stopping"}
    /\ reconciling \in BOOLEAN
    /\ row \in {"none", "off", "on"} /\ job \in {"none", "idle", "armed"}
    /\ cut \in BOOLEAN /\ unscheduled \in BOOLEAN
    /\ bounds \in BoundType

\* The job runs a call that is a run of the job.
BusyOk == busy \in Calls \cup {None} /\ (busy # None => call[busy].kind = "tick")

TypeInv == DataOk /\ CallsOk /\ BusyOk /\ PollerOk

LEMMA TypeInvGivesType == TypeInv => TypeOK
BY DEF TypeInv, TypeOK, DataOk, CallsOk, CallOk, BusyOk, PollerOk, BoundType, CallType,
       ChainStages

LEMMA InitType == Init => TypeInv
PROOF
  <1> SUFFICES ASSUME Init PROVE TypeInv
    OBVIOUS
  <1>1. CallOk(NoCall)
    BY DEF CallOk, NoCall, CallType, CallStages
  <1>2. CallsOk
    BY <1>1 DEF Init, CallsOk, CallOk
  <1>3. bounds \in BoundType
    BY ControlAssumption DEF Init, BoundType
  <1> QED BY <1>2, <1>3, InitPoller DEF Init, TypeInv, DataOk, BusyOk

LEMMA FaultCounts ==
    ASSUME bounds \in BoundType, Works \/ Fault
    PROVE  bounds' \in BoundType
BY ControlAssumption DEF Works, Fault, BoundType

\* A call that is replaced by one that is well formed.
LEMMA CallBecomes ==
    ASSUME CallsOk, NEW p \in Calls, NEW o, CallOk(o), call' = [call EXCEPT ![p] = o]
    PROVE  CallsOk'
BY DEF CallsOk, CallOk

\* A call that goes on keeps its kind, so that the job's run stays one.
LEMMA GoesOn ==
    ASSUME CallsOk, NEW p \in Calls, NEW at \in CallStages \ {"idle"}, Go(p, at),
           call[p].kind # "none",
           at \in {"ping", "row", "create", "created", "baselines"} => call[p].kind = "start",
           at \in {"unread", "unwrite"} => call[p].kind = "tick"
    PROVE  CallsOk' /\ \A q \in Calls : call'[q].kind = call[q].kind
PROOF
  <1> DEFINE o == [call[p] EXCEPT !.at = at]
  <1>1. call[p] \in CallType /\ call' = [call EXCEPT ![p] = o]
    BY DEF CallsOk, Go
  <1>2. o \in CallType /\ o.kind = call[p].kind /\ o.at = at
    BY <1>1 DEF CallType
  <1>3. NoCall.kind = "none"
    BY DEF NoCall
  <1>4. CallOk(o)
    BY <1>2, <1>3 DEF CallOk
  <1>5. CallsOk'
    BY <1>1, <1>4, CallBecomes
  <1> QED BY <1>1, <1>2, <1>5 DEF CallsOk

LEMMA Ends ==
    ASSUME CallsOk, NEW p \in Calls, Done(p)
    PROVE  CallsOk' /\ call'[p] = NoCall /\ \A q \in Calls \ {p} : call'[q] = call[q]
PROOF
  <1>1. CallOk(NoCall)
    BY DEF CallOk, NoCall, CallType, CallStages
  <1>2. CallsOk'
    BY <1>1, CallBecomes DEF Done
  <1> QED BY <1>2 DEF CallsOk, Done

\* What a step keeps of the types, the poller's apart.
Typed == DataOk /\ CallsOk /\ BusyOk

\* BusyOk, for a job object that stays or goes and calls that keep their kind.
LEMMA BusyStays ==
    ASSUME BusyOk, busy' \in {busy, None},
           \A q \in Calls : call'[q].kind = call[q].kind
    PROVE  BusyOk'
BY DEF BusyOk

\* And when a call ends that the job does not run.
LEMMA BusyEnds ==
    ASSUME BusyOk, NEW p \in Calls, busy' \in {busy, None}, busy' # p,
           \A q \in Calls \ {p} : call'[q] = call[q]
    PROVE  BusyOk'
BY DEF BusyOk

LEMMA OtherCall ==
    ASSUME BusyOk, NEW p \in Calls, call[p].kind # "tick"
    PROVE  busy # p
BY ControlAssumption DEF BusyOk

LEMMA RoutesTyped ==
    ASSUME Typed, NEW p \in Calls, StartWorkflow(p) \/ Stop(p) \/ Tick(p)
    PROVE  Typed'
PROOF
  <1> USE DEF Typed
  <1>1. call[p] = NoCall /\ busy # p
    BY OtherCall DEF StartWorkflow, Stop, Tick, Free, NoCall
  <1>2. ASSUME NEW k \in {"start", "stop", "tick"}, NEW at \in {"lookup", "unread"},
               at = "unread" => k = "tick",
               call' = [call EXCEPT ![p] = [NoCall EXCEPT !.kind = k, !.at = at]]
        PROVE  CallsOk' /\ call'[p].kind = k /\ \A q \in Calls \ {p} : call'[q] = call[q]
    <2> DEFINE o == [NoCall EXCEPT !.kind = k, !.at = at]
    <2>1. o \in CallType /\ o.kind = k /\ o.at = at
      BY <1>2 DEF NoCall, CallType, CallStages
    <2>2. NoCall.kind = "none"
      BY DEF NoCall
    <2>3. CallOk(o)
      BY <1>2, <2>1, <2>2 DEF CallOk
    <2>4. CallsOk'
      BY <1>2, <2>3, CallBecomes
    <2> QED BY <1>2, <2>1, <2>4 DEF CallsOk
  <1>3. CASE StartWorkflow(p)
    <2>1. CallsOk' /\ \A q \in Calls \ {p} : call'[q] = call[q]
      BY <1>2, <1>3 DEF StartWorkflow
    <2>2. BusyOk'
      BY <1>1, <1>3, <2>1, BusyEnds DEF StartWorkflow, scheduler
    <2>3. bounds' \in BoundType
      BY <1>3, ControlAssumption DEF StartWorkflow, BoundType, DataOk
    <2> QED BY <1>3, <2>1, <2>2, <2>3 DEF StartWorkflow, scheduler, DataOk
  <1>4. CASE Stop(p)
    <2>1. CallsOk' /\ \A q \in Calls \ {p} : call'[q] = call[q]
      BY <1>2, <1>4 DEF Stop
    <2>2. BusyOk'
      BY <1>1, <1>4, <2>1, BusyEnds DEF Stop, scheduler
    <2>3. bounds' \in BoundType
      BY <1>4, ControlAssumption DEF Stop, BoundType, DataOk
    <2> QED BY <1>4, <2>1, <2>2, <2>3 DEF Stop, scheduler, DataOk
  <1>5. CASE Tick(p)
    <2>1. CallsOk' /\ call'[p].kind = "tick"
      BY <1>2, <1>5 DEF Tick
    <2> QED BY <1>5, <2>1 DEF Tick, DataOk, BusyOk
  <1> QED BY <1>3, <1>4, <1>5

LEMMA CleanedUpTyped ==
    ASSUME Typed, NEW p \in Calls, call[p].at \in {"lookup", "delete"}, CleanedUp(p),
           busy' = busy
    PROVE  CallsOk' /\ BusyOk' /\ status' \in {"stopped", "starting", "running", "stopping"}
PROOF
  <1> USE DEF Typed
  <1>1. CASE call[p].kind = "start" /\ Go(p, "ping") /\ UNCHANGED status
    BY <1>1, GoesOn, BusyStays DEF CallStages, DataOk
  <1>2. CASE call[p].kind = "stop" /\ Done(p) /\ status' = "stopped"
    <2>1. busy # p
      BY <1>2, OtherCall
    <2> QED BY <1>2, <2>1, Ends, BusyEnds
  <1> QED BY <1>1, <1>2 DEF CleanedUp

LEMMA CleanupTyped ==
    ASSUME Typed, NEW p \in Calls, Lookup(p) \/ Delete(p)
    PROVE  Typed'
PROOF
  <1> USE DEF Typed
  <1>1. call[p].at \in {"lookup", "delete"}
    BY DEF Lookup, Delete
  <1>2. call[p].kind # "none"
    BY <1>1 DEF CallsOk, CallOk
  <1>3. bounds' \in BoundType
    BY FaultCounts DEF Lookup, Delete, DataOk
  <1>4. CASE Lookup(p) /\ Go(p, "delete") /\ job' = "none" /\ busy' = None /\ UNCHANGED status
    <2>1. CallsOk' /\ BusyOk'
      BY <1>2, <1>4, GoesOn, BusyStays DEF CallStages
    <2> QED BY <1>3, <1>4, <2>1 DEF Lookup, DataOk
  <1>5. CASE Lookup(p) /\ CleanedUp(p) /\ SameJob
    <2>1. CallsOk' /\ BusyOk' /\ status' \in {"stopped", "starting", "running", "stopping"}
      BY <1>1, <1>5, CleanedUpTyped DEF SameJob
    <2> QED BY <1>3, <1>5, <2>1 DEF Lookup, SameJob, DataOk
  <1>6. CASE Delete(p)
    <2>1. CallsOk' /\ BusyOk' /\ status' \in {"stopped", "starting", "running", "stopping"}
      BY <1>1, <1>6, CleanedUpTyped DEF Delete
    <2> QED BY <1>3, <1>6, <2>1 DEF Delete, DataOk
  <1> QED BY <1>4, <1>5, <1>6 DEF Lookup

\* A start that fails is not what the job runs.
LEMMA StartFailsTyped ==
    ASSUME Typed, NEW p \in Calls, call[p].kind = "start", StartFails(p),
           busy' = busy
    PROVE  CallsOk' /\ BusyOk' /\ status' = "stopped"
PROOF
  <1>1. busy # p
    BY OtherCall DEF Typed
  <1> QED BY <1>1, Ends, BusyEnds DEF Typed, StartFails

LEMMA ArmTyped ==
    ASSUME Typed, NEW p \in Calls, call[p].kind = "start", Arm(p)
    PROVE  CallsOk' /\ BusyOk' /\ job' \in {"none", "idle", "armed"}
PROOF
  <1>1. CallsOk' /\ \A q \in Calls : call'[q].kind = call[q].kind
    BY GoesOn DEF Typed, Arm, CallStages
  <1>2. busy' \in {busy, None} /\ job' \in {"none", "idle", "armed"}
    BY DEF Arm, NewJob, SameJob, Typed, DataOk
  <1> QED BY <1>1, <1>2, BusyStays DEF Typed

LEMMA InitializeTyped ==
    ASSUME Typed, NEW p \in Calls, Ping(p) \/ ReadRow(p) \/ CreateRow(p) \/ ReadCreated(p)
    PROVE  Typed'
PROOF
  <1> USE DEF Typed
  <1>1. call[p].kind = "start"
    BY DEF Ping, ReadRow, CreateRow, ReadCreated, CallsOk, CallOk
  <1>2. bounds' \in BoundType
    BY FaultCounts DEF Ping, ReadRow, CreateRow, ReadCreated, Arm, DataOk
  <1>3. ASSUME NEW at \in {"create", "created", "baselines"}, Go(p, at), busy' = busy
        PROVE  CallsOk' /\ BusyOk'
    BY <1>1, <1>3, GoesOn, BusyStays DEF CallStages
  <1>4. CASE Ping(p)
    <2>1. CASE StartFails(p) /\ UNCHANGED <<job, busy>>
      <3>1. CallsOk' /\ BusyOk' /\ status' = "stopped"
        BY <1>1, <2>1, StartFailsTyped
      <3> QED BY <1>2, <1>4, <2>1, <3>1 DEF Ping, DataOk
    <2>2. CASE /\ job' = IF job = "none" THEN "idle" ELSE job
               /\ call' = [call EXCEPT ![p].at = "row", ![p].had = (job # "none")]
               /\ status' = status
      <3> DEFINE o == [call[p] EXCEPT !.at = "row", !.had = (job # "none")]
      <3>1. call[p] \in CallType /\ call' = [call EXCEPT ![p] = o]
        BY <2>2 DEF CallsOk
      <3>2. o \in CallType /\ o.kind = "start" /\ o.at = "row"
        BY <1>1, <3>1 DEF CallType, CallStages
      <3>3. CallOk(o)
        BY <3>2 DEF CallOk, NoCall
      <3>4. CallsOk'
        BY <3>1, <3>3, CallBecomes
      <3>5. BusyOk'
        BY <1>1, <1>4, <3>1, <3>2, BusyStays DEF Ping, CallsOk
      <3> QED BY <1>2, <1>4, <2>2, <3>4, <3>5 DEF Ping, DataOk
    <2> QED BY <1>4, <2>1, <2>2 DEF Ping
  <1>5. CASE ReadRow(p)
    <2>1. CallsOk' /\ BusyOk' /\ job' \in {"none", "idle", "armed"}
      BY <1>1, <1>3, <1>5, ArmTyped DEF ReadRow, SameJob, DataOk
    <2> QED BY <1>2, <1>5, <2>1 DEF ReadRow, DataOk
  <1>6. CASE CreateRow(p)
    <2>1. CallsOk' /\ BusyOk'
      BY <1>3, <1>6 DEF CreateRow
    <2> QED BY <1>2, <1>6, <2>1 DEF CreateRow, DataOk
  <1>7. CASE ReadCreated(p)
    <2>1. CallsOk' /\ BusyOk' /\ job' \in {"none", "idle", "armed"}
      BY <1>1, <1>3, <1>7, ArmTyped DEF ReadCreated, SameJob, DataOk
    <2> QED BY <1>2, <1>7, <2>1 DEF ReadCreated, DataOk
  <1> QED BY <1>4, <1>5, <1>6, <1>7

\* reconcile, by a call that started or by a run of the job.
LEMMA ReconcileTyped ==
    ASSUME Typed, NEW p \in Calls, call[p].kind # "none", Reconcile(p),
           busy' \in {busy, None}
    PROVE  CallsOk' /\ BusyOk' /\ reconciling' \in BOOLEAN
PROOF
  <1>1. Go(p, "wait") \/ Go(p, "work")
    BY DEF Reconcile
  <1>2. CallsOk' /\ \A q \in Calls : call'[q].kind = call[q].kind
    BY <1>1, GoesOn DEF Typed, CallStages
  <1>3. BusyOk'
    BY <1>2, BusyStays DEF Typed
  <1> QED BY <1>2, <1>3 DEF Reconcile, Typed, DataOk

LEMMA WorkTyped ==
    ASSUME Typed, NEW p \in Calls, Baselines(p) \/ WaitTimesOut(p) \/ Work(p)
    PROVE  Typed'
PROOF
  <1> USE DEF Typed
  <1>1. call[p].kind # "none" /\ (call[p].at = "baselines" => call[p].kind = "start")
    BY DEF Baselines, WaitTimesOut, Work, CallsOk, CallOk
  <1>2. bounds' \in BoundType
    BY FaultCounts DEF Baselines, WaitTimesOut, Work, DataOk
  <1>3. CASE Baselines(p)
    <2>1. busy' = busy /\ call[p].kind = "start"
      BY <1>1, <1>3 DEF Baselines, scheduler
    <2>2. CASE Reconcile(p) /\ status' = status
      <3>1. CallsOk' /\ BusyOk' /\ reconciling' \in BOOLEAN
        BY <2>1, <2>2, ReconcileTyped
      <3> QED BY <1>2, <1>3, <2>2, <3>1 DEF Baselines, scheduler, DataOk
    <2>3. CASE StartFails(p) /\ UNCHANGED reconciling
      <3>1. CallsOk' /\ BusyOk' /\ status' = "stopped"
        BY <2>1, <2>3, StartFailsTyped
      <3> QED BY <1>2, <1>3, <2>3, <3>1 DEF Baselines, scheduler, DataOk
    <2> QED BY <1>3, <2>2, <2>3 DEF Baselines
  <1>4. CASE WaitTimesOut(p) \/ (Work(p) /\ Go(p, "read"))
    <2>1. Go(p, "work") \/ Go(p, "read")
      BY <1>4 DEF WaitTimesOut
    <2>2. CallsOk' /\ \A q \in Calls : call'[q].kind = call[q].kind
      BY <1>1, <2>1, GoesOn DEF CallStages
    <2>3. BusyOk'
      BY <1>4, <2>2, BusyStays DEF WaitTimesOut, Work, scheduler
    <2> QED BY <1>2, <1>4, <2>2, <2>3 DEF WaitTimesOut, Work, scheduler, DataOk
  <1>5. CASE Work(p) /\ call' = [call EXCEPT ![p].at = "read", ![p].failed = TRUE]
    <2> DEFINE o == [call[p] EXCEPT !.at = "read", !.failed = TRUE]
    <2>1. call[p] \in CallType /\ call' = [call EXCEPT ![p] = o]
      BY <1>5 DEF CallsOk
    <2>2. o \in CallType /\ o.kind = call[p].kind /\ o.at = "read"
      BY <2>1 DEF CallType, CallStages
    <2>3. CallOk(o)
      BY <1>1, <2>2 DEF CallOk, NoCall
    <2>4. CallsOk'
      BY <2>1, <2>3, CallBecomes
    <2>5. BusyOk'
      BY <1>5, <2>1, <2>2, BusyStays DEF Work, scheduler, CallsOk
    <2> QED BY <1>2, <1>5, <2>4, <2>5 DEF Work, scheduler, DataOk
  <1> QED BY <1>3, <1>4, <1>5 DEF Work

\* The call goes on, or is over and its run of the job with it.
LEMMA ScheduledTyped ==
    ASSUME Typed, NEW p \in Calls, Scheduled(p)
    PROVE  /\ CallsOk'
           /\ status' \in {"stopped", "starting", "running", "stopping"}
           /\ \A q \in Calls \ {p} : call'[q] = call[q]
           /\ call'[p].kind = call[p].kind \/ call'[p] = NoCall
PROOF
  <1> USE DEF Typed
  <1>1. CASE /\ call[p].kind = "tick"
             /\ call' = [call EXCEPT ![p].at = "read", ![p].failed = FALSE]
             /\ UNCHANGED status
    <2> DEFINE o == [call[p] EXCEPT !.at = "read", !.failed = FALSE]
    <2>1. call[p] \in CallType /\ call' = [call EXCEPT ![p] = o]
      BY <1>1 DEF CallsOk
    <2>2. o \in CallType /\ o.kind = "tick" /\ o.at = "read"
      BY <1>1, <2>1 DEF CallType, CallStages
    <2>3. CallOk(o)
      BY <2>2 DEF CallOk, NoCall
    <2>4. CallsOk'
      BY <2>1, <2>3, CallBecomes
    <2> QED BY <1>1, <2>1, <2>2, <2>4 DEF CallsOk, DataOk
  <1>2. CASE Done(p) /\ (status' \in {"stopped", "running"} \/ UNCHANGED status)
    BY <1>2, Ends DEF DataOk
  <1> QED BY <1>1, <1>2 DEF Scheduled, StartFails

LEMMA FreedTyped ==
    ASSUME BusyOk, NEW p \in Calls, Freed(p),
           \A q \in Calls \ {p} : call'[q] = call[q],
           call'[p].kind = call[p].kind \/ call'[p] = NoCall
    PROVE  BusyOk'
BY DEF BusyOk, Freed

LEMMA ScheduleTyped ==
    ASSUME Typed, NEW p \in Calls, ScheduleRead(p) \/ ScheduleWrite(p) \/ ScheduleArm(p)
    PROVE  Typed'
PROOF
  <1> USE DEF Typed
  <1>1. call[p].kind # "none"
    BY DEF ScheduleRead, ScheduleWrite, ScheduleArm, CallsOk, CallOk
  <1>2. bounds' \in BoundType
    BY FaultCounts DEF ScheduleRead, ScheduleWrite, ScheduleArm, NotScheduled, DataOk
  <1>3. /\ CallsOk'
        /\ status' \in {"stopped", "starting", "running", "stopping"}
        /\ \A q \in Calls \ {p} : call'[q] = call[q]
        /\ call'[p].kind = call[p].kind \/ call'[p] = NoCall
    <2>1. CASE Scheduled(p)
      BY <2>1, ScheduledTyped
    <2>2. CASE /\ call' = [call EXCEPT ![p].at = "write", ![p].seen = row]
               /\ UNCHANGED status
      <3> DEFINE o == [call[p] EXCEPT !.at = "write", !.seen = row]
      <3>1. call[p] \in CallType /\ call' = [call EXCEPT ![p] = o]
        BY <2>2 DEF CallsOk
      <3>2. o \in CallType /\ o.kind = call[p].kind /\ o.at = "write"
        BY <3>1 DEF CallType, CallStages, DataOk
      <3>3. CallOk(o)
        BY <1>1, <3>2 DEF CallOk, NoCall
      <3>4. CallsOk'
        BY <3>1, <3>3, CallBecomes
      <3> QED BY <2>2, <3>1, <3>2, <3>4 DEF CallsOk, DataOk
    <2>3. CASE Go(p, "arm") /\ UNCHANGED status
      <3>1. CallsOk' /\ \A q \in Calls : call'[q].kind = call[q].kind
        BY <1>1, <2>3, GoesOn DEF CallStages
      <3> QED BY <2>3, <3>1 DEF CallsOk, DataOk, Go
    <2> QED BY <2>1, <2>2, <2>3 DEF ScheduleRead, ScheduleWrite, ScheduleArm, NotScheduled
  <1>4. CASE Freed(p) /\ job' = job
    <2>1. BusyOk'
      BY <1>3, <1>4, FreedTyped
    <2> QED BY <1>2, <1>3, <1>4, <2>1 DEF ScheduleRead, ScheduleWrite, ScheduleArm,
            NotScheduled, DataOk
  <1>5. CASE ScheduleArm(p) /\ NewJob
    BY <1>2, <1>3, <1>5 DEF ScheduleArm, NewJob, NotScheduled, DataOk, BusyOk
  <1> QED BY <1>4, <1>5 DEF ScheduleRead, ScheduleWrite, ScheduleArm

LEMMA UnscheduleTyped ==
    ASSUME Typed, NEW p \in Calls, UnscheduleRead(p) \/ UnscheduleWrite(p)
    PROVE  Typed'
PROOF
  <1> USE DEF Typed
  <1>1. call[p].kind = "tick" /\ call[p].kind # "none"
    BY DEF UnscheduleRead, UnscheduleWrite, CallsOk, CallOk
  <1>2. bounds' \in BoundType
    BY FaultCounts DEF UnscheduleRead, UnscheduleWrite, DataOk
  <1>3. CASE UnscheduleRead(p) /\ Reconcile(p)
    <2>1. CallsOk' /\ BusyOk' /\ reconciling' \in BOOLEAN
      BY <1>1, <1>3, ReconcileTyped DEF UnscheduleRead, scheduler
    <2> QED BY <1>2, <1>3, <2>1 DEF UnscheduleRead, scheduler, DataOk
  <1>4. CASE /\ UnscheduleRead(p) /\ UNCHANGED reconciling
             /\ call' = [call EXCEPT ![p].at = "unwrite", ![p].seen = row]
    <2> DEFINE o == [call[p] EXCEPT !.at = "unwrite", !.seen = row]
    <2>1. call[p] \in CallType /\ call' = [call EXCEPT ![p] = o]
      BY <1>4 DEF CallsOk
    <2>2. o \in CallType /\ o.kind = "tick" /\ o.at = "unwrite"
      BY <1>1, <2>1 DEF CallType, CallStages, DataOk
    <2>3. CallOk(o)
      BY <2>2 DEF CallOk, NoCall
    <2>4. CallsOk'
      BY <2>1, <2>3, CallBecomes
    <2>5. BusyOk'
      BY <1>1, <1>4, <2>1, <2>2, BusyStays DEF UnscheduleRead, scheduler, CallsOk
    <2> QED BY <1>2, <1>4, <2>4, <2>5 DEF UnscheduleRead, scheduler, DataOk
  <1>5. CASE UnscheduleWrite(p)
    <2>1. busy' \in {busy, None} /\ job' \in {"none", "idle", "armed"}
      BY <1>5 DEF UnscheduleWrite, SameJob, DataOk
    <2>2. CallsOk' /\ BusyOk' /\ reconciling' \in BOOLEAN
      BY <1>1, <1>5, <2>1, ReconcileTyped DEF UnscheduleWrite
    <2> QED BY <1>2, <1>5, <2>1, <2>2 DEF UnscheduleWrite, DataOk
  <1> QED BY <1>3, <1>4, <1>5 DEF UnscheduleRead

LEMMA PollerTyped ==
    ASSUME Typed, NEW c \in Chains, ChainStep(c)
    PROVE  Typed'
PROOF
  <1>1. UNCHANGED <<status, call, reconciling, scheduler, cut, unscheduled>>
    BY DEF ChainStep, Launched, TimerFires, Polled
  <1>2. bounds' \in BoundType
    BY FaultCounts DEF ChainStep, Launched, TimerFires, Polled, Typed, DataOk
  <1> QED BY <1>1, <1>2 DEF Typed, DataOk, CallsOk, BusyOk, scheduler

LEMMA CrashTyped ==
    ASSUME Typed, Crash
    PROVE  Typed'
PROOF
  <1>1. CallOk(NoCall)
    BY DEF CallOk, NoCall, CallType, CallStages
  <1>2. CallsOk'
    BY <1>1 DEF Crash, CallsOk, CallOk
  <1>3. bounds' \in BoundType
    BY ControlAssumption DEF Crash, Typed, DataOk, BoundType
  <1> QED BY <1>2, <1>3 DEF Crash, Typed, DataOk, BusyOk

\* Every variable keeps its type, and the job object runs nothing but a run of
\* the job, for any number of calls, failures and restarts.
THEOREM ControlTypeCorrect == Spec => []TypeOK
PROOF
  <1>1. Init => TypeInv
    BY InitType
  <1>2. TypeInv /\ [Next]_vars => TypeInv'
    <2> SUFFICES ASSUME TypeInv, [Next]_vars PROVE TypeInv'
      OBVIOUS
    <2>1. Typed /\ PollerOk
      BY DEF TypeInv, Typed
    <2>2. PollerOk'
      BY <2>1, PollerStep
    <2>3. Typed'
      <3>1. CASE UNCHANGED vars
        BY <2>1, <3>1 DEF vars, scheduler, Typed, DataOk, CallsOk, BusyOk
      <3>2. ASSUME NEW p \in Calls, StartWorkflow(p) \/ Stop(p) \/ Tick(p) \/ CallStep(p)
            PROVE  Typed'
        BY <2>1, <3>2, RoutesTyped, CleanupTyped, InitializeTyped, WorkTyped, ScheduleTyped,
           UnscheduleTyped DEF CallStep
      <3>3. ASSUME NEW c \in Chains, ChainStep(c) PROVE Typed'
        BY <2>1, <3>3, PollerTyped
      <3>4. CASE Crash
        BY <2>1, <3>4, CrashTyped
      <3> QED BY <3>1, <3>2, <3>3, <3>4 DEF Next
    <2> QED BY <2>2, <2>3 DEF TypeInv, Typed
  <1> QED BY <1>1, <1>2, TypeInvGivesType, PTL DEF Spec
=============================================================================
