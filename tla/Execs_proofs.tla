------------------------------ MODULE Execs_proofs ------------------------------
(***************************************************************************)
(* Proofs about Execs, for any number of sandboxes, goroutines and execs:  *)
(* every behaviour is one of the life cycle, what the daemon shows of an   *)
(* exec follows its log, and, as long as the store works, an exec ends     *)
(* once and never runs without the goroutine that will end it.             *)
(***************************************************************************)
EXTENDS Execs, SandboxLifecycle_proofs

(***************************************************************************)
(* The invariants                                                          *)
(***************************************************************************)
\* A sandbox the daemon does not know, and may still create or restore, shows
\* no exec.
UnknownShowsNone ==
    \A s \in Sandboxes \ boxes : s \in configs \/ s \notin sandboxIDs =>
        \A e \in Execs : execs[s][e] = "UNSPECIFIED"

\* An id that was never reserved has no exec event and no last run.
UnreservedIsBlank ==
    \A s \in Sandboxes \ sandboxIDs : execLog[s] = << >> /\ lastRun[s] = 0

\* What cleanupExpiredEvents is about to drop is gone from the store and will
\* not come back: its ids stay reserved.
PurgedIsForgotten == purging \subseteq sandboxIDs \ configs

FreshInv == UnknownShowsNone /\ UnreservedIsBlank /\ PurgedIsForgotten

\* ExecsFollowLog, with the time of the last run right already while the
\* daemon restores.
FollowInv ==
    \A s \in boxes \cap configs :
        /\ lastRun[s] = LastRun(execLog[s])
        /\ \A e \in Execs : execs[s][e] # "UNSPECIFIED" =>
               execs[s][e] = resolveExecStateFromEvents(execLog[s], e)

UsedBy(s, e) == <<s, e>> \in execConfigs \/ execs[s][e] # "UNSPECIFIED"

\* An exec id belongs to one sandbox, in memory and in the store, and one
\* that is used anywhere is reserved.
OneSandboxPerExec ==
    /\ \A s \in Sandboxes, e \in Execs : UsedBy(s, e) => e \in execIDs
    /\ \A s, t \in Sandboxes, e \in Execs : UsedBy(s, e) /\ UsedBy(t, e) => s = t
    /\ \A s \in Sandboxes : \A i \in DOMAIN execLog[s] : execLog[s][i].exec \in execIDs

\* A RUNNING exec is one requireExecLocked finds, with its goroutine.
RunningIsOwned ==
    \A s \in boxes, e \in Execs : execs[s][e] = "RUNNING" =>
        /\ daemon = "serving" /\ e \in DOMAIN owner /\ owner[e] = s
        /\ execRun[e] # NoRun /\ execRun[e].sb = s

ReliableInv == StoreMayFail \/ (OneSandboxPerExec /\ RunningIsOwned /\ ExecEndsOnce)

-----------------------------------------------------------------------------
(***************************************************************************)
(* Execs and the life cycle                                                *)
(***************************************************************************)
\* What ExecsTypeOK adds to TypeOK.
ExecTypes ==
    /\ execs \in [Sandboxes -> [Execs -> ExecState]]
    /\ DOMAIN owner \subseteq Execs
    /\ \A e \in DOMAIN owner : owner[e] \in Sandboxes
    /\ execRun \in [Execs -> ExecRun \cup {NoRun}]
    /\ lastRun \in [Sandboxes -> Nat]
    /\ execIDs \subseteq Execs
    /\ execConfigs \subseteq Sandboxes \X Execs
    /\ execLog \in [Sandboxes -> Seq(ExecEvent)]

\* A goroutine of an exec has a sandbox.
LEMMA RunSandbox ==
    ASSUME ExecTypes, NEW e \in Execs, execRun[e] # NoRun
    PROVE  execRun[e] \in ExecRun /\ execRun[e].sb \in Sandboxes
BY DEF ExecTypes, ExecRun

\* Every step of the daemon with execs is one of its life cycle, or leaves
\* that alone.
LEMMA StepIsLifecycle ==
    ASSUME ExecTypes, [ExecsNext]_allVars
    PROVE  [Next]_vars
<1>1. CASE UNCHANGED allVars
  BY <1>1 DEF allVars, vars
<1>2. ASSUME NEW s \in Sandboxes, NEW e \in Execs, ExecRequest(s, e)
      PROVE  UNCHANGED vars
  BY <1>2 DEF ExecRequest, CreateExec, CreateExecWithoutLogs, CreateExecFails
<1>3. ASSUME NEW s \in Sandboxes, NEW e \in Execs, CrashInCreateExec(s, e)
      PROVE  CrashStep
  BY <1>3 DEF CrashInCreateExec, CrashStep
<1>4. ASSUME NEW e \in Execs, CancelExec(e) \/ ExecStart(e) \/ ExecReturns(e) \/ ExecFinish(e)
      PROVE  UNCHANGED vars
  BY <1>4 DEF CancelExec, ExecStart, ExecReturns, ExecFinish
<1>5. ASSUME NEW e \in Execs, BackendExec(e)
      PROVE  UNCHANGED vars \/ \E s \in Sandboxes : dockerContainerEnsureRunning(s)
  BY <1>5, RunSandbox DEF BackendExec
<1>6. ASSUME NEW T \in SUBSET Sandboxes, IdleScan(T) \/ ExecsCleanup(T)
      PROVE  idleScanAndStop(T) \/ Cleanup(T)
  BY <1>6 DEF IdleScan, ExecsCleanup
<1>7. ASSUME ExecsDropPurged \/ ExecsCrash
      PROVE  DropPurged \/ CrashStep
  BY <1>7 DEF ExecsDropPurged, ExecsCrash
<1>8. ASSUME ExecsRestartStep
      PROVE  UNCHANGED vars \/ RestartStep
  BY <1>8 DEF ExecsRestartStep, ExecsServe, RestoreSandbox, RestoreExec, RestartStep
<1>9. ASSUME LifecycleStep
      PROVE  Next
  BY <1>9 DEF LifecycleStep, Next, RestartStep
<1> QED
  BY <1>1, <1>2, <1>3, <1>4, <1>5, <1>6, <1>7, <1>8, <1>9
  DEF ExecsNext, ExecStep, Next

\* An event appended for an exec is well formed, and so is what is shown.
LEMMA ExecAppendTypes ==
    ASSUME ExecTypes, NEW s \in Sandboxes, NEW e \in Execs, NEW type \in ExecEventType,
           appendExecEvent(s, e, type)
    PROVE  /\ execs' \in [Sandboxes -> [Execs -> ExecState]]
           /\ execLog' \in [Sandboxes -> Seq(ExecEvent)]
           /\ Len(execLog'[s]) \in Nat
<1>1. [type |-> type, exec |-> e] \in ExecEvent
  BY DEF ExecEvent
<1>2. StateAfter(type) \in ExecState
  BY DEF StateAfter, ExecEventType, ExecState
<1>3. execs' \in [Sandboxes -> [Execs -> ExecState]]
  <2> DEFINE st == StateAfter(type)
  <2>1. execs' = [execs EXCEPT ![s][e] = st]
    BY DEF appendExecEvent
  <2> HIDE DEF st
  <2> QED
    BY <1>2, <2>1 DEF ExecTypes, st
<1>4. execLog[s] \in Seq(ExecEvent)
  BY DEF ExecTypes
<1>5. Append(execLog[s], [type |-> type, exec |-> e]) \in Seq(ExecEvent)
  BY <1>1, <1>4
<1>6. /\ execLog' \in [Sandboxes -> Seq(ExecEvent)]
      /\ execLog'[s] \in Seq(ExecEvent)
  BY <1>5 DEF appendExecEvent, ExecTypes
<1> QED
  BY <1>3, <1>6

\* The goroutine of an exec moves on or ends.
LEMMA RunTypes ==
    ASSUME ExecTypes, NEW e \in Execs, execRun[e] # NoRun,
           EndRun(e) \/ \E at \in RunPoint : MoveRun(e, at)
    PROVE  execRun' \in [Execs -> ExecRun \cup {NoRun}]
<1>1. ASSUME NEW at \in RunPoint, MoveRun(e, at)
      PROVE  execRun' \in [Execs -> ExecRun \cup {NoRun}]
  <2>1. [execRun[e] EXCEPT !.at = at] \in ExecRun
    BY RunSandbox DEF ExecRun
  <2> QED
    BY <1>1, <2>1 DEF MoveRun, ExecTypes
<1>2. CASE EndRun(e)
  BY <1>2 DEF EndRun, ExecTypes
<1> QED
  BY <1>1, <1>2

\* What a fresh daemon knows of execs has its type.
LEMMA LoseExecsTypes ==
    ASSUME LoseExecs
    PROVE  /\ execs' \in [Sandboxes -> [Execs -> ExecState]]
           /\ DOMAIN owner' = {}
           /\ execRun' \in [Execs -> ExecRun \cup {NoRun}]
           /\ lastRun' \in [Sandboxes -> Nat]
BY DEF LoseExecs, ExecState

\* A last run is a place in the log.
LEMMA LastRunType ==
    ASSUME NEW log \in Seq(ExecEvent)
    PROVE  LastRun(log) \in Nat
<1> DEFINE Runs == {i \in DOMAIN log : log[i].type \in {"EXEC_FINISHED", "EXEC_CANCELLED"}}
<1>1. Len(log) \in Nat /\ Runs \in SUBSET (1..Len(log))
  OBVIOUS
<1>2. ASSUME Runs # {}
      PROVE  Last(Runs) \in Nat
  <2>1. \E m \in Runs : \A j \in Runs : j <= m
    BY <1>1, <1>2, LastPosition
  <2>2. Last(Runs) \in Runs
    BY <2>1 DEF Last
  <2> QED
    BY <1>1, <2>2
<1> QED
  BY <1>2 DEF LastRun

\* The state read back from a log is one of the states of an exec.
LEMMA ResolveType ==
    ASSUME NEW log \in Seq(ExecEvent), NEW e \in Execs
    PROVE  resolveExecStateFromEvents(log, e) \in ExecState
<1> DEFINE Mine == {i \in DOMAIN log : log[i].exec = e}
<1>1. Len(log) \in Nat /\ Mine \in SUBSET (1..Len(log)) /\ DOMAIN log = 1..Len(log)
  OBVIOUS
<1>2. ASSUME Mine # {}
      PROVE  log[Last(Mine)].type \in ExecEventType
  <2>1. \E m \in Mine : \A j \in Mine : j <= m
    BY <1>1, <1>2, LastPosition
  <2>2. Last(Mine) \in Mine
    BY <2>1 DEF Last
  <2>3. log[Last(Mine)] \in ExecEvent
    BY <1>1, <2>2
  <2> QED
    BY <2>3 DEF ExecEvent
<1>3. \A type \in ExecEventType : StateAfter(type) \in ExecState
  BY DEF StateAfter, ExecEventType, ExecState
<1> QED
  BY <1>2, <1>3 DEF resolveExecStateFromEvents, ExecState

\* Every step keeps the types of the execs.
LEMMA NextExecTypes ==
    ASSUME ExecTypes, TypeOK, [ExecsNext]_allVars
    PROVE  ExecTypes'
<1>0. boxes \subseteq Sandboxes
  BY DEF TypeOK
<1>t. /\ {"EXEC_STARTED", "EXEC_CANCELLED", "EXEC_FINISHED", "EXEC_FAILED"} = ExecEventType
      /\ {"start", "backend", "running", "finished", "failed"} = RunPoint
  BY DEF ExecEventType, RunPoint
<1>1. CASE UNCHANGED execVars
  BY <1>1 DEF execVars, execMemory, execStore, ExecTypes
<1>2. ASSUME NEW s \in Sandboxes, NEW e \in Execs, CreateExec(s, e)
      PROVE  ExecTypes'
  <2>1. /\ execs' \in [Sandboxes -> [Execs -> ExecState]]
        /\ execLog' \in [Sandboxes -> Seq(ExecEvent)]
    BY <1>2, <1>t, ExecAppendTypes DEF CreateExec
  <2>2. /\ DOMAIN owner' \subseteq Execs
        /\ \A x \in DOMAIN owner' : owner'[x] \in Sandboxes
    BY <1>2 DEF CreateExec, SetOwner, ExecTypes
  <2>3. execRun' \in [Execs -> ExecRun \cup {NoRun}]
    BY <1>2 DEF CreateExec, ExecRun, RunPoint, ExecTypes
  <2>4. /\ execIDs' \subseteq Execs /\ execConfigs' \subseteq Sandboxes \X Execs
        /\ lastRun' = lastRun
    BY <1>2 DEF CreateExec, ExecTypes
  <2> QED
    BY <2>1, <2>2, <2>3, <2>4 DEF ExecTypes
<1>3. ASSUME NEW s \in Sandboxes, NEW e \in Execs,
             CreateExecWithoutLogs(s, e) \/ CreateExecFails(s, e)
      PROVE  ExecTypes'
  BY <1>3 DEF CreateExecWithoutLogs, CreateExecFails, execMemory, ExecTypes
<1>4. ASSUME LoseExecs, UNCHANGED execLog, execIDs' \subseteq Execs,
             execConfigs' \subseteq Sandboxes \X Execs
      PROVE  ExecTypes'
  BY <1>4, LoseExecsTypes DEF ExecTypes
<1>5. ASSUME NEW s \in Sandboxes, NEW e \in Execs, CrashInCreateExec(s, e)
      PROVE  ExecTypes'
  <2>1. /\ LoseExecs /\ UNCHANGED execLog /\ execIDs' \subseteq Execs
        /\ execConfigs' \subseteq Sandboxes \X Execs
    BY <1>5 DEF CrashInCreateExec, ExecTypes
  <2> QED
    BY <1>4, <2>1
<1>6. CASE ExecsCrash
  BY <1>4, <1>6 DEF ExecsCrash, execStore, ExecTypes
<1>7. ASSUME NEW e \in Execs, CancelExec(e)
      PROVE  ExecTypes'
  <2>1. owner[e] \in Sandboxes /\ appendExecEvent(owner[e], e, "EXEC_CANCELLED")
    BY <1>0, <1>7 DEF CancelExec, KnownExec
  <2>2. /\ execs' \in [Sandboxes -> [Execs -> ExecState]]
        /\ execLog' \in [Sandboxes -> Seq(ExecEvent)]
        /\ Len(execLog'[owner[e]]) \in Nat
    BY <2>1, <1>t, ExecAppendTypes
  <2>3. /\ lastRun' \in [Sandboxes -> Nat]
        /\ UNCHANGED <<owner, execRun, execIDs, execConfigs>>
    BY <1>7, <2>2 DEF CancelExec, ExecTypes
  <2> QED
    BY <2>2, <2>3 DEF ExecTypes
<1>8. ASSUME NEW e \in Execs, ExecStart(e) \/ BackendExec(e) \/ ExecReturns(e)
      PROVE  ExecTypes'
  <2>1. /\ execRun[e] # NoRun
        /\ EndRun(e) \/ \E at \in RunPoint : MoveRun(e, at)
        /\ UNCHANGED <<execs, owner, lastRun, execStore>>
    BY <1>8, <1>t DEF ExecStart, BackendExec, ExecReturns
  <2> QED
    BY <2>1, RunTypes DEF ExecTypes, execStore
<1>9. ASSUME NEW e \in Execs, ExecFinish(e)
      PROVE  ExecTypes'
  <2>1. /\ execRun' \in [Execs -> ExecRun \cup {NoRun}]
        /\ UNCHANGED <<owner, execIDs, execConfigs>>
    BY <1>9, RunTypes DEF ExecFinish
  <2>2. CASE UNCHANGED <<execs, execLog, lastRun>>
    BY <2>1, <2>2 DEF ExecTypes
  <2>3. ASSUME RunningExec(e), NEW type \in ExecEventType, appendExecEvent(owner[e], e, type),
               \/ lastRun' = [lastRun EXCEPT ![owner[e]] = Len(execLog'[owner[e]])]
               \/ UNCHANGED lastRun
        PROVE  ExecTypes'
    <3>1. owner[e] \in Sandboxes
      BY <1>0, <2>3 DEF RunningExec, KnownExec
    <3>2. /\ execs' \in [Sandboxes -> [Execs -> ExecState]]
          /\ execLog' \in [Sandboxes -> Seq(ExecEvent)]
          /\ Len(execLog'[owner[e]]) \in Nat
      BY <2>3, <3>1, ExecAppendTypes
    <3>3. lastRun' \in [Sandboxes -> Nat]
      BY <2>3, <3>2 DEF ExecTypes
    <3> QED
      BY <2>1, <3>2, <3>3 DEF ExecTypes
  <2> QED
    BY <1>9, <1>t, <2>2, <2>3 DEF ExecFinish
<1>10. ASSUME NEW s \in Sandboxes, RestoreSandbox(s)
       PROVE  ExecTypes'
  <2>1. LastRun(execLog[s]) \in Nat
    BY LastRunType DEF ExecTypes
  <2>2. lastRun' \in [Sandboxes -> Nat]
    BY <1>10, <2>1 DEF RestoreSandbox, ExecTypes
  <2> QED
    BY <1>10, <2>2 DEF RestoreSandbox, ExecTypes, execStore
<1>11. ASSUME NEW s \in Sandboxes, NEW e \in Execs, RestoreExec(s, e)
       PROVE  ExecTypes'
  <2> DEFINE persisted == resolveExecStateFromEvents(execLog[s], e)
  <2>1. persisted \in ExecState
    BY ResolveType DEF ExecTypes
  <2>2. /\ DOMAIN owner' \subseteq Execs
        /\ \A x \in DOMAIN owner' : owner'[x] \in Sandboxes
        /\ UNCHANGED <<execRun, lastRun, execIDs, execConfigs>>
    BY <1>11 DEF RestoreExec, SetOwner, ExecTypes
  <2>3. \/ execs' = [execs EXCEPT ![s][e] = persisted] /\ UNCHANGED execLog
        \/ appendExecEvent(s, e, "EXEC_FAILED")
    BY <1>11 DEF RestoreExec
  <2> HIDE DEF persisted
  <2>4. /\ execs' \in [Sandboxes -> [Execs -> ExecState]]
        /\ execLog' \in [Sandboxes -> Seq(ExecEvent)]
    <3>1. CASE execs' = [execs EXCEPT ![s][e] = persisted] /\ UNCHANGED execLog
      BY <2>1, <3>1 DEF ExecTypes
    <3>2. CASE appendExecEvent(s, e, "EXEC_FAILED")
      BY <1>t, <3>2, ExecAppendTypes
    <3> QED
      BY <2>3, <3>1, <3>2
  <2> QED
    BY <2>2, <2>4 DEF ExecTypes
<1>12. ASSUME NEW T \in SUBSET Sandboxes, ExecsCleanup(T)
       PROVE  ExecTypes'
  <2>1. << >> \in Seq(ExecEvent)
    OBVIOUS
  <2>2. execLog' \in [Sandboxes -> Seq(ExecEvent)]
    BY <1>12, <2>1 DEF ExecsCleanup, ExecTypes
  <2> QED
    BY <1>12, <2>2 DEF ExecsCleanup, ExecTypes, execMemory
<1>13. CASE ExecsDropPurged
  BY <1>13 DEF ExecsDropPurged, ExecTypes, execStore
<1>14. ASSUME \/ UNCHANGED allVars \/ LifecycleStep \/ ExecsServe
              \/ \E T \in SUBSET Sandboxes : IdleScan(T)
       PROVE  UNCHANGED execVars
  BY <1>14 DEF allVars, LifecycleStep, ExecsServe, IdleScan
<1> QED
  BY <1>1, <1>2, <1>3, <1>5, <1>6, <1>7, <1>8, <1>9, <1>10, <1>11, <1>12, <1>13, <1>14
  DEF ExecsNext, ExecRequest, ExecStep, ExecsRestartStep

\* Types, logs and marks of the sandboxes, and types of the execs.
BaseInv == TypeOK /\ LogInv /\ MarkInv /\ ExecTypes

\* Every step keeps all of this.
LEMMA NextBase == BaseInv /\ [ExecsNext]_allVars => BaseInv'
<1> SUFFICES ASSUME BaseInv, [ExecsNext]_allVars
             PROVE  BaseInv'
  OBVIOUS
<1>1. TypeOK /\ LogInv /\ MarkInv /\ ExecTypes
  BY DEF BaseInv
<1>2. [Next]_vars
  BY <1>1, StepIsLifecycle
<1>3. ExecTypes'
  BY <1>1, NextExecTypes
<1> QED
  BY <1>1, <1>2, <1>3, NextInv, NextMark DEF BaseInv

\* The daemon starts with no exec.
LEMMA InitBase == ExecsInit => BaseInv
<1> SUFFICES ASSUME ExecsInit
             PROVE  BaseInv
  OBVIOUS
<1>1. Init
  BY DEF ExecsInit
<1>2. ExecTypes
  BY DEF ExecsInit, ExecTypes, ExecState
<1> QED
  BY <1>1, <1>2, InitInv, InitMark DEF BaseInv

\* Everything proved of the life cycle holds with execs as well: CreateExec,
\* CancelExec, completeExec and the restore of execs take no step on a
\* sandbox that the life cycle does not take.
THEOREM ExecsImplementLifecycle == ExecsSpec => Spec
<1>1. ExecsInit => Init
  BY DEF ExecsInit
<1>2. BaseInv /\ [ExecsNext]_allVars => [Next]_vars
  BY StepIsLifecycle DEF BaseInv
<1> QED
  BY <1>1, <1>2, InitBase, NextBase, PTL DEF ExecsSpec, Spec

\* The exec part of every record and of the store has its type.
THEOREM ExecsTypeCorrect == ExecsSpec => []ExecsTypeOK
<1>1. BaseInv => ExecsTypeOK
  BY DEF BaseInv, ExecTypes, ExecsTypeOK
<1> QED
  BY <1>1, InitBase, NextBase, PTL DEF ExecsSpec

-----------------------------------------------------------------------------
(***************************************************************************)
(* How the sandboxes change under the execs                                *)
(***************************************************************************)
\* Sandboxes, configs and reservations are only added, for ids that were not
\* reserved, and a daemon that serves goes on serving.
Widens ==
    /\ boxes \subseteq boxes' /\ (boxes' \ boxes) \cap sandboxIDs = {}
    /\ configs \subseteq configs' /\ (configs' \ configs) \cap sandboxIDs = {}
    /\ sandboxIDs \subseteq sandboxIDs'
    /\ purging' = purging
    /\ daemon = "serving" => daemon' = "serving"

\* The steps of the life cycle that leave the execs alone are of this kind.
LEMMA LifecycleWidens ==
    ASSUME TypeOK, LogInv,
           \/ LifecycleStep \/ ExecsServe \/ \E T \in SUBSET Sandboxes : IdleScan(T)
    PROVE  Widens /\ UNCHANGED execVars
<1>0. boxes \subseteq sandboxIDs
  BY DEF LogInv, IDsReserved
<1>1. ASSUME UNCHANGED <<boxes, configs, sandboxIDs, purging>>,
             daemon = "serving" => daemon' = "serving"
      PROVE  Widens
  BY <1>1 DEF Widens
<1>2. ASSUME NEW g \in Goroutines, GoroutineStep(g)
      PROVE  Widens
  <2>1. daemon' = daemon
    BY <1>2 DEF GoroutineStep, CreateStart, BackendCreate, BackendStart, CreateFinish,
       CompanionStartup, ResumeStart, BackendResume, ResumeFinish, StopStart,
       BackendStop, StopFinish, StopFailedSandbox, DeleteStart, BackendDelete,
       DeleteFinish
  <2> QED
    BY <1>1, <1>2, <2>1, GoroutineStepAppends
<1>3. ASSUME NEW T \in SUBSET Sandboxes, Request(T) \/ idleScanAndStop(T)
      PROVE  Widens
  <2>1. daemon' = daemon
    BY <1>3 DEF Request, CreateSandbox, CreateSandboxFails, ResumeSandbox, StopSandbox,
       DeleteSandbox, ReportCompanionFailed, DeleteSandboxes,
       cleanupStoppedSandboxes, applyPrimaryFailed, idleScanAndStop
  <2>2. ASSUME NEW s \in T, CreateSandbox(s) \/ CreateSandboxFails(s)
        PROVE  Widens
    <3>1. /\ s \notin sandboxIDs /\ boxes' \in {boxes, boxes \cup {s}}
          /\ configs' \in {configs, configs \cup {s}}
          /\ sandboxIDs' \in {sandboxIDs, sandboxIDs \cup {s}} /\ purging' = purging
      BY <2>2 DEF CreateSandbox, CreateSandboxFails
    <3> QED
      BY <2>1, <3>1 DEF Widens
  <2> QED
    BY <1>1, <1>3, <2>1, <2>2, RequestAppends
<1>4. ASSUME Startup \/ Serve \/ DockerStep
      PROVE  Widens
  BY <1>1, <1>4 DEF Startup, Serve, DockerStep, ContainerExits, ContainerRestarts,
         ContainerRemoved, SetContainer, idVars
<1> QED
  BY <1>2, <1>3, <1>4 DEF LifecycleStep, ExecsServe, IdleScan

\* A crash, inside CreateExec or anywhere else, empties the daemon.
LEMMA CrashEmpties ==
    ASSUME CrashStep
    PROVE  /\ boxes' = {} /\ purging' = {}
           /\ sandboxIDs \subseteq sandboxIDs'
           /\ (configs' \ configs) \cap sandboxIDs = {}
BY DEF CrashStep, Crash, CrashInCreateSandbox, RestoreAborts, CrashInDeleteFinish,
       CrashBeforeReady, LoseMemory, idVars

\* A restore adds one sandbox, whose id is reserved and whose config is stored.
LEMMA RestoreAdds ==
    ASSUME TypeOK, LogInv, NEW s \in Sandboxes, Restore(s)
    PROVE  /\ daemon = "restoring" /\ daemon' = daemon
           /\ s \in configs /\ s \in sandboxIDs /\ s \notin boxes
           /\ boxes' = boxes \cup {s}
           /\ UNCHANGED <<configs, sandboxIDs, purging>>
BY DEF Restore, Restorable, LogInv, IDsReserved, idVars

-----------------------------------------------------------------------------
(***************************************************************************)
(* Nothing is left over for a sandbox that is created or restored          *)
(***************************************************************************)
\* The steps that write for an exec of a known sandbox, or of one being
\* restored, and leave the sandboxes themselves alone.
LEMMA KnownExecFresh ==
    ASSUME BaseInv, FreshInv, UNCHANGED <<boxes, configs, sandboxIDs, purging>>,
           NEW s \in boxes,
           \A t \in Sandboxes \ {s} : /\ execs'[t] = execs[t]
                                      /\ execLog'[t] = execLog[t]
                                      /\ lastRun'[t] = lastRun[t]
    PROVE  FreshInv'
<1>1. boxes \subseteq sandboxIDs
  BY DEF BaseInv, LogInv, IDsReserved
<1>2. UnknownShowsNone'
  BY DEF FreshInv, UnknownShowsNone
<1>3. UnreservedIsBlank'
  BY <1>1 DEF FreshInv, UnreservedIsBlank
<1>4. PurgedIsForgotten'
  BY DEF FreshInv, PurgedIsForgotten
<1> QED
  BY <1>2, <1>3, <1>4 DEF FreshInv

\* What an append for an exec does to each sandbox, and to the others nothing.
LEMMA ExecAppendFields ==
    ASSUME ExecTypes, NEW s \in Sandboxes, NEW e \in Execs, NEW type,
           appendExecEvent(s, e, type)
    PROVE  /\ execLog'[s] = Append(execLog[s], [type |-> type, exec |-> e])
           /\ execs'[s][e] = StateAfter(type)
           /\ \A f \in Execs \ {e} : execs'[s][f] = execs[s][f]
           /\ \A t \in Sandboxes \ {s} : execs'[t] = execs[t] /\ execLog'[t] = execLog[t]
<1> DEFINE st == StateAfter(type)
           ev == [type |-> type, exec |-> e]
<1>1. /\ execs' = [execs EXCEPT ![s][e] = st]
      /\ execLog' = [execLog EXCEPT ![s] = Append(execLog[s], ev)]
  BY DEF appendExecEvent
<1> HIDE DEF st, ev
<1>2. /\ execLog'[s] = Append(execLog[s], ev) /\ execs'[s][e] = st
      /\ \A f \in Execs \ {e} : execs'[s][f] = execs[s][f]
      /\ \A t \in Sandboxes \ {s} : execs'[t] = execs[t] /\ execLog'[t] = execLog[t]
  BY <1>1 DEF ExecTypes
<1> QED
  BY <1>2 DEF st, ev

\* The steps that show and record nothing about an exec.
Quiet == Widens /\ UNCHANGED <<execs, lastRun, execLog>>

\* The steps that append an event for an exec of a known sandbox, and the
\* time of the last run with it.
Appends(s, e, type) ==
    /\ appendExecEvent(s, e, type)
    /\ lastRun' = IF type \in {"EXEC_FINISHED", "EXEC_CANCELLED"}
                  THEN [lastRun EXCEPT ![s] = Len(execLog'[s])] ELSE lastRun
    /\ UNCHANGED <<daemon, boxes, configs, sandboxIDs, purging>>

\* The restore of an exec that had ended.
Adopts(s, e) ==
    /\ execs' = [execs EXCEPT ![s][e] = resolveExecStateFromEvents(execLog[s], e)]
    /\ UNCHANGED <<daemon, boxes, configs, sandboxIDs, purging, lastRun, execLog>>

\* A daemon that died.
Dies ==
    /\ LoseExecs /\ UNCHANGED execLog
    /\ boxes' = {} /\ purging' = {} /\ sandboxIDs \subseteq sandboxIDs'
    /\ (configs' \ configs) \cap sandboxIDs = {}

\* Every step is one of these, a restored sandbox, a cleanup or what follows it.
LEMMA StepKinds ==
    ASSUME BaseInv, [ExecsNext]_allVars
    PROVE  \/ Quiet
           \/ \E s \in boxes, e \in Execs, type \in ExecEventType : Appends(s, e, type)
           \/ \E s \in boxes, e \in Execs : Adopts(s, e)
           \/ \E s \in Sandboxes : RestoreSandbox(s)
           \/ \E T \in SUBSET Sandboxes : ExecsCleanup(T)
           \/ ExecsDropPurged
           \/ Dies
<1>0. /\ TypeOK /\ LogInv /\ ExecTypes
      /\ {"EXEC_STARTED", "EXEC_CANCELLED", "EXEC_FINISHED", "EXEC_FAILED"} = ExecEventType
  BY DEF BaseInv, ExecEventType
<1>1. ASSUME UNCHANGED <<daemon, boxes, configs, sandboxIDs, purging>>
      PROVE  Widens
  BY <1>1 DEF Widens
<1>2. ASSUME UNCHANGED vars
      PROVE  UNCHANGED <<daemon, boxes, configs, sandboxIDs, purging>>
  BY <1>2 DEF vars, idVars
<1>3. CASE UNCHANGED allVars
  <2>1. UNCHANGED <<execs, lastRun, execLog>> /\ UNCHANGED vars
    BY <1>3 DEF allVars, execVars, execMemory, execStore
  <2> QED
    BY <1>1, <1>2, <2>1 DEF Quiet
<1>4. ASSUME \/ LifecycleStep \/ ExecsServe
             \/ \E T \in SUBSET Sandboxes : IdleScan(T)
      PROVE  Quiet
  BY <1>0, <1>4, LifecycleWidens DEF Quiet, execVars, execMemory, execStore
<1>5. ASSUME NEW s \in Sandboxes, NEW e \in Execs,
             CreateExecWithoutLogs(s, e) \/ CreateExecFails(s, e)
      PROVE  Quiet
  <2>1. UNCHANGED vars /\ UNCHANGED <<execs, lastRun, execLog>>
    BY <1>5 DEF CreateExecWithoutLogs, CreateExecFails, execMemory
  <2> QED
    BY <1>1, <1>2, <2>1 DEF Quiet
<1>6. ASSUME NEW s \in Sandboxes, NEW e \in Execs, CreateExec(s, e)
      PROVE  s \in boxes /\ Appends(s, e, "EXEC_STARTED")
  BY <1>2, <1>6 DEF CreateExec, ExecAcceptable, Known, Appends
<1>7. ASSUME NEW e \in Execs, CancelExec(e)
      PROVE  owner[e] \in boxes /\ Appends(owner[e], e, "EXEC_CANCELLED")
  BY <1>2, <1>7 DEF CancelExec, KnownExec, Appends
<1>8. ASSUME NEW e \in Execs, ExecStart(e) \/ BackendExec(e) \/ ExecReturns(e)
      PROVE  Quiet
  <2>1. /\ UNCHANGED <<execs, lastRun, execLog>>
        /\ UNCHANGED vars \/ \E s : dockerContainerEnsureRunning(s)
    BY <1>8 DEF ExecStart, BackendExec, ExecReturns, execStore
  <2>2. UNCHANGED <<daemon, boxes, configs, sandboxIDs, purging>>
    BY <1>2, <2>1 DEF dockerContainerEnsureRunning, idVars
  <2> QED
    BY <1>1, <2>1, <2>2 DEF Quiet
<1>9. ASSUME NEW e \in Execs, ExecFinish(e)
      PROVE  \/ Quiet
             \/ /\ owner[e] \in boxes
                /\ \E type \in ExecEventType : Appends(owner[e], e, type)
  <2>1. UNCHANGED vars
    BY <1>9 DEF ExecFinish
  <2>2. CASE UNCHANGED <<execs, lastRun, execLog>>
    BY <1>1, <1>2, <2>1, <2>2 DEF Quiet
  <2>3. CASE RunningExec(e) /\ appendExecEvent(owner[e], e, "EXEC_FINISHED")
             /\ lastRun' = [lastRun EXCEPT ![owner[e]] = Len(execLog'[owner[e]])]
    BY <1>0, <1>2, <2>1, <2>3 DEF RunningExec, KnownExec, Appends
  <2>4. CASE RunningExec(e) /\ appendExecEvent(owner[e], e, "EXEC_FAILED")
             /\ UNCHANGED lastRun
    BY <1>0, <1>2, <2>1, <2>4 DEF RunningExec, KnownExec, Appends
  <2> QED
    BY <1>9, <2>2, <2>3, <2>4 DEF ExecFinish
<1>10. ASSUME NEW s \in Sandboxes, NEW e \in Execs, RestoreExec(s, e)
       PROVE  s \in boxes /\ (Adopts(s, e) \/ Appends(s, e, "EXEC_FAILED"))
  BY <1>2, <1>10 DEF RestoreExec, Adopts, Appends
<1>11. ASSUME \/ ExecsCrash
              \/ \E s \in Sandboxes, e \in Execs : CrashInCreateExec(s, e)
       PROVE  Dies
  BY <1>11, CrashEmpties DEF ExecsCrash, CrashInCreateExec, CrashStep, Dies, execStore
<1> QED
  BY <1>0, <1>3, <1>4, <1>5, <1>6, <1>7, <1>8, <1>9, <1>10, <1>11
  DEF ExecsNext, ExecRequest, ExecStep, ExecsRestartStep

\* Nothing of a former sandbox is found by a new one.
LEMMA NextFresh ==
    ASSUME BaseInv, FreshInv, [ExecsNext]_allVars
    PROVE  FreshInv'
<1>0. /\ TypeOK /\ LogInv /\ ExecTypes /\ boxes \subseteq sandboxIDs
      /\ boxes \subseteq Sandboxes /\ deletedAt \subseteq sandboxIDs
      /\ purging \subseteq sandboxIDs \ configs
      /\ UnknownShowsNone /\ UnreservedIsBlank
  BY DEF BaseInv, LogInv, IDsReserved, TypeOK, MarkInv, DeletedOnRecord, FreshInv,
         PurgedIsForgotten
<1>1. CASE Quiet
  <2>1. UnknownShowsNone'
    BY <1>0, <1>1 DEF Quiet, Widens, UnknownShowsNone
  <2>2. UnreservedIsBlank'
    BY <1>0, <1>1 DEF Quiet, Widens, UnreservedIsBlank
  <2>3. PurgedIsForgotten'
    BY <1>0, <1>1 DEF Quiet, Widens, PurgedIsForgotten
  <2> QED
    BY <2>1, <2>2, <2>3 DEF FreshInv
<1>2. ASSUME NEW s \in boxes, NEW e \in Execs, NEW type \in ExecEventType, Appends(s, e, type)
      PROVE  FreshInv'
  <2>1. \A t \in Sandboxes \ {s} : execs'[t] = execs[t] /\ execLog'[t] = execLog[t]
    BY <1>0, <1>2, ExecAppendFields DEF Appends
  <2>2. \A t \in Sandboxes \ {s} : lastRun'[t] = lastRun[t]
    BY <1>0, <1>2 DEF Appends, ExecTypes
  <2> QED
    BY <1>2, <2>1, <2>2, KnownExecFresh DEF Appends
<1>3. ASSUME NEW s \in boxes, NEW e \in Execs, Adopts(s, e)
      PROVE  FreshInv'
  <2>1. \A t \in Sandboxes \ {s} : execs'[t] = execs[t]
    BY <1>0, <1>3 DEF Adopts, ExecTypes
  <2> QED
    BY <1>3, <2>1, KnownExecFresh DEF Adopts
<1>4. ASSUME NEW s \in Sandboxes, RestoreSandbox(s)
      PROVE  FreshInv'
  <2>1. /\ s \in configs /\ s \in sandboxIDs /\ boxes' = boxes \cup {s}
        /\ UNCHANGED <<configs, sandboxIDs, purging>>
    BY <1>0, <1>4, RestoreAdds DEF RestoreSandbox
  <2>2. /\ UNCHANGED <<execs, execLog>>
        /\ \A t \in Sandboxes \ {s} : lastRun'[t] = lastRun[t]
    BY <1>0, <1>4 DEF RestoreSandbox, execStore, ExecTypes
  <2>3. UnknownShowsNone'
    BY <1>0, <2>1, <2>2 DEF UnknownShowsNone
  <2>4. UnreservedIsBlank'
    BY <1>0, <2>1, <2>2 DEF UnreservedIsBlank
  <2> QED
    BY <1>0, <2>1, <2>3, <2>4 DEF FreshInv, PurgedIsForgotten
<1>5. ASSUME NEW T \in SUBSET Sandboxes, ExecsCleanup(T)
      PROVE  FreshInv'
  <2>1. /\ T \subseteq deletedAt /\ purging' = T /\ configs' = configs \ T
        /\ UNCHANGED <<boxes, sandboxIDs, execs, lastRun>>
        /\ \A s \in Sandboxes : execLog'[s] = IF s \in T THEN << >> ELSE execLog[s]
    BY <1>5 DEF ExecsCleanup, Cleanup, execMemory
  <2>2. UnknownShowsNone'
    BY <1>0, <2>1 DEF UnknownShowsNone
  <2>3. UnreservedIsBlank'
    BY <1>0, <2>1 DEF UnreservedIsBlank
  <2> QED
    BY <1>0, <2>1, <2>2, <2>3 DEF FreshInv, PurgedIsForgotten
<1>6. CASE ExecsDropPurged
  <2>1. /\ boxes' = boxes \ purging /\ purging' = {}
        /\ UNCHANGED <<configs, sandboxIDs, execs, lastRun, execLog>>
    BY <1>6 DEF ExecsDropPurged, DropPurged, idVars, execStore
  <2>2. UnknownShowsNone'
    BY <1>0, <2>1 DEF UnknownShowsNone
  <2> QED
    BY <1>0, <2>1, <2>2 DEF FreshInv, PurgedIsForgotten, UnreservedIsBlank
<1>7. CASE Dies
  <2>1. /\ \A s \in Sandboxes, e \in Execs : execs'[s][e] = "UNSPECIFIED"
        /\ \A s \in Sandboxes : lastRun'[s] = 0
    BY <1>7 DEF Dies, LoseExecs
  <2>2. UnreservedIsBlank'
    BY <1>0, <1>7, <2>1 DEF Dies, UnreservedIsBlank
  <2> QED
    BY <1>7, <2>1, <2>2 DEF Dies, FreshInv, UnknownShowsNone, PurgedIsForgotten
<1> QED
  BY <1>1, <1>2, <1>3, <1>4, <1>5, <1>6, <1>7, StepKinds

-----------------------------------------------------------------------------
(***************************************************************************)
(* What is shown follows the log                                           *)
(***************************************************************************)
\* A set that contains its greatest number ends with it.
LEMMA LastIs ==
    ASSUME NEW S \in SUBSET Nat, NEW m \in S, \A j \in S : j <= m
    PROVE  Last(S) = m
<1>1. /\ Last(S) \in S
      /\ \A j \in S : j <= Last(S)
  BY DEF Last
<1>2. m <= Last(S) /\ Last(S) <= m
  BY <1>1
<1>3. m \in Nat /\ Last(S) \in Nat
  BY <1>1
<1> QED
  BY <1>2, <1>3

\* The state read back after an append is the appended one for that exec, and
\* what it was for every other.
LEMMA ResolveAppend ==
    ASSUME NEW log \in Seq(ExecEvent), NEW ev \in ExecEvent, NEW f \in Execs
    PROVE  resolveExecStateFromEvents(Append(log, ev), f) =
               IF f = ev.exec THEN StateAfter(ev.type)
                              ELSE resolveExecStateFromEvents(log, f)
<1> DEFINE new    == Append(log, ev)
           n      == Len(log)
           Mine   == {i \in DOMAIN log : log[i].exec = f}
           Newer  == {i \in DOMAIN new : new[i].exec = f}
<1>1. /\ n \in Nat /\ DOMAIN log = 1..n /\ DOMAIN new = 1..(n + 1)
      /\ new[n + 1] = ev /\ \A i \in 1..n : new[i] = log[i]
  OBVIOUS
<1> HIDE DEF new, n
<1>2. CASE f = ev.exec
  <2>1. n + 1 \in Newer /\ Newer \in SUBSET Nat /\ \A j \in Newer : j <= n + 1
    BY <1>1, <1>2
  <2>2. Last(Newer) = n + 1
    <3> HIDE DEF Newer
    <3> QED
      BY <2>1, LastIs
  <2>3. resolveExecStateFromEvents(new, f) = StateAfter(new[Last(Newer)].type)
    BY <2>1 DEF resolveExecStateFromEvents
  <2> QED
    BY <1>1, <1>2, <2>2, <2>3 DEF new
<1>3. CASE f # ev.exec
  <2>1. Newer = Mine /\ Mine \subseteq 1..n
    BY <1>1, <1>3
  <2>2. Mine # {} => Last(Mine) \in 1..n
    <3>1. ASSUME Mine # {}
          PROVE  Last(Mine) \in 1..n
      <4>1. \E m \in Mine : \A j \in Mine : j <= m
        BY <1>1, <2>1, <3>1, LastPosition
      <4> QED
        BY <2>1, <4>1 DEF Last
    <3> QED
      BY <3>1
  <2>3. /\ resolveExecStateFromEvents(new, f) =
               IF Newer = {} THEN "UNSPECIFIED" ELSE StateAfter(new[Last(Newer)].type)
        /\ resolveExecStateFromEvents(log, f) =
               IF Mine = {} THEN "UNSPECIFIED" ELSE StateAfter(log[Last(Mine)].type)
    BY DEF resolveExecStateFromEvents
  <2> QED
    BY <1>1, <1>3, <2>1, <2>2, <2>3 DEF new
<1> QED
  BY <1>2, <1>3

\* The last run after an append: the appended event, if it is a run.
LEMMA LastRunAppend ==
    ASSUME NEW log \in Seq(ExecEvent), NEW ev \in ExecEvent
    PROVE  LastRun(Append(log, ev)) =
               IF ev.type \in {"EXEC_FINISHED", "EXEC_CANCELLED"}
               THEN Len(Append(log, ev)) ELSE LastRun(log)
<1> DEFINE new   == Append(log, ev)
           n     == Len(log)
           Run   == {"EXEC_FINISHED", "EXEC_CANCELLED"}
           Runs  == {i \in DOMAIN log : log[i].type \in Run}
           Newer == {i \in DOMAIN new : new[i].type \in Run}
<1>1. /\ n \in Nat /\ DOMAIN log = 1..n /\ DOMAIN new = 1..(n + 1)
      /\ new[n + 1] = ev /\ \A i \in 1..n : new[i] = log[i]
      /\ Len(new) = n + 1
  OBVIOUS
<1>2. /\ LastRun(new) = IF Newer = {} THEN 0 ELSE Last(Newer)
      /\ LastRun(log) = IF Runs = {} THEN 0 ELSE Last(Runs)
  BY DEF LastRun
<1> HIDE DEF new, n, Run
<1>3. CASE ev.type \in Run
  <2>1. n + 1 \in Newer /\ Newer \in SUBSET Nat /\ \A j \in Newer : j <= n + 1
    BY <1>1, <1>3
  <2>2. Last(Newer) = n + 1
    <3> HIDE DEF Newer
    <3> QED
      BY <2>1, LastIs
  <2> QED
    BY <1>1, <1>2, <1>3, <2>1, <2>2 DEF new, Run
<1>4. CASE ev.type \notin Run
  <2>1. Newer = Runs
    BY <1>1, <1>4
  <2> QED
    BY <1>2, <1>4, <2>1 DEF new, Run
<1> QED
  BY <1>3, <1>4

\* An empty log has no run.
LEMMA EmptyLog == LastRun(<< >>) = 0
BY DEF LastRun

\* Every step keeps what is shown in line with what is stored.
LEMMA NextFollow ==
    ASSUME BaseInv, FreshInv, FollowInv, [ExecsNext]_allVars
    PROVE  FollowInv'
<1>0. /\ TypeOK /\ LogInv /\ ExecTypes /\ boxes \subseteq sandboxIDs
      /\ boxes \subseteq Sandboxes /\ UnknownShowsNone /\ UnreservedIsBlank
  BY DEF BaseInv, LogInv, IDsReserved, TypeOK, FreshInv
<1>1. CASE Quiet
  <2>1. ASSUME NEW s \in boxes' \cap configs', s \notin boxes \cap configs, s \in Sandboxes
        PROVE  /\ lastRun[s] = LastRun(execLog[s])
               /\ \A e \in Execs : execs[s][e] = "UNSPECIFIED"
    <3>1. s \notin sandboxIDs /\ s \notin boxes
      BY <1>0, <1>1, <2>1 DEF Quiet, Widens
    <3> QED
      BY <1>0, <2>1, <3>1, EmptyLog DEF UnknownShowsNone, UnreservedIsBlank
  <2>2. boxes' \subseteq Sandboxes
    BY NextBase DEF BaseInv, TypeOK
  <2> QED
    BY <1>1, <2>1, <2>2 DEF Quiet, FollowInv
<1>2. ASSUME NEW s \in boxes, NEW e \in Execs, NEW type \in ExecEventType, Appends(s, e, type)
      PROVE  FollowInv'
  <2> DEFINE ev == [type |-> type, exec |-> e]
  <2>1. /\ execLog'[s] = Append(execLog[s], ev) /\ execs'[s][e] = StateAfter(type)
        /\ \A f \in Execs \ {e} : execs'[s][f] = execs[s][f]
        /\ \A t \in Sandboxes \ {s} : execs'[t] = execs[t] /\ execLog'[t] = execLog[t]
    BY <1>0, <1>2, ExecAppendFields DEF Appends
  <2>2. ev \in ExecEvent /\ execLog[s] \in Seq(ExecEvent) /\ ev.type = type /\ ev.exec = e
    BY <1>0 DEF ExecEvent, ExecTypes
  <2>3. /\ UNCHANGED <<boxes, configs>>
        /\ lastRun'[s] = IF type \in {"EXEC_FINISHED", "EXEC_CANCELLED"}
                         THEN Len(execLog'[s]) ELSE lastRun[s]
        /\ \A t \in Sandboxes \ {s} : lastRun'[t] = lastRun[t]
    BY <1>0, <1>2 DEF Appends, ExecTypes
  <2> HIDE DEF ev
  <2>4. s \in configs => lastRun'[s] = LastRun(execLog'[s])
    BY <2>1, <2>2, <2>3, LastRunAppend DEF FollowInv
  <2>5. s \in configs => \A f \in Execs : execs'[s][f] # "UNSPECIFIED" =>
            execs'[s][f] = resolveExecStateFromEvents(execLog'[s], f)
    BY <2>1, <2>2, ResolveAppend DEF FollowInv
  <2>6. ASSUME NEW t \in boxes' \cap configs', t # s
        PROVE  /\ lastRun'[t] = lastRun[t] /\ execs'[t] = execs[t] /\ execLog'[t] = execLog[t]
               /\ t \in boxes \cap configs
    BY <1>0, <2>1, <2>3, <2>6
  <2> QED
    BY <2>3, <2>4, <2>5, <2>6 DEF FollowInv
<1>3. ASSUME NEW s \in boxes, NEW e \in Execs, Adopts(s, e)
      PROVE  FollowInv'
  <2> DEFINE st == resolveExecStateFromEvents(execLog[s], e)
  <2>1. /\ execs' = [execs EXCEPT ![s][e] = st]
        /\ UNCHANGED <<boxes, configs, lastRun, execLog>>
    BY <1>3 DEF Adopts
  <2> HIDE DEF st
  <2>2. /\ execs'[s][e] = st
        /\ \A f \in Execs \ {e} : execs'[s][f] = execs[s][f]
        /\ \A t \in Sandboxes \ {s} : execs'[t] = execs[t]
    BY <1>0, <2>1 DEF ExecTypes
  <2> QED
    BY <1>0, <2>1, <2>2 DEF FollowInv, st
<1>4. ASSUME NEW s \in Sandboxes, RestoreSandbox(s)
      PROVE  FollowInv'
  <2>1. /\ s \in configs /\ s \notin boxes /\ boxes' = boxes \cup {s} /\ configs' = configs
        /\ UNCHANGED <<execs, execLog>>
        /\ lastRun'[s] = LastRun(execLog[s])
        /\ \A t \in Sandboxes \ {s} : lastRun'[t] = lastRun[t]
    BY <1>0, <1>4, RestoreAdds DEF RestoreSandbox, execStore, ExecTypes
  <2>2. \A e \in Execs : execs[s][e] = "UNSPECIFIED"
    BY <1>0, <2>1 DEF UnknownShowsNone
  <2> QED
    BY <1>0, <2>1, <2>2 DEF FollowInv
<1>5. ASSUME NEW T \in SUBSET Sandboxes, ExecsCleanup(T)
      PROVE  FollowInv'
  <2>1. /\ configs' = configs \ T /\ UNCHANGED <<boxes, execs, lastRun>>
        /\ \A s \in Sandboxes \ T : execLog'[s] = execLog[s]
    BY <1>5 DEF ExecsCleanup, Cleanup, execMemory
  <2> QED
    BY <1>0, <2>1 DEF FollowInv
<1>6. CASE ExecsDropPurged
  <2>1. /\ boxes' \subseteq boxes
        /\ UNCHANGED <<configs, execs, lastRun, execLog>>
    BY <1>6 DEF ExecsDropPurged, DropPurged, idVars, execStore
  <2> QED
    BY <2>1 DEF FollowInv
<1>7. CASE Dies
  BY <1>7 DEF Dies, FollowInv
<1> QED
  BY <1>1, <1>2, <1>3, <1>4, <1>5, <1>6, <1>7, StepKinds

\* At the start no sandbox is known.
LEMMA InitFollow == ExecsInit => FreshInv /\ FollowInv
BY DEF ExecsInit, Init, FreshInv, FollowInv, UnknownShowsNone, UnreservedIsBlank,
       PurgedIsForgotten

\* The state GetExec answers with and the time the idle scan measures from
\* are the ones a restart would compute from the stored events: completeExec,
\* CancelExec and the restore write both together, whichever comes first and
\* whichever write fails.
THEOREM ExecsFollowLogCorrect == ExecsSpec => []ExecsFollowLog
<1> DEFINE Inv == BaseInv /\ FreshInv /\ FollowInv
<1>1. ExecsInit => Inv
  BY InitBase, InitFollow
<1>2. Inv /\ [ExecsNext]_allVars => Inv'
  BY NextBase, NextFresh, NextFollow
<1>3. Inv => ExecsFollowLog
  BY DEF FollowInv, ExecsFollowLog
<1> QED
  BY <1>1, <1>2, <1>3, PTL DEF ExecsSpec

-----------------------------------------------------------------------------
(***************************************************************************)
(* Exec ids, as long as the store works                                    *)
(***************************************************************************)
\* No exec id gets a second sandbox, if the step uses what was used before,
\* or for one sandbox an id that was not reserved.
LEMMA UsesKeep ==
    ASSUME OneSandboxPerExec, execIDs \subseteq execIDs',
           \/ \A s \in Sandboxes, e \in Execs : UsedBy(s, e)' => UsedBy(s, e)
           \/ \E u \in Sandboxes, f \in Execs :
                  /\ f \notin execIDs /\ f \in execIDs'
                  /\ \A s \in Sandboxes, e \in Execs :
                         UsedBy(s, e)' => UsedBy(s, e) \/ (s = u /\ e = f),
           \A s \in Sandboxes : \A i \in DOMAIN execLog'[s] : execLog'[s][i].exec \in execIDs'
    PROVE  OneSandboxPerExec'
<1>1. CASE \A s \in Sandboxes, e \in Execs : UsedBy(s, e)' => UsedBy(s, e)
  BY <1>1 DEF OneSandboxPerExec
<1>2. ASSUME NEW u \in Sandboxes, NEW f \in Execs, f \notin execIDs, f \in execIDs',
             \A s \in Sandboxes, e \in Execs :
                 UsedBy(s, e)' => UsedBy(s, e) \/ (s = u /\ e = f)
      PROVE  OneSandboxPerExec'
  <2>1. \A s \in Sandboxes, e \in Execs : UsedBy(s, e)' => e \in execIDs'
    BY <1>2 DEF OneSandboxPerExec
  <2>2. \A s, t \in Sandboxes, e \in Execs : UsedBy(s, e)' /\ UsedBy(t, e)' => s = t
    BY <1>2 DEF OneSandboxPerExec
  <2> QED
    BY <2>1, <2>2 DEF OneSandboxPerExec
<1> QED
  BY <1>1, <1>2

\* The execs of a log after an append.
LEMMA AppendedExecs ==
    ASSUME ExecTypes, OneSandboxPerExec, NEW s \in Sandboxes, NEW e \in Execs,
           NEW type \in ExecEventType, appendExecEvent(s, e, type),
           execIDs \subseteq execIDs', e \in execIDs'
    PROVE  \A t \in Sandboxes : \A i \in DOMAIN execLog'[t] : execLog'[t][i].exec \in execIDs'
<1> DEFINE ev == [type |-> type, exec |-> e]
<1>1. /\ execLog'[s] = Append(execLog[s], ev)
      /\ \A t \in Sandboxes \ {s} : execLog'[t] = execLog[t]
  BY ExecAppendFields
<1>2. execLog[s] \in Seq(ExecEvent) /\ ev.exec = e /\ ev \in ExecEvent
  BY DEF ExecTypes, ExecEvent
<1> HIDE DEF ev
<1>3. /\ DOMAIN execLog'[s] = 1..(Len(execLog[s]) + 1) /\ Len(execLog[s]) \in Nat
      /\ execLog'[s][Len(execLog[s]) + 1] = ev /\ DOMAIN execLog[s] = 1..Len(execLog[s])
      /\ \A i \in 1..Len(execLog[s]) : execLog'[s][i] = execLog[s][i]
  BY <1>1, <1>2
<1>4. \A i \in DOMAIN execLog'[s] : execLog'[s][i].exec \in execIDs'
  BY <1>2, <1>3 DEF OneSandboxPerExec
<1> QED
  BY <1>1, <1>4 DEF OneSandboxPerExec

\* CreateExec reserves before it uses; everything else uses what is in use.
LEMMA NextOneSandbox ==
    ASSUME BaseInv, OneSandboxPerExec, ~StoreMayFail, [ExecsNext]_allVars
    PROVE  OneSandboxPerExec'
<1>0. /\ ExecTypes
      /\ {"EXEC_STARTED", "EXEC_CANCELLED", "EXEC_FINISHED", "EXEC_FAILED"} = ExecEventType
  BY DEF BaseInv, ExecEventType
<1>1. ASSUME UNCHANGED <<execs, execLog, execIDs, execConfigs>>
      PROVE  OneSandboxPerExec'
  BY <1>1 DEF OneSandboxPerExec, UsedBy
<1>2. ASSUME NEW s \in Sandboxes, NEW e \in Execs, e \notin execIDs,
             execIDs' = execIDs \cup {e},
             execConfigs' \in {execConfigs, execConfigs \cup {<<s, e>>}},
             execs' = execs \/ LoseExecs, UNCHANGED execLog
      PROVE  OneSandboxPerExec'
  <2>1. \A t \in Sandboxes, f \in Execs : execs'[t][f] \in {execs[t][f], "UNSPECIFIED"}
    BY <1>2 DEF LoseExecs
  <2>2. \A t \in Sandboxes, f \in Execs :
            UsedBy(t, f)' => UsedBy(t, f) \/ (t = s /\ f = e)
    BY <1>2, <2>1 DEF UsedBy
  <2>3. \A t \in Sandboxes : \A i \in DOMAIN execLog'[t] : execLog'[t][i].exec \in execIDs'
    BY <1>2 DEF OneSandboxPerExec
  <2>4. /\ e \notin execIDs /\ e \in execIDs' /\ execIDs \subseteq execIDs'
    BY <1>2
  <2> QED
    BY <2>2, <2>3, <2>4, UsesKeep
<1>3. ASSUME NEW s \in Sandboxes, NEW e \in Execs,
             CreateExecWithoutLogs(s, e) \/ CrashInCreateExec(s, e)
      PROVE  OneSandboxPerExec'
  <2>1. /\ e \notin execIDs /\ execIDs' = execIDs \cup {e}
        /\ execConfigs' \in {execConfigs, execConfigs \cup {<<s, e>>}}
        /\ execs' = execs \/ LoseExecs
        /\ UNCHANGED execLog
    BY <1>3 DEF CreateExecWithoutLogs, CrashInCreateExec, ExecAcceptable, execMemory
  <2> QED
    BY <1>2, <2>1
<1>4. ASSUME NEW s \in Sandboxes, NEW e \in Execs, CreateExec(s, e)
      PROVE  OneSandboxPerExec'
  <2>1. /\ e \notin execIDs /\ e \in execIDs' /\ execIDs \subseteq execIDs'
        /\ execConfigs' = execConfigs \cup {<<s, e>>}
        /\ appendExecEvent(s, e, "EXEC_STARTED")
    BY <1>4 DEF CreateExec, ExecAcceptable
  <2>2. \A t \in Sandboxes, f \in Execs :
            UsedBy(t, f)' => UsedBy(t, f) \/ (t = s /\ f = e)
    BY ZenonT(60), <1>0, <2>1, ExecAppendFields DEF UsedBy
  <2>3. \A t \in Sandboxes : \A i \in DOMAIN execLog'[t] : execLog'[t][i].exec \in execIDs'
    BY <1>0, <2>1, AppendedExecs
  <2> QED
    BY <2>1, <2>2, <2>3, UsesKeep
<1>5. ASSUME NEW s \in Sandboxes, NEW e \in Execs, NEW type \in ExecEventType, UsedBy(s, e),
             appendExecEvent(s, e, type), UNCHANGED <<execIDs, execConfigs>>
      PROVE  OneSandboxPerExec'
  <2>1. e \in execIDs'
    BY <1>5 DEF OneSandboxPerExec
  <2>2. \A t \in Sandboxes, f \in Execs : UsedBy(t, f)' => UsedBy(t, f)
    <3>1. \A t \in Sandboxes, f \in Execs :
              (t = s /\ f = e) \/ execs'[t][f] = execs[t][f]
      BY ZenonT(60), <1>0, <1>5, ExecAppendFields
    <3> QED
      BY <1>5, <3>1 DEF UsedBy
  <2>3. \A t \in Sandboxes : \A i \in DOMAIN execLog'[t] : execLog'[t][i].exec \in execIDs'
    BY <1>0, <1>5, <2>1, AppendedExecs
  <2> QED
    BY <1>5, <2>2, <2>3, UsesKeep
<1>6. ASSUME NEW e \in Execs, CancelExec(e)
      PROVE  OneSandboxPerExec'
  <2>1. /\ owner[e] \in Sandboxes /\ UsedBy(owner[e], e)
        /\ appendExecEvent(owner[e], e, "EXEC_CANCELLED")
        /\ UNCHANGED <<execIDs, execConfigs>>
    BY <1>6 DEF CancelExec, KnownExec, BaseInv, TypeOK, UsedBy
  <2> QED
    BY <1>0, <1>5, <2>1
<1>7. ASSUME NEW e \in Execs, ExecFinish(e)
      PROVE  OneSandboxPerExec'
  <2>1. CASE UNCHANGED <<execs, execLog>>
    BY <1>1, <1>7, <2>1 DEF ExecFinish
  <2>2. CASE \E type \in ExecEventType : RunningExec(e) /\ appendExecEvent(owner[e], e, type)
    <3>1. /\ owner[e] \in Sandboxes /\ UsedBy(owner[e], e)
          /\ UNCHANGED <<execIDs, execConfigs>>
      BY <1>7, <2>2 DEF ExecFinish, RunningExec, KnownExec, BaseInv, TypeOK, UsedBy
    <3> QED
      BY <1>5, <2>2, <3>1
  <2> QED
    BY <1>0, <1>7, <2>1, <2>2 DEF ExecFinish
<1>8. ASSUME NEW s \in Sandboxes, NEW e \in Execs, RestoreExec(s, e)
      PROVE  OneSandboxPerExec'
  <2>1. UsedBy(s, e) /\ UNCHANGED <<execIDs, execConfigs>>
    BY <1>8 DEF RestoreExec, Unrestored, UsedBy
  <2>2. CASE appendExecEvent(s, e, "EXEC_FAILED")
    BY <1>0, <1>5, <2>1, <2>2
  <2>3. CASE /\ execs' = [execs EXCEPT ![s][e] = resolveExecStateFromEvents(execLog[s], e)]
             /\ UNCHANGED execLog
    <3>1. \A t \in Sandboxes, f \in Execs : (t = s /\ f = e) \/ execs'[t][f] = execs[t][f]
      BY <1>0, <2>3 DEF ExecTypes
    <3>2. \A t \in Sandboxes, f \in Execs : UsedBy(t, f)' => UsedBy(t, f)
      BY <2>1, <3>1 DEF UsedBy
    <3>3. \A t \in Sandboxes : \A i \in DOMAIN execLog'[t] :
              execLog'[t][i].exec \in execIDs'
      BY <2>1, <2>3 DEF OneSandboxPerExec
    <3> QED
      BY <2>1, <3>2, <3>3, UsesKeep
  <2> QED
    BY <1>8, <2>2, <2>3 DEF RestoreExec
<1>9. CASE ExecsCrash
  <2>1. LoseExecs /\ UNCHANGED <<execLog, execIDs, execConfigs>>
    BY <1>9 DEF ExecsCrash, execStore
  <2>2. \A t \in Sandboxes, f \in Execs : UsedBy(t, f)' => UsedBy(t, f)
    BY <2>1 DEF UsedBy, LoseExecs
  <2>3. \A t \in Sandboxes : \A i \in DOMAIN execLog'[t] : execLog'[t][i].exec \in execIDs'
    BY <2>1 DEF OneSandboxPerExec
  <2> QED
    BY <2>1, <2>2, <2>3, UsesKeep
<1>10. ASSUME NEW T \in SUBSET Sandboxes, ExecsCleanup(T)
       PROVE  OneSandboxPerExec'
  <2>1. /\ UNCHANGED <<execs, execIDs>> /\ execConfigs' \subseteq execConfigs
        /\ \A s \in Sandboxes : execLog'[s] = IF s \in T THEN << >> ELSE execLog[s]
    BY <1>10 DEF ExecsCleanup, execMemory
  <2>2. \A t \in Sandboxes, f \in Execs : UsedBy(t, f)' => UsedBy(t, f)
    BY <2>1 DEF UsedBy
  <2>3. \A t \in Sandboxes : \A i \in DOMAIN execLog'[t] : execLog'[t][i].exec \in execIDs'
    BY <2>1 DEF OneSandboxPerExec
  <2> QED
    BY <2>1, <2>2, <2>3, UsesKeep
<1>11. ASSUME \/ UNCHANGED allVars \/ LifecycleStep \/ ExecsServe \/ ExecsDropPurged
              \/ \E T \in SUBSET Sandboxes : IdleScan(T)
              \/ \E s \in Sandboxes : RestoreSandbox(s)
              \/ \E e \in Execs : ExecStart(e) \/ BackendExec(e) \/ ExecReturns(e)
       PROVE  OneSandboxPerExec'
  <2>1. UNCHANGED <<execs, execLog, execIDs, execConfigs>>
    BY <1>11 DEF allVars, LifecycleStep, ExecsServe, ExecsDropPurged, IdleScan,
       RestoreSandbox, ExecStart, BackendExec, ExecReturns, execVars, execMemory, execStore
  <2> QED
    BY <1>1, <2>1
<1>12. \A s \in Sandboxes, e \in Execs : ~CreateExecFails(s, e)
  BY DEF CreateExecFails
<1> QED
  BY <1>3, <1>4, <1>6, <1>7, <1>8, <1>9, <1>10, <1>11, <1>12
  DEF ExecsNext, ExecRequest, ExecStep, ExecsRestartStep

-----------------------------------------------------------------------------
(***************************************************************************)
(* A running exec has its goroutine                                        *)
(***************************************************************************)
\* requireExecLocked finds an exec that is shown as RUNNING.
LEMMA OwnedIsRunning ==
    ASSUME RunningIsOwned, NEW s \in boxes, NEW e \in Execs, execs[s][e] = "RUNNING"
    PROVE  RunningExec(e) /\ owner[e] = s
BY DEF RunningIsOwned, RunningExec, KnownExec

\* A goroutine that moves on keeps its sandbox.
LEMMA MovedRun ==
    ASSUME ExecTypes, NEW e \in Execs, execRun[e] # NoRun, NEW at \in RunPoint, MoveRun(e, at)
    PROVE  /\ execRun'[e] # NoRun /\ execRun'[e].sb = execRun[e].sb
           /\ \A f \in Execs \ {e} : execRun'[f] = execRun[f]
<1>1. execRun[e] \in [sb : Sandboxes, at : RunPoint]
  BY RunSandbox DEF ExecRun
<1>2. /\ execRun'[e] = [execRun[e] EXCEPT !.at = at]
      /\ \A f \in Execs \ {e} : execRun'[f] = execRun[f]
  BY DEF MoveRun, ExecTypes
<1>3. "sb" \in DOMAIN execRun'[e] /\ execRun'[e].sb = execRun[e].sb
  BY <1>1, <1>2
<1>4. "sb" \notin DOMAIN NoRun
  BY DEF NoRun
<1> QED
  BY <1>2, <1>3, <1>4

\* Only the goroutine of an exec that is no longer RUNNING ends.
LEMMA NextOwned ==
    ASSUME BaseInv, FreshInv, OneSandboxPerExec, RunningIsOwned, ~StoreMayFail,
           [ExecsNext]_allVars
    PROVE  RunningIsOwned'
<1>0. /\ TypeOK /\ LogInv /\ ExecTypes /\ boxes \subseteq Sandboxes
      /\ UnknownShowsNone
      /\ {"EXEC_STARTED", "EXEC_CANCELLED", "EXEC_FINISHED", "EXEC_FAILED"} = ExecEventType
      /\ {"start", "backend", "running", "finished", "failed"} = RunPoint
  BY DEF BaseInv, TypeOK, FreshInv, ExecEventType, RunPoint
<1>1. /\ StateAfter("EXEC_STARTED") = "RUNNING" /\ StateAfter("EXEC_CANCELLED") # "RUNNING"
      /\ StateAfter("EXEC_FINISHED") # "RUNNING" /\ StateAfter("EXEC_FAILED") # "RUNNING"
  BY DEF StateAfter
<1>a. ASSUME NEW s \in Sandboxes, NEW e \in Execs,
             \/ appendExecEvent(s, e, "EXEC_CANCELLED")
             \/ appendExecEvent(s, e, "EXEC_FINISHED")
             \/ appendExecEvent(s, e, "EXEC_FAILED")
      PROVE  /\ execs'[s][e] # "RUNNING"
             /\ \A t \in Sandboxes, f \in Execs :
                    (t = s /\ f = e) \/ execs'[t][f] = execs[t][f]
  BY ZenonT(60), <1>0, <1>1, <1>a, ExecAppendFields
<1>2. ASSUME UNCHANGED <<daemon, boxes, execs, owner, execRun>>
      PROVE  RunningIsOwned'
  BY <1>2 DEF RunningIsOwned
<1>3. ASSUME \/ LifecycleStep \/ ExecsServe
             \/ \E T \in SUBSET Sandboxes : IdleScan(T)
      PROVE  RunningIsOwned'
  <2>1. Widens /\ UNCHANGED <<execs, owner, execRun>>
    BY <1>0, <1>3, LifecycleWidens DEF execVars, execMemory
  <2>2. boxes' \subseteq Sandboxes
    BY NextBase DEF BaseInv, TypeOK
  <2>3. \A s \in boxes' \ boxes, e \in Execs : execs[s][e] = "UNSPECIFIED"
    BY <1>0, <2>1, <2>2 DEF Widens, UnknownShowsNone
  <2> QED
    BY <2>1, <2>3 DEF Widens, RunningIsOwned
<1>4. ASSUME NEW s \in Sandboxes, NEW e \in Execs, CreateExec(s, e)
      PROVE  RunningIsOwned'
  <2>1. /\ daemon = "serving" /\ s \in boxes /\ e \notin execIDs
        /\ UNCHANGED <<daemon, boxes>>
        /\ appendExecEvent(s, e, "EXEC_STARTED") /\ SetOwner(e, s)
        /\ execRun' = [execRun EXCEPT ![e] = [sb |-> s, at |-> "start"]]
    BY <1>4 DEF CreateExec, ExecAcceptable, Known, vars
  <2>2. \A t \in Sandboxes, f \in Execs : (t = s /\ f = e) \/ execs'[t][f] = execs[t][f]
    BY ZenonT(60), <1>0, <2>1, ExecAppendFields
  <2>3. /\ e \in DOMAIN owner' /\ owner'[e] = s
        /\ \A f \in DOMAIN owner \ {e} : f \in DOMAIN owner' /\ owner'[f] = owner[f]
    BY <2>1 DEF SetOwner
  <2>4. /\ execRun'[e] # NoRun /\ execRun'[e].sb = s
        /\ \A f \in Execs \ {e} : execRun'[f] = execRun[f]
    BY <1>0, <2>1 DEF ExecTypes, NoRun
  <2>5. \A t \in Sandboxes : execs[t][e] = "UNSPECIFIED"
    BY <2>1 DEF OneSandboxPerExec, UsedBy
  <2> QED
    BY <1>0, <2>1, <2>2, <2>3, <2>4, <2>5 DEF RunningIsOwned
<1>5. ASSUME NEW s \in Sandboxes, NEW e \in Execs, CreateExecWithoutLogs(s, e)
      PROVE  RunningIsOwned'
  BY <1>2, <1>5 DEF CreateExecWithoutLogs, vars, execMemory
<1>6. ASSUME NEW e \in Execs, CancelExec(e)
      PROVE  RunningIsOwned'
  <2>1. /\ owner[e] \in Sandboxes /\ appendExecEvent(owner[e], e, "EXEC_CANCELLED")
        /\ UNCHANGED <<daemon, boxes, owner, execRun>>
    BY <1>0, <1>6 DEF CancelExec, KnownExec, vars
  <2>2. \A t \in Sandboxes, f \in Execs :
            execs'[t][f] = "RUNNING" => execs[t][f] = "RUNNING"
    BY <1>a, <2>1
  <2> QED
    BY <1>0, <2>1, <2>2 DEF RunningIsOwned
<1>7. ASSUME NEW e \in Execs, EndRun(e), ~RunningExec(e),
             UNCHANGED <<daemon, boxes, execs, owner>>
      PROVE  RunningIsOwned'
  <2>1. \A s \in boxes : execs[s][e] # "RUNNING"
    BY <1>7, OwnedIsRunning
  <2>2. \A f \in Execs \ {e} : execRun'[f] = execRun[f]
    BY <1>0, <1>7 DEF EndRun, ExecTypes
  <2> QED
    BY <1>7, <2>1, <2>2 DEF RunningIsOwned
<1>8. ASSUME NEW e \in Execs, NEW at \in RunPoint, execRun[e] # NoRun, MoveRun(e, at),
             UNCHANGED <<daemon, boxes, execs, owner>>
      PROVE  RunningIsOwned'
  <2>1. /\ execRun'[e] # NoRun /\ execRun'[e].sb = execRun[e].sb
        /\ \A f \in Execs \ {e} : execRun'[f] = execRun[f]
    BY <1>0, <1>8, MovedRun
  <2> QED
    BY <1>8, <2>1 DEF RunningIsOwned
<1>9. ASSUME NEW e \in Execs, ExecStart(e)
      PROVE  RunningIsOwned'
  <2>1. /\ execRun[e] # NoRun /\ UNCHANGED <<daemon, boxes, execs, owner>>
        /\ MoveRun(e, "backend") \/ (~RunningExec(e) /\ EndRun(e))
    BY <1>9 DEF ExecStart, vars
  <2> QED
    BY <1>0, <1>7, <1>8, <2>1
<1>10. ASSUME NEW e \in Execs, BackendExec(e) \/ ExecReturns(e)
       PROVE  RunningIsOwned'
  <2>1. /\ execRun[e] # NoRun /\ UNCHANGED <<execs, owner>>
        /\ \E at \in RunPoint : MoveRun(e, at)
        /\ UNCHANGED vars \/ \E s : dockerContainerEnsureRunning(s)
    BY <1>0, <1>10 DEF BackendExec, ExecReturns
  <2>2. UNCHANGED <<daemon, boxes>>
    BY <2>1 DEF vars, dockerContainerEnsureRunning
  <2> QED
    BY <1>8, <2>1, <2>2
<1>11. ASSUME NEW e \in Execs, ExecFinish(e)
       PROVE  RunningIsOwned'
  <2>1. EndRun(e) /\ UNCHANGED <<daemon, boxes, owner>>
    BY <1>11 DEF ExecFinish, vars
  <2>2. CASE ~RunningExec(e) /\ UNCHANGED execs
    BY <1>7, <2>1, <2>2
  <2>3. CASE /\ RunningExec(e)
             /\ \/ appendExecEvent(owner[e], e, "EXEC_FINISHED")
                \/ appendExecEvent(owner[e], e, "EXEC_FAILED")
    <3>1. owner[e] \in Sandboxes
      BY <1>0, <2>3 DEF RunningExec, KnownExec
    <3>2. /\ execs'[owner[e]][e] # "RUNNING"
          /\ \A t \in Sandboxes, f \in Execs :
                 (t = owner[e] /\ f = e) \/ execs'[t][f] = execs[t][f]
      BY <1>a, <2>3, <3>1
    <3>3. \A t \in boxes : execs'[t][e] # "RUNNING"
      BY <1>0, <3>2, OwnedIsRunning
    <3>4. \A f \in Execs \ {e} : execRun'[f] = execRun[f]
      BY <1>0, <2>1 DEF EndRun, ExecTypes
    <3> QED
      BY <1>0, <2>1, <3>2, <3>3, <3>4 DEF RunningIsOwned
  <2> QED
    BY <1>11, <2>2, <2>3 DEF ExecFinish
<1>12. ASSUME daemon = "restoring", daemon' = daemon, NEW s \in Sandboxes,
              boxes' = boxes \cup {s},
              \A t \in boxes \cup {s}, f \in Execs :
                  execs'[t][f] # "RUNNING" \/ (t \in boxes /\ execs'[t][f] = execs[t][f])
       PROVE  RunningIsOwned'
  <2>1. \A t \in boxes, f \in Execs : execs[t][f] # "RUNNING"
    BY <1>12 DEF RunningIsOwned
  <2>2. \A t \in boxes', f \in Execs : execs'[t][f] # "RUNNING"
    BY <1>12, <2>1
  <2> QED
    BY <2>2 DEF RunningIsOwned
<1>13. ASSUME NEW s \in Sandboxes, RestoreSandbox(s)
       PROVE  RunningIsOwned'
  <2>1. /\ daemon = "restoring" /\ daemon' = daemon /\ s \in configs /\ s \notin boxes
        /\ boxes' = boxes \cup {s} /\ execs' = execs
    BY <1>0, <1>13, RestoreAdds DEF RestoreSandbox
  <2>2. \A f \in Execs : execs[s][f] = "UNSPECIFIED"
    BY <1>0, <2>1 DEF UnknownShowsNone
  <2> QED
    BY <1>12, <2>1, <2>2
<1>14. ASSUME NEW s \in Sandboxes, NEW e \in Execs, RestoreExec(s, e)
       PROVE  RunningIsOwned'
  <2> DEFINE st == resolveExecStateFromEvents(execLog[s], e)
  <2>1. /\ daemon = "restoring" /\ s \in boxes /\ UNCHANGED <<daemon, boxes>>
        /\ \/ isExecTerminal(st) /\ execs' = [execs EXCEPT ![s][e] = st]
           \/ appendExecEvent(s, e, "EXEC_FAILED")
    BY <1>14 DEF RestoreExec, vars
  <2> HIDE DEF st
  <2>2. /\ execs'[s][e] # "RUNNING"
        /\ \A t \in Sandboxes, f \in Execs : (t = s /\ f = e) \/ execs'[t][f] = execs[t][f]
    <3>1. CASE isExecTerminal(st) /\ execs' = [execs EXCEPT ![s][e] = st]
      <4>1. st # "RUNNING"
        BY <3>1 DEF isExecTerminal
      <4> QED
        BY <1>0, <3>1, <4>1 DEF ExecTypes
    <3>2. CASE appendExecEvent(s, e, "EXEC_FAILED")
      BY <1>a, <3>2
    <3> QED
      BY <2>1, <3>1, <3>2
  <2>3. boxes' = boxes \cup {s}
    BY <2>1
  <2> QED
    BY <1>0, <1>12, <2>1, <2>2, <2>3
<1>15. ASSUME NEW T \in SUBSET Sandboxes, ExecsCleanup(T)
       PROVE  RunningIsOwned'
  BY <1>2, <1>15 DEF ExecsCleanup, Cleanup, execMemory
<1>16. CASE ExecsDropPurged
  <2> DEFINE gone == {e \in Execs : \E s \in purging \cap boxes : execs[s][e] # "UNSPECIFIED"}
  <2>1. /\ boxes' = boxes \ purging /\ UNCHANGED <<daemon, execs, execRun>>
        /\ owner' = [e \in DOMAIN owner \ gone |-> owner[e]]
    BY <1>16 DEF ExecsDropPurged, DropPurged
  <2>2. ASSUME NEW t \in boxes', NEW e \in Execs, execs[t][e] = "RUNNING"
        PROVE  e \notin gone
    <3>1. t \in Sandboxes /\ t \notin purging /\ UsedBy(t, e)
      BY <1>0, <2>1, <2>2 DEF UsedBy
    <3>2. \A s \in boxes : execs[s][e] # "UNSPECIFIED" => s = t
      BY <1>0, <3>1 DEF OneSandboxPerExec, UsedBy
    <3> QED
      BY <3>1, <3>2
  <2> HIDE DEF gone
  <2> QED
    BY <2>1, <2>2 DEF RunningIsOwned
<1>17. ASSUME \/ ExecsCrash
              \/ \E s \in Sandboxes, e \in Execs : CrashInCreateExec(s, e)
       PROVE  RunningIsOwned'
  <2>1. boxes' = {}
    BY <1>17, CrashEmpties DEF ExecsCrash, CrashInCreateExec, CrashStep
  <2> QED
    BY <2>1 DEF RunningIsOwned
<1>18. CASE UNCHANGED allVars
  BY <1>2, <1>18 DEF allVars, vars, execVars, execMemory
<1>19. \A s \in Sandboxes, e \in Execs : ~CreateExecFails(s, e)
  BY DEF CreateExecFails
<1> QED
  BY <1>3, <1>4, <1>5, <1>6, <1>9, <1>10, <1>11, <1>13, <1>14, <1>15, <1>16, <1>17, <1>18, <1>19
  DEF ExecsNext, ExecRequest, ExecStep, ExecsRestartStep

-----------------------------------------------------------------------------
(***************************************************************************)
(* An exec ends once                                                       *)
(***************************************************************************)
\* What ExecEndsOnce says of one log.
EndsOnce(log) ==
    \A i, j \in DOMAIN log : (i < j /\ log[i].exec = log[j].exec)
        => log[i].type = "EXEC_STARTED" /\ log[j].type # "EXEC_STARTED"

\* An exec that is not on record, or was started and has not ended, has at
\* most the one event.
LEMMA OpenExec ==
    ASSUME NEW log \in Seq(ExecEvent), EndsOnce(log), NEW e \in Execs,
           resolveExecStateFromEvents(log, e) \in {"UNSPECIFIED", "RUNNING"}
    PROVE  \A i \in DOMAIN log : log[i].exec = e => log[i].type = "EXEC_STARTED"
<1> DEFINE Mine == {i \in DOMAIN log : log[i].exec = e}
<1>1. /\ Len(log) \in Nat /\ Mine \in SUBSET (1..Len(log)) /\ DOMAIN log = 1..Len(log)
      /\ \A i \in DOMAIN log : log[i] \in ExecEvent
  OBVIOUS
<1>2. SUFFICES ASSUME NEW i \in Mine
               PROVE  log[i].type = "EXEC_STARTED"
  OBVIOUS
<1>3. \E m \in Mine : \A j \in Mine : j <= m
  BY <1>1, LastPosition
<1> DEFINE m == Last(Mine)
<1>4. m \in Mine /\ \A j \in Mine : j <= m
  BY <1>3 DEF Last
<1>5. resolveExecStateFromEvents(log, e) = StateAfter(log[m].type)
  BY DEF resolveExecStateFromEvents
<1>6. log[m].type \in ExecEventType
  BY <1>1, <1>4 DEF ExecEvent
<1> HIDE DEF m
<1>7. log[m].type = "EXEC_STARTED"
  BY <1>5, <1>6 DEF StateAfter, ExecEventType
<1>8. i \in Nat /\ m \in Nat /\ i <= m /\ i \in DOMAIN log /\ m \in DOMAIN log
      /\ log[i].exec = log[m].exec
  BY <1>1, <1>2, <1>4
<1>9. CASE i < m
  BY <1>7, <1>8, <1>9 DEF EndsOnce
<1>10. CASE i = m
  BY <1>7, <1>10
<1> QED
  BY <1>8, <1>9, <1>10

\* An event is added to a log that has none of that exec, or its end to one
\* that has only its start.
LEMMA AppendEndsOnce ==
    ASSUME NEW log \in Seq(ExecEvent), EndsOnce(log), NEW ev \in ExecEvent,
           \/ \A i \in DOMAIN log : log[i].exec # ev.exec
           \/ /\ ev.type # "EXEC_STARTED"
              /\ \A i \in DOMAIN log : log[i].exec = ev.exec => log[i].type = "EXEC_STARTED"
    PROVE  EndsOnce(Append(log, ev))
<1> DEFINE new == Append(log, ev)
           n   == Len(log)
<1>1. /\ n \in Nat /\ DOMAIN log = 1..n /\ DOMAIN new = 1..(n + 1)
      /\ new[n + 1] = ev /\ \A i \in 1..n : new[i] = log[i]
  OBVIOUS
<1> HIDE DEF new, n
<1>2. ASSUME NEW i \in DOMAIN new, NEW j \in DOMAIN new, i < j, new[i].exec = new[j].exec
      PROVE  new[i].type = "EXEC_STARTED" /\ new[j].type # "EXEC_STARTED"
  <2>1. i \in 1..n
    BY <1>1, <1>2
  <2>2. CASE j \in 1..n
    BY <1>1, <1>2, <2>1, <2>2 DEF EndsOnce
  <2>3. CASE j = n + 1
    BY <1>1, <1>2, <2>1, <2>3
  <2> QED
    BY <1>1, <2>2, <2>3
<1> QED
  BY <1>2 DEF EndsOnce, new

\* CancelExec, the end of the command and a restart each look at the exec
\* under the lock that they append its end under.
LEMMA NextEndsOnce ==
    ASSUME BaseInv, FreshInv, FollowInv, OneSandboxPerExec, ~StoreMayFail,
           \A s \in configs : EndsOnce(execLog[s]), [ExecsNext]_allVars
    PROVE  \A s \in configs' : EndsOnce(execLog'[s])
<1>0. /\ TypeOK /\ LogInv /\ ExecTypes /\ boxes \subseteq Sandboxes
      /\ configs \subseteq Sandboxes /\ UnreservedIsBlank
      /\ {"EXEC_STARTED", "EXEC_CANCELLED", "EXEC_FINISHED", "EXEC_FAILED"} = ExecEventType
  BY DEF BaseInv, TypeOK, FreshInv, ExecEventType
<1>1. ASSUME NEW s \in Sandboxes, s \notin sandboxIDs
      PROVE  EndsOnce(execLog[s])
  BY <1>0, <1>1 DEF UnreservedIsBlank, EndsOnce
<1>2. configs' \subseteq Sandboxes
  BY NextBase DEF BaseInv, TypeOK
<1>3. ASSUME UNCHANGED execLog, (configs' \ configs) \cap sandboxIDs = {}
      PROVE  \A s \in configs' : EndsOnce(execLog'[s])
  BY <1>1, <1>2, <1>3
<1>4. ASSUME NEW s \in Sandboxes, NEW e \in Execs, NEW type \in ExecEventType,
             appendExecEvent(s, e, type), configs' = configs,
             s \in configs =>
                 \/ \A i \in DOMAIN execLog[s] : execLog[s][i].exec # e
                 \/ /\ type # "EXEC_STARTED"
                    /\ resolveExecStateFromEvents(execLog[s], e) \in {"UNSPECIFIED", "RUNNING"}
      PROVE  \A t \in configs' : EndsOnce(execLog'[t])
  <2> DEFINE ev == [type |-> type, exec |-> e]
  <2>1. /\ execLog'[s] = Append(execLog[s], ev)
        /\ \A t \in Sandboxes \ {s} : execLog'[t] = execLog[t]
    BY <1>0, <1>4, ExecAppendFields
  <2>2. execLog[s] \in Seq(ExecEvent) /\ ev.exec = e /\ ev.type = type /\ ev \in ExecEvent
    BY <1>0 DEF ExecTypes, ExecEvent
  <2> HIDE DEF ev
  <2>3. ASSUME s \in configs
        PROVE  EndsOnce(execLog'[s])
    <3>1. CASE \A i \in DOMAIN execLog[s] : execLog[s][i].exec # e
      BY <2>1, <2>2, <2>3, <3>1, AppendEndsOnce
    <3>2. CASE /\ type # "EXEC_STARTED"
               /\ resolveExecStateFromEvents(execLog[s], e) \in {"UNSPECIFIED", "RUNNING"}
      <4>1. \A i \in DOMAIN execLog[s] :
                execLog[s][i].exec = e => execLog[s][i].type = "EXEC_STARTED"
        BY <2>2, <2>3, <3>2, OpenExec
      <4> QED
        BY <2>1, <2>2, <2>3, <3>2, <4>1, AppendEndsOnce
    <3> QED
      BY <1>4, <2>3, <3>1, <3>2
  <2> QED
    BY <1>0, <1>4, <2>1, <2>3
<1>5. ASSUME NEW s \in Sandboxes, NEW e \in Execs, CreateExec(s, e)
      PROVE  \A t \in configs' : EndsOnce(execLog'[t])
  <2>1. /\ appendExecEvent(s, e, "EXEC_STARTED") /\ configs' = configs
        /\ \A i \in DOMAIN execLog[s] : execLog[s][i].exec # e
    BY <1>5 DEF CreateExec, ExecAcceptable, vars, idVars, OneSandboxPerExec
  <2> QED
    BY <1>0, <1>4, <2>1
<1>6. ASSUME NEW s \in boxes, NEW e \in Execs, execs[s][e] = "RUNNING"
      PROVE  s \in configs => resolveExecStateFromEvents(execLog[s], e) = "RUNNING"
  BY <1>6 DEF FollowInv
<1>7. ASSUME NEW e \in Execs, CancelExec(e)
      PROVE  \A t \in configs' : EndsOnce(execLog'[t])
  <2> DEFINE s == owner[e]
  <2>1. /\ s \in boxes /\ execs[s][e] # "UNSPECIFIED" /\ ~isExecTerminal(execs[s][e])
        /\ appendExecEvent(s, e, "EXEC_CANCELLED") /\ configs' = configs
    BY <1>7 DEF CancelExec, KnownExec, vars, idVars
  <2> HIDE DEF s
  <2>2. execs[s][e] \in ExecState
    BY <1>0, <2>1 DEF ExecTypes
  <2>3. execs[s][e] = "RUNNING"
    BY <2>1, <2>2 DEF isExecTerminal, ExecState
  <2> QED
    BY <1>0, <1>4, <1>6, <2>1, <2>3
<1>8. ASSUME NEW e \in Execs, ExecFinish(e)
      PROVE  \A t \in configs' : EndsOnce(execLog'[t])
  <2>1. configs' = configs
    BY <1>8 DEF ExecFinish, vars, idVars
  <2>2. CASE UNCHANGED execLog
    BY <1>3, <2>1, <2>2
  <2>3. ASSUME RunningExec(e), NEW type \in {"EXEC_FINISHED", "EXEC_FAILED"},
               appendExecEvent(owner[e], e, type)
        PROVE  \A t \in configs' : EndsOnce(execLog'[t])
    <3> DEFINE s == owner[e]
    <3>1. s \in boxes /\ execs[s][e] = "RUNNING" /\ appendExecEvent(s, e, type)
      BY <2>3 DEF RunningExec, KnownExec
    <3> HIDE DEF s
    <3>2. type \in ExecEventType /\ type # "EXEC_STARTED"
      BY <1>0
    <3> QED
      BY <1>0, <1>4, <1>6, <2>1, <3>1, <3>2
  <2> QED
    BY <1>8, <2>2, <2>3 DEF ExecFinish
<1>9. ASSUME NEW s \in Sandboxes, NEW e \in Execs, RestoreExec(s, e)
      PROVE  \A t \in configs' : EndsOnce(execLog'[t])
  <2> DEFINE st == resolveExecStateFromEvents(execLog[s], e)
  <2>1. /\ configs' = configs
        /\ UNCHANGED execLog \/ (appendExecEvent(s, e, "EXEC_FAILED") /\ ~isExecTerminal(st))
    BY <1>9 DEF RestoreExec, vars, idVars
  <2>2. CASE UNCHANGED execLog
    BY <1>3, <2>1, <2>2
  <2>3. CASE appendExecEvent(s, e, "EXEC_FAILED") /\ ~isExecTerminal(st)
    <3>1. st \in ExecState
      BY <1>0, ResolveType DEF ExecTypes
    <3>2. st \in {"UNSPECIFIED", "RUNNING"}
      <4> HIDE DEF st
      <4> QED
        BY <2>3, <3>1 DEF ExecState, isExecTerminal
    <3> QED
      BY <1>0, <1>4, <2>1, <2>3, <3>2
  <2> QED
    BY <2>1, <2>2, <2>3
<1>10. ASSUME NEW T \in SUBSET Sandboxes, ExecsCleanup(T)
       PROVE  \A t \in configs' : EndsOnce(execLog'[t])
  <2>1. /\ configs' = configs \ T
        /\ \A s \in Sandboxes \ T : execLog'[s] = execLog[s]
    BY <1>10 DEF ExecsCleanup, Cleanup
  <2> QED
    BY <1>0, <2>1
<1>11. CASE \/ ExecsDropPurged
            \/ \E s \in Sandboxes : RestoreSandbox(s)
  <2>1. UNCHANGED <<configs, execLog>>
    BY <1>0, <1>11, RestoreAdds
    DEF ExecsDropPurged, DropPurged, RestoreSandbox, idVars, execStore
  <2> QED
    BY <1>3, <2>1
<1>12. ASSUME \/ ExecsCrash
              \/ \E s \in Sandboxes, e \in Execs : CrashInCreateExec(s, e)
       PROVE  \A t \in configs' : EndsOnce(execLog'[t])
  <2>1. UNCHANGED execLog /\ (configs' \ configs) \cap sandboxIDs = {}
    BY <1>12, CrashEmpties DEF ExecsCrash, CrashInCreateExec, CrashStep, execStore
  <2> QED
    BY <1>3, <2>1
<1>13. ASSUME \/ LifecycleStep \/ ExecsServe
              \/ \E T \in SUBSET Sandboxes : IdleScan(T)
       PROVE  \A t \in configs' : EndsOnce(execLog'[t])
  BY <1>0, <1>3, <1>13, LifecycleWidens DEF Widens, execVars, execStore
<1>14. ASSUME \/ UNCHANGED allVars
              \/ \E s \in Sandboxes, e \in Execs : CreateExecWithoutLogs(s, e)
              \/ \E e \in Execs : ExecStart(e) \/ BackendExec(e) \/ ExecReturns(e)
       PROVE  \A t \in configs' : EndsOnce(execLog'[t])
  <2>1. UNCHANGED <<configs, execLog>>
    BY <1>14 DEF allVars, vars, idVars, execVars, execStore, CreateExecWithoutLogs,
       ExecStart, BackendExec, ExecReturns, dockerContainerEnsureRunning
  <2> QED
    BY <1>3, <2>1
<1>15. \A s \in Sandboxes, e \in Execs : ~CreateExecFails(s, e)
  BY DEF CreateExecFails
<1> QED
  BY <1>5, <1>7, <1>8, <1>9, <1>10, <1>11, <1>12, <1>13, <1>14, <1>15
  DEF ExecsNext, ExecRequest, ExecStep, ExecsRestartStep

-----------------------------------------------------------------------------
\* The inductive invariant of the execs.
ExecsInv == BaseInv /\ FreshInv /\ FollowInv /\ ReliableInv

\* It holds before the daemon has started.
LEMMA InitExecsInv == ExecsInit => ExecsInv
<1> SUFFICES ASSUME ExecsInit
             PROVE  ExecsInv
  OBVIOUS
<1>1. OneSandboxPerExec
  BY DEF ExecsInit, OneSandboxPerExec, UsedBy
<1>2. RunningIsOwned /\ ExecEndsOnce
  BY DEF ExecsInit, Init, RunningIsOwned, ExecEndsOnce
<1> QED
  BY <1>1, <1>2, InitBase, InitFollow DEF ExecsInv, ReliableInv

\* Every step keeps it.
LEMMA NextExecsInv == ExecsInv /\ [ExecsNext]_allVars => ExecsInv'
<1> SUFFICES ASSUME ExecsInv, [ExecsNext]_allVars
             PROVE  ExecsInv'
  OBVIOUS
<1>1. BaseInv /\ FreshInv /\ FollowInv
  BY DEF ExecsInv
<1>2. BaseInv' /\ FreshInv' /\ FollowInv'
  BY <1>1, NextBase, NextFresh, NextFollow
<1>3. CASE StoreMayFail
  BY <1>2, <1>3 DEF ExecsInv, ReliableInv
<1>4. CASE ~StoreMayFail
  <2>1. OneSandboxPerExec /\ RunningIsOwned /\ \A s \in configs : EndsOnce(execLog[s])
    BY <1>4 DEF ExecsInv, ReliableInv, ExecEndsOnce, EndsOnce
  <2>2. OneSandboxPerExec' /\ RunningIsOwned' /\ \A s \in configs' : EndsOnce(execLog'[s])
    BY <1>1, <1>4, <2>1, NextOneSandbox, NextOwned, NextEndsOnce
  <2>3. ExecEndsOnce'
    BY <2>2 DEF ExecEndsOnce, EndsOnce
  <2> QED
    BY <1>2, <2>2, <2>3 DEF ExecsInv, ReliableInv
<1> QED
  BY <1>3, <1>4

\* Types, freshness, agreement with the log and the ownership of running
\* execs hold in every state the daemon reaches.
THEOREM ExecsInvariant == ExecsSpec => []ExecsInv
BY InitExecsInv, NextExecsInv, PTL DEF ExecsSpec

\* As long as the store works, an exec's history is its start and then at most
\* one end, whatever CancelExec, the goroutine of completeExec and the
\* restore after a crash race to write.
THEOREM ExecEndsOnceCorrect == ExecsSpec => []ExecEndsOnce
<1>1. ExecsInv => ExecEndsOnce
  BY DEF ExecsInv, ReliableInv, ExecEndsOnce
<1> QED
  BY <1>1, ExecsInvariant, PTL

\* As long as the store works, an exec shown as RUNNING still has the
\* goroutine that will record its end, so that it cannot keep the idle scan
\* away from the sandbox for good.
THEOREM RunningHasWorkerCorrect == ExecsSpec => []RunningHasWorker
<1>1. ExecsInv => RunningHasWorker
  BY DEF ExecsInv, ReliableInv, RunningIsOwned, RunningHasWorker
<1> QED
  BY <1>1, ExecsInvariant, PTL

=============================================================================
