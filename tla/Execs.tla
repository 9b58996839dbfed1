-------------------------------- MODULE Execs --------------------------------
(***************************************************************************)
(* Commands run in sandboxes (CreateExec, CancelExec, completeExec), on    *)
(* top of the life cycle of the sandboxes.  Every lifecycle step is also   *)
(* a step of this module; the steps that touch the exec part of a record   *)
(* say here what they do to it.                                            *)
(*                                                                         *)
(* The code interleaves exec events with the sandbox's own in one log and  *)
(* one numbering; they carry no sandbox state.  execLog is that log        *)
(* restricted to exec events, events and bucket the rest of it.            *)
(***************************************************************************)
EXTENDS SandboxLifecycle

CONSTANT Execs        \* exec ids callers may ask for

VARIABLES
    execs,         \* record.execs: the state of each exec, by sandbox
    owner,         \* Service.execs: from exec id to sandbox id
    execRun,       \* the completeExec goroutine of each exec
    lastRun,       \* record.lastTerminalRunFinishedAt, as a place in execLog
    execIDs,       \* bucket of reserved exec ids
    execConfigs,   \* entries of the exec-config buckets
    execLog        \* the exec events stored for each sandbox

execMemory == <<execs, owner, execRun, lastRun>>
execStore  == <<execIDs, execConfigs, execLog>>
execVars   == <<execMemory, execStore>>
allVars    == <<vars, execVars>>

-----------------------------------------------------------------------------
(***************************************************************************)
(* Values                                                                  *)
(***************************************************************************)
\* "UNSPECIFIED" stands for an id record.execs has no entry for.
ExecState == {"UNSPECIFIED", "RUNNING", "FINISHED", "FAILED", "CANCELLED"}

ExecEventType == {"EXEC_STARTED", "EXEC_FINISHED", "EXEC_FAILED", "EXEC_CANCELLED"}

ExecEvent == [type : ExecEventType, exec : Execs]

isExecTerminal(st) == st \in {"FINISHED", "FAILED", "CANCELLED"}

NoRun == [at |-> "none"]

\* Before the first lock, before the Docker calls, while the command runs,
\* and back with its outcome.
RunPoint == {"start", "backend", "running", "finished", "failed"}

ExecRun == [sb : Sandboxes, at : RunPoint]

\* eventTypeForExec the other way round: the state an event leads to.
StateAfter(type) ==
    CASE type = "EXEC_STARTED"   -> "RUNNING"
      [] type = "EXEC_FINISHED"  -> "FINISHED"
      [] type = "EXEC_FAILED"    -> "FAILED"
      [] type = "EXEC_CANCELLED" -> "CANCELLED"

Last(S) == CHOOSE i \in S : \A j \in S : j <= i

resolveExecStateFromEvents(log, e) ==
    LET Mine == {i \in DOMAIN log : log[i].exec = e}
    IN  IF Mine = {} THEN "UNSPECIFIED" ELSE StateAfter(log[Last(Mine)].type)

\* The place of the event that restorePersistedSandboxes takes
\* lastTerminalRunFinishedAt from: failures do not count.  0 is the zero
\* time, for which idleScanAndStop falls back to the creation time.
LastRun(log) ==
    LET Runs == {i \in DOMAIN log : log[i].type \in {"EXEC_FINISHED", "EXEC_CANCELLED"}}
    IN  IF Runs = {} THEN 0 ELSE Last(Runs)

-----------------------------------------------------------------------------
(***************************************************************************)
(* The daemon's view of an exec                                            *)
(***************************************************************************)
\* requireExecLocked
KnownExec(e) ==
    /\ daemon = "serving"
    /\ e \in DOMAIN owner
    /\ owner[e] \in boxes
    /\ execs[owner[e]][e] # "UNSPECIFIED"

RunningExec(e) == KnownExec(e) /\ execs[owner[e]][e] = "RUNNING"

hasActiveExec(s) == \E e \in Execs : execs[s][e] = "RUNNING"

\* appendEventLocked with an exec id, and the exec's new state.
appendExecEvent(s, e, type) ==
    /\ execLog' = [execLog EXCEPT ![s] = Append(@, [type |-> type, exec |-> e])]
    /\ execs' = [execs EXCEPT ![s][e] = StateAfter(type)]

SetOwner(e, s) ==
    owner' = [x \in DOMAIN owner \cup {e} |-> IF x = e THEN s ELSE owner[x]]

MoveRun(e, at) == execRun' = [execRun EXCEPT ![e].at = at]

EndRun(e) == execRun' = [execRun EXCEPT ![e] = NoRun]

-----------------------------------------------------------------------------
ExecsInit ==
    /\ Init
    /\ execs = [s \in Sandboxes |-> [e \in Execs |-> "UNSPECIFIED"]]
    /\ owner = << >>
    /\ execRun = [e \in Execs |-> NoRun]
    /\ lastRun = [s \in Sandboxes |-> 0]
    /\ execIDs = {}
    /\ execConfigs = {}
    /\ execLog = [s \in Sandboxes |-> << >>]

-----------------------------------------------------------------------------
(***************************************************************************)
(* gRPC handlers                                                           *)
(***************************************************************************)
ExecAcceptable(s, e) ==
    /\ Known(s)
    /\ state[s] = "READY"
    /\ e \notin execIDs                           \* allocateExecID

CreateExec(s, e) ==
    /\ ExecAcceptable(s, e)
    /\ execIDs' = execIDs \cup {e}
    /\ execConfigs' = execConfigs \cup {<<s, e>>}
    /\ appendExecEvent(s, e, "EXEC_STARTED")
    /\ SetOwner(e, s)
    /\ execRun' = [execRun EXCEPT ![e] = [sb |-> s, at |-> "start"]]
    /\ UNCHANGED <<vars, lastRun>>

\* The log files could not be prepared: the reservation and the config stay.
CreateExecWithoutLogs(s, e) ==
    /\ ExecAcceptable(s, e)
    /\ execIDs' = execIDs \cup {e}
    /\ execConfigs' = execConfigs \cup {<<s, e>>}
    /\ UNCHANGED <<vars, execMemory, execLog>>

\* Saving the config or appending EXEC_STARTED failed.  The id is released,
\* unless that fails too; a config that was saved stays.
CreateExecFails(s, e) ==
    /\ StoreMayFail
    /\ ExecAcceptable(s, e)
    /\ execIDs' \in {execIDs, execIDs \cup {e}}
    /\ execConfigs' \in {execConfigs, execConfigs \cup {<<s, e>>}}
    /\ UNCHANGED <<vars, execMemory, execLog>>

\* Mutant: a cancellation does not count as a run.
CancelExecUntimed(e) ==
    /\ KnownExec(e)
    /\ ~isExecTerminal(execs[owner[e]][e])
    /\ appendExecEvent(owner[e], e, "EXEC_CANCELLED")
    /\ UNCHANGED <<vars, owner, execRun, lastRun, execIDs, execConfigs>>

\* The cancelled context makes the Docker calls of the run fail.
CancelExec(e) ==
    /\ KnownExec(e)
    /\ ~isExecTerminal(execs[owner[e]][e])
    /\ appendExecEvent(owner[e], e, "EXEC_CANCELLED")
    /\ lastRun' = [lastRun EXCEPT ![owner[e]] = Len(execLog'[owner[e]])]
    /\ UNCHANGED <<vars, owner, execRun, execIDs, execConfigs>>

-----------------------------------------------------------------------------
(***************************************************************************)
(* completeExec                                                            *)
(***************************************************************************)
ExecStart(e) ==
    /\ execRun[e] # NoRun
    /\ execRun[e].at = "start"
    /\ IF RunningExec(e) THEN MoveRun(e, "backend") ELSE EndRun(e)
    /\ UNCHANGED <<vars, execs, owner, lastRun, execStore>>

\* RunExec up to docker exec: a container that does not run is started,
\* unless the exec was cancelled.
BackendExec(e) ==
    /\ execRun[e] # NoRun
    /\ execRun[e].at = "backend"
    /\ LET s == execRun[e].sb IN
       \/ /\ runtimeState[s]
          /\ container[s] # "absent"              \* dockerContainerMustExist
          /\ execs[s][e] # "CANCELLED"
          /\ IF container[s] = "running" THEN UNCHANGED vars
                                         ELSE dockerContainerEnsureRunning(s)
          /\ \E at \in {"running", "failed"} : MoveRun(e, at)
       \/ /\ MoveRun(e, "failed")
          /\ UNCHANGED vars
    /\ UNCHANGED <<execs, owner, lastRun, execStore>>

\* Mutant: only a container that runs is asked for the command's end.
ExecReturnsAlive(e) ==
    /\ execRun[e] # NoRun
    /\ execRun[e].at = "running"
    /\ container[execRun[e].sb] = "running"
    /\ \E at \in {"finished", "failed"} : MoveRun(e, at)
    /\ UNCHANGED <<vars, execs, owner, lastRun, execStore>>

\* The command ends, with exit code 0 or not, or the wait for it fails.
ExecReturns(e) ==
    /\ execRun[e] # NoRun
    /\ execRun[e].at = "running"
    /\ \E at \in {"finished", "failed"} : MoveRun(e, at)
    /\ UNCHANGED <<vars, execs, owner, lastRun, execStore>>

\* Mutant: a run that comes back overwrites a cancellation.
ExecFinishBlindly(e) ==
    /\ execRun[e] # NoRun
    /\ execRun[e].at \in {"finished", "failed"}
    /\ IF KnownExec(e)
       THEN IF execRun[e].at = "finished"
            THEN /\ appendExecEvent(owner[e], e, "EXEC_FINISHED")
                 /\ lastRun' = [lastRun EXCEPT ![owner[e]] = Len(execLog'[owner[e]])]
            ELSE /\ appendExecEvent(owner[e], e, "EXEC_FAILED")
                 /\ UNCHANGED lastRun
       ELSE UNCHANGED <<execs, execLog, lastRun>>
    /\ EndRun(e)
    /\ UNCHANGED <<vars, owner, execIDs, execConfigs>>

\* Only an exec still RUNNING is settled.  When the append fails the exec
\* stays RUNNING, without a goroutine.
ExecFinish(e) ==
    /\ execRun[e] # NoRun
    /\ execRun[e].at \in {"finished", "failed"}
    /\ \/ /\ RunningExec(e)
          /\ IF execRun[e].at = "finished"
             THEN /\ appendExecEvent(owner[e], e, "EXEC_FINISHED")
                  /\ lastRun' = [lastRun EXCEPT ![owner[e]] = Len(execLog'[owner[e]])]
             ELSE /\ appendExecEvent(owner[e], e, "EXEC_FAILED")
                  /\ UNCHANGED lastRun
       \/ /\ ~RunningExec(e) \/ StoreMayFail
          /\ UNCHANGED <<execs, execLog, lastRun>>
    /\ EndRun(e)
    /\ UNCHANGED <<vars, owner, execIDs, execConfigs>>

ExecStep(e) == ExecStart(e) \/ BackendExec(e) \/ ExecReturns(e) \/ ExecFinish(e)

-----------------------------------------------------------------------------
(***************************************************************************)
(* Lifecycle steps that involve execs                                      *)
(***************************************************************************)
\* The idle scan passes over a sandbox with an active exec.
IdleScan(T) ==
    /\ \A s \in T : ~hasActiveExec(s)
    /\ idleScanAndStop(T)
    /\ UNCHANGED execVars

LoseExecs ==
    /\ execs' = [s \in Sandboxes |-> [e \in Execs |-> "UNSPECIFIED"]]
    /\ owner' = << >>
    /\ execRun' = [e \in Execs |-> NoRun]
    /\ lastRun' = [s \in Sandboxes |-> 0]

ExecsCrash ==
    /\ CrashStep
    /\ LoseExecs
    /\ UNCHANGED execStore

\* A crash inside CreateExec: the id is reserved, the config perhaps saved.
CrashInCreateExec(s, e) ==
    /\ ExecAcceptable(s, e)
    /\ Crash
    /\ LoseExecs
    /\ execIDs' = execIDs \cup {e}
    /\ execConfigs' \in {execConfigs, execConfigs \cup {<<s, e>>}}
    /\ UNCHANGED execLog

\* The sandbox part of one iteration of restorePersistedSandboxes.
RestoreSandbox(s) ==
    /\ Restore(s)
    /\ lastRun' = [lastRun EXCEPT ![s] = LastRun(execLog[s])]
    /\ UNCHANGED <<execs, owner, execRun, execStore>>

Unrestored(s) == {e \in Execs : <<s, e>> \in execConfigs /\ execs[s][e] = "UNSPECIFIED"}

\* Mutant: an exec found running is taken over as it is.
RestoreExecRunning(s, e) ==
    /\ daemon = "restoring"
    /\ s \in boxes
    /\ e \in Unrestored(s)
    /\ SetOwner(e, s)
    /\ LET persisted == resolveExecStateFromEvents(execLog[s], e) IN
       IF persisted = "UNSPECIFIED"
       THEN appendExecEvent(s, e, "EXEC_FAILED")
       ELSE execs' = [execs EXCEPT ![s][e] = persisted] /\ UNCHANGED execLog
    /\ UNCHANGED <<vars, execRun, lastRun, execIDs, execConfigs>>

\* One exec of that iteration: one that did not end before the restart is
\* failed.  The daemon may crash between two of them.
RestoreExec(s, e) ==
    /\ daemon = "restoring"
    /\ s \in boxes
    /\ e \in Unrestored(s)
    /\ SetOwner(e, s)
    /\ LET persisted == resolveExecStateFromEvents(execLog[s], e) IN
       IF isExecTerminal(persisted)
       THEN execs' = [execs EXCEPT ![s][e] = persisted] /\ UNCHANGED execLog
       ELSE appendExecEvent(s, e, "EXEC_FAILED")
    /\ UNCHANGED <<vars, execRun, lastRun, execIDs, execConfigs>>

ExecsServe ==
    /\ \A s \in boxes : Unrestored(s) = {}
    /\ Serve
    /\ UNCHANGED execVars

\* The transaction of store.Cleanup also removes the exec configs.
ExecsCleanup(T) ==
    /\ Cleanup(T)
    /\ execConfigs' = {c \in execConfigs : c[1] \notin T}
    /\ execLog' = [s \in Sandboxes |-> IF s \in T THEN << >> ELSE execLog[s]]
    /\ UNCHANGED <<execMemory, execIDs>>

\* cleanupExpiredEvents drops the exec ids of the records it drops.  The
\* goroutines of those execs keep the record.
ExecsDropPurged ==
    /\ DropPurged
    /\ LET gone == {e \in Execs : \E s \in purging \cap boxes :
                                      execs[s][e] # "UNSPECIFIED"}
       IN  owner' = [e \in DOMAIN owner \ gone |-> owner[e]]
    /\ UNCHANGED <<execs, execRun, lastRun, execStore>>

-----------------------------------------------------------------------------
ExecRequest(s, e) ==
    CreateExec(s, e) \/ CreateExecWithoutLogs(s, e) \/ CreateExecFails(s, e)

\* The lifecycle steps that have nothing to do with execs.
LifecycleStep ==
    /\ \/ \E g \in Goroutines : GoroutineStep(g)
       \/ \E T \in SUBSET Sandboxes : Request(T)
       \/ Startup
       \/ DockerStep
    /\ UNCHANGED execVars

ExecsRestartStep ==
    \/ ExecsServe
    \/ \E s \in Sandboxes : RestoreSandbox(s) \/ \E e \in Execs : RestoreExec(s, e)

ExecsNext ==
    \/ \E s \in Sandboxes, e \in Execs : ExecRequest(s, e) \/ CrashInCreateExec(s, e)
    \/ \E e \in Execs : CancelExec(e) \/ ExecStep(e)
    \/ \E T \in SUBSET Sandboxes : IdleScan(T) \/ ExecsCleanup(T)
    \/ ExecsDropPurged
    \/ ExecsCrash
    \/ ExecsRestartStep
    \/ LifecycleStep

ExecsSpec == ExecsInit /\ [][ExecsNext]_allVars

(***************************************************************************)
(* Fairness: as in the life cycle; a goroutine runs, Docker answers, and a *)
(* command ends when its container does.  A command whose container runs   *)
(* may go on for ever.                                                     *)
(***************************************************************************)
ExecsFairness ==
    /\ \A g \in Goroutines : WF_allVars(GoroutineStep(g) /\ UNCHANGED execVars)
    /\ \A e \in Execs :
           /\ WF_allVars(ExecStart(e) \/ BackendExec(e) \/ ExecFinish(e))
           /\ WF_allVars(ExecReturns(e) /\ container[execRun[e].sb] # "running")

-----------------------------------------------------------------------------
(***************************************************************************)
(* Properties                                                              *)
(***************************************************************************)
\* Every variable of the execs has its type.
ExecsTypeOK ==
    /\ TypeOK
    /\ execs \in [Sandboxes -> [Execs -> ExecState]]
    /\ DOMAIN owner \subseteq Execs
    /\ \A e \in DOMAIN owner : owner[e] \in Sandboxes
    /\ execRun \in [Execs -> ExecRun \cup {NoRun}]
    /\ lastRun \in [Sandboxes -> Nat]
    /\ execIDs \subseteq Execs
    /\ execConfigs \subseteq Sandboxes \X Execs
    /\ execLog \in [Sandboxes -> Seq(ExecEvent)]

\* As long as the store works, an exec's events are at most one EXEC_STARTED
\* and then at most one terminal event, whatever CancelExec, the end of the
\* command and a restart race to write.
ExecEndsOnce ==
    StoreMayFail \/
    \A s \in configs : \A i, j \in DOMAIN execLog[s] :
        (i < j /\ execLog[s][i].exec = execLog[s][j].exec)
            => /\ execLog[s][i].type = "EXEC_STARTED"
               /\ execLog[s][j].type # "EXEC_STARTED"

\* What GetExec and the idle scan read is what a restart would recompute
\* from the events: the state of each exec and the time of the last run.
ExecsFollowLog ==
    \A s \in boxes \cap configs :
        /\ daemon = "serving" => lastRun[s] = LastRun(execLog[s])
        /\ \A e \in Execs : execs[s][e] # "UNSPECIFIED" =>
               execs[s][e] = resolveExecStateFromEvents(execLog[s], e)

\* As long as the store works, an exec shown as RUNNING has a goroutine that
\* will record its end; without one it would keep the idle scan away from
\* the sandbox for good.
RunningHasWorker ==
    StoreMayFail \/
    \A s \in boxes : \A e \in Execs :
        execs[s][e] = "RUNNING" => execRun[e] # NoRun /\ execRun[e].sb = s

\* A RUNNING exec whose container stays down ends, or is forgotten.
ExecEnds ==
    \A e \in Execs :
        RunningExec(e) ~> (~RunningExec(e) \/ container[owner[e]] = "running")

\* A sandbox that was stopped stays stopped until it is resumed.  Not kept:
\* RunExec starts a container that is down (README, seen without a run).
StoppedUntilResumed ==
    [][\A s \in boxes : (/\ state[s] = "STOPPED"
                         /\ container[s] = "stopped"
                         /\ container'[s] = "running")
            => RunsFor({"completeSandboxResume"}, s)]_allVars

=============================================================================
