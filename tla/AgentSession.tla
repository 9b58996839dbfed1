----------------------------- MODULE AgentSession -----------------------------
(***************************************************************************)
(* An agent session of the agbox command (cmd/agbox/agent_session.go): it  *)
(* creates a sandbox, waits until it is READY, attaches a terminal to it   *)
(* or leaves it running, and deletes it on its way out unless it was       *)
(* meant to stay.  Signals arrive at any moment; the daemon, the event     *)
(* stream and the docker child fail or answer in their own time.           *)
(*                                                                         *)
(* The daemon is modelled in SandboxLifecycle; here it is the history of   *)
(* states the sandbox goes through, as the session's stream delivers it.   *)
(***************************************************************************)
EXTENDS Naturals, Sequences

CONSTANTS Modes,        \* the commands, see AllModes
          MaxHistory,   \* bound: states the sandbox goes through
          MaxSignals,   \* bound: signals of each kind
          MaxFaults     \* bound: calls and streams that fail

\* "paseo" is a long-running session too; "run" and "cancel" are no sessions
\* but the commands of ExecCommand, which share this module's process.
AllModes == {"interactive", "long-running", "paseo", "run", "cancel"}

ASSUME SessionAssumption ==
    /\ Modes \subseteq AllModes
    /\ {MaxHistory, MaxSignals, MaxFaults} \subseteq Nat

VARIABLES
    mode,      \* what kind of session this is
    at,        \* where the session is in its code
    history,   \* the states of its sandbox, as the daemon recorded them
    cursor,    \* how many of them the session has seen
    pending,   \* signals in the session's channels
    signals,   \* counts the signals sent
    child,     \* the docker exec process, and how it ended
    detached,  \* detachSuccess
    deleted,   \* whether the session has asked for the deletion
    said,      \* what the clean-up has told the user
    code,      \* the exit code, as its origin
    faults     \* counts what failed

sessionVars == <<mode, at, history, cursor, pending, signals, child, detached,
                 deleted, said, code, faults>>

-----------------------------------------------------------------------------
CleanUp == {"delete", "get", "subscribeDeleted", "waitDeleted"}
Over == {"ended", "killed"}
Points == {"preflight", "create", "check", "baseline", "subscribe", "wait", "probe", "start",
           "attached", "interrupted", "terminated", "kill", "print"}
              \cup CleanUp \cup Over

\* "child": the exit status of the process that was run.
Codes == {"none", "0", "1", "2", "125", "130", "143", "child"}
LiveChild == {"running", "told", "killing"}
States == {"PENDING", "READY", "STOPPED", "FAILED", "DELETING", "DELETED"}
ChildExit == {"ok", "status", "signal"}

Session == mode \notin {"run", "cancel"}
Created == history # << >>
Last == history[Len(history)]
Reached(st) == st \in {history[i] : i \in 1..Len(history)}

\* Where the service lets a sandbox go from a state.
Follows ==
    [PENDING  |-> {"READY", "FAILED", "DELETING"},
     READY    |-> {"STOPPED", "FAILED", "DELETING"},
     STOPPED  |-> {"PENDING", "DELETING"},
     FAILED   |-> {"PENDING", "DELETING"},
     DELETING |-> {"DELETED", "FAILED"},
     DELETED  |-> {}]

Fault == faults < MaxFaults /\ faults' = faults + 1
NoFault == UNCHANGED faults

\* The parts of the state that only a few steps touch.
signalVars == <<mode, signals>>

-----------------------------------------------------------------------------
(***************************************************************************)
(* Ways out                                                                *)
(***************************************************************************)
\* Mutant: the deferred function deletes whatever became of the session.
LeaveDeleting(c) == code' = c /\ at' = IF Session THEN "delete" ELSE "ended"

\* A return: the deferred function of a session deletes the sandbox, unless
\* detachSuccess.
Leave(c) ==
    /\ code' = c
    /\ at' = IF Session /\ ~detached THEN "delete" ELSE "ended"

\* Mutant: a child that exits with a status counts as interrupted.
exitCodeFromCmdErrSignal(exit, signal) ==
    IF signal # "none" THEN signal ELSE IF exit = "ok" THEN "0" ELSE "1"

exitCodeFromCmdErr(exit, signal) ==
    CASE exit = "ok"     -> IF signal # "none" THEN signal ELSE "0"
      [] exit = "status" -> "child"
      [] exit = "signal" -> IF signal # "none" THEN signal ELSE "1"

Quiet == UNCHANGED <<history, cursor, child, detached, deleted, said>>

\* A buffered signal is taken from its channel.
Take(which, c) ==
    /\ pending[which] > 0
    /\ pending' = [pending EXCEPT ![which] = @ - 1]
    /\ Leave(c)

TakeSignal == Take("int", "130") \/ Take("term", "143")

-----------------------------------------------------------------------------
(***************************************************************************)
(* Until the sandbox is READY                                              *)
(***************************************************************************)
SessionInit ==
    /\ mode \in Modes
    /\ at = CASE mode = "run"    -> "createExec"
              [] mode = "cancel" -> "cancelExec"
              [] OTHER           -> "preflight"
    /\ history = << >> /\ cursor = 0
    /\ pending = [int |-> 0, term |-> 0] /\ signals = [int |-> 0, term |-> 0]
    /\ child = "none"
    /\ detached = FALSE /\ deleted = FALSE
    /\ said = "nothing" /\ code = "none"
    /\ faults = 0

\* What runAgentSession and runInteractiveSession ask for before anything is
\* created: the agent type's own check, the workspace, a terminal, and the
\* user's word for a workspace that is no Git repository.  No signal is
\* handled yet.
PreFlight ==
    /\ at = "preflight"
    /\ \/ at' = "create" /\ UNCHANGED code
       \/ at' = "ended" /\ code' \in {"1", "2"}
    /\ UNCHANGED <<signalVars, pending>> /\ Quiet /\ NoFault

\* CreateSandbox.  The daemon may have created it before the call failed.
CreateSandbox ==
    /\ at = "create"
    /\ \/ history' = <<"PENDING">> /\ at' = "check" /\ NoFault /\ UNCHANGED code
       \/ /\ Fault
          /\ at' = "ended" /\ code' = "1"
          /\ history' \in {<< >>, <<"PENDING">>}
    /\ UNCHANGED <<signalVars, cursor, pending, child, detached, deleted, said>>

\* One look at the channels before the wait.
CheckSignals ==
    /\ at = "check"
    /\ \/ TakeSignal
       \/ pending.int = 0 /\ pending.term = 0 /\ at' = "baseline"
          /\ UNCHANGED <<pending, code>>
    /\ UNCHANGED signalVars /\ Quiet /\ NoFault

\* A state seen while waiting for READY.
Judge(st, on) ==
    CASE st = "READY"                            -> at' = "probe" /\ UNCHANGED code
      [] st \in {"FAILED", "STOPPED", "DELETED"} -> Leave("1")
      [] OTHER                                   -> at' = on /\ UNCHANGED code

\* GetSandbox, and the cursor for the subscription.
ReadyBaseline ==
    /\ at = "baseline"
    /\ \/ Judge(Last, "subscribe") /\ cursor' = Len(history) /\ NoFault
       \/ Fault /\ Leave("1") /\ UNCHANGED cursor
    /\ UNCHANGED <<signalVars, history, pending, child, detached, deleted, said>>

Subscribe ==
    /\ at = "subscribe"
    /\ \/ at' = "wait" /\ NoFault /\ UNCHANGED code
       \/ Fault /\ Leave("1")
    /\ UNCHANGED <<signalVars, pending>> /\ Quiet

\* Mutant: the wait does not look at the channels.
WaitReadyDeaf ==
    /\ at = "wait"
    /\ \/ /\ cursor < Len(history)
          /\ cursor' = cursor + 1
          /\ Judge(history[cursor + 1], "wait")
          /\ NoFault /\ UNCHANGED pending
       \/ Fault /\ Leave("1") /\ UNCHANGED <<pending, cursor>>
    /\ UNCHANGED <<signalVars, history, child, detached, deleted, said>>

\* The select of waitForSandboxReady: any of its cases that is ready.
WaitReady ==
    /\ at = "wait"
    /\ \/ TakeSignal /\ NoFault /\ UNCHANGED cursor
       \/ /\ cursor < Len(history)
          /\ cursor' = cursor + 1
          /\ Judge(history[cursor + 1], "wait")
          /\ NoFault /\ UNCHANGED pending
       \/ Fault /\ Leave("1") /\ UNCHANGED <<pending, cursor>>
    /\ UNCHANGED <<signalVars, history, child, detached, deleted, said>>

\* The probe of the login shell ends within its timeout, well or not, and
\* listens to no signal.  A session that is not interactive then detaches.
resolveContainerLoginShell ==
    /\ at = "probe"
    /\ \/ /\ detached' = (mode # "interactive")
          /\ at' = CASE mode = "interactive"  -> "start"
                     [] mode = "long-running" -> "print"
                     [] mode = "paseo"        -> "createExec"
          /\ UNCHANGED code
       \/ Leave("1") /\ UNCHANGED detached
    /\ NoFault
    /\ UNCHANGED <<signalVars, history, cursor, pending, child, deleted, said>>

-----------------------------------------------------------------------------
(***************************************************************************)
(* Attached                                                                *)
(***************************************************************************)
StartChild ==
    /\ at = "start"
    /\ \/ child' = "running" /\ at' = "attached" /\ NoFault /\ UNCHANGED code
       \/ Fault /\ Leave("1") /\ UNCHANGED child
    /\ UNCHANGED <<signalVars, history, cursor, pending, detached, deleted, said>>

\* The child's end is received, with a signal's code to fall back on.
ChildDone(point, signal) ==
    /\ at = point
    /\ child \in ChildExit
    /\ Leave(exitCodeFromCmdErr(child, signal))
    /\ UNCHANGED <<pending, child>>

\* The select of the attached session.
Attached ==
    /\ \/ ChildDone("attached", "none")
       \/ /\ at = "attached"
          /\ pending.int > 0
          /\ pending' = [pending EXCEPT !.int = @ - 1]
          /\ at' = "interrupted"
          /\ UNCHANGED <<child, code>>
       \/ /\ at = "attached"
          /\ pending.term > 0
          /\ pending' = [pending EXCEPT !.term = @ - 1]
          /\ child' = IF child = "running" THEN "told" ELSE child
          /\ at' = "terminated"
          /\ UNCHANGED code
    /\ UNCHANGED <<signalVars, history, cursor, detached, deleted, said>> /\ NoFault

\* After SIGINT only the child's end is waited for.
Interrupted ==
    /\ ChildDone("interrupted", "130")
    /\ UNCHANGED <<signalVars, history, cursor, detached, deleted, said>> /\ NoFault

\* Mutant: the session leaves as soon as it has sent the kill.
TerminatedHasty ==
    /\ \/ ChildDone("terminated", "143")
       \/ /\ at = "terminated"
          /\ child' = IF child \in LiveChild THEN "killing" ELSE child
          /\ Leave("143")
          /\ UNCHANGED pending
    /\ UNCHANGED <<signalVars, history, cursor, detached, deleted, said>> /\ NoFault

\* After SIGTERM the child has sigtermGracePeriod, and is then killed.
Terminated ==
    /\ \/ ChildDone("terminated", "143")
       \/ /\ at = "terminated"
          /\ child' = IF child \in LiveChild THEN "killing" ELSE child
          /\ at' = "kill"
          /\ UNCHANGED <<pending, code>>
    /\ UNCHANGED <<signalVars, history, cursor, detached, deleted, said>> /\ NoFault

Killed ==
    /\ at = "kill"
    /\ child \in ChildExit
    /\ Leave("143")
    /\ UNCHANGED <<signalVars, pending>> /\ Quiet /\ NoFault

-----------------------------------------------------------------------------
\* The end of a session that stays; one with a pairing URL comes here from
\* ExecCommand.
PrintID ==
    /\ at = "print"
    /\ Leave("0")
    /\ UNCHANGED <<signalVars, pending>> /\ Quiet /\ NoFault

-----------------------------------------------------------------------------
(***************************************************************************)
(* deleteAndWait                                                           *)
(***************************************************************************)
Finish(what) == said' = what /\ at' = "ended"

cleanUpQuiet == UNCHANGED <<signalVars, pending, child, detached, code>>

\* DeleteSandbox: accepted in every state, also of a sandbox already gone.
RequestDelete ==
    /\ at = "delete"
    /\ deleted' = TRUE
    /\ \/ /\ history' = IF Last \in {"DELETING", "DELETED"} THEN history
                        ELSE Append(history, "DELETING")
          /\ at' = "get" /\ NoFault /\ UNCHANGED said
       \/ Fault /\ Finish("warned") /\ UNCHANGED history
    /\ UNCHANGED cursor /\ cleanUpQuiet

\* What a state means to the clean-up.
JudgeDeleted(st, on) ==
    CASE st = "DELETED" -> Finish("cleaned up")
      [] st = "FAILED"  -> Finish("warned")
      [] OTHER          -> at' = on /\ UNCHANGED said

DeletedBaseline ==
    /\ at = "get"
    /\ \/ JudgeDeleted(Last, "subscribeDeleted") /\ cursor' = Len(history) /\ NoFault
       \/ Fault /\ Finish("warned") /\ UNCHANGED cursor
    /\ UNCHANGED <<history, deleted>> /\ cleanUpQuiet

SubscribeDeleted ==
    /\ at = "subscribeDeleted"
    /\ \/ at' = "waitDeleted" /\ NoFault /\ UNCHANGED said
       \/ Fault /\ Finish("warned")
    /\ UNCHANGED <<history, cursor, deleted>> /\ cleanUpQuiet

\* Mutant: the clean-up takes the end of the stream for the end of the sandbox.
WaitDeletedTrusting ==
    /\ at = "waitDeleted"
    /\ \/ /\ cursor < Len(history)
          /\ cursor' = cursor + 1
          /\ JudgeDeleted(history[cursor + 1], "waitDeleted")
          /\ NoFault
       \/ Fault /\ Finish("cleaned up") /\ UNCHANGED cursor
       \/ Finish("warned") /\ UNCHANGED cursor /\ NoFault
    /\ UNCHANGED <<history, deleted>> /\ cleanUpQuiet

\* An event, the end of the stream, or deleteAndWaitTimeout.
WaitDeleted ==
    /\ at = "waitDeleted"
    /\ \/ /\ cursor < Len(history)
          /\ cursor' = cursor + 1
          /\ JudgeDeleted(history[cursor + 1], "waitDeleted")
          /\ NoFault
       \/ Fault /\ Finish("warned") /\ UNCHANGED cursor
       \/ Finish("warned") /\ UNCHANGED cursor /\ NoFault
    /\ UNCHANGED <<history, deleted>> /\ cleanUpQuiet

-----------------------------------------------------------------------------
(***************************************************************************)
(* The world                                                               *)
(***************************************************************************)
Unhandled == mode = "cancel" \/ at = "preflight"

\* SIGINT: the channel has room for two.  A child in the foreground may get
\* it too.  signal.Reset of an interactive session's clean-up has made it
\* deadly, as it is before Notify and for `exec cancel`, which handles none.
Interrupt ==
    /\ at \notin Over
    /\ signals.int < MaxSignals
    /\ signals' = [signals EXCEPT !.int = @ + 1]
    /\ IF Unhandled \/ (mode = "interactive" /\ at \in CleanUp)
       THEN at' = "killed" /\ UNCHANGED <<pending, child>>
       ELSE /\ pending' = [pending EXCEPT !.int = IF @ < 2 THEN @ + 1 ELSE @]
            /\ child' \in {child, IF child = "running" THEN "told" ELSE child}
            /\ UNCHANGED at
    /\ UNCHANGED <<mode, history, cursor, detached, deleted, said, code, faults>>

\* SIGTERM or SIGHUP: the channel has room for one.
Terminate ==
    /\ at \notin Over
    /\ signals.term < MaxSignals
    /\ signals' = [signals EXCEPT !.term = @ + 1]
    /\ IF Unhandled
       THEN at' = "killed" /\ UNCHANGED pending
       ELSE pending' = [pending EXCEPT !.term = 1] /\ UNCHANGED at
    /\ UNCHANGED <<mode, history, cursor, child, detached, deleted, said, code, faults>>

\* The docker exec process ends by itself or because it was told to; a kill
\* leaves it no choice.
ChildExits ==
    /\ child \in LiveChild
    /\ child' \in IF child = "killing" THEN {"signal"} ELSE ChildExit
    /\ UNCHANGED <<mode, at, history, cursor, pending, signals, detached, deleted,
                   said, code, faults>>

\* The daemon moves the sandbox on, for its own reasons or another caller's.
SandboxMoves ==
    /\ Created
    /\ Len(history) < MaxHistory
    /\ \E st \in Follows[Last] : history' = Append(history, st)
    /\ UNCHANGED <<mode, at, cursor, pending, signals, child, detached, deleted,
                   said, code, faults>>

SessionStep ==
    \/ PreFlight \/ CreateSandbox \/ CheckSignals \/ ReadyBaseline \/ Subscribe \/ WaitReady
    \/ resolveContainerLoginShell \/ StartChild
    \/ Attached \/ Interrupted \/ Terminated \/ Killed
    \/ PrintID
    \/ RequestDelete \/ DeletedBaseline \/ SubscribeDeleted \/ WaitDeleted

World == Interrupt \/ Terminate \/ ChildExits \/ SandboxMoves

-----------------------------------------------------------------------------
(***************************************************************************)
(* Properties                                                              *)
(***************************************************************************)
\* A session that ends without a sandbox to keep has seen its sandbox
\* deleted or has said that it may still be there: by the clean-up's warning
\* or by the error of CreateSandbox.  It says "cleaned up" only of a sandbox
\* that the daemon has recorded as DELETED.  A sandbox is left behind on
\* purpose only when it has been READY and the session has never asked for
\* its deletion, whatever failed after that; and a session reports success
\* only with such a sandbox or its child's own.
NoSilentOrphan ==
    /\ (Session /\ at = "ended" /\ ~detached) =>
           \/ Reached("DELETED") /\ said = "cleaned up"
           \/ said = "warned"
           \/ ~deleted /\ (code = "1" \/ ~Created)
    /\ said = "cleaned up" => Reached("DELETED")
    /\ detached => Reached("READY") /\ ~deleted
    /\ (Session /\ at = "ended" /\ code = "0") => detached \/ child = "ok"

\* The clean-up never runs beside a docker exec process that is still there,
\* so that nothing writes to the terminal or uses the sandbox under deletion.
NoChildLeft == at \in CleanUp \cup Over => child \notin LiveChild

=============================================================================
