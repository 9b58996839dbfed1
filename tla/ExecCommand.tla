----------------------------- MODULE ExecCommand -----------------------------
(***************************************************************************)
(* The commands that run or cancel an exec and wait for its end:           *)
(* `agbox sandbox exec` (cmd/agbox/sandbox_exec.go), `agbox exec cancel`   *)
(* (cmd/agbox/exec.go) and the pairing URL of a paseo session, which is    *)
(* the output of an exec.  They read the exec, subscribe from what was     *)
(* read and read it again on every event.  Signals, sessions and their     *)
(* clean-up are AgentSession's; the exec itself is modelled in Execs and   *)
(* is here its state and the number of events its sandbox has recorded.    *)
(***************************************************************************)
EXTENDS AgentSession

CONSTANT MaxEvents   \* bound: events of the sandbox

VARIABLES exec,      \* the exec's state and exit status
          events,    \* how many events the sandbox has recorded
          seen,      \* how many of them the command knows of
          heard,     \* whether the first signal was taken (signalChVar = nil)
          override   \* the signal's exit code, once it overrides the exec's own

execVars == <<exec, events, seen, heard, override>>
commandVars == <<sessionVars, execVars>>

\* The session's state the exec steps leave alone.
rest == <<signalVars, history, cursor, child, detached, deleted, said>>

ExecStates == {"none", "RUNNING", "FINISHED", "FAILED", "CANCELLED"}
ExecPoints == {"createExec", "cancelExec", "execBaseline", "peek", "execSubscribe",
               "execWait", "execGet"}

isTerminalExecState(st) == st \in {"FINISHED", "FAILED", "CANCELLED"}

execExitCode(e) ==
    CASE e.state = "FINISHED" -> e.status
      [] e.state = "FAILED"   -> IF e.status = "0" THEN "125" ELSE e.status
      [] OTHER                -> "125"

\* The pairing goes on only with an exec that succeeded and left an output
\* that can be read.
execDoneResult(e) ==
    \/ e.state = "FINISHED" /\ e.status = "0" /\ at' = "print" /\ UNCHANGED code
    \/ Leave("1")

\* What each command makes of an exec that is over.
Report(e) ==
    CASE mode = "run"    -> Leave(IF override # "none" THEN override ELSE execExitCode(e))
      [] mode = "cancel" -> Leave("0")
      [] mode = "paseo"  -> execDoneResult(e)

\* A call or the stream fails.
CallFails == Fault /\ Leave("1")

-----------------------------------------------------------------------------
CommandInit ==
    /\ SessionInit
    /\ exec = [state |-> IF mode = "cancel" THEN "RUNNING" ELSE "none", status |-> "0"]
    /\ events = 0 /\ seen = 0
    /\ heard = FALSE /\ override = "none"

CreateExec ==
    /\ at = "createExec"
    /\ \/ /\ exec' = [exec EXCEPT !.state = "RUNNING"]
          /\ at' = "execBaseline"
          /\ NoFault /\ UNCHANGED code
       \/ CallFails /\ UNCHANGED exec
    /\ UNCHANGED <<rest, pending, events, seen, heard, override>>

\* The daemon's CancelExec: the exec is CANCELLED at once and an event tells.
Cancelled ==
    /\ exec.state = "RUNNING"
    /\ exec' = [exec EXCEPT !.state = "CANCELLED"]
    /\ events' = events + 1

AlreadyTerminal ==
    /\ isTerminalExecState(exec.state)
    /\ UNCHANGED <<exec, events>>

\* runExecCancel: an exec that is over counts as cancelled.
CancelExec ==
    /\ at = "cancelExec"
    /\ \/ Cancelled /\ at' = "execBaseline" /\ NoFault /\ UNCHANGED code
       \/ AlreadyTerminal /\ Leave("0") /\ NoFault
       \/ CallFails /\ (Cancelled \/ UNCHANGED <<exec, events>>)
    /\ UNCHANGED <<rest, pending, seen, heard, override>>

\* GetExec: state and LastEventSequence under one lock.
ExecBaseline ==
    /\ at = "execBaseline"
    /\ \/ /\ NoFault
          /\ IF isTerminalExecState(exec.state)
             THEN IF mode = "run" THEN at' = "peek" /\ UNCHANGED code
                  ELSE Report(exec)
             ELSE at' = "execSubscribe" /\ UNCHANGED code
          /\ seen' = events
       \/ CallFails /\ UNCHANGED seen
    /\ UNCHANGED <<rest, pending, exec, events, heard, override>>

\* A signal of the command's channel is taken.
Signal(which, c) ==
    /\ pending[which] > 0
    /\ pending' = [pending EXCEPT ![which] = @ - 1]
    /\ heard' = TRUE
    /\ override' = c

\* peekExecSignal: a signal that came too late does not change the result,
\* but the daemon is asked.
PeekSignal ==
    /\ at = "peek"
    /\ \/ /\ pending.int = 0 /\ pending.term = 0
          /\ Report(exec) /\ NoFault
          /\ UNCHANGED <<pending, exec, events, heard, override>>
       \/ /\ \E which \in {"int", "term"} : Signal(which, "none")
          /\ AlreadyTerminal
          /\ Report(exec) /\ NoFault
       \/ /\ \E which \in {"int", "term"} : Signal(which, "none")
          /\ CallFails /\ UNCHANGED <<exec, events>>
    /\ UNCHANGED <<rest, seen>>

\* Mutant: the subscription starts at what has happened by now.
ExecSubscribeNow ==
    /\ at = "execSubscribe"
    /\ \/ at' = "execWait" /\ NoFault /\ seen' = events /\ UNCHANGED code
       \/ CallFails /\ UNCHANGED seen
    /\ UNCHANGED <<rest, pending, exec, events, heard, override>>

ExecSubscribe ==
    /\ at = "execSubscribe"
    /\ \/ at' = "execWait" /\ NoFault /\ UNCHANGED code
       \/ CallFails
    /\ UNCHANGED <<rest, pending, execVars>>

\* Mutant: the signal's code is returned also when the exec was over.
ExecSignalOverrides(which, c) ==
    /\ at = "execWait"
    /\ mode = "run"
    /\ ~heard
    /\ \/ /\ Cancelled \/ AlreadyTerminal
          /\ Signal(which, c) /\ NoFault /\ UNCHANGED <<at, code>>
       \/ Signal(which, "none") /\ CallFails /\ (Cancelled \/ UNCHANGED <<exec, events>>)
    /\ UNCHANGED <<rest, seen>>

\* The first signal cancels the exec; its exit code counts if that was
\* accepted.  Later ones are not listened to.
ExecSignal(which, c) ==
    /\ at = "execWait"
    /\ mode = "run"
    /\ ~heard
    /\ \/ Cancelled /\ Signal(which, c) /\ NoFault /\ UNCHANGED <<at, code>>
       \/ AlreadyTerminal /\ Signal(which, "none") /\ NoFault /\ UNCHANGED <<at, code>>
       \/ Signal(which, "none") /\ CallFails /\ (Cancelled \/ UNCHANGED <<exec, events>>)
    /\ UNCHANGED <<rest, seen>>

\* An event, or the end of the stream.
ExecEvent ==
    /\ at = "execWait"
    /\ \/ seen < events /\ seen' = seen + 1 /\ at' = "execGet" /\ NoFault /\ UNCHANGED code
       \/ CallFails /\ UNCHANGED seen
    /\ UNCHANGED <<rest, pending, exec, events, heard, override>>

\* GetExec after an event.
ExecGet ==
    /\ at = "execGet"
    /\ \/ /\ NoFault
          /\ IF isTerminalExecState(exec.state) THEN Report(exec)
             ELSE at' = "execWait" /\ UNCHANGED code
       \/ CallFails
    /\ UNCHANGED <<rest, pending, execVars>>

-----------------------------------------------------------------------------
\* The exec ends by itself, with the sandbox, or cancelled by another call.
ExecMoves ==
    /\ exec.state = "RUNNING"
    /\ exec' \in [state : {"FINISHED", "FAILED"}, status : {"0", "child"}]
                     \cup {[state |-> "CANCELLED", status |-> "0"]}
    /\ events' = events + 1
    /\ UNCHANGED <<sessionVars, seen, heard, override>>

\* Something else happens in the sandbox.
OtherEvent ==
    /\ exec.state # "none"
    /\ events < MaxEvents
    /\ events' = events + 1
    /\ UNCHANGED <<sessionVars, exec, seen, heard, override>>

ExecStep ==
    \/ CreateExec \/ CancelExec \/ ExecBaseline \/ PeekSignal
    \/ ExecSubscribe \/ ExecEvent \/ ExecGet
    \/ ExecSignal("int", "130") \/ ExecSignal("term", "143")

CommandNext ==
    \/ SessionStep /\ UNCHANGED execVars
    \/ World /\ UNCHANGED execVars
    \/ ExecStep
    \/ ExecMoves
    \/ OtherEvent

(***************************************************************************)
(* Fairness: the command takes the steps it can, timers fire, and a killed *)
(* process dies.  Nothing obliges a call to fail, nor the child, the exec, *)
(* the user or the daemon's other callers to do anything.                  *)
(***************************************************************************)
CommandFairness ==
    /\ WF_commandVars(SessionStep /\ NoFault /\ UNCHANGED execVars)
    /\ WF_commandVars(ExecStep /\ NoFault)
    /\ WF_commandVars(child = "killing" /\ ChildExits /\ UNCHANGED execVars)

CommandSpec == CommandInit /\ [][CommandNext]_commandVars /\ CommandFairness

-----------------------------------------------------------------------------
(***************************************************************************)
(* Properties                                                              *)
(***************************************************************************)
\* Every variable keeps its kind of value.
CommandTypeOK ==
    /\ mode \in Modes
    /\ at \in Points \cup ExecPoints
    /\ history \in Seq(States) /\ cursor \in 0..Len(history)
    /\ pending \in [int : 0..2, term : 0..1]
    /\ signals \in [int : 0..MaxSignals, term : 0..MaxSignals]
    /\ child \in {"none"} \cup LiveChild \cup ChildExit
    /\ {detached, deleted, heard} \subseteq BOOLEAN
    /\ said \in {"nothing", "cleaned up", "warned"}
    /\ code \in Codes
    /\ faults \in 0..MaxFaults
    /\ exec \in [state : ExecStates, status : {"0", "child"}]
    /\ events \in 0..(MaxEvents + 1) /\ seen \in 0..events
    /\ override \in {"none", "130", "143"}

\* The exit code tells what happened.  A session passes its child's own
\* status on, also when a signal was received while the child ran, except
\* when it killed the child; 130 and 143 mean that the signal was received.
\* `agbox sandbox exec` returns 130 or 143 only for an exec that its own
\* cancellation ended, and never success for one that did not succeed: a
\* signal that loses the race against the exec's end changes nothing.
ExitCodeTells ==
    /\ (at \in CleanUp \cup Over /\ mode = "interactive") =>
           /\ (child = "status" /\ code # "143") => code = "child"
           /\ code = "130" => signals.int > 0
           /\ code = "143" => signals.term > 0
    /\ (mode = "run" /\ at = "ended" /\ code # "1") =>
           /\ isTerminalExecState(exec.state)
           /\ code \in {"130", "143"} => exec.state = "CANCELLED"
           /\ code = "0" <=> exec = [state |-> "FINISHED", status |-> "0"]
           /\ code = "child" => exec.status = "child"

\* A command does not go on waiting for an exec that is over: between
\* GetExec, the subscription and the events no end of an exec is missed.
ExecEndNoticed ==
    isTerminalExecState(exec.state) ~> at \notin ExecPoints

\* SIGTERM and SIGHUP end a command, unless it is a session that already
\* waits for its child after a SIGINT, or for the pairing URL: these waits
\* listen to no signal.
TerminateEnds ==
    pending.term > 0 ~> \/ at \in Over \cup {"interrupted"}
                        \/ mode = "paseo" /\ at \in ExecPoints

=============================================================================
