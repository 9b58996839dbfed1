-------------------------- MODULE ExecCommand_proofs --------------------------
(***************************************************************************)
(* Proofs about AgentSession and ExecCommand, for any length of a          *)
(* sandbox's history and any number of signals, failures and events.       *)
(***************************************************************************)
EXTENDS ExecCommand, TLAPS

AttachPoints == {"attached", "interrupted", "terminated", "kill"}

\* What each variable holds, as far as the invariants depend on it.
Histories == history \in Seq(States) /\ cursor \in Nat

Counters ==
    /\ pending \in [int : Nat, term : Nat]
    /\ signals \in [int : Nat, term : Nat]

ExecKind == exec \in [state : ExecStates, status : {"0", "child"}]

Kinds ==
    /\ mode \in AllModes
    /\ at \in Points \cup ExecPoints
    /\ child \in {"none"} \cup LiveChild \cup ChildExit
    /\ said \in {"nothing", "cleaned up", "warned"}
    /\ code \in Codes
    /\ override \in {"none", "130", "143"}

\* Which points each command passes.
Routes ==
    /\ mode = "run" => at \in (ExecPoints \ {"cancelExec"}) \cup {"ended"}
    /\ mode = "cancel" => at \in (ExecPoints \ {"createExec", "peek"}) \cup Over
    /\ mode \in {"interactive", "long-running"} => at \notin ExecPoints
    /\ mode = "paseo" => at \notin {"cancelExec", "peek"}
    /\ at \in AttachPoints \cup {"start"} => mode = "interactive"
    /\ at = "print" => mode \in {"long-running", "paseo"}

\* The docker exec process lives only while the session is attached to it.
Children ==
    /\ child \in LiveChild => at \in AttachPoints
    /\ child # "none" => mode = "interactive" /\ at \in AttachPoints \cup CleanUp \cup Over
    /\ at \in AttachPoints => child # "none"

\* What the session knows of its sandbox, by the point it has reached.
Sandboxes ==
    /\ (Session /\ at \in {"preflight", "create"}) => history = << >>
    /\ (Session /\ at \notin {"preflight", "create"} \cup Over) => Created
    /\ at \in {"probe", "start", "print"} \cup AttachPoints => Reached("READY")
    /\ detached => Reached("READY") /\ ~deleted /\ at \in ExecPoints \cup {"print"} \cup Over
    /\ (Session /\ at \in ExecPoints \cup {"print"}) => detached
    /\ deleted => at \in (CleanUp \ {"delete"}) \cup Over
    /\ said # "nothing" => at = "ended"
    /\ said = "cleaned up" => Reached("DELETED")

\* How a session leaves.
Leaving ==
    /\ at \notin CleanUp \cup Over => code = "none"
    /\ at \in CleanUp => Session /\ ~detached
    /\ (Session /\ at = "ended" /\ ~detached) =>
           \/ said # "nothing"
           \/ ~deleted /\ (code = "1" \/ ~Created)
    /\ (Session /\ at \in CleanUp \cup {"ended"} /\ code = "0") => detached \/ child = "ok"

\* The signals a code or a point stands for have been received.
Signals ==
    /\ pending.int > 0 => signals.int > 0
    /\ pending.term > 0 => signals.term > 0
    /\ at = "interrupted" => signals.int > 0
    /\ at \in {"terminated", "kill"} => signals.term > 0
    /\ (at \in CleanUp \cup Over /\ mode = "interactive") =>
           /\ (child = "status" /\ code # "143") => code = "child"
           /\ code = "130" => signals.int > 0
           /\ code = "143" => signals.term > 0

\* The exec of the command, and the code it has left for the user.
Results ==
    /\ override # "none" => /\ mode = "run" /\ exec.state = "CANCELLED"
                            /\ at \in {"execWait", "execGet", "ended"}
    /\ at = "peek" => isTerminalExecState(exec.state)
    /\ (mode = "run" /\ at = "ended" /\ code # "1") =>
           /\ isTerminalExecState(exec.state)
           /\ code \in {"130", "143"} => exec.state = "CANCELLED"
           /\ code = "0" <=> exec = [state |-> "FINISHED", status |-> "0"]
           /\ code = "child" => exec.status = "child"

CommandInv ==
    /\ Histories /\ Counters /\ ExecKind /\ Kinds
    /\ Routes /\ Children /\ Sandboxes /\ Leaving /\ Signals /\ Results

-----------------------------------------------------------------------------
(***************************************************************************)
(* Facts about signals and histories                                       *)
(***************************************************************************)
USE DEF AllModes, Points, ExecPoints, CleanUp, Over, AttachPoints, LiveChild,
        ChildExit, Codes, ExecStates, Session, Created,
        isTerminalExecState

\* A signal taken from the channel of SIGINT leaves the other channel alone.
LEMMA TakenInt ==
    ASSUME NEW r \in [int : Nat, term : Nat], r["int"] > 0
    PROVE  /\ [r EXCEPT !["int"] = @ - 1] \in [int : Nat, term : Nat]
           /\ [r EXCEPT !["int"] = @ - 1].int = r.int - 1
           /\ [r EXCEPT !["int"] = @ - 1].term = r.term
  OBVIOUS

\* A signal taken from the channel of SIGTERM leaves the other channel alone.
LEMMA TakenTerm ==
    ASSUME NEW r \in [int : Nat, term : Nat], r["term"] > 0
    PROVE  /\ [r EXCEPT !["term"] = @ - 1] \in [int : Nat, term : Nat]
           /\ [r EXCEPT !["term"] = @ - 1].int = r.int
           /\ [r EXCEPT !["term"] = @ - 1].term = r.term - 1
  OBVIOUS

\* What is in a channel after a signal was taken was there before.
TakenFrom ==
    /\ pending' \in [int : Nat, term : Nat]
    /\ pending'.int > 0 => pending.int > 0
    /\ pending'.term > 0 => pending.term > 0

\* Taking a signal from either channel keeps both channels in order.
LEMMA TakenSignal ==
    ASSUME pending \in [int : Nat, term : Nat], NEW which \in {"int", "term"},
           pending[which] > 0,
           pending' = [pending EXCEPT ![which] = @ - 1]
    PROVE  TakenFrom
<1>1. CASE which = "int"
  <2>1. pending["int"] > 0 /\ pending' = [pending EXCEPT !["int"] = @ - 1]
    BY <1>1
  <2> QED
    BY <2>1, TakenInt DEF TakenFrom
<1>2. CASE which = "term"
  <2>1. pending["term"] > 0 /\ pending' = [pending EXCEPT !["term"] = @ - 1]
    BY <1>2
  <2> QED
    BY <2>1, TakenTerm DEF TakenFrom
<1> QED
  BY <1>1, <1>2

\* The histories of a sandbox that is not there and of one just created.
LEMMA ShortSequences ==
    ASSUME NEW S, NEW x \in S
    PROVE  << >> \in Seq(S) /\ <<x>> \in Seq(S)
  OBVIOUS

\* A history knows the state an event stands for.
LEMMA ReachedAt ==
    ASSUME history \in Seq(States), NEW i \in Nat, i < Len(history)
    PROVE  history[i + 1] \in States /\ Reached(history[i + 1])
  BY DEF Reached

\* A history that is not empty knows its last state.
LEMMA LastReached ==
    ASSUME history \in Seq(States), history # << >>
    PROVE  Last \in States /\ Reached(Last)
  BY DEF Reached, Last

ReachedSame ==
    /\ Reached("READY")' <=> Reached("READY")
    /\ Reached("DELETED")' <=> Reached("DELETED")

\* A step that leaves the history alone leaves alone what was reached.
LEMMA ReachedStays ==
    ASSUME history' = history
    PROVE  ReachedSame
  BY DEF Reached, ReachedSame

\* What was reached stays reached when the history goes on.
LEMMA ReachedGrows ==
    ASSUME history \in Seq(States), NEW st \in States,
           history' = Append(history, st)
    PROVE  /\ history' \in Seq(States) /\ history' # << >>
           /\ \A s \in States : Reached(s) => Reached(s)'
<1>1. history' \in Seq(States) /\ Len(history') = Len(history) + 1
  OBVIOUS
<1>2. \A i \in 1..Len(history) : i \in 1..Len(history') /\ history'[i] = history[i]
  BY <1>1
<1>3. history' # << >>
  BY <1>1
<1> QED
  BY <1>1, <1>2, <1>3 DEF Reached

\* What an exit code that is the exec's own says of it.
CodeTells(c) ==
    /\ c \in {"0", "child", "125"}
    /\ c = "0" <=> exec = [state |-> "FINISHED", status |-> "0"]
    /\ c = "child" => exec.status = "child"

\* execExitCode is 0 for an exec that succeeded and for no other.
LEMMA ExitCodeFits ==
    ASSUME ExecKind, isTerminalExecState(exec.state)
    PROVE  CodeTells(execExitCode(exec))
<1>1. exec = [state |-> exec.state, status |-> exec.status]
  BY DEF ExecKind
<1>2. exec = [state |-> "FINISHED", status |-> "0"]
          <=> exec.state = "FINISHED" /\ exec.status = "0"
  BY <1>1
<1>3. exec.status \in {"0", "child"}
  BY DEF ExecKind
<1> QED
  BY <1>2, <1>3 DEF execExitCode, CodeTells

-----------------------------------------------------------------------------
(***************************************************************************)
(* One lemma for every step of the session, the exec and the world         *)
(***************************************************************************)
\* What is asked for before anything exists leaves nothing behind.
LEMMA PreFlightKeeps ==
    ASSUME CommandInv, PreFlight, UNCHANGED execVars
    PROVE  CommandInv'
<1>1. history' = history
  BY DEF PreFlight, Quiet
<1>2. ReachedSame
  BY <1>1, ReachedStays
<1>3. Histories'
  BY <1>1 DEF PreFlight, Quiet, CommandInv, Histories
<1>4. Counters' /\ ExecKind' /\ Kinds'
  BY <1>1, <1>2 DEF PreFlight, Quiet, NoFault, signalVars, ReachedSame,
     CommandInv, Counters, ExecKind, Kinds, Routes, Children, Sandboxes,
     Leaving, Signals, Results, execVars
<1>5. Routes' /\ Children'
  BY <1>1, <1>2 DEF PreFlight, Quiet, NoFault, signalVars, ReachedSame,
     CommandInv, Counters, ExecKind, Kinds, Routes, Children, Sandboxes,
     Leaving, Signals, Results, execVars
<1>6. Sandboxes' /\ Leaving'
  BY <1>1, <1>2 DEF PreFlight, Quiet, NoFault, signalVars, ReachedSame,
     CommandInv, Counters, ExecKind, Kinds, Routes, Children, Sandboxes,
     Leaving, Signals, Results, execVars
<1>7. Signals' /\ Results'
  BY <1>1, <1>2 DEF PreFlight, Quiet, NoFault, signalVars, ReachedSame,
     CommandInv, Counters, ExecKind, Kinds, Routes, Children, Sandboxes,
     Leaving, Signals, Results, execVars
<1> QED
  BY <1>3, <1>4, <1>5, <1>6, <1>7 DEF CommandInv

\* A signal found before the wait leads to the clean-up, with its code.
LEMMA CheckSignalsKeeps ==
    ASSUME CommandInv, CheckSignals, UNCHANGED execVars
    PROVE  CommandInv'
<1>1. history' = history
  BY DEF CheckSignals, Quiet
<1>2. ReachedSame
  BY <1>1, ReachedStays
<1>3. TakenFrom
  <2>1. pending \in [int : Nat, term : Nat]
    BY DEF CommandInv, Counters
  <2>2. CASE UNCHANGED pending
    BY <2>1, <2>2 DEF TakenFrom
  <2>3. CASE TakeSignal
    BY <2>1, <2>3, TakenSignal DEF TakeSignal, Take
  <2> QED
    BY <2>2, <2>3 DEF CheckSignals
<1>4. at = "check" /\ UNCHANGED <<mode, signals, cursor, child, detached, deleted, said>>
  BY DEF CheckSignals, Quiet, signalVars
<1>5. \/ Leave("130") /\ pending.int > 0
      \/ Leave("143") /\ pending.term > 0
      \/ at' = "baseline" /\ UNCHANGED code
  BY DEF CheckSignals, TakeSignal, Take
<1>6. Histories'
  BY <1>1, <1>2, <1>3, <1>4, <1>5 DEF CommandInv, Histories
<1>7. Counters' /\ ExecKind' /\ Kinds'
  BY <1>1, <1>2, <1>3, <1>4, <1>5 DEF TakenFrom, ReachedSame, Leave, execVars,
     CommandInv, Counters, ExecKind, Kinds, Routes, Children, Sandboxes,
     Leaving, Signals, Results
<1>8. Routes' /\ Children'
  BY <1>1, <1>2, <1>3, <1>4, <1>5 DEF TakenFrom, ReachedSame, Leave, execVars,
     CommandInv, Counters, ExecKind, Kinds, Routes, Children, Sandboxes,
     Leaving, Signals, Results
<1>9. Sandboxes' /\ Leaving'
  BY <1>1, <1>2, <1>3, <1>4, <1>5 DEF TakenFrom, ReachedSame, Leave, execVars,
     CommandInv, Counters, ExecKind, Kinds, Routes, Children, Sandboxes,
     Leaving, Signals, Results
<1>10. Signals' /\ Results'
  BY <1>1, <1>2, <1>3, <1>4, <1>5 DEF TakenFrom, ReachedSame, Leave, execVars,
     CommandInv, Counters, ExecKind, Kinds, Routes, Children, Sandboxes,
     Leaving, Signals, Results
<1> QED
  BY <1>6, <1>7, <1>8, <1>9, <1>10 DEF CommandInv

\* A stream that cannot be opened leads to the clean-up.
LEMMA SubscribeKeeps ==
    ASSUME CommandInv, Subscribe, UNCHANGED execVars
    PROVE  CommandInv'
<1>1. history' = history
  BY DEF Subscribe, Quiet
<1>2. ReachedSame
  BY <1>1, ReachedStays
<1>3. Histories'
  BY <1>1 DEF Subscribe, Quiet, CommandInv, Histories
<1>4. Counters' /\ ExecKind' /\ Kinds'
  BY <1>1, <1>2 DEF Subscribe, Leave, Fault, Quiet, NoFault, signalVars,
     ReachedSame, CommandInv, Counters, ExecKind, Kinds, Routes, Children,
     Sandboxes, Leaving, Signals, Results, execVars
<1>5. Routes' /\ Children'
  BY <1>1, <1>2 DEF Subscribe, Leave, Fault, Quiet, NoFault, signalVars,
     ReachedSame, CommandInv, Counters, ExecKind, Kinds, Routes, Children,
     Sandboxes, Leaving, Signals, Results, execVars
<1>6. Sandboxes' /\ Leaving'
  BY <1>1, <1>2 DEF Subscribe, Leave, Fault, Quiet, NoFault, signalVars,
     ReachedSame, CommandInv, Counters, ExecKind, Kinds, Routes, Children,
     Sandboxes, Leaving, Signals, Results, execVars
<1>7. Signals' /\ Results'
  BY <1>1, <1>2 DEF Subscribe, Leave, Fault, Quiet, NoFault, signalVars,
     ReachedSame, CommandInv, Counters, ExecKind, Kinds, Routes, Children,
     Sandboxes, Leaving, Signals, Results, execVars
<1> QED
  BY <1>3, <1>4, <1>5, <1>6, <1>7 DEF CommandInv

\* Only a sandbox that was READY is detached from.
LEMMA resolveContainerLoginShellKeeps ==
    ASSUME CommandInv, resolveContainerLoginShell, UNCHANGED execVars
    PROVE  CommandInv'
<1>1. history' = history
  BY DEF resolveContainerLoginShell
<1>2. ReachedSame
  BY <1>1, ReachedStays
<1>3. /\ at = "probe" /\ mode \in {"interactive", "long-running", "paseo"} /\ ~detached
      /\ UNCHANGED <<mode, signals, pending, cursor, child, deleted, said>>
  BY DEF resolveContainerLoginShell, signalVars, CommandInv, Kinds, Routes, Sandboxes
<1>4. \/ mode = "interactive" /\ at' = "start" /\ ~detached' /\ UNCHANGED code
      \/ mode = "long-running" /\ at' = "print" /\ detached' /\ UNCHANGED code
      \/ mode = "paseo" /\ at' = "createExec" /\ detached' /\ UNCHANGED code
      \/ at' = "delete" /\ code' = "1" /\ ~detached'
  BY <1>3 DEF resolveContainerLoginShell, Leave
<1>5. Histories'
  BY <1>1, <1>2, <1>3, <1>4 DEF CommandInv, Histories
<1>6. Counters' /\ ExecKind' /\ Kinds'
  BY <1>1, <1>2, <1>3, <1>4 DEF ReachedSame, execVars, CommandInv, Counters,
     ExecKind, Kinds, Routes, Children, Sandboxes, Leaving, Signals, Results
<1>7. Routes' /\ Children'
  BY <1>1, <1>2, <1>3, <1>4 DEF ReachedSame, execVars, CommandInv, Counters,
     ExecKind, Kinds, Routes, Children, Sandboxes, Leaving, Signals, Results
<1>8. Sandboxes' /\ Leaving'
  BY <1>1, <1>2, <1>3, <1>4 DEF ReachedSame, execVars, CommandInv, Counters,
     ExecKind, Kinds, Routes, Children, Sandboxes, Leaving, Signals, Results
<1>9. Signals' /\ Results'
  BY <1>1, <1>2, <1>3, <1>4 DEF ReachedSame, execVars, CommandInv, Counters,
     ExecKind, Kinds, Routes, Children, Sandboxes, Leaving, Signals, Results
<1> QED
  BY <1>5, <1>6, <1>7, <1>8, <1>9 DEF CommandInv

\* The docker exec process starts as the session attaches.
LEMMA StartChildKeeps ==
    ASSUME CommandInv, StartChild, UNCHANGED execVars
    PROVE  CommandInv'
<1>1. history' = history
  BY DEF StartChild
<1>2. ReachedSame
  BY <1>1, ReachedStays
<1>3. Histories'
  BY <1>1 DEF StartChild, CommandInv, Histories
<1>4. Counters' /\ ExecKind' /\ Kinds'
  BY <1>1, <1>2 DEF StartChild, Leave, Fault, NoFault, signalVars,
     ReachedSame, CommandInv, Counters, ExecKind, Kinds, Routes, Children,
     Sandboxes, Leaving, Signals, Results, execVars
<1>5. Routes' /\ Children'
  BY <1>1, <1>2 DEF StartChild, Leave, Fault, NoFault, signalVars,
     ReachedSame, CommandInv, Counters, ExecKind, Kinds, Routes, Children,
     Sandboxes, Leaving, Signals, Results, execVars
<1>6. Sandboxes' /\ Leaving'
  BY <1>1, <1>2 DEF StartChild, Leave, Fault, NoFault, signalVars,
     ReachedSame, CommandInv, Counters, ExecKind, Kinds, Routes, Children,
     Sandboxes, Leaving, Signals, Results, execVars
<1>7. Signals' /\ Results'
  BY <1>1, <1>2 DEF StartChild, Leave, Fault, NoFault, signalVars,
     ReachedSame, CommandInv, Counters, ExecKind, Kinds, Routes, Children,
     Sandboxes, Leaving, Signals, Results, execVars
<1> QED
  BY <1>3, <1>4, <1>5, <1>6, <1>7 DEF CommandInv

\* An attached session leaves only when its process has ended.
LEMMA AttachedKeeps ==
    ASSUME CommandInv, Attached, UNCHANGED execVars
    PROVE  CommandInv'
<1>1. history' = history
  BY DEF Attached
<1>2. ReachedSame
  BY <1>1, ReachedStays
<1>3. TakenFrom
  <2>1. pending \in [int : Nat, term : Nat]
    BY DEF CommandInv, Counters
  <2>2. CASE UNCHANGED pending
    BY <2>1, <2>2 DEF TakenFrom
  <2>3. CASE pending.int > 0 /\ pending' = [pending EXCEPT !.int = @ - 1]
    BY <2>1, <2>3 DEF TakenFrom
  <2>4. CASE pending.term > 0 /\ pending' = [pending EXCEPT !.term = @ - 1]
    BY <2>1, <2>4 DEF TakenFrom
  <2> QED
    BY <2>2, <2>3, <2>4 DEF Attached, ChildDone
<1>4. at = "attached" /\ UNCHANGED <<mode, signals, cursor, detached, deleted, said>>
  BY DEF Attached, ChildDone, signalVars
<1>5. \/ /\ child \in ChildExit /\ Leave(exitCodeFromCmdErr(child, "none"))
         /\ UNCHANGED child
      \/ pending.int > 0 /\ at' = "interrupted" /\ UNCHANGED <<child, code>>
      \/ /\ pending.term > 0 /\ at' = "terminated" /\ UNCHANGED code
         /\ child' = IF child = "running" THEN "told" ELSE child
  BY DEF Attached, ChildDone
<1>6. Histories'
  BY <1>1, <1>2, <1>3, <1>4, <1>5 DEF CommandInv, Histories
<1>7. Counters' /\ ExecKind' /\ Kinds'
  BY <1>1, <1>2, <1>3, <1>4, <1>5 DEF TakenFrom, ReachedSame,
     exitCodeFromCmdErr, Leave, execVars, CommandInv, Counters, ExecKind,
     Kinds, Routes, Children, Sandboxes, Leaving, Signals, Results
<1>8. Routes' /\ Children'
  BY <1>1, <1>2, <1>3, <1>4, <1>5 DEF TakenFrom, ReachedSame,
     exitCodeFromCmdErr, Leave, execVars, CommandInv, Counters, ExecKind,
     Kinds, Routes, Children, Sandboxes, Leaving, Signals, Results
<1>9. Sandboxes' /\ Leaving'
  BY <1>1, <1>2, <1>3, <1>4, <1>5 DEF TakenFrom, ReachedSame,
     exitCodeFromCmdErr, Leave, execVars, CommandInv, Counters, ExecKind,
     Kinds, Routes, Children, Sandboxes, Leaving, Signals, Results
<1>10. Signals' /\ Results'
  BY <1>1, <1>2, <1>3, <1>4, <1>5 DEF TakenFrom, ReachedSame,
     exitCodeFromCmdErr, Leave, execVars, CommandInv, Counters, ExecKind,
     Kinds, Routes, Children, Sandboxes, Leaving, Signals, Results
<1> QED
  BY <1>6, <1>7, <1>8, <1>9, <1>10 DEF CommandInv

\* After SIGINT the end of the process is waited for.
LEMMA InterruptedKeeps ==
    ASSUME CommandInv, Interrupted, UNCHANGED execVars
    PROVE  CommandInv'
<1>1. history' = history
  BY DEF Interrupted
<1>2. ReachedSame
  BY <1>1, ReachedStays
<1>3. Histories'
  BY <1>1 DEF Interrupted, CommandInv, Histories
<1>4. Counters' /\ ExecKind' /\ Kinds'
  BY <1>1, <1>2 DEF Interrupted, ChildDone, exitCodeFromCmdErr, Leave,
     NoFault, signalVars, ReachedSame, CommandInv, Counters, ExecKind, Kinds,
     Routes, Children, Sandboxes, Leaving, Signals, Results, execVars
<1>5. Routes' /\ Children'
  BY <1>1, <1>2 DEF Interrupted, ChildDone, exitCodeFromCmdErr, Leave,
     NoFault, signalVars, ReachedSame, CommandInv, Counters, ExecKind, Kinds,
     Routes, Children, Sandboxes, Leaving, Signals, Results, execVars
<1>6. Sandboxes' /\ Leaving'
  BY <1>1, <1>2 DEF Interrupted, ChildDone, exitCodeFromCmdErr, Leave,
     NoFault, signalVars, ReachedSame, CommandInv, Counters, ExecKind, Kinds,
     Routes, Children, Sandboxes, Leaving, Signals, Results, execVars
<1>7. Signals' /\ Results'
  BY <1>1, <1>2 DEF Interrupted, ChildDone, exitCodeFromCmdErr, Leave,
     NoFault, signalVars, ReachedSame, CommandInv, Counters, ExecKind, Kinds,
     Routes, Children, Sandboxes, Leaving, Signals, Results, execVars
<1> QED
  BY <1>3, <1>4, <1>5, <1>6, <1>7 DEF CommandInv

\* After SIGTERM the end of the process is waited for, or it is killed.
LEMMA TerminatedKeeps ==
    ASSUME CommandInv, Terminated, UNCHANGED execVars
    PROVE  CommandInv'
<1>1. history' = history
  BY DEF Terminated
<1>2. ReachedSame
  BY <1>1, ReachedStays
<1>3. Histories'
  BY <1>1 DEF Terminated, CommandInv, Histories
<1>4. Counters' /\ ExecKind' /\ Kinds'
  BY <1>1, <1>2 DEF Terminated, ChildDone, exitCodeFromCmdErr, Leave, NoFault,
     signalVars, ReachedSame, CommandInv, Counters, ExecKind, Kinds, Routes,
     Children, Sandboxes, Leaving, Signals, Results, execVars
<1>5. Routes' /\ Children'
  BY <1>1, <1>2 DEF Terminated, ChildDone, exitCodeFromCmdErr, Leave, NoFault,
     signalVars, ReachedSame, CommandInv, Counters, ExecKind, Kinds, Routes,
     Children, Sandboxes, Leaving, Signals, Results, execVars
<1>6. Sandboxes' /\ Leaving'
  BY <1>1, <1>2 DEF Terminated, ChildDone, exitCodeFromCmdErr, Leave, NoFault,
     signalVars, ReachedSame, CommandInv, Counters, ExecKind, Kinds, Routes,
     Children, Sandboxes, Leaving, Signals, Results, execVars
<1>7. Signals' /\ Results'
  BY <1>1, <1>2 DEF Terminated, ChildDone, exitCodeFromCmdErr, Leave, NoFault,
     signalVars, ReachedSame, CommandInv, Counters, ExecKind, Kinds, Routes,
     Children, Sandboxes, Leaving, Signals, Results, execVars
<1> QED
  BY <1>3, <1>4, <1>5, <1>6, <1>7 DEF CommandInv

\* A process that was killed is waited for.
LEMMA KilledKeeps ==
    ASSUME CommandInv, Killed, UNCHANGED execVars
    PROVE  CommandInv'
<1>1. history' = history
  BY DEF Killed, Quiet
<1>2. ReachedSame
  BY <1>1, ReachedStays
<1>3. Histories'
  BY <1>1 DEF Killed, Quiet, CommandInv, Histories
<1>4. Counters' /\ ExecKind' /\ Kinds'
  BY <1>1, <1>2 DEF Killed, Leave, Quiet, NoFault, signalVars, ReachedSame,
     CommandInv, Counters, ExecKind, Kinds, Routes, Children, Sandboxes,
     Leaving, Signals, Results, execVars
<1>5. Routes' /\ Children'
  BY <1>1, <1>2 DEF Killed, Leave, Quiet, NoFault, signalVars, ReachedSame,
     CommandInv, Counters, ExecKind, Kinds, Routes, Children, Sandboxes,
     Leaving, Signals, Results, execVars
<1>6. Sandboxes' /\ Leaving'
  BY <1>1, <1>2 DEF Killed, Leave, Quiet, NoFault, signalVars, ReachedSame,
     CommandInv, Counters, ExecKind, Kinds, Routes, Children, Sandboxes,
     Leaving, Signals, Results, execVars
<1>7. Signals' /\ Results'
  BY <1>1, <1>2 DEF Killed, Leave, Quiet, NoFault, signalVars, ReachedSame,
     CommandInv, Counters, ExecKind, Kinds, Routes, Children, Sandboxes,
     Leaving, Signals, Results, execVars
<1> QED
  BY <1>3, <1>4, <1>5, <1>6, <1>7 DEF CommandInv

\* A session that is detached ends without a clean-up.
LEMMA PrintIDKeeps ==
    ASSUME CommandInv, PrintID, UNCHANGED execVars
    PROVE  CommandInv'
<1>1. history' = history
  BY DEF PrintID, Quiet
<1>2. ReachedSame
  BY <1>1, ReachedStays
<1>3. Histories'
  BY <1>1 DEF PrintID, Quiet, CommandInv, Histories
<1>4. Counters' /\ ExecKind' /\ Kinds'
  BY <1>1, <1>2 DEF PrintID, Leave, Quiet, NoFault, signalVars, ReachedSame,
     CommandInv, Counters, ExecKind, Kinds, Routes, Children, Sandboxes,
     Leaving, Signals, Results, execVars
<1>5. Routes' /\ Children'
  BY <1>1, <1>2 DEF PrintID, Leave, Quiet, NoFault, signalVars, ReachedSame,
     CommandInv, Counters, ExecKind, Kinds, Routes, Children, Sandboxes,
     Leaving, Signals, Results, execVars
<1>6. Sandboxes' /\ Leaving'
  BY <1>1, <1>2 DEF PrintID, Leave, Quiet, NoFault, signalVars, ReachedSame,
     CommandInv, Counters, ExecKind, Kinds, Routes, Children, Sandboxes,
     Leaving, Signals, Results, execVars
<1>7. Signals' /\ Results'
  BY <1>1, <1>2 DEF PrintID, Leave, Quiet, NoFault, signalVars, ReachedSame,
     CommandInv, Counters, ExecKind, Kinds, Routes, Children, Sandboxes,
     Leaving, Signals, Results, execVars
<1> QED
  BY <1>3, <1>4, <1>5, <1>6, <1>7 DEF CommandInv

\* A clean-up without a stream warns.
LEMMA SubscribeDeletedKeeps ==
    ASSUME CommandInv, SubscribeDeleted, UNCHANGED execVars
    PROVE  CommandInv'
<1>1. history' = history
  BY DEF SubscribeDeleted
<1>2. ReachedSame
  BY <1>1, ReachedStays
<1>3. /\ at = "subscribeDeleted"
      /\ UNCHANGED <<mode, signals, pending, cursor, child, detached, deleted, code>>
  BY DEF SubscribeDeleted, cleanUpQuiet, signalVars
<1>4. \/ at' = "waitDeleted" /\ UNCHANGED said
      \/ at' = "ended" /\ said' = "warned"
  BY DEF SubscribeDeleted, Finish
<1>5. Histories'
  BY <1>1, <1>2, <1>3, <1>4 DEF CommandInv, Histories
<1>6. Counters' /\ ExecKind' /\ Kinds'
  BY ZenonT(60), <1>1, <1>2, <1>3, <1>4 DEF ReachedSame, execVars, CommandInv, Counters,
     ExecKind, Kinds, Routes, Children, Sandboxes, Leaving, Signals, Results
<1>7. Routes' /\ Children'
  BY <1>1, <1>2, <1>3, <1>4 DEF ReachedSame, execVars, CommandInv, Counters,
     ExecKind, Kinds, Routes, Children, Sandboxes, Leaving, Signals, Results
<1>8. Sandboxes' /\ Leaving'
  BY <1>1, <1>2, <1>3, <1>4 DEF ReachedSame, execVars, CommandInv, Counters,
     ExecKind, Kinds, Routes, Children, Sandboxes, Leaving, Signals, Results
<1>9. Signals' /\ Results'
  BY <1>1, <1>2, <1>3, <1>4 DEF ReachedSame, execVars, CommandInv, Counters,
     ExecKind, Kinds, Routes, Children, Sandboxes, Leaving, Signals, Results
<1> QED
  BY <1>5, <1>6, <1>7, <1>8, <1>9 DEF CommandInv

\* SIGINT kills a session only where it has no process any more.
LEMMA InterruptKeeps ==
    ASSUME CommandInv, Interrupt, UNCHANGED execVars
    PROVE  CommandInv'
<1>1. history' = history
  BY DEF Interrupt
<1>2. ReachedSame
  BY <1>1, ReachedStays
<1>3. signals' \in [int : Nat, term : Nat] /\ signals'.int > 0 /\ signals'.term = signals.term
  <2>1. signals \in [int : Nat, term : Nat]
    BY DEF CommandInv, Counters
  <2>2. signals' = [signals EXCEPT !.int = @ + 1]
    BY DEF Interrupt
  <2> QED
    BY <2>1, <2>2
<1>4. pending' \in [int : Nat, term : Nat] /\ pending'.term = pending.term
  <2>1. pending \in [int : Nat, term : Nat]
    BY DEF CommandInv, Counters
  <2>2. pending' \in {pending, [pending EXCEPT !.int = IF @ < 2 THEN @ + 1 ELSE @]}
    BY DEF Interrupt
  <2> QED
    BY <2>1, <2>2
<1>5. at \notin Over /\ UNCHANGED <<mode, cursor, detached, deleted, said, code>>
  BY DEF Interrupt
<1>6. \/ /\ Unhandled \/ (mode = "interactive" /\ at \in CleanUp)
         /\ at' = "killed" /\ UNCHANGED child
      \/ /\ UNCHANGED at
         /\ \/ UNCHANGED child
            \/ child = "running" /\ child' = "told"
  BY DEF Interrupt
<1>7. Histories'
  BY <1>1, <1>2, <1>3, <1>4, <1>5, <1>6 DEF CommandInv, Histories
<1>8. Counters'
  BY <1>1, <1>2, <1>3, <1>4, <1>5, <1>6 DEF Unhandled, ReachedSame, execVars,
     CommandInv, Counters, ExecKind, Kinds, Routes, Children, Sandboxes,
     Leaving, Signals, Results
<1>9. ExecKind'
  BY <1>1, <1>2, <1>3, <1>4, <1>5, <1>6 DEF Unhandled, ReachedSame, execVars,
     CommandInv, Counters, ExecKind, Kinds, Routes, Children, Sandboxes,
     Leaving, Signals, Results
<1>10. Kinds'
  BY ZenonT(60), <1>1, <1>2, <1>3, <1>4, <1>5, <1>6 DEF Unhandled, ReachedSame, execVars,
     CommandInv, Counters, ExecKind, Kinds, Routes, Children, Sandboxes,
     Leaving, Signals, Results
<1>11. Routes' /\ Children'
  BY <1>1, <1>2, <1>3, <1>4, <1>5, <1>6 DEF Unhandled, ReachedSame, execVars,
     CommandInv, Counters, ExecKind, Kinds, Routes, Children, Sandboxes,
     Leaving, Signals, Results
<1>12. Sandboxes' /\ Leaving'
  BY ZenonT(60), <1>1, <1>2, <1>3, <1>4, <1>5, <1>6 DEF Unhandled, ReachedSame, execVars,
     CommandInv, Counters, ExecKind, Kinds, Routes, Children, Sandboxes,
     Leaving, Signals, Results
<1>13. Signals' /\ Results'
  BY ZenonT(60), <1>1, <1>2, <1>3, <1>4, <1>5, <1>6 DEF Unhandled, ReachedSame, execVars,
     CommandInv, Counters, ExecKind, Kinds, Routes, Children, Sandboxes,
     Leaving, Signals, Results
<1> QED
  BY <1>7, <1>8, <1>9, <1>10, <1>11, <1>12, <1>13 DEF CommandInv

\* SIGTERM and SIGHUP kill a session only before anything exists.
LEMMA TerminateKeeps ==
    ASSUME CommandInv, Terminate, UNCHANGED execVars
    PROVE  CommandInv'
<1>1. history' = history
  BY DEF Terminate
<1>2. ReachedSame
  BY <1>1, ReachedStays
<1>3. signals' \in [int : Nat, term : Nat] /\ signals'.term > 0 /\ signals'.int = signals.int
  <2>1. signals \in [int : Nat, term : Nat]
    BY DEF CommandInv, Counters
  <2>2. signals' = [signals EXCEPT !.term = @ + 1]
    BY DEF Terminate
  <2> QED
    BY <2>1, <2>2
<1>4. pending' \in [int : Nat, term : Nat] /\ pending'.int = pending.int
  <2>1. pending \in [int : Nat, term : Nat]
    BY DEF CommandInv, Counters
  <2>2. pending' \in {pending, [pending EXCEPT !.term = 1]}
    BY DEF Terminate
  <2> QED
    BY <2>1, <2>2
<1>5. at \notin Over /\ UNCHANGED <<mode, cursor, child, detached, deleted, said, code>>
  BY DEF Terminate
<1>6. (Unhandled /\ at' = "killed") \/ UNCHANGED at
  BY DEF Terminate
<1>7. Histories'
  BY <1>1, <1>2, <1>3, <1>4, <1>5, <1>6 DEF CommandInv, Histories
<1>8. Counters'
  BY <1>1, <1>2, <1>3, <1>4, <1>5, <1>6 DEF Unhandled, ReachedSame, execVars,
     CommandInv, Counters, ExecKind, Kinds, Routes, Children, Sandboxes,
     Leaving, Signals, Results
<1>9. ExecKind'
  BY <1>1, <1>2, <1>3, <1>4, <1>5, <1>6 DEF Unhandled, ReachedSame, execVars,
     CommandInv, Counters, ExecKind, Kinds, Routes, Children, Sandboxes,
     Leaving, Signals, Results
<1>10. Kinds'
  BY ZenonT(60), <1>1, <1>2, <1>3, <1>4, <1>5, <1>6 DEF Unhandled, ReachedSame, execVars,
     CommandInv, Counters, ExecKind, Kinds, Routes, Children, Sandboxes,
     Leaving, Signals, Results
<1>11. Routes' /\ Children'
  BY <1>1, <1>2, <1>3, <1>4, <1>5, <1>6 DEF Unhandled, ReachedSame, execVars,
     CommandInv, Counters, ExecKind, Kinds, Routes, Children, Sandboxes,
     Leaving, Signals, Results
<1>12. Sandboxes' /\ Leaving'
  BY ZenonT(60), <1>1, <1>2, <1>3, <1>4, <1>5, <1>6 DEF Unhandled, ReachedSame, execVars,
     CommandInv, Counters, ExecKind, Kinds, Routes, Children, Sandboxes,
     Leaving, Signals, Results
<1>13. Signals' /\ Results'
  BY ZenonT(60), <1>1, <1>2, <1>3, <1>4, <1>5, <1>6 DEF Unhandled, ReachedSame, execVars,
     CommandInv, Counters, ExecKind, Kinds, Routes, Children, Sandboxes,
     Leaving, Signals, Results
<1> QED
  BY <1>7, <1>8, <1>9, <1>10, <1>11, <1>12, <1>13 DEF CommandInv

\* The process ends only while the session is attached to it.
LEMMA ChildExitsKeeps ==
    ASSUME CommandInv, ChildExits, UNCHANGED execVars
    PROVE  CommandInv'
<1>1. history' = history
  BY DEF ChildExits
<1>2. ReachedSame
  BY <1>1, ReachedStays
<1>3. Histories'
  BY <1>1 DEF ChildExits, CommandInv, Histories
<1>4. Counters' /\ ExecKind' /\ Kinds'
  BY <1>1, <1>2 DEF ChildExits, ReachedSame, CommandInv, Counters, ExecKind,
     Kinds, Routes, Children, Sandboxes, Leaving, Signals, Results, execVars
<1>5. Routes' /\ Children'
  BY <1>1, <1>2 DEF ChildExits, ReachedSame, CommandInv, Counters, ExecKind,
     Kinds, Routes, Children, Sandboxes, Leaving, Signals, Results, execVars
<1>6. Sandboxes' /\ Leaving'
  BY <1>1, <1>2 DEF ChildExits, ReachedSame, CommandInv, Counters, ExecKind,
     Kinds, Routes, Children, Sandboxes, Leaving, Signals, Results, execVars
<1>7. Signals' /\ Results'
  BY <1>1, <1>2 DEF ChildExits, ReachedSame, CommandInv, Counters, ExecKind,
     Kinds, Routes, Children, Sandboxes, Leaving, Signals, Results, execVars
<1> QED
  BY <1>3, <1>4, <1>5, <1>6, <1>7 DEF CommandInv

\* The first look at the sandbox takes only READY for READY.
LEMMA ReadyBaselineKeeps ==
    ASSUME CommandInv, ReadyBaseline, UNCHANGED execVars
    PROVE  CommandInv'
<1>1. history' = history
  BY DEF ReadyBaseline
<1>2. ReachedSame
  BY <1>1, ReachedStays
<1>3. Last \in States /\ Reached(Last)
  BY LastReached DEF ReadyBaseline, CommandInv, Histories, Routes, Sandboxes
<1>4. /\ at = "baseline"
      /\ UNCHANGED <<mode, signals, pending, child, detached, deleted, said>>
  BY DEF ReadyBaseline, signalVars
<1>5. cursor' \in Nat
  <2>1. cursor \in Nat /\ Len(history) \in Nat
    BY DEF CommandInv, Histories
  <2>2. cursor' \in {cursor, cursor + 1, Len(history)}
    BY DEF ReadyBaseline
  <2> QED
    BY <2>1, <2>2
<1>6. \/ at' = "probe" /\ Reached("READY") /\ UNCHANGED code
      \/ at' = "subscribe" /\ UNCHANGED code
      \/ Leave("1")
  BY <1>3 DEF ReadyBaseline, Judge, States
<1>7. Histories'
  BY <1>1, <1>2, <1>4, <1>5, <1>6 DEF CommandInv, Histories
<1>8. Counters' /\ ExecKind' /\ Kinds'
  BY <1>1, <1>2, <1>4, <1>5, <1>6 DEF Leave, ReachedSame, execVars,
     CommandInv, Counters, ExecKind, Kinds, Routes, Children, Sandboxes,
     Leaving, Signals, Results
<1>9. Routes' /\ Children'
  BY <1>1, <1>2, <1>4, <1>5, <1>6 DEF Leave, ReachedSame, execVars,
     CommandInv, Counters, ExecKind, Kinds, Routes, Children, Sandboxes,
     Leaving, Signals, Results
<1>10. Sandboxes' /\ Leaving'
  BY <1>1, <1>2, <1>4, <1>5, <1>6 DEF Leave, ReachedSame, execVars,
     CommandInv, Counters, ExecKind, Kinds, Routes, Children, Sandboxes,
     Leaving, Signals, Results
<1>11. Signals' /\ Results'
  BY <1>1, <1>2, <1>4, <1>5, <1>6 DEF Leave, ReachedSame, execVars,
     CommandInv, Counters, ExecKind, Kinds, Routes, Children, Sandboxes,
     Leaving, Signals, Results
<1> QED
  BY <1>7, <1>8, <1>9, <1>10, <1>11 DEF CommandInv

\* The wait takes only a recorded READY for READY.
LEMMA WaitReadyKeeps ==
    ASSUME CommandInv, WaitReady, UNCHANGED execVars
    PROVE  CommandInv'
<1>1. history' = history
  BY DEF WaitReady
<1>2. ReachedSame
  BY <1>1, ReachedStays
<1>3. TakenFrom
  <2>1. pending \in [int : Nat, term : Nat]
    BY DEF CommandInv, Counters
  <2>2. CASE UNCHANGED pending
    BY <2>1, <2>2 DEF TakenFrom
  <2>3. CASE TakeSignal
    BY <2>1, <2>3, TakenSignal DEF TakeSignal, Take
  <2> QED
    BY <2>2, <2>3 DEF WaitReady
<1>4. at = "wait" /\ UNCHANGED <<mode, signals, child, detached, deleted, said>>
  BY DEF WaitReady, signalVars
<1>5. cursor' \in Nat
  <2>1. cursor \in Nat /\ Len(history) \in Nat
    BY DEF CommandInv, Histories
  <2>2. cursor' \in {cursor, cursor + 1, Len(history)}
    BY DEF WaitReady
  <2> QED
    BY <2>1, <2>2
<1>6. \/ at' = "probe" /\ Reached("READY") /\ UNCHANGED code
      \/ at' = "wait" /\ UNCHANGED code
      \/ Leave("1")
      \/ Leave("130") /\ pending.int > 0
      \/ Leave("143") /\ pending.term > 0
  <2>1. CASE TakeSignal
    BY <2>1 DEF TakeSignal, Take
  <2>2. CASE cursor < Len(history) /\ Judge(history[cursor + 1], "wait")
    <3>1. history[cursor + 1] \in States /\ Reached(history[cursor + 1])
      BY <2>2, ReachedAt DEF CommandInv, Histories
    <3> QED
      BY <2>2, <3>1 DEF Judge, States
  <2> QED
    BY <2>1, <2>2 DEF WaitReady
<1>7. Histories'
  BY <1>1, <1>2, <1>3, <1>4, <1>5, <1>6 DEF CommandInv, Histories
<1>8. Counters' /\ ExecKind' /\ Kinds'
  BY <1>1, <1>2, <1>3, <1>4, <1>5, <1>6 DEF TakenFrom, Leave, ReachedSame,
     execVars, CommandInv, Counters, ExecKind, Kinds, Routes, Children,
     Sandboxes, Leaving, Signals, Results
<1>9. Routes' /\ Children'
  BY <1>1, <1>2, <1>3, <1>4, <1>5, <1>6 DEF TakenFrom, Leave, ReachedSame,
     execVars, CommandInv, Counters, ExecKind, Kinds, Routes, Children,
     Sandboxes, Leaving, Signals, Results
<1>10. Sandboxes' /\ Leaving'
  BY <1>1, <1>2, <1>3, <1>4, <1>5, <1>6 DEF TakenFrom, Leave, ReachedSame,
     execVars, CommandInv, Counters, ExecKind, Kinds, Routes, Children,
     Sandboxes, Leaving, Signals, Results
<1>11. Signals' /\ Results'
  BY <1>1, <1>2, <1>3, <1>4, <1>5, <1>6 DEF TakenFrom, Leave, ReachedSame,
     execVars, CommandInv, Counters, ExecKind, Kinds, Routes, Children,
     Sandboxes, Leaving, Signals, Results
<1> QED
  BY <1>7, <1>8, <1>9, <1>10, <1>11 DEF CommandInv

\* The clean-up's first look takes only DELETED for DELETED.
LEMMA DeletedBaselineKeeps ==
    ASSUME CommandInv, DeletedBaseline, UNCHANGED execVars
    PROVE  CommandInv'
<1>1. history' = history
  BY DEF DeletedBaseline
<1>2. ReachedSame
  BY <1>1, ReachedStays
<1>3. Last \in States /\ Reached(Last)
  BY LastReached DEF DeletedBaseline, CommandInv, Histories, Routes, Sandboxes
<1>4. at = "get" /\ UNCHANGED <<mode, signals, pending, child, detached, deleted, code>>
  BY DEF DeletedBaseline, cleanUpQuiet, signalVars
<1>5. cursor' \in Nat
  <2>1. cursor \in Nat /\ Len(history) \in Nat
    BY DEF CommandInv, Histories
  <2>2. cursor' \in {cursor, cursor + 1, Len(history)}
    BY DEF DeletedBaseline
  <2> QED
    BY <2>1, <2>2
<1>6. \/ at' = "ended" /\ said' = "cleaned up" /\ Reached("DELETED")
      \/ at' = "ended" /\ said' = "warned"
      \/ at' = "subscribeDeleted" /\ UNCHANGED said
  BY <1>3 DEF DeletedBaseline, JudgeDeleted, Finish, States
<1>7. Histories'
  BY <1>1, <1>2, <1>4, <1>5, <1>6 DEF CommandInv, Histories
<1>8. Counters'
  BY <1>1, <1>2, <1>4, <1>5, <1>6 DEF ReachedSame, execVars, CommandInv,
     Counters, ExecKind, Kinds, Routes, Children, Sandboxes, Leaving, Signals,
     Results
<1>9. ExecKind'
  BY <1>1, <1>2, <1>4, <1>5, <1>6 DEF ReachedSame, execVars, CommandInv,
     Counters, ExecKind, Kinds, Routes, Children, Sandboxes, Leaving, Signals,
     Results
<1>10. Kinds'
  BY <1>1, <1>2, <1>4, <1>5, <1>6 DEF ReachedSame, execVars, CommandInv,
     Counters, ExecKind, Kinds, Routes, Children, Sandboxes, Leaving, Signals,
     Results
<1>11. Routes' /\ Children'
  BY <1>1, <1>2, <1>4, <1>5, <1>6 DEF ReachedSame, execVars, CommandInv,
     Counters, ExecKind, Kinds, Routes, Children, Sandboxes, Leaving, Signals,
     Results
<1>12. Sandboxes' /\ Leaving'
  BY <1>1, <1>2, <1>4, <1>5, <1>6 DEF ReachedSame, execVars, CommandInv,
     Counters, ExecKind, Kinds, Routes, Children, Sandboxes, Leaving, Signals,
     Results
<1>13. Signals' /\ Results'
  BY <1>1, <1>2, <1>4, <1>5, <1>6 DEF ReachedSame, execVars, CommandInv,
     Counters, ExecKind, Kinds, Routes, Children, Sandboxes, Leaving, Signals,
     Results
<1> QED
  BY <1>7, <1>8, <1>9, <1>10, <1>11, <1>12, <1>13 DEF CommandInv

\* The clean-up says "cleaned up" only of a recorded DELETED.
LEMMA WaitDeletedKeeps ==
    ASSUME CommandInv, WaitDeleted, UNCHANGED execVars
    PROVE  CommandInv'
<1>1. history' = history
  BY DEF WaitDeleted
<1>2. ReachedSame
  BY <1>1, ReachedStays
<1>3. /\ at = "waitDeleted"
      /\ UNCHANGED <<mode, signals, pending, child, detached, deleted, code>>
  BY DEF WaitDeleted, cleanUpQuiet, signalVars
<1>4. cursor' \in Nat
  <2>1. cursor \in Nat /\ Len(history) \in Nat
    BY DEF CommandInv, Histories
  <2>2. cursor' \in {cursor, cursor + 1, Len(history)}
    BY DEF WaitDeleted
  <2> QED
    BY <2>1, <2>2
<1>5. \/ at' = "ended" /\ said' = "cleaned up" /\ Reached("DELETED")
      \/ at' = "ended" /\ said' = "warned"
      \/ at' = "waitDeleted" /\ UNCHANGED said
  <2>1. CASE cursor < Len(history) /\ JudgeDeleted(history[cursor + 1], "waitDeleted")
    <3>1. history[cursor + 1] \in States /\ Reached(history[cursor + 1])
      BY <2>1, ReachedAt DEF CommandInv, Histories
    <3> QED
      BY <2>1, <3>1 DEF JudgeDeleted, Finish, States
  <2>2. CASE Finish("warned")
    BY <2>2 DEF Finish
  <2> QED
    BY <2>1, <2>2 DEF WaitDeleted
<1>6. Histories'
  BY <1>1, <1>2, <1>3, <1>4, <1>5 DEF CommandInv, Histories
<1>7. Counters'
  BY <1>1, <1>2, <1>3, <1>4, <1>5 DEF ReachedSame, execVars, CommandInv,
     Counters, ExecKind, Kinds, Routes, Children, Sandboxes, Leaving, Signals,
     Results
<1>8. ExecKind'
  BY <1>1, <1>2, <1>3, <1>4, <1>5 DEF ReachedSame, execVars, CommandInv,
     Counters, ExecKind, Kinds, Routes, Children, Sandboxes, Leaving, Signals,
     Results
<1>9. Kinds'
  BY <1>1, <1>2, <1>3, <1>4, <1>5 DEF ReachedSame, execVars, CommandInv,
     Counters, ExecKind, Kinds, Routes, Children, Sandboxes, Leaving, Signals,
     Results
<1>10. Routes' /\ Children'
  BY <1>1, <1>2, <1>3, <1>4, <1>5 DEF ReachedSame, execVars, CommandInv,
     Counters, ExecKind, Kinds, Routes, Children, Sandboxes, Leaving, Signals,
     Results
<1>11. Sandboxes' /\ Leaving'
  BY <1>1, <1>2, <1>3, <1>4, <1>5 DEF ReachedSame, execVars, CommandInv,
     Counters, ExecKind, Kinds, Routes, Children, Sandboxes, Leaving, Signals,
     Results
<1>12. Signals' /\ Results'
  BY <1>1, <1>2, <1>3, <1>4, <1>5 DEF ReachedSame, execVars, CommandInv,
     Counters, ExecKind, Kinds, Routes, Children, Sandboxes, Leaving, Signals,
     Results
<1> QED
  BY <1>6, <1>7, <1>8, <1>9, <1>10, <1>11, <1>12 DEF CommandInv

\* The exec is RUNNING before a signal can have cancelled it.
LEMMA CreateExecKeeps ==
    ASSUME CommandInv, CreateExec
    PROVE  CommandInv'
<1>1. history' = history
  BY DEF CreateExec, rest
<1>2. ReachedSame
  BY <1>1, ReachedStays
<1>3. Histories'
  BY <1>1 DEF CreateExec, rest, rest, CommandInv, Histories
<1>4. Counters' /\ ExecKind' /\ Kinds'
  BY <1>1, <1>2 DEF CreateExec, CallFails, Leave, Fault, NoFault, rest,
     signalVars, ReachedSame, CommandInv, Counters, ExecKind, Kinds, Routes,
     Children, Sandboxes, Leaving, Signals, Results
<1>5. Routes' /\ Children'
  BY <1>1, <1>2 DEF CreateExec, CallFails, Leave, Fault, NoFault, rest,
     signalVars, ReachedSame, CommandInv, Counters, ExecKind, Kinds, Routes,
     Children, Sandboxes, Leaving, Signals, Results
<1>6. Sandboxes' /\ Leaving'
  BY <1>1, <1>2 DEF CreateExec, CallFails, Leave, Fault, NoFault, rest,
     signalVars, ReachedSame, CommandInv, Counters, ExecKind, Kinds, Routes,
     Children, Sandboxes, Leaving, Signals, Results
<1>7. Signals' /\ Results'
  BY <1>1, <1>2 DEF CreateExec, CallFails, Leave, Fault, NoFault, rest,
     signalVars, ReachedSame, CommandInv, Counters, ExecKind, Kinds, Routes,
     Children, Sandboxes, Leaving, Signals, Results
<1> QED
  BY <1>3, <1>4, <1>5, <1>6, <1>7 DEF CommandInv

\* A cancel command carries no code of a signal.
LEMMA CancelExecKeeps ==
    ASSUME CommandInv, CancelExec
    PROVE  CommandInv'
<1>1. history' = history
  BY DEF CancelExec, rest
<1>2. ReachedSame
  BY <1>1, ReachedStays
<1>3. Histories'
  BY <1>1 DEF CancelExec, rest, rest, CommandInv, Histories
<1>4. Counters' /\ ExecKind' /\ Kinds'
  BY <1>1, <1>2 DEF CancelExec, Cancelled, AlreadyTerminal, CallFails, Leave,
     Fault, NoFault, rest, signalVars, ReachedSame, CommandInv, Counters,
     ExecKind, Kinds, Routes, Children, Sandboxes, Leaving, Signals, Results
<1>5. Routes' /\ Children'
  BY <1>1, <1>2 DEF CancelExec, Cancelled, AlreadyTerminal, CallFails, Leave,
     Fault, NoFault, rest, signalVars, ReachedSame, CommandInv, Counters,
     ExecKind, Kinds, Routes, Children, Sandboxes, Leaving, Signals, Results
<1>6. Sandboxes' /\ Leaving'
  BY <1>1, <1>2 DEF CancelExec, Cancelled, AlreadyTerminal, CallFails, Leave,
     Fault, NoFault, rest, signalVars, ReachedSame, CommandInv, Counters,
     ExecKind, Kinds, Routes, Children, Sandboxes, Leaving, Signals, Results
<1>7. Signals' /\ Results'
  BY <1>1, <1>2 DEF CancelExec, Cancelled, AlreadyTerminal, CallFails, Leave,
     Fault, NoFault, rest, signalVars, ReachedSame, CommandInv, Counters,
     ExecKind, Kinds, Routes, Children, Sandboxes, Leaving, Signals, Results
<1> QED
  BY <1>3, <1>4, <1>5, <1>6, <1>7 DEF CommandInv

\* The first look at the exec reports only one that is over.
LEMMA ExecBaselineKeeps ==
    ASSUME CommandInv, ExecBaseline
    PROVE  CommandInv'
<1>1. history' = history
  BY DEF ExecBaseline, rest
<1>2. ReachedSame
  BY <1>1, ReachedStays
<1>3. Histories'
  BY <1>1 DEF ExecBaseline, rest, rest, CommandInv, Histories
<1>4. Counters' /\ ExecKind' /\ Kinds'
  BY <1>1, <1>2 DEF ExecBaseline, Report, execDoneResult, execExitCode,
     CallFails, Leave, Fault, NoFault, rest, signalVars, ReachedSame,
     CommandInv, Counters, ExecKind, Kinds, Routes, Children, Sandboxes,
     Leaving, Signals, Results
<1>5. Routes' /\ Children'
  BY ZenonT(60), <1>1, <1>2 DEF ExecBaseline, Report, execDoneResult, execExitCode,
     CallFails, Leave, Fault, NoFault, rest, signalVars, ReachedSame,
     CommandInv, Counters, ExecKind, Kinds, Routes, Children, Sandboxes,
     Leaving, Signals, Results
<1>6. Sandboxes' /\ Leaving'
  BY ZenonT(60), <1>1, <1>2 DEF ExecBaseline, Report, execDoneResult, execExitCode,
     CallFails, Leave, Fault, NoFault, rest, signalVars, ReachedSame,
     CommandInv, Counters, ExecKind, Kinds, Routes, Children, Sandboxes,
     Leaving, Signals, Results
<1>7. Signals' /\ Results'
  BY <1>1, <1>2 DEF ExecBaseline, Report, execDoneResult, execExitCode,
     CallFails, Leave, Fault, NoFault, rest, signalVars, ReachedSame,
     CommandInv, Counters, ExecKind, Kinds, Routes, Children, Sandboxes,
     Leaving, Signals, Results
<1> QED
  BY <1>3, <1>4, <1>5, <1>6, <1>7 DEF CommandInv

\* A late signal does not change what is reported.
LEMMA PeekSignalKeeps ==
    ASSUME CommandInv, PeekSignal
    PROVE  CommandInv'
<1>1. history' = history
  BY DEF PeekSignal, rest
<1>2. ReachedSame
  BY <1>1, ReachedStays
<1>3. TakenFrom
  <2>1. pending \in [int : Nat, term : Nat]
    BY DEF CommandInv, Counters
  <2>2. CASE UNCHANGED pending
    BY <2>1, <2>2 DEF TakenFrom
  <2>3. CASE \E which \in {"int", "term"} : Signal(which, "none")
    BY <2>1, <2>3, TakenSignal DEF Signal
  <2> QED
    BY <2>2, <2>3 DEF PeekSignal
<1>4. at = "peek" /\ mode = "run" /\ override = "none"
  BY DEF PeekSignal, CommandInv, Kinds, Routes, Results
<1>5. /\ UNCHANGED <<mode, signals, cursor, child, detached, deleted, said, exec>>
      /\ override' = "none"
  BY <1>4 DEF PeekSignal, rest, signalVars, Signal, AlreadyTerminal
<1>6. Leave("1") \/ Leave(execExitCode(exec))
  BY <1>4 DEF PeekSignal, Report, CallFails
<1>7. isTerminalExecState(exec.state)
  BY <1>4 DEF CommandInv, Results
<1>8. CodeTells(execExitCode(exec))
  BY <1>7, ExitCodeFits DEF CommandInv
<1>9. Histories'
  BY <1>1, <1>2, <1>3, <1>4, <1>5, <1>6, <1>7, <1>8 DEF CommandInv, Histories
<1>10. Counters' /\ ExecKind' /\ Kinds'
  BY <1>1, <1>2, <1>3, <1>4, <1>5, <1>6, <1>7, <1>8 DEF TakenFrom,
     ReachedSame, CodeTells, Leave, CommandInv, Counters, ExecKind, Kinds,
     Routes, Children, Sandboxes, Leaving, Signals, Results
<1>11. Routes' /\ Children'
  BY <1>1, <1>2, <1>3, <1>4, <1>5, <1>6, <1>7, <1>8 DEF TakenFrom,
     ReachedSame, CodeTells, Leave, CommandInv, Counters, ExecKind, Kinds,
     Routes, Children, Sandboxes, Leaving, Signals, Results
<1>12. Sandboxes' /\ Leaving'
  BY <1>1, <1>2, <1>3, <1>4, <1>5, <1>6, <1>7, <1>8 DEF TakenFrom,
     ReachedSame, CodeTells, Leave, CommandInv, Counters, ExecKind, Kinds,
     Routes, Children, Sandboxes, Leaving, Signals, Results
<1>13. Signals' /\ Results'
  BY <1>1, <1>2, <1>3, <1>4, <1>5, <1>6, <1>7, <1>8 DEF TakenFrom,
     ReachedSame, CodeTells, Leave, CommandInv, Counters, ExecKind, Kinds,
     Routes, Children, Sandboxes, Leaving, Signals, Results
<1> QED
  BY <1>9, <1>10, <1>11, <1>12, <1>13 DEF CommandInv

\* A stream that cannot be opened is an error of the command.
LEMMA ExecSubscribeKeeps ==
    ASSUME CommandInv, ExecSubscribe
    PROVE  CommandInv'
<1>1. history' = history
  BY DEF ExecSubscribe, rest
<1>2. ReachedSame
  BY <1>1, ReachedStays
<1>3. Histories'
  BY <1>1 DEF ExecSubscribe, rest, rest, CommandInv, Histories
<1>4. Counters' /\ ExecKind' /\ Kinds'
  BY <1>1, <1>2 DEF ExecSubscribe, CallFails, Leave, Fault, NoFault, rest,
     execVars, signalVars, ReachedSame, CommandInv, Counters, ExecKind, Kinds,
     Routes, Children, Sandboxes, Leaving, Signals, Results
<1>5. Routes' /\ Children'
  BY <1>1, <1>2 DEF ExecSubscribe, CallFails, Leave, Fault, NoFault, rest,
     execVars, signalVars, ReachedSame, CommandInv, Counters, ExecKind, Kinds,
     Routes, Children, Sandboxes, Leaving, Signals, Results
<1>6. Sandboxes' /\ Leaving'
  BY <1>1, <1>2 DEF ExecSubscribe, CallFails, Leave, Fault, NoFault, rest,
     execVars, signalVars, ReachedSame, CommandInv, Counters, ExecKind, Kinds,
     Routes, Children, Sandboxes, Leaving, Signals, Results
<1>7. Signals' /\ Results'
  BY <1>1, <1>2 DEF ExecSubscribe, CallFails, Leave, Fault, NoFault, rest,
     execVars, signalVars, ReachedSame, CommandInv, Counters, ExecKind, Kinds,
     Routes, Children, Sandboxes, Leaving, Signals, Results
<1> QED
  BY <1>3, <1>4, <1>5, <1>6, <1>7 DEF CommandInv

\* An event leads to another look at the exec.
LEMMA ExecEventKeeps ==
    ASSUME CommandInv, ExecEvent
    PROVE  CommandInv'
<1>1. history' = history
  BY DEF ExecEvent, rest
<1>2. ReachedSame
  BY <1>1, ReachedStays
<1>3. Histories'
  BY <1>1 DEF ExecEvent, rest, rest, CommandInv, Histories
<1>4. Counters' /\ ExecKind' /\ Kinds'
  BY <1>1, <1>2 DEF ExecEvent, CallFails, Leave, Fault, NoFault, rest,
     signalVars, ReachedSame, CommandInv, Counters, ExecKind, Kinds, Routes,
     Children, Sandboxes, Leaving, Signals, Results
<1>5. Routes' /\ Children'
  BY <1>1, <1>2 DEF ExecEvent, CallFails, Leave, Fault, NoFault, rest,
     signalVars, ReachedSame, CommandInv, Counters, ExecKind, Kinds, Routes,
     Children, Sandboxes, Leaving, Signals, Results
<1>6. Sandboxes' /\ Leaving'
  BY <1>1, <1>2 DEF ExecEvent, CallFails, Leave, Fault, NoFault, rest,
     signalVars, ReachedSame, CommandInv, Counters, ExecKind, Kinds, Routes,
     Children, Sandboxes, Leaving, Signals, Results
<1>7. Signals' /\ Results'
  BY <1>1, <1>2 DEF ExecEvent, CallFails, Leave, Fault, NoFault, rest,
     signalVars, ReachedSame, CommandInv, Counters, ExecKind, Kinds, Routes,
     Children, Sandboxes, Leaving, Signals, Results
<1> QED
  BY <1>3, <1>4, <1>5, <1>6, <1>7 DEF CommandInv

\* A look after an event reports only an exec that is over.
LEMMA ExecGetKeeps ==
    ASSUME CommandInv, ExecGet
    PROVE  CommandInv'
<1>1. history' = history
  BY DEF ExecGet, rest
<1>2. ReachedSame
  BY <1>1, ReachedStays
<1>3. /\ at = "execGet"
      /\ UNCHANGED <<mode, signals, cursor, pending, child, detached, deleted, said,
                     exec, override>>
  BY DEF ExecGet, rest, signalVars, execVars
<1>4. \/ at' = "execWait" /\ UNCHANGED code
      \/ mode = "paseo" /\ at' = "print" /\ UNCHANGED code
      \/ mode = "cancel" /\ Leave("0")
      \/ /\ mode = "run" /\ isTerminalExecState(exec.state)
         /\ \/ override # "none" /\ Leave(override)
            \/ override = "none" /\ Leave(execExitCode(exec))
      \/ Leave("1")
  BY <1>3 DEF ExecGet, Report, execDoneResult, CallFails, CommandInv, Kinds, Routes
<1>5. isTerminalExecState(exec.state) => CodeTells(execExitCode(exec))
  BY ExitCodeFits DEF CommandInv
<1>6. Histories'
  BY <1>1, <1>2, <1>3, <1>4, <1>5 DEF CommandInv, Histories
<1>7. Counters' /\ ExecKind' /\ Kinds'
  BY ZenonT(60), <1>1, <1>2, <1>3, <1>4, <1>5 DEF ReachedSame, CodeTells, Leave,
     CommandInv, Counters, ExecKind, Kinds, Routes, Children, Sandboxes,
     Leaving, Signals, Results
<1>8. Routes' /\ Children'
  BY <1>1, <1>2, <1>3, <1>4, <1>5 DEF ReachedSame, CodeTells, Leave,
     CommandInv, Counters, ExecKind, Kinds, Routes, Children, Sandboxes,
     Leaving, Signals, Results
<1>9. Sandboxes' /\ Leaving'
  BY <1>1, <1>2, <1>3, <1>4, <1>5 DEF ReachedSame, CodeTells, Leave,
     CommandInv, Counters, ExecKind, Kinds, Routes, Children, Sandboxes,
     Leaving, Signals, Results
<1>10. Signals'
  BY <1>1, <1>2, <1>3, <1>4, <1>5 DEF ReachedSame, CodeTells, Leave,
     CommandInv, Counters, ExecKind, Kinds, Routes, Children, Sandboxes,
     Leaving, Signals, Results
<1>11. Results'
  <2>1. CASE at' = "execWait" \/ Leave("1") \/ mode \in {"paseo", "cancel"}
    BY <1>3, <1>4, <2>1 DEF Leave, CommandInv, Routes, Results
  <2>2. CASE /\ mode = "run" /\ isTerminalExecState(exec.state)
             /\ override # "none" /\ Leave(override)
    <3>1. exec.state = "CANCELLED" /\ override \in {"130", "143"}
      BY <2>2 DEF CommandInv, Kinds, Results
    <3>2. exec # [state |-> "FINISHED", status |-> "0"]
      BY <3>1
    <3> QED
      BY <1>3, <2>2, <3>1, <3>2 DEF Leave, Results
  <2>3. CASE /\ mode = "run" /\ isTerminalExecState(exec.state)
             /\ override = "none" /\ Leave(execExitCode(exec))
    BY <1>3, <1>5, <2>3 DEF CodeTells, Leave, Results
  <2> QED
    BY <1>4, <2>1, <2>2, <2>3
<1> QED
  BY <1>6, <1>7, <1>8, <1>9, <1>10, <1>11 DEF CommandInv

\* A sandbox that CreateSandbox may have left behind is told of by its error.
LEMMA CreateSandboxKeeps ==
    ASSUME CommandInv, CreateSandbox, UNCHANGED execVars
    PROVE  CommandInv'
<1>1. history' = << >> \/ history' = <<"PENDING">>
  BY DEF CreateSandbox
<1>2. history' \in Seq(States)
  <2>1. "PENDING" \in States
    BY DEF States
  <2>2. << >> \in Seq(States) /\ <<"PENDING">> \in Seq(States)
    BY <2>1, ShortSequences
  <2> QED
    BY <1>1, <2>2
<1>3. /\ at = "create"
      /\ UNCHANGED <<mode, signals, pending, cursor, child, detached, deleted, said>>
  BY DEF CreateSandbox, signalVars
<1>4. \/ at' = "check" /\ UNCHANGED code /\ history' # << >>
      \/ at' = "ended" /\ code' = "1"
  BY DEF CreateSandbox
<1>5. ~detached /\ said = "nothing" /\ ~deleted
  BY <1>3 DEF CommandInv, Sandboxes
<1>6. Histories'
  BY <1>2, <1>3, <1>4, <1>5 DEF CommandInv, Histories
<1>7. Counters' /\ ExecKind' /\ Kinds'
  BY <1>2, <1>3, <1>4, <1>5 DEF execVars, CommandInv, Counters, ExecKind,
     Kinds, Routes, Children, Sandboxes, Leaving, Signals, Results
<1>8. Routes' /\ Children'
  BY <1>2, <1>3, <1>4, <1>5 DEF execVars, CommandInv, Counters, ExecKind,
     Kinds, Routes, Children, Sandboxes, Leaving, Signals, Results
<1>9. Sandboxes' /\ Leaving'
  BY <1>2, <1>3, <1>4, <1>5 DEF execVars, CommandInv, Counters, ExecKind,
     Kinds, Routes, Children, Sandboxes, Leaving, Signals, Results
<1>10. Signals' /\ Results'
  BY <1>2, <1>3, <1>4, <1>5 DEF execVars, CommandInv, Counters, ExecKind,
     Kinds, Routes, Children, Sandboxes, Leaving, Signals, Results
<1> QED
  BY <1>6, <1>7, <1>8, <1>9, <1>10 DEF CommandInv

\* A session that asks for the deletion is not detached.
LEMMA RequestDeleteKeeps ==
    ASSUME CommandInv, RequestDelete, UNCHANGED execVars
    PROVE  CommandInv'
<1>1. /\ at = "delete" /\ deleted'
      /\ UNCHANGED <<mode, signals, pending, cursor, child, detached, code>>
  BY DEF RequestDelete, cleanUpQuiet, signalVars
<1>2. history \in Seq(States) /\ history # << >>
  BY <1>1 DEF CommandInv, Histories, Leaving, Sandboxes
<1>3. /\ history' \in Seq(States) /\ history' # << >>
      /\ \A s \in States : Reached(s) => Reached(s)'
  <2>1. CASE history' = history
    BY <1>2, <2>1 DEF Reached
  <2>2. CASE history' = Append(history, "DELETING")
    <3>1. "DELETING" \in States
      BY DEF States
    <3> QED
      BY <1>2, <2>2, <3>1, ReachedGrows
  <2> QED
    BY <2>1, <2>2 DEF RequestDelete
<1>4. /\ Reached("READY") => Reached("READY")'
      /\ Reached("DELETED") => Reached("DELETED")'
  BY <1>3 DEF States
<1>5. (at' = "get" /\ UNCHANGED said) \/ (at' = "ended" /\ said' = "warned")
  BY DEF RequestDelete, Finish
<1>6. Histories'
  BY <1>1, <1>3, <1>4, <1>5 DEF CommandInv, Histories
<1>7. Counters'
  BY <1>1, <1>3, <1>4, <1>5 DEF execVars, CommandInv, Counters, ExecKind,
     Kinds, Routes, Children, Sandboxes, Leaving, Signals, Results
<1>8. ExecKind'
  BY <1>1, <1>3, <1>4, <1>5 DEF execVars, CommandInv, Counters, ExecKind,
     Kinds, Routes, Children, Sandboxes, Leaving, Signals, Results
<1>9. Kinds'
  BY <1>1, <1>3, <1>4, <1>5 DEF execVars, CommandInv, Counters, ExecKind,
     Kinds, Routes, Children, Sandboxes, Leaving, Signals, Results
<1>10. Routes' /\ Children'
  BY <1>1, <1>3, <1>4, <1>5 DEF execVars, CommandInv, Counters, ExecKind,
     Kinds, Routes, Children, Sandboxes, Leaving, Signals, Results
<1>11. Sandboxes' /\ Leaving'
  BY <1>1, <1>3, <1>4, <1>5 DEF execVars, CommandInv, Counters, ExecKind,
     Kinds, Routes, Children, Sandboxes, Leaving, Signals, Results
<1>12. Signals' /\ Results'
  BY <1>1, <1>3, <1>4, <1>5 DEF execVars, CommandInv, Counters, ExecKind,
     Kinds, Routes, Children, Sandboxes, Leaving, Signals, Results
<1> QED
  BY <1>6, <1>7, <1>8, <1>9, <1>10, <1>11, <1>12 DEF CommandInv

\* The daemon only adds to the history of a sandbox.
LEMMA SandboxMovesKeeps ==
    ASSUME CommandInv, SandboxMoves, UNCHANGED execVars
    PROVE  CommandInv'
<1>1. /\ UNCHANGED <<mode, at, signals, pending, cursor, child, detached, deleted, said, code>>
      /\ history # << >>
  BY DEF SandboxMoves
<1>2. history \in Seq(States)
  BY DEF CommandInv, Histories
<1>3. Last \in States
  BY <1>1, <1>2, LastReached
<1>4. PICK st \in Follows[Last] : history' = Append(history, st)
  BY DEF SandboxMoves
<1>5. st \in States
  BY <1>3 DEF Follows, States
<1>6. /\ history' \in Seq(States) /\ history' # << >>
      /\ \A s \in States : Reached(s) => Reached(s)'
  BY <1>2, <1>4, <1>5, ReachedGrows
<1>7. /\ Reached("READY") => Reached("READY")'
      /\ Reached("DELETED") => Reached("DELETED")'
  BY <1>6 DEF States
<1>8. Histories'
  BY <1>1, <1>6, <1>7 DEF CommandInv, Histories
<1>9. Counters'
  BY <1>1, <1>6, <1>7 DEF execVars, CommandInv, Counters, ExecKind, Kinds,
     Routes, Children, Sandboxes, Leaving, Signals, Results
<1>10. ExecKind'
  BY <1>1, <1>6, <1>7 DEF execVars, CommandInv, Counters, ExecKind, Kinds,
     Routes, Children, Sandboxes, Leaving, Signals, Results
<1>11. Kinds'
  BY ZenonT(60), <1>1, <1>6, <1>7 DEF execVars, CommandInv, Counters, ExecKind, Kinds,
     Routes, Children, Sandboxes, Leaving, Signals, Results
<1>12. Routes' /\ Children'
  BY <1>1, <1>6, <1>7 DEF execVars, CommandInv, Counters, ExecKind, Kinds,
     Routes, Children, Sandboxes, Leaving, Signals, Results
<1>13. Sandboxes'
  BY ZenonT(60), <1>1, <1>6, <1>7 DEF execVars, CommandInv, Counters, ExecKind, Kinds,
     Routes, Children, Sandboxes, Leaving, Signals, Results
<1>14. Leaving'
  BY ZenonT(60), <1>1, <1>6, <1>7 DEF execVars, CommandInv, Counters, ExecKind, Kinds,
     Routes, Children, Sandboxes, Leaving, Signals, Results
<1>15. Signals'
  BY <1>1, <1>6, <1>7 DEF execVars, CommandInv, Counters, ExecKind, Kinds,
     Routes, Children, Sandboxes, Leaving, Signals, Results
<1>16. Results'
  BY <1>1, <1>6, <1>7 DEF execVars, CommandInv, Counters, ExecKind, Kinds,
     Routes, Children, Sandboxes, Leaving, Signals, Results
<1> QED
  BY <1>8, <1>9, <1>10, <1>11, <1>12, <1>13, <1>14, <1>15, <1>16 DEF CommandInv

\* Only the signal whose cancellation was accepted leaves its code.
LEMMA ExecSignalKeeps ==
    ASSUME CommandInv, NEW which \in {"int", "term"}, NEW c \in {"130", "143"},
           ExecSignal(which, c)
    PROVE  CommandInv'
<1>1. history' = history
  BY DEF ExecSignal, rest
<1>2. ReachedSame
  BY <1>1, ReachedStays
<1>3. TakenFrom
  <2>1. pending \in [int : Nat, term : Nat]
    BY DEF CommandInv, Counters
  <2> QED
    BY <2>1, TakenSignal DEF ExecSignal, Signal
<1>4. /\ at = "execWait" /\ mode = "run"
      /\ UNCHANGED <<mode, signals, cursor, child, detached, deleted, said>>
  BY DEF ExecSignal, rest, signalVars
<1>5. /\ exec' \in [state : ExecStates, status : {"0", "child"}]
      /\ exec.state = "CANCELLED" => exec' = exec
      /\ exec'.state = "CANCELLED" \/ exec' = exec
  <2>1. exec \in [state : ExecStates, status : {"0", "child"}]
    BY DEF CommandInv, ExecKind
  <2>2. \/ exec' = exec
        \/ exec.state = "RUNNING" /\ exec' = [exec EXCEPT !.state = "CANCELLED"]
    BY DEF ExecSignal, Cancelled, AlreadyTerminal
  <2> QED
    BY <2>1, <2>2
<1>6. \/ exec'.state = "CANCELLED" /\ override' = c /\ UNCHANGED <<at, code>>
      \/ override' = "none" /\ UNCHANGED <<at, code>>
      \/ override' = "none" /\ at' = "ended" /\ code' = "1"
  <2>1. exec \in [state : ExecStates, status : {"0", "child"}]
    BY DEF CommandInv, ExecKind
  <2>2. CASE Cancelled /\ Signal(which, c) /\ UNCHANGED <<at, code>>
    BY <2>1, <2>2 DEF Cancelled, Signal
  <2>3. CASE Signal(which, "none") /\ UNCHANGED <<at, code>>
    BY <2>3 DEF Signal
  <2>4. CASE Signal(which, "none") /\ CallFails
    BY <1>4, <2>4 DEF Signal, CallFails, Leave
  <2> QED
    BY <2>2, <2>3, <2>4 DEF ExecSignal
<1>7. Histories'
  BY <1>1, <1>2, <1>3, <1>4, <1>5, <1>6 DEF CommandInv, Histories
<1>8. Counters' /\ ExecKind' /\ Kinds'
  BY <1>1, <1>2, <1>3, <1>4, <1>5, <1>6 DEF TakenFrom, ReachedSame,
     CommandInv, Counters, ExecKind, Kinds, Routes, Children, Sandboxes,
     Leaving, Signals, Results
<1>9. Routes' /\ Children'
  BY <1>1, <1>2, <1>3, <1>4, <1>5, <1>6 DEF TakenFrom, ReachedSame,
     CommandInv, Counters, ExecKind, Kinds, Routes, Children, Sandboxes,
     Leaving, Signals, Results
<1>10. Sandboxes' /\ Leaving'
  BY <1>1, <1>2, <1>3, <1>4, <1>5, <1>6 DEF TakenFrom, ReachedSame,
     CommandInv, Counters, ExecKind, Kinds, Routes, Children, Sandboxes,
     Leaving, Signals, Results
<1>11. Signals' /\ Results'
  BY <1>1, <1>2, <1>3, <1>4, <1>5, <1>6 DEF TakenFrom, ReachedSame,
     CommandInv, Counters, ExecKind, Kinds, Routes, Children, Sandboxes,
     Leaving, Signals, Results
<1> QED
  BY <1>7, <1>8, <1>9, <1>10, <1>11 DEF CommandInv

\* An exec that ends by itself was RUNNING: nothing has been reported of it.
LEMMA ExecMovesKeeps ==
    ASSUME CommandInv, ExecMoves
    PROVE  CommandInv'
<1>1. /\ UNCHANGED <<mode, at, history, cursor, pending, signals, child, detached,
                     deleted, said, code, override>>
      /\ exec.state = "RUNNING"
  BY DEF ExecMoves, sessionVars
<1>2. ReachedSame
  BY <1>1, ReachedStays
<1>3. exec' \in [state : ExecStates, status : {"0", "child"}]
  BY DEF ExecMoves
<1>4. Histories'
  BY <1>1, <1>2, <1>3 DEF CommandInv, Histories
<1>5. Counters' /\ ExecKind' /\ Kinds'
  BY ZenonT(60), <1>1, <1>2, <1>3 DEF ReachedSame, CommandInv, Counters, ExecKind, Kinds,
     Routes, Children, Sandboxes, Leaving, Signals, Results
<1>6. Routes' /\ Children'
  BY <1>1, <1>2, <1>3 DEF ReachedSame, CommandInv, Counters, ExecKind, Kinds,
     Routes, Children, Sandboxes, Leaving, Signals, Results
<1>7. Sandboxes'
  BY ZenonT(60), <1>1, <1>2, <1>3 DEF ReachedSame, CommandInv, Counters, ExecKind, Kinds,
     Routes, Children, Sandboxes, Leaving, Signals, Results
<1>8. Leaving'
  BY ZenonT(60), <1>1, <1>2, <1>3 DEF ReachedSame, CommandInv, Counters, ExecKind, Kinds,
     Routes, Children, Sandboxes, Leaving, Signals, Results
<1>9. Signals' /\ Results'
  BY ZenonT(60), <1>1, <1>2, <1>3 DEF ReachedSame, CommandInv, Counters, ExecKind, Kinds,
     Routes, Children, Sandboxes, Leaving, Signals, Results
<1> QED
  BY <1>4, <1>5, <1>6, <1>7, <1>8, <1>9 DEF CommandInv

\* Another event of the sandbox, or a step that changes nothing.
LEMMA NothingKeeps ==
    ASSUME CommandInv, OtherEvent \/ UNCHANGED commandVars
    PROVE  CommandInv'
<1>1. UNCHANGED <<mode, at, history, cursor, pending, signals, child, detached,
                  deleted, said, code, exec, override>>
  BY DEF OtherEvent, commandVars, sessionVars, execVars
<1>2. ReachedSame
  BY <1>1, ReachedStays
<1>3. Histories'
  BY <1>1, <1>2 DEF CommandInv, Histories
<1>4. Counters'
  BY <1>1, <1>2 DEF ReachedSame, CommandInv, Counters, ExecKind, Kinds,
     Routes, Children, Sandboxes, Leaving, Signals, Results
<1>5. ExecKind'
  BY <1>1, <1>2 DEF ReachedSame, CommandInv, Counters, ExecKind, Kinds,
     Routes, Children, Sandboxes, Leaving, Signals, Results
<1>6. Kinds'
  BY ZenonT(60), <1>1, <1>2 DEF ReachedSame, CommandInv, Counters, ExecKind, Kinds,
     Routes, Children, Sandboxes, Leaving, Signals, Results
<1>7. Routes' /\ Children'
  BY <1>1, <1>2 DEF ReachedSame, CommandInv, Counters, ExecKind, Kinds,
     Routes, Children, Sandboxes, Leaving, Signals, Results
<1>8. Sandboxes'
  BY ZenonT(60), <1>1, <1>2 DEF ReachedSame, CommandInv, Counters, ExecKind, Kinds,
     Routes, Children, Sandboxes, Leaving, Signals, Results
<1>9. Leaving'
  BY ZenonT(60), <1>1, <1>2 DEF ReachedSame, CommandInv, Counters, ExecKind, Kinds,
     Routes, Children, Sandboxes, Leaving, Signals, Results
<1>10. Signals'
  BY <1>1, <1>2 DEF ReachedSame, CommandInv, Counters, ExecKind, Kinds,
     Routes, Children, Sandboxes, Leaving, Signals, Results
<1>11. Results'
  BY <1>1, <1>2 DEF ReachedSame, CommandInv, Counters, ExecKind, Kinds,
     Routes, Children, Sandboxes, Leaving, Signals, Results
<1> QED
  BY <1>3, <1>4, <1>5, <1>6, <1>7, <1>8, <1>9, <1>10, <1>11 DEF CommandInv

-----------------------------------------------------------------------------
(***************************************************************************)
(* The theorems                                                            *)
(***************************************************************************)
\* A command starts with nothing created and nothing received.
LEMMA InitCommand ==
    ASSUME CommandInit
    PROVE  CommandInv
<1>1. /\ mode \in AllModes /\ history = << >> /\ cursor = 0
      /\ pending = [int |-> 0, term |-> 0] /\ signals = [int |-> 0, term |-> 0]
      /\ child = "none" /\ ~detached /\ ~deleted
      /\ said = "nothing" /\ code = "none" /\ override = "none"
  BY SessionAssumption DEF CommandInit, SessionInit
<1>2. \/ mode = "run" /\ at = "createExec"
      \/ mode = "cancel" /\ at = "cancelExec"
      \/ mode \notin {"run", "cancel"} /\ at = "preflight"
  BY <1>1 DEF CommandInit, SessionInit
<1>3. exec \in [state : ExecStates, status : {"0", "child"}]
  BY DEF CommandInit
<1>4. history \in Seq(States)
  BY <1>1
<1>5. Histories /\ Counters /\ ExecKind
  BY <1>1, <1>3, <1>4 DEF Histories, Counters, ExecKind
<1>6. Kinds /\ Routes /\ Children
  BY <1>1, <1>2 DEF Kinds, Routes, Children
<1>7. Sandboxes /\ Leaving /\ Signals /\ Results
  BY <1>1, <1>2 DEF Sandboxes, Leaving, Signals, Results
<1> QED
  BY <1>5, <1>6, <1>7 DEF CommandInv

\* Every step of a command, of its exec or of the world around it keeps the
\* invariant.
LEMMA NextCommand ==
    ASSUME CommandInv, [CommandNext]_commandVars
    PROVE  CommandInv'
<1>1. CASE SessionStep /\ UNCHANGED execVars
  BY <1>1, PreFlightKeeps, CreateSandboxKeeps, CheckSignalsKeeps,
     ReadyBaselineKeeps, SubscribeKeeps, WaitReadyKeeps,
     resolveContainerLoginShellKeeps, StartChildKeeps, AttachedKeeps,
     InterruptedKeeps, TerminatedKeeps, KilledKeeps, PrintIDKeeps,
     RequestDeleteKeeps, DeletedBaselineKeeps, SubscribeDeletedKeeps,
     WaitDeletedKeeps DEF SessionStep
<1>2. CASE World /\ UNCHANGED execVars
  BY <1>2, InterruptKeeps, TerminateKeeps, ChildExitsKeeps, SandboxMovesKeeps DEF World
<1>3. CASE ExecStep
  BY <1>3, CreateExecKeeps, CancelExecKeeps, ExecBaselineKeeps,
     PeekSignalKeeps, ExecSubscribeKeeps, ExecEventKeeps, ExecGetKeeps,
     ExecSignalKeeps DEF ExecStep
<1>4. CASE ExecMoves
  BY <1>4, ExecMovesKeeps
<1>5. CASE OtherEvent \/ UNCHANGED commandVars
  BY <1>5, NothingKeeps
<1> QED
  BY <1>1, <1>2, <1>3, <1>4, <1>5 DEF CommandNext

\* The invariant holds of every command, whatever the daemon, the docker
\* process and the user do.
THEOREM CommandInvariant == CommandSpec => []CommandInv
<1>1. CommandInit => CommandInv
  BY InitCommand
<1>2. CommandInv /\ [CommandNext]_commandVars => CommandInv'
  BY NextCommand
<1> QED
  BY <1>1, <1>2, PTL DEF CommandSpec

\* No session of agent_session.go ends without having seen its sandbox deleted
\* or having said that it may still be there, and a sandbox is kept only when
\* it has been READY and nobody was asked to delete it.
THEOREM NoSilentOrphanCorrect == CommandSpec => []NoSilentOrphan
<1>1. CommandInv => NoSilentOrphan
  BY DEF CommandInv, Kinds, Sandboxes, Leaving, NoSilentOrphan
<1> QED
  BY <1>1, CommandInvariant, PTL

\* runInteractiveSession never cleans up beside a live docker exec process.
THEOREM NoChildLeftCorrect == CommandSpec => []NoChildLeft
<1>1. CommandInv => NoChildLeft
  BY DEF CommandInv, Children, NoChildLeft
<1> QED
  BY <1>1, CommandInvariant, PTL

\* The exit code of a session and of `agbox sandbox exec` tells what became of
\* the process, also when a signal races its end.
THEOREM ExitCodeTellsCorrect == CommandSpec => []ExitCodeTells
<1>1. CommandInv => ExitCodeTells
  BY DEF CommandInv, Signals, Results, ExitCodeTells
<1> QED
  BY <1>1, CommandInvariant, PTL

=============================================================================
