------------------------------- MODULE MCExecs -------------------------------
(***************************************************************************)
(* Execs for TLC: requests are accepted for a sandbox only while its two   *)
(* logs are shorter than MaxLog and MaxExecLog.                            *)
(***************************************************************************)
EXTENDS Execs, TLC

CONSTANTS MaxLog, MaxExecLog

Symmetry == Permutations(Goroutines) \cup Permutations(Execs)

MCLifecycleStep ==
    /\ \/ \E g \in Goroutines : GoroutineStep(g)
       \/ \E T \in SUBSET Sandboxes : /\ \A s \in T : nextSequence[s] < MaxLog
                                      /\ Request(T)
       \/ Startup
       \/ DockerStep
    /\ UNCHANGED execVars

MCNext ==
    \/ \E s \in Sandboxes, e \in Execs :
           /\ Len(execLog[s]) < MaxExecLog
           /\ ExecRequest(s, e) \/ CrashInCreateExec(s, e)
    \/ \E e \in Execs : CancelExec(e) \/ ExecStep(e)
    \/ \E T \in SUBSET Sandboxes : /\ \A s \in T : nextSequence[s] < MaxLog
                                   /\ IdleScan(T)
    \/ \E T \in SUBSET Sandboxes : ExecsCleanup(T)
    \/ ExecsDropPurged
    \/ ExecsCrash
    \/ ExecsRestartStep
    \/ MCLifecycleStep

MCSpec == ExecsInit /\ [][MCNext]_allVars

MCFairSpec == MCSpec /\ ExecsFairness

=============================================================================
