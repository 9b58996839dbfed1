------------------------- MODULE MCSandboxLifecycle -------------------------
(***************************************************************************)
(* SandboxLifecycle for TLC.  New work is accepted for a sandbox only      *)
(* while its log is shorter than MaxLog, which bounds the logs; everything *)
(* already under way, crashes and restarts are not bounded.                *)
(***************************************************************************)
EXTENDS SandboxLifecycle, TLC

CONSTANT MaxLog

Symmetry == Permutations(Goroutines)

MCNext ==
    \/ \E g \in Goroutines : GoroutineStep(g)
    \/ \E T \in SUBSET Sandboxes :
           /\ \A s \in T : nextSequence[s] < MaxLog
           /\ Request(T) \/ idleScanAndStop(T)
    \/ \E T \in SUBSET Sandboxes : Cleanup(T)
    \/ \E s \in Sandboxes : dockerContainerEnsureRunning(s)
    \/ DropPurged
    \/ CrashStep
    \/ RestartStep
    \/ DockerStep

MCSpec == Init /\ [][MCNext]_vars

MCFairSpec == MCSpec /\ Fairness

=============================================================================
