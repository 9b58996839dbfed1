---------------------------- MODULE MCEventStream ----------------------------
(***************************************************************************)
(* EventStream for TLC: new work is accepted for a sandbox only while its  *)
(* log is shorter than MaxLog.                                             *)
(***************************************************************************)
EXTENDS EventStream

CONSTANT MaxLog

MCDaemonStep ==
    /\ \/ \E g \in Goroutines : GoroutineStep(g)
       \/ \E T \in SUBSET Sandboxes :
              /\ \A s \in T : nextSequence[s] < MaxLog
              /\ Request(T) \/ idleScanAndStop(T)
       \/ \E T \in SUBSET Sandboxes : Cleanup(T)
       \/ DropPurged
       \/ RestartStep
       \/ DockerStep
    /\ UNCHANGED client

MCNext ==
    \/ \E c \in Clients, call \in Calls, s \in Sandboxes :
           nextSequence[s] < MaxLog /\ Call(c, call, s)
    \/ \E c \in Clients : ClientStep(c) \/ TimesOut(c) \/ Poll(c)
    \/ StreamsCrash
    \/ MCDaemonStep

MCFairSpec == StreamInit /\ [][MCNext]_streamVars /\ StreamFairness

=============================================================================
