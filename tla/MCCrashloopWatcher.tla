-------------------------- MODULE MCCrashloopWatcher --------------------------
(***************************************************************************)
(* CrashloopWatcher for TLC, with at most MaxChanges steps of Docker and   *)
(* of the rest of the daemon.  The watcher and the clock are not bounded   *)
(* by it.                                                                  *)
(***************************************************************************)
EXTENDS CrashloopWatcher

CONSTANT MaxChanges

VARIABLE changes      \* how many such steps were taken

MCInit == Init /\ changes = 0

MCNext ==
    \/ /\ WatcherStep \/ ClockTick
       /\ UNCHANGED changes
    \/ /\ changes < MaxChanges
       /\ DaemonStep \/ DockerStep
       /\ changes' = changes + 1

MCSpec == MCInit /\ [][MCNext]_<<vars, changes>>

=============================================================================
