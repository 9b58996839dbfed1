--------------------------- MODULE CrashloopWatcher ---------------------------
(***************************************************************************)
(* The Docker event watcher (internal/control/docker_event_watcher.go) for *)
(* one sandbox: it inspects the containers of a READY sandbox on every     *)
(* tick of a timer, on every die event and after every reconnect, and      *)
(* keeps two timers per container from what it sees.                       *)
(*                                                                         *)
(* Time is counted in units: Tick is the reconcile interval (15 s), Guard  *)
(* the running guard (30 s), Window the non-running window (5 min).  Waits *)
(* of a second or less take no time.                                       *)
(***************************************************************************)
EXTENDS Integers

CONSTANTS
    Companions,       \* the companion containers of the sandbox
    Tick, Guard, Window,
    MaxTime           \* the clock stops here

ASSUME TimesAssumption == /\ Tick \in Nat \ {0}
                          /\ Guard \in Nat \ {0}
                          /\ Window \in Nat \ {0}
                          /\ MaxTime \in Nat
ASSUME PrimaryAssumption == "primary" \notin Companions

VARIABLES
    now,
    sandbox,           \* record.handle.State
    stopping,          \* a completeSandboxStop goroutine is under way
    notRunningSince,   \* crashloopState.notRunningSince of each container
    runningSince,      \* crashloopState.runningSince
    failedAt,          \* time of the last failure event for each container
    connection,        \* where run() is: "connect", "stream" or "wait"
    lastInspected,     \* time of the last reconcileAll without inspect errors
    dieEvents,         \* containers with a die event in the stream
    container,         \* Docker's state of each container
    since,             \* when it last came up, went down or was removed
    readySince,        \* when the sandbox last became READY
    stableAt           \* when it last had been up for long while READY

timers   == <<notRunningSince, runningSince>>
docker   == <<container, since, dieEvents>>
history  == <<readySince, stableAt>>
vars == <<now, sandbox, stopping, timers, failedAt, connection, lastInspected,
          docker, history>>

Containers == {"primary"} \cup Companions

Nil == -1

Time == {Nil} \cup Nat

\* "stopped" is stopped by docker stop, which the restart policy respects.
ContainerState == {"running", "paused", "exited", "stopped", "absent"}

Up == {"running", "paused"}

-----------------------------------------------------------------------------
(***************************************************************************)
(* evaluateContainer                                                       *)
(***************************************************************************)
\* Mutant: the start of the window is not kept.
EvaluateForgetful(obs, nrs, rs, t) ==
    CASE obs = "absent"  -> [nrs |-> nrs, rs |-> rs, fail |-> TRUE]
      [] obs \in Up      -> [nrs |-> Nil, rs |-> Nil, fail |-> FALSE]
      [] OTHER -> LET n == IF nrs = Nil THEN t ELSE nrs
                  IN  [nrs |-> Nil, rs |-> Nil, fail |-> t - n > Window]

\* Mutant: a stable run does not end the window.
EvaluateSticky(obs, nrs, rs, t) ==
    CASE obs = "absent"  -> [nrs |-> nrs, rs |-> rs, fail |-> TRUE]
      [] obs = "paused"  -> [nrs |-> Nil, rs |-> Nil, fail |-> FALSE]
      [] obs = "running" -> [nrs |-> nrs, rs |-> t, fail |-> FALSE]
      [] OTHER -> LET n == IF nrs = Nil THEN t ELSE nrs
                  IN  [nrs |-> n, rs |-> Nil, fail |-> t - n > Window]

\* The timers after a container was seen in state obs at time t, and whether
\* that is a failure.
Evaluate(obs, nrs, rs, t) ==
    CASE obs = "absent"  -> [nrs |-> nrs, rs |-> rs, fail |-> TRUE]
      [] obs = "paused"  -> [nrs |-> Nil, rs |-> Nil, fail |-> FALSE]
      [] obs = "running" ->
             LET r == IF rs = Nil THEN t ELSE rs
             IN  IF t - r >= Guard
                 THEN [nrs |-> Nil, rs |-> Nil, fail |-> FALSE]
                 ELSE [nrs |-> nrs, rs |-> r, fail |-> FALSE]
      [] OTHER -> LET n == IF nrs = Nil THEN t ELSE nrs
                  IN  [nrs |-> n, rs |-> Nil, fail |-> t - n > Window]

Decision(c) == Evaluate(container[c], notRunningSince[c], runningSince[c], now)

\* Inspect and evaluate the containers of C; a failure of the primary is
\* SANDBOX_FAILED, of a companion COMPANION_CONTAINER_FAILED.
EvaluateAll(C) ==
    /\ notRunningSince' = [c \in Containers |->
           IF c \in C THEN Decision(c).nrs ELSE notRunningSince[c]]
    /\ runningSince' = [c \in Containers |->
           IF c \in C THEN Decision(c).rs ELSE runningSince[c]]
    /\ failedAt' = [c \in Containers |->
           IF c \in C /\ Decision(c).fail THEN now ELSE failedAt[c]]
    /\ sandbox' = IF "primary" \in C /\ Decision("primary").fail
                  THEN "FAILED" ELSE sandbox

\* Mutant: only the primary is looked at.
reconcileAllPrimaries ==
    \E errs \in SUBSET Containers :
        /\ lastInspected' = IF errs = {} THEN now ELSE lastInspected
        /\ IF sandbox # "READY" THEN UNCHANGED <<timers, failedAt, sandbox>>
           ELSE EvaluateAll({"primary"} \ errs)

\* errs are the containers docker inspect returns an error for, which changes
\* nothing.  A primary that cannot be inspected, or that fails, keeps the
\* companions from being looked at.
reconcileAll ==
    \E errs \in SUBSET Containers :
        /\ lastInspected' = IF errs = {} THEN now ELSE lastInspected
        /\ IF sandbox # "READY" THEN UNCHANGED <<timers, failedAt, sandbox>>
           ELSE EvaluateAll(IF "primary" \in errs THEN {}
                            ELSE IF Decision("primary").fail THEN {"primary"}
                            ELSE Containers \ errs)

-----------------------------------------------------------------------------
Init ==
    /\ now = 0
    /\ sandbox = "READY"
    /\ stopping = FALSE
    /\ notRunningSince = [c \in Containers |-> Nil]
    /\ runningSince = [c \in Containers |-> Nil]
    /\ failedAt = [c \in Containers |-> Nil]
    /\ connection = "connect"
    /\ lastInspected = 0
    /\ dieEvents = {}
    /\ container = [c \in Containers |-> "running"]
    /\ since = [c \in Containers |-> 0]
    /\ readySince = 0
    /\ stableAt = [c \in Containers |-> Nil]

-----------------------------------------------------------------------------
(***************************************************************************)
(* run and processEvents                                                   *)
(***************************************************************************)
\* reconcileAll, then WatchContainerEvents, which returns its channels at
\* once whether or not Docker can be reached.
Connect ==
    /\ connection = "connect"
    /\ reconcileAll
    /\ connection' = "stream"
    /\ UNCHANGED <<now, stopping, docker, history>>

TickFires ==
    /\ connection = "stream"
    /\ reconcileAll
    /\ UNCHANGED <<now, stopping, connection, docker, history>>

handleEvent(c) ==
    /\ connection = "stream"
    /\ c \in dieEvents
    /\ dieEvents' = dieEvents \ {c}
    /\ IF sandbox # "READY" THEN UNCHANGED <<timers, failedAt, sandbox>>
       ELSE \E errs \in SUBSET {c} : EvaluateAll({c} \ errs)
    /\ UNCHANGED <<now, stopping, connection, lastInspected, container,
                   since, history>>

\* The stream ends; the events still in it are lost.
StreamEnds ==
    /\ connection = "stream"
    /\ connection' = "wait"
    /\ dieEvents' = {}
    /\ UNCHANGED <<now, sandbox, stopping, timers, failedAt,
                   lastInspected, container, since, history>>

BackoffElapses ==
    /\ connection = "wait"
    /\ connection' = "connect"
    /\ UNCHANGED <<now, sandbox, stopping, timers, failedAt,
                   lastInspected, docker, history>>

-----------------------------------------------------------------------------
(***************************************************************************)
(* The rest of the daemon                                                  *)
(***************************************************************************)
StopSandbox ==
    /\ sandbox = "READY"
    /\ ~stopping
    /\ stopping' = TRUE
    /\ UNCHANGED <<now, sandbox, timers, failedAt, connection, lastInspected, docker,
                   history>>

\* completeSandboxStop, after docker stop of every container.
StopFinish ==
    /\ stopping
    /\ \A c \in Containers : container[c] # "running"
    /\ stopping' = FALSE
    /\ sandbox' = "STOPPED"
    /\ UNCHANGED <<now, timers, failedAt, connection, lastInspected, docker, history>>

\* ResumeSandbox and completeSandboxResume: the containers are started, the
\* timers are left as they are.
ResumeSandbox ==
    /\ sandbox = "STOPPED"
    /\ \A c \in Containers : container[c] # "absent"
    /\ sandbox' = "READY"
    /\ readySince' = now
    /\ container' = [c \in Containers |-> "running"]
    /\ since' = [c \in Containers |->
           IF container[c] \in Up THEN since[c] ELSE now]
    /\ UNCHANGED <<now, stopping, timers, failedAt, connection, lastInspected,
                   dieEvents, stableAt>>

\* restorePersistedSandboxes and the start of the new watcher.
RestartDaemon ==
    /\ stopping' = FALSE
    /\ sandbox' = IF sandbox \in {"READY", "STOPPED"} /\ container["primary"] = "absent"
                  THEN "FAILED" ELSE sandbox
    /\ notRunningSince' = [c \in Containers |->
           IF /\ c = "primary"
              /\ sandbox = "READY"
              /\ container[c] \in {"exited", "stopped"}
           THEN now ELSE Nil]
    /\ runningSince' = [c \in Containers |-> Nil]
    /\ readySince' = now
    /\ lastInspected' = now
    /\ connection' = "connect"
    /\ dieEvents' = {}
    /\ UNCHANGED <<now, failedAt, container, since, stableAt>>

-----------------------------------------------------------------------------
(***************************************************************************)
(* Docker (external) and the clock                                         *)
(***************************************************************************)
Becomes(c, from, to) ==
    /\ container[c] \in from
    /\ container' = [container EXCEPT ![c] = to]
    /\ since' = IF from \cup {to} = Up THEN since ELSE [since EXCEPT ![c] = now]
    /\ dieEvents' = IF to \in {"exited", "stopped"} /\ connection = "stream"
                    THEN dieEvents \cup {c} ELSE dieEvents
    /\ UNCHANGED <<now, sandbox, stopping, timers, failedAt, connection,
                   lastInspected, history>>

ContainerExits(c)    == Becomes(c, {"running"}, "exited")
ContainerRestarts(c) == Becomes(c, {"exited"}, "running")
ContainerPaused(c)   == Becomes(c, {"running"}, "paused")
ContainerUnpaused(c) == Becomes(c, {"paused"}, "running")
ContainerRemoved(c)  == Becomes(c, {"exited", "stopped"}, "absent")
ContainerStopped(c)  == stopping /\ Becomes(c, {"running"}, "stopped")

\* How long c has been up, or down, while the sandbox was READY.
Lasting(c, t) == t - (IF since[c] < readySince THEN readySince ELSE since[c])

LongRun == Guard + 2 * Tick

\* The ticker fires every Tick, and inspect errors do not last longer.
ClockTick ==
    /\ now < MaxTime
    /\ connection = "stream"
    /\ now - lastInspected < Tick
    /\ now' = now + 1
    /\ stableAt' = [c \in Containers |->
           IF sandbox = "READY" /\ container[c] \in Up /\ Lasting(c, now') >= LongRun
           THEN now' ELSE stableAt[c]]
    /\ UNCHANGED <<sandbox, stopping, timers, failedAt, connection, lastInspected,
                   docker, readySince>>

-----------------------------------------------------------------------------
WatcherStep ==
    \/ Connect \/ TickFires \/ StreamEnds \/ BackoffElapses
    \/ \E c \in Containers : handleEvent(c)

DaemonStep == StopSandbox \/ StopFinish \/ ResumeSandbox \/ RestartDaemon

DockerStep ==
    \E c \in Containers :
        \/ ContainerExits(c) \/ ContainerRestarts(c) \/ ContainerPaused(c)
        \/ ContainerUnpaused(c) \/ ContainerRemoved(c) \/ ContainerStopped(c)

Next == WatcherStep \/ DaemonStep \/ DockerStep \/ ClockTick

Spec == Init /\ [][Next]_vars

-----------------------------------------------------------------------------
(***************************************************************************)
(* Properties                                                              *)
(***************************************************************************)
\* Every variable has its type, and no timer lies in the future.
TypeOK ==
    /\ now \in Nat
    /\ sandbox \in {"READY", "STOPPED", "FAILED"}
    /\ stopping \in BOOLEAN
    /\ notRunningSince \in [Containers -> {Nil} \cup 0..now]
    /\ runningSince \in [Containers -> {Nil} \cup 0..now]
    /\ failedAt \in [Containers -> {Nil} \cup 0..now]
    /\ connection \in {"connect", "stream", "wait"}
    /\ lastInspected \in 0..now
    /\ dieEvents \subseteq Containers
    /\ container \in [Containers -> ContainerState]
    /\ since \in [Containers -> 0..now]
    /\ readySince \in 0..now
    /\ stableAt \in [Containers -> {Nil} \cup 0..now]

\* A failure is due to the window when the container exists.
FailsByWindow(c) == failedAt'[c] # failedAt[c] /\ container[c] # "absent"

\* A container that was up for Guard + 2 Tick at a stretch is not failed
\* within the Window after that, whatever die events, reconnects, passing
\* inspect errors, pauses, stops, resumes and restarts the watcher saw.
HealthyNotFailed ==
    [][\A c \in Containers : (FailsByWindow(c) /\ stableAt[c] # Nil)
            => now - stableAt[c] > Window]_vars

\* A container of a READY sandbox that is down for longer than the Window and
\* a Tick has been reported, by the first reconcile at the latest.
DownIsReported ==
    sandbox = "READY" =>
        \A c \in Containers :
            (/\ container[c] \in {"exited", "stopped"}
             /\ Lasting(c, now) > Window + Tick
             /\ lastInspected = now)
                => failedAt[c] >= since[c]

\* A sandbox whose container exists is failed only after it has been READY
\* for a whole window.  Not kept by a timer set before a stop (README, seen
\* without a run).
ReadyHasWindow ==
    [][FailsByWindow("primary") => now - readySince > Window]_vars

\* Running for less than the guard does not end the non-running window.  Not
\* kept by restarts between two inspections (README, seen without a run).
ShortRunsKeepWindow ==
    [][\A c \in Containers :
         (/\ container[c] = "running"
          /\ notRunningSince[c] # Nil /\ notRunningSince'[c] = Nil
          /\ connection' # "connect")
             => now - since[c] >= Guard]_vars

=============================================================================
