---------------------------- MODULE RuntimeBackend ----------------------------
(***************************************************************************)
(* The Docker backend (docker_runtime.go, docker_runtime_dockerapi.go,     *)
(* docker_runtime_health.go) one Docker call at a time: what creating,     *)
(* resuming, stopping and deleting a sandbox do to its network, its        *)
(* isolation rules, its primary container and its companions, with the     *)
(* goroutines that start companions and run their hooks beside them.  An   *)
(* exec starts the primary that is down; the watcher stops the sandbox it  *)
(* has just marked FAILED.  The service that makes these calls is modelled *)
(* in full in SandboxLifecycle; here it is reduced to which call it may    *)
(* make when: a goroutine of its own for each, and nothing that keeps the  *)
(* goroutines of one sandbox apart.  Docker is external: a call has its    *)
(* effect or fails, and may do both when it was cancelled.                 *)
(***************************************************************************)
EXTENDS HostIsolation

CONSTANTS Companions,   \* [Networks -> sets]: the companions of each sandbox
          Slots,        \* bound: the goroutines a sandbox has at once
          MaxCalls,     \* bound: the calls of the service
          MaxMishaps,   \* bound: failed Docker and nftables calls, deaths of the
                        \* daemon and losses of the host's rule set together
          MaxTogether   \* bound: mishaps and calls, a call counting for two

ASSUME BackendAssumption ==
    /\ Processes = Networks \X Slots
    /\ DOMAIN Companions = Networks
    /\ {MaxCalls, MaxMishaps, MaxTogether} \subseteq Nat

Sandboxes == Networks   \* each sandbox has one network, named after it

VARIABLES
    daemon,      \* whether the daemon is down, restoring or serving
    phase,       \* the state the service keeps for each sandbox
    runtime,     \* the sandboxes whose record has a runtimeState
    proc,        \* per goroutine: its call, where it is, its errors, its loop
    networks,    \* Docker: the networks that exist
    containers,  \* Docker: the containers of each sandbox
    starts,      \* the goroutines of startCompanionContainersAsync
    hook,        \* their post_start_on_primary goroutines
    cancelled,   \* the sandboxes whose companion starts were cancelled
    calls,       \* counts the calls of the service
    mishaps,     \* counts what went wrong
    fresh,       \* history: the goroutines whose rules were read after the last loss
    lost, kept, leaky, gone, raced, woken   \* history, see Properties

dockerVars == <<networks, containers>>
goVars == <<starts, hook, cancelled>>
marks == <<lost, kept, leaky, gone, raced, woken>>
history == <<fresh, marks>>
bounds == <<calls, mishaps>>
serviceVars == <<daemon, phase, runtime>>
vars == <<nftVars, serviceVars, proc, dockerVars, goVars, bounds, history>>

Names(s) == {"primary"} \cup Companions[s]
Idle == [call |-> "none", at |-> "idle", err |-> FALSE, dirty |-> FALSE, left |-> {}]
Busy(p) == proc[p].at # "idle"
Goroutines(s) == {s} \X Slots
Calling(s, call) == \E p \in Goroutines(s) : proc[p].call = call
Isolating(p) == proc[p].at \in {"isolateInput", "isolateFlush"}
Running(s, x) == containers[s][x] = "running"

At(p, call, point) == proc[p].at = point /\ call \in {proc[p].call, "any"}
Goto(p, point) == proc' = [proc EXCEPT ![p].at = point]

\* A Docker or nftables call returns an error; the bound is the model's.
Fault ==
    /\ mishaps < MaxMishaps /\ 2 * calls + mishaps < MaxTogether
    /\ mishaps' = mishaps + 1
NoFault == UNCHANGED mishaps

\* An error of a call: CreateSandbox cleans up after itself, the others return.
Fail(p) ==
    proc' = [proc EXCEPT ![p].err = TRUE,
                         ![p].at = IF proc[p].call = "create" THEN "cancel" ELSE "return"]

-----------------------------------------------------------------------------
(* CreateSandbox.  What it materialises is in CreateRequest. *)

\* ensureDockerImage for the primary and every companion, dockerNetworkCreate.
NetworkCreate(s, p) ==
    /\ At(p, "create", "network")
    /\ \/ networks' = networks \cup {s} /\ Goto(p, "isolate") /\ NoFault
       \/ UNCHANGED networks /\ Fail(p) /\ Fault
    /\ UNCHANGED <<nftVars, serviceVars, containers, goVars, calls, history>>

\* applyNetworkHostIsolation: the network is inspected, then the rules applied.
IsolateNext(p) ==
    CASE proc[p].call = "create"  -> "companions"
      [] proc[p].call = "resume"  -> "ensurePrimary"
      [] proc[p].call = "reapply" -> "return"

ApplyIsolation(s, p) ==
    /\ \/ /\ At(p, "any", "isolate") /\ s \in networks
          /\ ReadDockerUser(p, s)
          /\ Goto(p, "isolateInput") /\ NoFault
          /\ fresh' = fresh \cup {p}
          /\ raced' = IF \E q \in Goroutines(s) : Isolating(q) THEN raced \cup {s} ELSE raced
          /\ UNCHANGED lost
       \/ /\ At(p, "any", "isolateInput")
          /\ \/ ReadInput(p, s) /\ NoFault
             \/ ReadInputListFails(p, s) /\ Fault
          /\ Goto(p, "isolateFlush")
          /\ UNCHANGED <<fresh, lost, raced>>
       \/ /\ At(p, "any", "isolateFlush")
          /\ FlushInserts(p)
          /\ Goto(p, IsolateNext(p)) /\ NoFault
          /\ lost' = IF p \in fresh THEN lost \ {s} ELSE lost
          /\ fresh' = fresh \ {p}
          /\ UNCHANGED raced
       \/ /\ proc[p].at = "isolate" \/ Isolating(p)
          /\ NftablesFails(p)
          /\ Fail(p)
          /\ IF \/ proc[p].at = "isolate" /\ s \notin networks
                \/ proc[p].at = "isolateFlush" /\ ~InsertsFit(p)
             THEN NoFault ELSE Fault
          /\ fresh' = fresh \ {p}
          /\ UNCHANGED <<lost, raced>>
    /\ UNCHANGED <<serviceVars, dockerVars, goVars, calls, kept, leaky, gone, woken>>

\* startCompanionContainersAsync: one goroutine per companion.
StartCompanions(s, p) ==
    /\ At(p, "create", "companions")
    /\ starts' = [starts EXCEPT ![s] = [c \in Companions[s] |-> "create"]]
    /\ Goto(p, "primary")
    /\ UNCHANGED <<nftVars, serviceVars, dockerVars, hook, cancelled, bounds, history>>

\* GPU discovery and create of the primary; the copies into it and its start;
\* the wait for it to run.
CreatePrimary(s, p) ==
    /\ proc[p].call = "create"
    /\ \/ /\ proc[p].at = "primary"
          /\ containers' = [containers EXCEPT ![s]["primary"] = "stopped"]
          /\ Goto(p, "start") /\ NoFault
       \/ /\ proc[p].at = "start"
          /\ containers' = [containers EXCEPT ![s]["primary"] = "running"]
          /\ Goto(p, "wait") /\ NoFault
       \/ /\ proc[p].at = "wait"
          /\ UNCHANGED containers /\ Goto(p, "return") /\ NoFault
       \/ /\ proc[p].at \in {"primary", "start", "wait"}
          /\ UNCHANGED containers /\ Fail(p) /\ Fault
    /\ UNCHANGED <<nftVars, serviceVars, networks, goVars, calls, history>>

-----------------------------------------------------------------------------
(* The goroutines of startCompanionContainersAsync *)

\* The channel of the statuses has room for every companion: sending never waits.
CanSendWhenRead(s) == phase[s] = "ready"

CanSend(s) == TRUE

\* A companion is created and then started, and its status sent.  A call whose
\* context was cancelled returns an error, with or without its effect.
CompanionStep(s, c) ==
    LET effect == IF starts[s][c] = "create" THEN "stopped" ELSE "running"
        next   == IF starts[s][c] = "create" THEN "start" ELSE "ready"
        fits   == containers[s][c] = (IF starts[s][c] = "create" THEN "none" ELSE "stopped")
        set(st) == containers' = [containers EXCEPT ![s][c] = st]
    IN  /\ starts[s][c] \in {"create", "start"}
        /\ \/ /\ fits /\ s \in networks
              /\ set(effect) /\ NoFault
              /\ \/ s \notin cancelled /\ starts' = [starts EXCEPT ![s][c] = next]
                 \/ s \in cancelled /\ starts' = [starts EXCEPT ![s][c] = "failed"]
           \/ /\ IF s \in cancelled \/ ~fits \/ s \notin networks THEN NoFault ELSE Fault
              /\ starts' = [starts EXCEPT ![s][c] = "failed"]
              /\ UNCHANGED containers
        /\ starts'[s][c] \in {"ready", "failed"} => CanSend(s)
        /\ hook' = [hook EXCEPT ![s][c] = IF starts'[s][c] = "ready" THEN "waiting" ELSE @]
        /\ UNCHANGED <<nftVars, serviceVars, proc, networks, cancelled, calls, history>>

\* dockerWaitCompanionContainerHealthy polls until Docker reports the running
\* companion healthy; dockerExec then runs the hook in the primary.  The
\* goroutine ends without a trace when it is cancelled, when the companion is
\* down or not healthy in time, and when the primary is not running.
HookStep(s, c) ==
    /\ hook[s][c] \in {"waiting", "healthy"}
    /\ \E to \in {"healthy", "ran", "skipped"} :
          /\ hook' = [hook EXCEPT ![s][c] = to]
          /\ CASE to = "healthy" -> /\ hook[s][c] = "waiting" /\ Running(s, c)
                                    /\ s \notin cancelled
               [] to = "ran"     -> /\ hook[s][c] = "healthy" /\ Running(s, "primary")
                                    /\ s \notin cancelled
               [] to = "skipped" -> \/ hook[s][c] = "waiting"
                                    \/ ~Running(s, "primary") \/ s \in cancelled
    /\ UNCHANGED <<nftVars, serviceVars, proc, dockerVars, starts, cancelled, bounds, history>>

-----------------------------------------------------------------------------
(* ResumeSandbox, StopSandbox and the start of RunExec *)

\* dockerContainerMustExist: for the primary and every companion on resume,
\* for the primary in RunExec.  The context of an exec may be cancelled.
MustExist(s, p) ==
    LET names   == IF proc[p].call = "exec" THEN {"primary"} ELSE Names(s)
        missing == \E x \in names : containers[s][x] = "none"
    IN  /\ At(p, "any", "mustExist")
        /\ \/ /\ ~missing
              /\ Goto(p, IF proc[p].call = "exec" THEN "ensurePrimary" ELSE "isolate")
              /\ NoFault
           \/ /\ Fail(p)
              /\ IF missing \/ proc[p].call = "exec" THEN NoFault ELSE Fault
        /\ UNCHANGED <<nftVars, serviceVars, dockerVars, goVars, calls, history>>

\* dockerContainerEnsureRunning: a container that is down is started, if it
\* and its network are there, and may run although the wait for it then fails.
CanStart(s, x) == containers[s][x] # "none" /\ s \in networks

Ensure(s, x) ==
    /\ CanStart(s, x)
    /\ containers' = [containers EXCEPT ![s][x] = "running"]
    /\ woken' = IF ~Running(s, x) /\ (phase[s] = "stopped" \/ Calling(s, "stop"))
                THEN woken \cup {<<s, x>>} ELSE woken

NotEnsured == UNCHANGED <<containers, woken>>

\* A companion that does not start becomes a status, not an error; an exec
\* goes on in the primary.
EnsureRunning(s, p) ==
    /\ \/ /\ At(p, "any", "ensurePrimary")
          /\ \/ /\ Ensure(s, "primary") /\ NoFault
                /\ IF proc[p].call = "exec" THEN Goto(p, "return")
                   ELSE proc' = [proc EXCEPT ![p].at = "ensureCompanions",
                                             ![p].left = Companions[s]]
             \/ /\ Ensure(s, "primary") \/ NotEnsured
                /\ Fail(p)
                /\ IF ~CanStart(s, "primary") \/ proc[p].call = "exec"
                   THEN NoFault ELSE Fault
       \/ \E c \in proc[p].left :
             /\ At(p, "resume", "ensureCompanions")
             /\ proc' = [proc EXCEPT ![p].left = @ \ {c}]
             /\ \/ Ensure(s, c) /\ NoFault
                \/ NotEnsured /\ IF ~CanStart(s, c) THEN NoFault ELSE Fault
       \/ /\ At(p, "resume", "ensureCompanions") /\ proc[p].left = {}
          /\ Goto(p, "return") /\ NoFault /\ NotEnsured
    /\ UNCHANGED <<nftVars, serviceVars, networks, goVars, calls,
                   fresh, lost, kept, leaky, gone, raced>>

Stops == {"stop", "halt"}

CancelOnly(s, p) ==
    /\ At(p, "any", "cancel")
    /\ cancelled' = cancelled \cup {s}
    /\ Goto(p, IF proc[p].call \in Stops THEN "stopPrimary" ELSE "rmPrimary")
    /\ UNCHANGED <<nftVars, serviceVars, dockerVars, starts, hook, bounds, history>>

\* CompanionContainerStarts.CancelAndWait: of a stop, of a delete and of the
\* clean-up of a failed create.  After a restart there is nothing to wait for.
CancelAndWait(s, p) ==
    /\ \/ /\ At(p, "any", "cancel")
          /\ cancelled' = cancelled \cup {s}
          /\ Goto(p, "await")
       \/ /\ At(p, "any", "await")
          /\ \A c \in Companions[s] : starts[s][c] \notin {"create", "start"}
          /\ Goto(p, IF proc[p].call \in Stops THEN "stopPrimary" ELSE "rmPrimary")
          /\ UNCHANGED cancelled
    /\ UNCHANGED <<nftVars, serviceVars, dockerVars, starts, hook, bounds, history>>

\* dockerContainerStop ignores a container that is not there.
Stopped(s, x) ==
    /\ containers' = [containers EXCEPT ![s][x] = IF @ = "running" THEN "stopped" ELSE @]
    /\ woken' = woken \ {<<s, x>>}

StopPrimaryOnly(s, p) ==
    /\ At(p, "any", "stopPrimary")
    /\ Stopped(s, "primary")
    /\ Goto(p, "return") /\ NoFault
    /\ UNCHANGED <<nftVars, serviceVars, networks, goVars, calls,
                   fresh, lost, kept, leaky, gone, raced>>

StopContainers(s, p) ==
    /\ \/ /\ At(p, "any", "stopPrimary")
          /\ Stopped(s, "primary")
          /\ proc' = [proc EXCEPT ![p].at = "stopCompanions", ![p].left = Companions[s]]
          /\ NoFault
       \/ \E c \in proc[p].left :
             /\ At(p, "any", "stopCompanions")
             /\ Stopped(s, c)
             /\ proc' = [proc EXCEPT ![p].left = @ \ {c}]
             /\ NoFault
       \/ /\ At(p, "any", "stopCompanions") /\ proc[p].left = {}
          /\ Goto(p, "return") /\ NoFault /\ UNCHANGED <<containers, woken>>
       \/ /\ proc[p].at \in {"stopPrimary", "stopCompanions"}
          /\ UNCHANGED <<containers, woken>> /\ Fail(p) /\ Fault
    /\ UNCHANGED <<nftVars, serviceVars, networks, goVars, calls,
                   fresh, lost, kept, leaky, gone, raced>>

-----------------------------------------------------------------------------
(* deleteRuntimeArtifacts: every step is tried, the errors are joined *)

RemoveContainers(s, p) ==
    LET remove(x) == \/ /\ containers' = [containers EXCEPT ![s][x] = "none"]
                        /\ woken' = woken \ {<<s, x>>}
                        /\ NoFault /\ UNCHANGED kept
                     \/ /\ UNCHANGED <<containers, woken>> /\ Fault
                        /\ kept' = kept \cup {s}
    IN  /\ \/ /\ At(p, "any", "rmPrimary")
              /\ remove("primary")
              /\ proc' = [proc EXCEPT ![p].at = "rmCompanions", ![p].left = Companions[s],
                                      ![p].dirty = mishaps' # mishaps]
           \/ \E c \in proc[p].left :
                 /\ At(p, "any", "rmCompanions")
                 /\ remove(c)
                 /\ proc' = [proc EXCEPT ![p].left = @ \ {c}, ![p].dirty = @ \/ mishaps' # mishaps]
           \/ /\ At(p, "any", "rmCompanions") /\ proc[p].left = {}
              /\ Goto(p, "unrule")
              /\ NoFault /\ UNCHANGED <<containers, kept, woken>>
        /\ UNCHANGED <<nftVars, serviceVars, networks, goVars, calls,
                       fresh, lost, leaky, gone, raced>>

\* removeNetworkHostIsolation: best effort, errors are only logged.
RemoveIsolation(s, p) ==
    /\ \/ /\ At(p, "any", "unrule") /\ s \in networks
          /\ SelectRules(p, s)
          /\ Goto(p, "unruleFlush") /\ NoFault
          /\ leaky' = IF Calling(s, "resume") THEN leaky \cup {s} ELSE leaky
       \/ /\ At(p, "any", "unruleFlush")
          /\ FlushDeletes(p)
          /\ Goto(p, "rmNetwork") /\ NoFault
          /\ UNCHANGED leaky
       \/ /\ proc[p].at \in {"unrule", "unruleFlush"}
          /\ NftablesFails(p)
          /\ Goto(p, "rmNetwork")
          /\ IF s \notin networks \/ ~DeletesFit(p) THEN NoFault ELSE Fault
          /\ leaky' = leaky \cup {s}
    /\ UNCHANGED <<serviceVars, dockerVars, goVars, calls,
                   fresh, lost, kept, gone, raced, woken>>

\* Docker refuses to remove a network with a running container on it; a
\* network that is not there is no error.
RemoveNetwork(s, p) ==
    /\ At(p, "any", "rmNetwork")
    /\ \/ /\ \A x \in Names(s) : ~Running(s, x)
          /\ networks' = networks \ {s}
          /\ Goto(p, "return") /\ NoFault
       \/ /\ s \in networks
          /\ IF \E x \in Names(s) : Running(s, x) THEN NoFault ELSE Fault
          /\ proc' = [proc EXCEPT ![p].at = "return", ![p].dirty = TRUE]
          /\ UNCHANGED networks
    /\ UNCHANGED <<nftVars, serviceVars, containers, goVars, calls, history>>

-----------------------------------------------------------------------------
(* The calls of the service, and the daemon that makes them *)

\* A goroutine of its own takes the call.
Begin(s, call, point) ==
    \E p \in Goroutines(s) :
        /\ ~Busy(p)
        /\ proc' = [proc EXCEPT ![p] = [Idle EXCEPT !.call = call, !.at = point]]

\* The handlers look at the state alone: a sandbox that is being stopped is
\* still READY and may be asked to stop again, by a client or by the idle scan.
Request(s) ==
    /\ daemon = "serving"
    /\ calls < MaxCalls /\ 2 * calls + mishaps + 2 <= MaxTogether
    /\ calls' = calls + 1
    /\ \/ /\ phase[s] = "absent"
          /\ phase' = [phase EXCEPT ![s] = "pending"]
          /\ Begin(s, "create", "begin")
       \/ /\ phase[s] = "stopped"
          /\ phase' = [phase EXCEPT ![s] = "pending"]
          /\ Begin(s, "resume", "begin")
       \/ /\ phase[s] = "ready"
          /\ UNCHANGED phase
          /\ Begin(s, "stop", "begin") \/ Begin(s, "exec", "mustExist")
       \/ /\ phase[s] \notin {"absent", "deleting", "deleted"}
          /\ phase' = [phase EXCEPT ![s] = "deleting"]
          /\ Begin(s, "delete", "begin")
    /\ UNCHANGED <<nftVars, daemon, runtime, dockerVars, goVars, mishaps, history>>

\* The goroutine looks at the state once more before it calls the backend; a
\* deletion calls it in any case, with or without a runtimeState.
Enter(s, p) ==
    LET go(point) == Goto(p, point)
        drop      == proc' = [proc EXCEPT ![p] = Idle]
    IN  /\ \/ At(p, "create", "begin") /\ IF phase[s] = "pending" THEN go("network") ELSE drop
           \/ At(p, "resume", "begin") /\ IF phase[s] = "pending" THEN go("mustExist") ELSE drop
           \/ At(p, "stop", "begin") /\ IF phase[s] # "deleted" THEN go("cancel") ELSE drop
           \/ /\ At(p, "delete", "begin")
              /\ IF s \in runtime THEN go("cancel")
                 ELSE proc' = [proc EXCEPT ![p].call = "deleteNothing", ![p].at = "return"]
        /\ UNCHANGED <<nftVars, serviceVars, dockerVars, goVars, bounds, history>>

\* The watcher finds the primary crashlooping or down for too long: the state
\* is FAILED at once, the containers are stopped in a goroutine.
PrimaryFails(s) ==
    /\ daemon = "serving" /\ phase[s] = "ready"
    /\ Fault
    /\ phase' = [phase EXCEPT ![s] = "failed"]
    /\ Begin(s, "halt", "cancel")
    /\ UNCHANGED <<nftVars, daemon, runtime, dockerVars, goVars, calls, history>>

\* The call returns to the service, which records the outcome over whatever
\* the state is by then; that of an exec and of the watcher is not recorded.
Return(s, p) ==
    LET c == proc[p].call
        outcome == CASE c \in {"create", "resume"} -> "ready"
                     [] c = "stop" -> "stopped"
                     [] c \in {"delete", "deleteNothing"} -> "deleted"
                     [] OTHER -> phase[s]
        removed == c = "delete" \/ c = "cleanup" \/ (c = "create" /\ proc[p].err)
    IN  /\ proc[p].at = "return"
        /\ ~(c = "reapply" /\ proc[p].err)
        /\ phase' = [phase EXCEPT ![s] =
               IF \/ proc[p].err /\ c \notin {"exec", "halt"}
                  \/ c = "delete" /\ proc[p].dirty
               THEN "failed" ELSE outcome]
        /\ runtime' = CASE c = "create" /\ ~proc[p].err -> runtime \cup {s}
                        [] c = "cleanup" -> runtime \ {s}
                        [] OTHER -> runtime
        /\ gone' = IF removed /\ ~proc[p].dirty THEN gone \cup {s} ELSE gone
        /\ proc' = [proc EXCEPT ![p] = Idle]
        /\ UNCHANGED <<nftVars, daemon, dockerVars, goVars, bounds,
                       fresh, lost, kept, leaky, raced, woken>>

\* The daemon dies: its goroutines are gone, and what they had queued.
Die ==
    /\ daemon' = "down"
    /\ proc' = [p \in Processes |-> Idle]
    /\ starts' = [x \in Sandboxes |-> [c \in Companions[x] |-> "none"]]
    /\ hook' = [x \in Sandboxes |-> [c \in Companions[x] |-> "none"]]
    /\ cancelled' = {}
    /\ batch' = [p \in Processes |-> {}]
    /\ fresh' = {}
    /\ UNCHANGED <<listFailed, phase, runtime, dockerVars, calls>>

Crash ==
    /\ daemon # "down"
    /\ Fault
    /\ Die
    /\ UNCHANGED <<chains, marks>>

\* A sandbox whose rules cannot be re-applied ends the start of the daemon.
RestoreAborts(p) ==
    /\ At(p, "reapply", "return") /\ proc[p].err
    /\ Die
    /\ NoFault
    /\ UNCHANGED <<chains, marks>>

\* restorePersistedSandboxes, as far as the backend is concerned: the rules
\* of a READY sandbox are re-applied, a deletion is finished.
Exists(s) == containers[s]["primary"] # "none"

Restore ==
    /\ daemon = "down"
    /\ daemon' = "restoring"
    /\ phase' = [s \in Sandboxes |->
           CASE phase[s] = "pending" -> "failed"
             [] phase[s] \in {"ready", "stopped"} /\ ~Exists(s) -> "failed"
             [] phase[s] = "deleting" -> "deleted"
             [] OTHER -> phase[s]]
    /\ runtime' = {s \in Sandboxes : \/ phase[s] \in {"ready", "failed", "deleting"}
                                     \/ phase[s] = "stopped" /\ Exists(s)}
    /\ \E g \in Slots :
           proc' = [p \in Processes |->
               CASE phase[p[1]] = "ready" /\ Exists(p[1]) /\ p[2] = g ->
                        [Idle EXCEPT !.call = "reapply", !.at = "isolate"]
                 [] phase[p[1]] = "deleting" /\ p[2] = g ->
                        [Idle EXCEPT !.call = "cleanup", !.at = "cancel"]
                 [] OTHER -> Idle]
    /\ lost' = lost \ {s \in Sandboxes : phase[s] = "ready" /\ Exists(s)}
    /\ UNCHANGED <<nftVars, dockerVars, goVars, bounds,
                   fresh, kept, leaky, gone, raced, woken>>

Serve ==
    /\ daemon = "restoring"
    /\ \A p \in Processes : ~Busy(p)
    /\ daemon' = "serving"
    /\ UNCHANGED <<nftVars, phase, runtime, proc, dockerVars, goVars, bounds, history>>

\* The host's rule set is lost: somebody flushes it, or the host reboots; the
\* containers that were running run again (restart policy unless-stopped).
FlushRuleSet ==
    /\ Fault
    /\ RuleSetLost
    /\ fresh' = {} /\ lost' = Sandboxes
    /\ UNCHANGED <<batch, listFailed, serviceVars, proc, dockerVars, goVars, calls,
                   kept, leaky, gone, raced, woken>>

Reboot ==
    /\ Fault
    /\ Die
    /\ RuleSetLost
    /\ lost' = Sandboxes
    /\ UNCHANGED <<kept, leaky, gone, raced, woken>>

-----------------------------------------------------------------------------

Init ==
    /\ NftInit
    /\ daemon = "serving"
    /\ phase = [s \in Sandboxes |-> "absent"]
    /\ runtime = {}
    /\ proc = [p \in Processes |-> Idle]
    /\ networks = {}
    /\ containers = [s \in Sandboxes |-> [x \in Names(s) |-> "none"]]
    /\ starts = [s \in Sandboxes |-> [c \in Companions[s] |-> "none"]]
    /\ hook = [s \in Sandboxes |-> [c \in Companions[s] |-> "none"]]
    /\ cancelled = {}
    /\ calls = 0 /\ mishaps = 0
    /\ fresh = {}
    /\ lost = {} /\ kept = {} /\ leaky = {} /\ gone = {} /\ raced = {} /\ woken = {}

\* A step of the goroutine p that works on the sandbox s.
Step(s, p) ==
    \/ Enter(s, p)
    \/ NetworkCreate(s, p)
    \/ ApplyIsolation(s, p)
    \/ StartCompanions(s, p)
    \/ CreatePrimary(s, p)
    \/ MustExist(s, p)
    \/ EnsureRunning(s, p)
    \/ CancelAndWait(s, p)
    \/ StopContainers(s, p)
    \/ RemoveContainers(s, p)
    \/ RemoveIsolation(s, p)
    \/ RemoveNetwork(s, p)
    \/ Return(s, p)

\* What the daemon does by itself.
DaemonNext ==
    \/ \E s \in Sandboxes :
          \/ \E p \in Goroutines(s) : Step(s, p) \/ RestoreAborts(p)
          \/ \E c \in Companions[s] : CompanionStep(s, c) \/ HookStep(s, c)
    \/ Restore
    \/ Serve

Next ==
    \/ DaemonNext
    \/ \E s \in Sandboxes : Request(s) \/ PrimaryFails(s)
    \/ Crash
    \/ FlushRuleSet
    \/ Reboot

Spec == Init /\ [][Next]_vars

\* Docker calls return, goroutines run on and a daemon that died is started
\* again: something goes on as long as something can.  The calls and mishaps
\* are bounded and no step of the daemon is undone by another, so that it is
\* not necessary to be fair to each goroutine.
FairSpec == Spec /\ WF_vars(DaemonNext)

-----------------------------------------------------------------------------
(* Properties *)

\* Every variable keeps its kind of value: chains hold only rules the code
\* builds, containers and companion goroutines are at known points.
BackendTypeOK ==
    /\ NftTypeOK
    /\ daemon \in {"down", "restoring", "serving"}
    /\ \A s \in Sandboxes : \A x \in Names(s) : containers[s][x] \in {"none", "stopped", "running"}
    /\ \A s \in Sandboxes : \A c \in Companions[s] :
           starts[s][c] \in {"none", "create", "start", "ready", "failed"}

\* While the daemon serves, a sandbox with a running container has all its
\* isolation rules in place, whatever other calls of that sandbox and of others
\* run beside the one that applied them.  Two exceptions remain: the host lost
\* its rule set and no rules read since then were applied (lost), and Docker
\* failed to remove a container (kept: deleteRuntimeArtifacts goes on to remove
\* the rules).
RunningIsolated ==
    daemon = "serving" =>
        \A s \in Sandboxes \ (lost \cup kept) :
            (\E x \in Names(s) : Running(s, x)) => Isolated(s)

\* After a deletion, or the clean-up of a failed creation, in which no removal
\* failed, the sandbox never has a container or a network again: no companion
\* goroutine comes back with a container nobody will remove.  And its rules
\* are out of every chain, unless their removal failed or a resume was putting
\* them back meanwhile (leaky).
NothingLeft ==
    /\ \A s \in gone : s \notin networks /\ \A x \in Names(s) : containers[s][x] = "none"
    /\ \A s \in gone \ leaky : NoRules(s)

\* Applying the rules of a sandbox again, on resume or after a restart, never
\* duplicates one.  Two exceptions: the listing of a chain failed, which the
\* code takes for an empty one, and two resumes of the sandbox overlapped, the
\* second reading the chains before the first had changed them (raced: nothing
\* keeps them apart, after a second stop of the sandbox returned late).
NoDuplicateRules ==
    ~listFailed =>
        \A c \in DOMAIN chains : \A r \in BagToSet(chains[c]) :
            r.bridge \notin raced => chains[c][r] = 1

\* No container of a sandbox that was stopped runs, companions whose start was
\* under way when the stop came included, unless an exec or an overlapping
\* resume started that very container while the sandbox was being stopped or
\* after it was (woken: dockerContainerEnsureRunning does not look at the state).
StoppedIsDown ==
    \A s \in Sandboxes : phase[s] = "stopped" =>
        \A x \in Names(s) : Running(s, x) => <<s, x>> \in woken

\* A call of the backend under way can always go on, by its own next step or
\* by one of the goroutines it waits for: CancelAndWait never waits for someone
\* who waits for the caller.  The steps of the daemon are never undone, so
\* that every call returns.
CallsGoOn ==
    \A s \in Sandboxes :
        (\E p \in Goroutines(s) : Busy(p)) =>
            \/ \E p \in Goroutines(s) : ENABLED Step(s, p) \/ ENABLED RestoreAborts(p)
            \/ \E c \in Companions[s] : ENABLED CompanionStep(s, c)

\* The hook of a companion that is healthy in a sandbox that stays READY has run
\* or will: docs/companion_container_guide.md:16.
HealthyRunsHook ==
    \A s \in Sandboxes : \A c \in Companions[s] :
        hook[s][c] = "healthy" ~> (hook[s][c] = "ran" \/ Calling(s, "stop"))
=============================================================================
