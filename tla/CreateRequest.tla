---------------------------- MODULE CreateRequest ----------------------------
(***************************************************************************)
(* A create request on its way from the client to a running primary        *)
(* container: the agent command that sends it, CreateSandbox of the        *)
(* service, which answers at once (service.go), and CreateSandbox of the   *)
(* Docker runtime, which carries the request out later, after the host may *)
(* have changed (docker_runtime.go).                                       *)
(***************************************************************************)
EXTENDS AgentArguments, CopyArchive

CONSTANTS
  Requests,   \* what clients send: a YAML and a spec, each optional
  Flags,      \* the flags an agent command is given
  Hosts,      \* what the host may look like
  MaxChanges  \* bound on the changes of the host

\* A request has a YAML or not and a spec or not, as the messages are typed.
IsRequest(req) ==
  /\ req.yaml # <<>> => req.yaml = <<req.yaml[1]>> /\ IsYAML(req.yaml[1])
  /\ req.spec # <<>> => req.spec = <<req.spec[1]>> /\ IsSpec(req.spec[1])

ASSUME RequestsAssumption == /\ \A req \in Requests : IsRequest(req)
                             /\ \A flags \in Flags : IsFlags(flags)
                             /\ MaxChanges \in Nat

VARIABLES
  host,      \* the host's files
  changes,   \* how often the host has changed
  request,   \* the request, as sent
  phase,     \* "composing", "sent", "refused", "accepted", "materialized",
             \* "copying", "running" or "failed"
  stored,    \* the spec in the event store
  record,    \* the spec in the sandbox record
  plan,      \* the mounts and the tools' environment materialization found
  container, \* the primary container and its companions, when created
  copied,    \* the number of copies done
  failure    \* the step that failed

requestVars == <<host, changes, request, phase, stored, record, plan,
                 container, copied, failure>>
createVars == <<requestVars, copyVars>>

NoRequest == [yaml |-> <<>>, spec |-> <<>>]
NoPlan == [mounts |-> <<>>, env |-> <<>>]
AgentTypes == DOMAIN agentTypeDefs \cup {""}

CreateInit ==
  /\ host \in Hosts
  /\ changes = 0 /\ request = NoRequest /\ phase = "composing"
  /\ stored = EmptySpec /\ record = EmptySpec /\ plan = NoPlan
  /\ container = <<>> /\ copied = 0 /\ failure = ""
  /\ CopyIdle(CHOOSE t \in Trees : TRUE)

\* A client of the API sends what it likes.
ClientSends ==
  /\ phase = "composing"
  /\ request' \in Requests
  /\ phase' = "sent"
  /\ UNCHANGED <<host, changes, stored, record, plan, container, copied, failure,
                 copyVars>>

\* An agent command builds the request from its flags, or refuses them.
AgentSends ==
  /\ phase = "composing"
  /\ \E type \in AgentTypes, flags \in Flags :
       IF ArgumentsAccepted(host, type, flags)
       THEN request' = AgentRequest(host, type, flags) /\ phase' = "sent"
       ELSE phase' = "refused" /\ UNCHANGED request
  /\ UNCHANGED <<host, changes, stored, record, plan, container, copied, failure,
                 copyVars>>

\* Someone else creates, replaces or removes files of the host.
HostChanges ==
  /\ phase \in {"sent", "accepted"}
  /\ changes < MaxChanges
  /\ host' \in Hosts \ {host}
  /\ changes' = changes + 1
  /\ UNCHANGED <<request, phase, stored, record, plan, container, copied,
                 failure, copyVars>>

\* The YAML is refused, or converted and merged with the spec of the request.
YAMLRefused(yaml) ==
  yaml # <<>> /\ ~(yaml[1].parses /\ validateYAMLCommand(yaml[1].command))

EffectiveSpec(req) ==
  IF req.yaml = <<>> THEN req.spec
  ELSE <<mergeCreateSpecs(yamlConfigToCreateSpec(req.yaml[1]),
                          IF req.spec = <<>> THEN EmptySpec ELSE req.spec[1])>>

CreateSandbox ==
  /\ phase = "sent"
  /\ LET spec == EffectiveSpec(request) IN
     IF YAMLRefused(request.yaml) \/ spec = <<>>
     THEN phase' = "refused" /\ UNCHANGED <<stored, record>>
     ELSE IF ~validateCreateSpec(host, spec[1])
     THEN phase' = "refused" /\ UNCHANGED <<stored, record>>
     ELSE /\ phase' = "accepted"
          /\ stored' = expandPaths(spec[1])
          /\ record' = cloneCreateSpec(expandPaths(spec[1]))
  /\ UNCHANGED <<host, changes, request, plan, container, copied, failure, copyVars>>

FailsAt(step) == phase' = "failed" /\ failure' = step

\* The first part of the runtime's CreateSandbox, up to the point where
\* Docker is first called.
Materialize ==
  /\ phase = "accepted"
  /\ LET tools == materializeBuiltinTools(host, record.tools)
         generic == materializeGenericMounts(host, record.mounts)
         mounts == Over(tools.mounts, Over(generic.mounts, execLogMount))
     IN IF /\ ParsesLimit(record.limit)
           /\ tools.ok /\ generic.ok
           /\ validateGenericCopies(host, record.copies)
           /\ ensureUniqueMountTargets(mounts)
        THEN /\ phase' = "materialized"
             /\ plan' = [mounts |-> mounts, env |-> tools.env]
             /\ UNCHANGED failure
        ELSE FailsAt("materialize") /\ UNCHANGED plan
  /\ UNCHANGED <<host, changes, request, stored, record, container, copied, copyVars>>

CompanionOf(cc) ==
  [name |-> cc.name, image |-> cc.image, limit |-> cc.limit,
   wait |-> IF cc.health = <<>> \/ ~cc.hooks THEN <<>>
            ELSE <<companionContainerHealthWaitUpperBound(cc.health[1])>>]

\* The groups of the GPU devices are asked for only when GPUs are.
PrimaryOf(spec, mounts, toolEnv) ==
  LET groups == IF spec.gpus = "all" THEN GPUGroups ELSE {} IN
  [image |-> spec.image, limit |-> spec.limit, gpus |-> spec.gpus,
   labels |-> spec.labels, command |-> primaryContainerCommand(spec.command),
   mounts |-> mounts, ports |-> buildPortBindings(spec.ports),
   env |-> primaryEnv(mounts, toolEnv, spec.envs, groups),
   companions |-> [i \in DOMAIN spec.companions |-> CompanionOf(spec.companions[i])]]

CreatePrimary ==
  /\ phase = "materialized"
  /\ container' = <<PrimaryOf(record, plan.mounts, plan.env)>>
  /\ phase' = "copying"
  /\ UNCHANGED <<host, changes, request, stored, record, plan, copied, failure,
                 copyVars>>

\* The copies are made one after the other, each into the created container.
CopyBegins ==
  /\ phase = "copying" /\ client = "idle"
  /\ copied < Len(record.copies)
  /\ StartCopy
  /\ UNCHANGED requestVars

CopyMoves ==
  /\ phase = "copying"
  /\ ArchiveStep \/ ClientEnds
  /\ UNCHANGED requestVars

CopyBreaks == phase = "copying" /\ ClientBreaks /\ UNCHANGED requestVars

CopyReturns ==
  /\ phase = "copying"
  /\ dockerCopyToContainer
  /\ IF copyResult(client, tarEnd) = "ok"
     THEN copied' = copied + 1 /\ UNCHANGED <<phase, failure>>
     ELSE FailsAt("copy") /\ UNCHANGED copied
  /\ UNCHANGED <<host, changes, request, stored, record, plan, container>>

StartPrimary ==
  /\ phase = "copying" /\ client = "idle" /\ copied = Len(record.copies)
  /\ phase' = "running"
  /\ UNCHANGED <<host, changes, request, stored, record, plan, container, copied,
                 failure, copyVars>>

\* Docker refuses a pull, a network, a container or a start (a host port
\* that is taken, a disk limit the driver cannot set), or the GPU devices
\* cannot be looked at.
DockerFails ==
  /\ \/ phase = "materialized"
     \/ phase = "copying" /\ client = "idle"
  /\ FailsAt("docker")
  /\ UNCHANGED <<host, changes, request, stored, record, plan, container, copied,
                 copyVars>>

CopyStep == CopyBegins \/ CopyMoves \/ CopyReturns \/ StartPrimary

Settled == phase \in {"refused", "running", "failed"}

CreateNext ==
  \/ ClientSends \/ AgentSends \/ HostChanges \/ DockerFails \/ CopyBreaks
  \/ CreateSandbox \/ Materialize \/ CreatePrimary \/ CopyStep
  \/ Settled /\ UNCHANGED createVars

\* The worker, the archive's goroutine and the Docker client keep going while
\* one of them can; a client that has read to the end of a pipe does answer,
\* and nothing obliges Docker to fail.
CreateSpecification ==
  CreateInit /\ [][CreateNext]_createVars /\ WF_createVars(CopyStep)

---------------------------------------------------------------------------

\* Every variable keeps its kind of value; a spec that was stored has only
\* absolute paths, and a request that failed says in which step it did.
CreateTypeOK ==
  /\ changes \in 0 .. MaxChanges
  /\ phase \in {"composing", "sent", "refused", "accepted", "materialized",
                "copying", "running", "failed"}
  /\ failure \in {"", "materialize", "docker", "copy"}
  /\ (failure # "") <=> (phase = "failed")
  /\ \A spec \in {stored, record} :
       /\ DOMAIN spec = DOMAIN EmptySpec
       /\ \A item \in ToSet(spec.mounts) \cup ToSet(spec.copies) :
            IsAbs(item.source) /\ IsAbs(item.target)
  /\ copied \in 0 .. Len(record.copies)
  /\ ArchiveTypeOK

Halves(req) ==
  (IF req.yaml = <<>> THEN <<>> ELSE <<yamlConfigToCreateSpec(req.yaml[1])>>)
  \o req.spec

\* The last half that says something about a field wins.
Winner(req, f, unset) ==
  LET said == {i \in DOMAIN Halves(req) : Halves(req)[i][f] # unset}
      last == CHOOSE i \in said : \A j \in said : j <= i
  IN IF said = {} THEN unset ELSE Halves(req)[last][f]

\* Whatever half of the request a field was given in, the container that is
\* running has it: every mount, port, companion, label and variable of both
\* halves, and of a scalar or a command the one the spec gives, else the
\* YAML's; and the store describes the sandbox that runs, for the restart.
\* A tool's variable is there unless the request sets it, and the groups the
\* entrypoint trusts come from the host's GPU devices and from nowhere else.
\* The path goes through the merge, the expansion of paths, two copies of
\* the spec and the translation for Docker (mergeCreateSpecs,
\* cloneCreateSpec, buildPortBindings, CreateSandbox of the runtime).
RunsWhatWasAsked ==
  phase = "running" =>
    LET c == container[1]
        halves == ToSet(Halves(request))
        override == Halves(request)[Len(Halves(request))]
    IN /\ stored = record
       /\ c.image = Winner(request, "image", "")
       /\ c.limit = Winner(request, "limit", "")
       /\ c.gpus = Winner(request, "gpus", "")
       /\ c.command =
            primaryContainerCommand(Winner(request, "command", <<>>))
       /\ \A half \in halves :
            /\ \A m \in ToSet(expandPaths(half).mounts) :
                 \E n \in ToSet(c.mounts) :
                   n.source = m.source /\ n.target = m.target
                   /\ n.readOnly = ~m.writable
            /\ \A p \in ToSet(half.ports) :
                 p.host \in c.ports[<<p.container, p.proto>>]
            /\ \A cc \in ToSet(half.companions) :
                 \E d \in ToSet(c.companions) :
                   d.name = cc.name /\ d.image = cc.image /\ d.limit = cc.limit
            /\ DOMAIN half.envs \subseteq DOMAIN c.env
            /\ DOMAIN half.labels \subseteq DOMAIN c.labels
       /\ \A k \in DOMAIN override.envs : c.env[k] = override.envs[k]
       /\ \A k \in DOMAIN override.labels : c.labels[k] = override.labels[k]
       /\ \A half \in halves : \A k \in DOMAIN half.envs :
            c.env[k] \in {h.envs[k] : h \in {x \in halves : k \in DOMAIN x.envs}}
       /\ \A k \in DOMAIN plan.env \ DOMAIN record.envs : c.env[k] = plan.env[k]
       /\ (reserved \in DOMAIN c.env) <=> (c.gpus = "all" /\ GPUGroups # {})

LogTargets == {m.target : m \in ToSet(execLogMount)}
ToolTarget(id) == capabilityMounts[id].target

\* A request that was accepted on a host that has not changed since fails
\* before Docker is called only for what the validation does not look at: a
\* socket to copy, a required path of a builtin tool that does not exist,
\* a target that is also a builtin tool's or the exec log's
\* (validateCreateSpec against the materialization, which checks again).
AcceptedIsBuildable ==
  (failure = "materialize" /\ changes = 0) =>
    LET ids == mountIDs(record.tools)
        targets == {m.target : m \in ToSet(record.mounts)}
    IN \/ \E c \in ToSet(record.copies) : Lstat(host, c.source) = "socket"
       \/ \E id \in ids : ~capabilityMounts[id].optional /\ ~Available(host, id)
       \/ \E id \in ids : Available(host, id) /\ ToolTarget(id) \in targets
       \/ targets \cap LogTargets # {}

\* No two mounts of a container share a target, whoever asked for them, and
\* no host port is bound to two container ports (validateCreateSpec,
\* ensureUniqueMountTargets, buildPortBindings).
NothingIsShared ==
  \A i \in DOMAIN container :
    LET mounts == container[i].mounts
        ports == container[i].ports
    IN /\ \A m, n \in DOMAIN mounts : mounts[m].target = mounts[n].target => m = n
       /\ \A k, l \in DOMAIN ports :
            k[2] = l[2] /\ ports[k] \cap ports[l] # {} => k = l

\* The wait for a companion with hooks lasts at least until Docker, with
\* checks that answer at once, has made the last check that may still find
\* it healthy, or five minutes; retries so many that their successor or the
\* time they take wraps around are left out
\* (companionContainerHealthWaitUpperBound).
WaitOutlastsChecks ==
  \A i \in DOMAIN container : \A j \in DOMAIN container[i].companions :
    LET cc == record.companions[j]
        wait == container[i].companions[j].wait
    IN (/\ wait # <<>>
        /\ cc.health[1].retries < RetryLimit - 1
        /\ ChecksTake(cc.health[1], retries(cc.health[1]) + 1) < DurationLimit) =>
         \/ wait[1] = maxUpperBound
         \/ wait[1] >= cc.health[1].startPeriod
                         + interval(cc.health[1]) * retries(cc.health[1])

\* A copy counts as done only when it is whole: an archive cut short by an
\* error also ends the pipe, and Docker may have accepted it
\* (dockerCopyToContainer, buildCopyTar).
CopiedWhole ==
  (copied > 0 /\ client = "idle" /\ failure # "copy") =>
    /\ ToSet(archive) = Wanted(tree)
    /\ ~Refused(tree)

\* Once the copies begin the creation comes to an end, one way or the other:
\* the archive's writer and the client do not wait for each other for ever
\* (buildCopyTar always closes the pipe).
CopiesEnd == (phase = "copying") ~> Settled
===========================================================================
