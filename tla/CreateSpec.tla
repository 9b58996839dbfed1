----------------------------- MODULE CreateSpec -----------------------------
(***************************************************************************)
(* What the daemon computes from a create request, before and after it is  *)
(* accepted: yaml_config.go (conversion and merge), service_validation.go, *)
(* service_clone.go, resource_limits.go, and of the Docker runtime the     *)
(* materialization of mounts and copies, the port bindings, the            *)
(* environment and the health wait.                                        *)
(*                                                                         *)
(* A field that may be unset (idle_ttl, healthcheck, the pointer to a YAML *)
(* command) is a sequence of no or one element; "limit" stands for the     *)
(* cpu, memory and disk limit of a container, which are treated alike.     *)
(***************************************************************************)
EXTENDS Capabilities

CONSTANTS
  RetryLimit,    \* retries are unsigned numbers below it (2^32 in the code)
  DurationLimit, \* durations are signed numbers below it (2^63 ns in the code)
  GPUGroups,     \* the groups that own the host's GPU devices
  ExecLog        \* is there an artifact_output_root?

ASSUME WidthAssumption == /\ RetryLimit \in Nat /\ RetryLimit > 4
                          /\ DurationLimit \in Nat \ {0}

EmptySpec ==
  [image |-> "", limit |-> "", gpus |-> "", idleTtl |-> <<>>, command |-> <<>>,
   mounts |-> <<>>, copies |-> <<>>, ports |-> <<>>, companions |-> <<>>,
   tools |-> <<>>, labels |-> <<>>, envs |-> <<>>]

Healthcheck ==
  [test : BOOLEAN, startPeriod : Nat, interval : Nat, timeout : Nat,
   startInterval : Nat, retries : 0 .. RetryLimit - 1]

\* What the types of the messages say of the fields that are lists.
ListsTyped(spec) ==
  /\ spec.mounts \in Seq([source : Path, target : Path, writable : BOOLEAN])
  /\ spec.copies \in Seq([source : Path, target : Path])
  /\ spec.ports \in Seq([container : Nat, host : Nat, proto : STRING])
  /\ spec.companions \in Seq([name : STRING, image : STRING, limit : STRING,
                               hooks : BOOLEAN, health : Seq(Healthcheck)])

IsSpec(spec) == DOMAIN spec = DOMAIN EmptySpec /\ ListsTyped(spec)
IsYAML(cfg) == DOMAIN cfg = DOMAIN EmptySpec \cup {"parses"} /\ ListsTyped(cfg)

reserved == "AGENTS_SANDBOX_SUPPLEMENTAL_GROUPS"
execLogContainerDir == <<"/", "var/log/agents-sandbox/">>

\* The YAML of a request is a spec with an optional command, and "parses"
\* tells whether its text, durations and protocols can be read.
\* An explicitly empty command is refused here because it could not be told
\* from an omitted one later.
validateYAMLCommand(field) ==
  field # <<>> => field[1] # <<>> /\ ~Contains(field[1], "")

yamlConfigToCreateSpec(cfg) ==
  [f \in DOMAIN EmptySpec |->
     IF f = "command" THEN (IF cfg.command = <<>> THEN <<>> ELSE cfg.command[1])
     ELSE cfg[f]]

Scalars == {"image", "limit", "gpus"}
Replaced == {"idleTtl", "command"}
Appended == {"mounts", "copies", "ports", "companions"}

mergeCreateSpecs(base, over) ==
  [f \in DOMAIN EmptySpec |->
     CASE f \in Scalars -> IF over[f] # "" THEN over[f] ELSE base[f]
       [] f \in Replaced -> IF over[f] # <<>> THEN over[f] ELSE base[f]
       [] f \in Appended -> base[f] \o over[f]
       [] f = "tools" -> dedupeStrings(base.tools \o over.tools)
       [] OTHER -> Over(over[f], base[f])]

ExpandedAll(items) ==
  [i \in DOMAIN items |->
     [items[i] EXCEPT !.source = expandHomePath(@),
                      !.target = expandContainerHomePath(@)]]

\* validateCreateSpec writes the expanded paths back into the request.
expandPaths(spec) ==
  [spec EXCEPT !.mounts = ExpandedAll(@), !.copies = ExpandedAll(@)]

\* reslimits: an unset limit is no limit, any other must be a positive number.
ParsesLimit(limit) == limit \notin {"zero", "text"}

sourceKindsLax == {"file", "dir", "socket", "symlink"}
sourceKinds == {"file", "dir", "socket"}

validateGenericSourcePath(host, item) ==
  /\ validateTildePath(item.source) /\ validateTildePath(item.target)
  /\ IsAbs(item.source) \/ item.source[1] = "~"
  /\ Lstat(host, expandHomePath(item.source)) \in sourceKinds

Targets(items) == [i \in DOMAIN items |-> items[i].target]

maxPort == 65535

validatePorts(ports) ==
  /\ \A p \in ToSet(ports) :
       p.container \in 1 .. maxPort /\ p.host \in 1 .. maxPort
       /\ p.proto \in {"tcp", "udp", "sctp"}
  /\ IsInjective([i \in DOMAIN ports |-> <<ports[i].host, ports[i].proto>>])

validateCompanionContainerSpecs(companions) ==
  /\ \A cc \in ToSet(companions) :
       /\ cc.name # "" /\ cc.image # "" /\ ParsesLimit(cc.limit)
       /\ cc.hooks => cc.health # <<>>
       /\ cc.health # <<>> => cc.health[1].test
  /\ IsInjective([i \in DOMAIN companions |-> companions[i].name])

validateCreateSpec(host, spec) ==
  LET items == spec.mounts \o spec.copies
      expanded == expandPaths(spec)
  IN /\ spec.image # ""
     /\ spec.idleTtl # <<>> => spec.idleTtl[1] >= 0
     /\ spec.gpus \in {"", "all"}
     /\ reserved \notin DOMAIN spec.envs
     /\ \A i \in DOMAIN items : validateGenericSourcePath(host, items[i])
     /\ \A i \in DOMAIN spec.copies : expanded.copies[i].source # <<"/", "">>
     /\ \A i \in DOMAIN items : IsAbs(expandContainerHomePath(items[i].target))
     /\ IsInjective(Targets(expanded.mounts \o expanded.copies))
     /\ validatePorts(spec.ports)
     /\ validateCompanionContainerSpecs(spec.companions)
     /\ ~Contains(spec.command, "")
     /\ ParsesLimit(spec.limit)
     /\ ToSet(spec.tools) \subseteq Tools
     /\ IsInjective(spec.tools)

\* The record keeps a copy made field by field, the store a clone.
cloneCreateSpec(spec) == [f \in DOMAIN EmptySpec |-> spec[f]]

---------------------------------------------------------------------------
(* The Docker runtime, when the request is carried out. *)

materializeGenericMounts(host, mounts) ==
  [ok |-> \A m \in ToSet(mounts) :
            Lstat(host, m.source) \in {"file", "dir", "socket"},
   mounts |-> [k \in {"mount"} \X DOMAIN mounts |->
                 [source |-> mounts[k[2]].source, target |-> mounts[k[2]].target,
                  readOnly |-> ~mounts[k[2]].writable]]]

\* A socket passes the validation of the request and is refused here.
validateGenericCopies(host, copies) ==
  \A c \in ToSet(copies) : Lstat(host, c.source) \in {"file", "dir"}

execLogMount ==
  [k \in {"log"} \X (IF ExecLog THEN {1} ELSE {}) |->
     [source |-> <<"/", "artifacts">>, target |-> execLogContainerDir,
      readOnly |-> FALSE]]

uniqueMounts(mounts) ==
  IsInjective([i \in DOMAIN mounts |-> <<mounts[i].source, mounts[i].target>>])
ensureUniqueMountTargets(mounts) ==
  IsInjective(Targets(mounts))

\* The host ports bound to each container port.
bindingsLastWins(ports) ==
  [k \in {<<p.container, p.proto>> : p \in ToSet(ports)} |->
     {LET i == CHOOSE n \in DOMAIN ports :
                 /\ <<ports[n].container, ports[n].proto>> = k
                 /\ \A m \in n + 1 .. Len(ports) :
                      <<ports[m].container, ports[m].proto>> # k
      IN ports[i].host}]
buildPortBindings(ports) ==
  [k \in {<<p.container, p.proto>> : p \in ToSet(ports)} |->
     {p.host : p \in {q \in ToSet(ports) : <<q.container, q.proto>> = k}}]

defaultCommand == <<"sh", "-lc", "sleep loop">>
primaryContainerCommand(command) ==
  IF command # <<>> THEN command ELSE defaultCommand

primaryContainerEnvironment(mounts) ==
  LET targets == {m.target : m \in ToSet(mounts)}
      sockets == (IF sshAgentTarget \in targets THEN {"SSH_AUTH_SOCK"} ELSE {})
                 \cup (IF pulseAudioTarget \in targets THEN {"PULSE_SERVER"} ELSE {})
  IN [k \in {"HOST_UID", "HOST_GID"} \cup sockets |->
        CASE k = "HOST_UID" -> "uid"
          [] k = "HOST_GID" -> "gid"
          [] k = "SSH_AUTH_SOCK" -> "/ssh-agent"
          [] OTHER -> "unix:/pulse-audio"]

Without(env, key) == [k \in DOMAIN env \ {key} |-> env[k]]
GroupsEnv(groups) == [k \in IF groups # {} THEN {reserved} ELSE {} |-> "groups"]

\* Defaults, then what the builtin tools set, then what the request sets;
\* the reserved name only ever carries the groups of the GPU devices.
primaryEnvToolsLast(mounts, toolEnv, envs, groups) ==
  Over(GroupsEnv(groups),
       Without(Over(toolEnv, Over(envs, primaryContainerEnvironment(mounts))),
               reserved))
primaryEnv(mounts, toolEnv, envs, groups) ==
  Over(GroupsEnv(groups),
       Without(Over(envs, Over(toolEnv, primaryContainerEnvironment(mounts))),
               reserved))

\* A healthcheck gives its durations in seconds and 0 where it leaves the
\* default. The number of retries is an unsigned number of fixed width.
MaxOf(a, b) == IF a > b THEN a ELSE b
MinOf(a, b) == IF a < b THEN a ELSE b
protoOrDefault(value, default) == IF value = 0 THEN default ELSE value
maxUpperBound == 300
interval(h) == protoOrDefault(h.interval, 30)
retries(h) == protoOrDefault(h.retries, 3)

\* Signed arithmetic wraps around.
Wrapped(d) == ((d + DurationLimit) % (2 * DurationLimit)) - DurationLimit

waitUpperBoundFromStart(h) ==
  LET window == MaxOf(interval(h), protoOrDefault(h.timeout, 30)) IN
  MinOf(Wrapped(window * ((retries(h) + 1) % RetryLimit)), maxUpperBound)

\* The longest Docker takes for the checks that count, and those before.
ChecksTake(h, checks) ==
  LET timeout == protoOrDefault(h.timeout, 30)
      startInterval ==
        protoOrDefault(h.startInterval, IF h.startPeriod > 0 THEN 5 ELSE 0)
      grace == IF h.startPeriod > 0 THEN MaxOf(startInterval, timeout) ELSE 0
  IN h.startPeriod + grace + MaxOf(interval(h), timeout) * checks

companionContainerHealthWaitUpperBound(h) ==
  MinOf(Wrapped(ChecksTake(h, (retries(h) + 1) % RetryLimit)), maxUpperBound)
=============================================================================
