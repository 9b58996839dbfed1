--------------------------- MODULE AgentArguments ---------------------------
(***************************************************************************)
(* The create request an agent command sends: resolveAgentSessionArgs      *)
(* (cmd/agbox/cmd_agent.go), the agent types (agent_types.go, openclaw.go, *)
(* paseo.go) and buildAgentCreateSpec (agent_session.go).                  *)
(*                                                                         *)
(* The flags are a record: spec holds the fields a flag sets directly      *)
(* (mounts, ports, copies, labels, envs, tools, limit, gpus), command and  *)
(* workspace are optional, mode is "" when the flag is not given, parse    *)
(* tells whether every structured flag can be parsed.                      *)
(***************************************************************************)
EXTENDS CreateSpec

CONSTANTS
  Cwd,       \* the directory the command is started in
  LinkTarget \* where a symlink of the host leads to

ASSUME CwdAssumption == Cwd \in Path
ASSUME LinkAssumption == LinkTarget \in Path

\* What the commands write into a request themselves are strings.
ASSUME LiteralsAssumption ==
  {"/", "~", ".openclaw", "workspace", "tcp"} \subseteq STRING

NoYAML == <<>>
defaultImage == "coding-runtime"

openclawConfigYaml ==
  Over([EmptySpec EXCEPT
     !.image = "openclaw-runtime", !.command = << <<"openclaw", "gateway">> >>,
     !.mounts = <<[source |-> <<"~", ".openclaw">>, target |-> <<"~", ".openclaw">>,
                   writable |-> TRUE]>>,
     !.ports = <<[container |-> 18789, host |-> 18789, proto |-> "tcp"]>>,
     !.envs = [OPENCLAW_STATE_DIR |-> "/home/agbox/.openclaw"]], [parses |-> TRUE])

paseoConfigYaml ==
  Over([EmptySpec EXCEPT
     !.image = "paseo-runtime", !.command = << <<"paseo", "daemon">> >>,
     !.envs = [PASEO_VOICE_MODE_ENABLED |-> "0"]], [parses |-> TRUE])

agentTypeDefs ==
  [claude   |-> [mode |-> "interactive", command |-> <<"claude">>,
                 tools |-> <<"claude", "git", "uv", "npm", "apt">>,
                 copyWorkspace |-> TRUE, yaml |-> NoYAML],
   codex    |-> [mode |-> "interactive", command |-> <<"codex">>,
                 tools |-> <<"codex", "git", "uv", "npm", "apt">>,
                 copyWorkspace |-> TRUE, yaml |-> NoYAML],
   openclaw |-> [mode |-> "long-running", command |-> <<>>,
                 tools |-> <<"git", "npm", "uv", "apt">>,
                 copyWorkspace |-> FALSE, yaml |-> <<openclawConfigYaml>>],
   paseo    |-> [mode |-> "long-running", command |-> <<>>,
                 tools |-> <<"claude", "codex", "npm", "uv", "apt", "opencode">>,
                 copyWorkspace |-> FALSE, yaml |-> <<paseoConfigYaml>>]]

\* "agbox agent" has no type: no defaults, and --command must be given.
customDef == [mode |-> "interactive", command |-> <<>>, tools |-> <<>>,
              copyWorkspace |-> FALSE, yaml |-> NoYAML]

\* What the command line can say: the spec of its structured flags and a
\* workspace or none, a relative one as filepath.Abs completes it.
IsFlags(flags) ==
  /\ IsSpec(flags.spec)
  /\ flags.workspace # <<>> => /\ flags.workspace = <<flags.workspace[1]>>
                               /\ flags.workspace[1] \in Path

typeDef(type) == IF type = "" THEN customDef ELSE agentTypeDefs[type]

EvalSymlinks(host, path) ==
  IF Lstat(host, path) = "symlink" THEN LinkTarget ELSE path

\* The path without its symlink, or nothing when it is refused.
validateWorkspacePath(host, path) ==
  LET home == <<HostHome, "">>
      real == EvalSymlinks(host, path)
  IN IF /\ Stat(host, path) /\ Stat(host, home)
        /\ real \notin {<<"/", "">>, EvalSymlinks(host, home)}
     THEN <<real>> ELSE <<>>

workspaceGiven(type, flags) ==
  IF flags.workspace # <<>> THEN flags.workspace
  ELSE IF typeDef(type).copyWorkspace THEN <<Cwd>> ELSE <<>>

workspaceOf(host, type, flags) ==
  IF workspaceGiven(type, flags) = <<>> THEN <<>>
  ELSE validateWorkspacePath(host, workspaceGiven(type, flags)[1])

ArgumentsAccepted(host, type, flags) ==
  /\ type = "" => flags.command # <<>>
  /\ flags.command # <<>> => flags.command[1] # <<>>
  /\ flags.mode \in {"", "interactive", "long-running"}
  /\ workspaceGiven(type, flags) # <<>> => workspaceOf(host, type, flags) # <<>>
  /\ flags.spec.gpus \in {"", "all"}
  /\ flags.parse

resolveAgentSessionArgs(host, type, flags) ==
  LET def == typeDef(type)
      tools == dedupeStrings(def.tools \o flags.spec.tools)
  IN [mode |-> IF flags.mode # "" THEN flags.mode ELSE def.mode,
      command |-> IF flags.command # <<>> THEN flags.command[1] ELSE def.command,
      workspace |-> workspaceOf(host, type, flags),
      tools |-> IF type = "paseo" THEN paseoPreFlight(host, tools) ELSE tools,
      image |-> IF def.yaml # NoYAML THEN "" ELSE defaultImage]

agentSessionIdleTTL == 100

\* The workspace is copied before what --copy asks for, and a user's label
\* replaces a built-in one. An interactive session leaves the container's
\* command to the YAML and asks for a long idle time, a long-running one
\* sets the command and turns the idle stop off.
buildAgentCreateSpec(args, type, flags) ==
  [flags.spec EXCEPT
     !.image = args.image,
     !.command = IF args.mode = "interactive" THEN <<>> ELSE args.command,
     !.idleTtl = IF args.mode = "interactive" THEN <<agentSessionIdleTTL>> ELSE <<0>>,
     !.tools = args.tools,
     !.copies = [i \in DOMAIN args.workspace |->
                   [source |-> args.workspace[i], target |-> <<"/", "workspace">>]]
                \o @,
     !.labels = Over(@, [k \in {"created-by", "agent-type"} |->
                           IF k = "created-by" THEN "agbox-cli"
                           ELSE IF type = "" THEN args.command[1] ELSE type])]

AgentRequest(host, type, flags) ==
  [yaml |-> typeDef(type).yaml,
   spec |-> <<buildAgentCreateSpec(resolveAgentSessionArgs(host, type, flags),
                                   type, flags)>>]
=============================================================================
