---------------------------- MODULE Capabilities ----------------------------
(***************************************************************************)
(* The builtin tools (internal/profile/capabilities.go) and what of them a *)
(* host offers (docker_runtime_materialize.go, paseo.go).                  *)
(*                                                                         *)
(* A path is a pair of a base and the rest below it; the base tells how    *)
(* the path is written: "/", the two home directories, "~", "~user" or     *)
(* "rel". A host is a function from the paths that exist to what Lstat     *)
(* finds there: "file", "dir", "socket", "symlink" (to something that      *)
(* exists) or "other".                                                     *)
(***************************************************************************)
EXTENDS Integers, Sequences, SequencesExt, FiniteSets

Path == STRING \X STRING

HostHome == "/home/user"
ContainerUserHome == "/home/agbox"

\* A map laid over another, as when the entries of one are set last.
Over(map, base) ==
  [k \in DOMAIN map \cup DOMAIN base |->
     IF k \in DOMAIN map THEN map[k] ELSE base[k]]

Lstat(host, path) == IF path \in DOMAIN host THEN host[path] ELSE "absent"
Stat(host, path) == Lstat(host, path) # "absent"

IsAbs(path) == path[1] \in {"/", HostHome, ContainerUserHome}
expandHomePath(path) ==
  IF path[1] = "~" THEN <<HostHome, path[2]>> ELSE path
expandContainerHomePath(path) ==
  IF path[1] = "~" THEN <<ContainerUserHome, path[2]>> ELSE path
validateTildePath(path) == path[1] # "~user"

\* The sockets' places come from the environment of the daemon
\* (SSH_AUTH_SOCK, XDG_RUNTIME_DIR); an unset SSH_AUTH_SOCK is a host
\* without that path.
sshAuthSock == <<"/", "ssh-auth-sock">>
pulseSocket == <<"/", "run/user/pulse/native">>
sshAgentTarget == <<"/", "ssh-agent">>
pulseAudioTarget == <<"/", "pulse-audio">>

Declared(rest, mode, optional) ==
  [source |-> <<HostHome, rest>>, target |-> <<ContainerUserHome, rest>>,
   mode |-> mode, optional |-> optional, env |-> ""]

CapabilityIDs ==
  {".claude", ".claude.json", ".codex", ".agents", "gh-auth", "ssh-agent",
   "ssh-known-hosts", "uv-cache", "uv-python", "npm", "apt", "pulse-audio",
   "opencode-config", "opencode-data"}

capabilityMounts ==
  [id \in CapabilityIDs |->
     CASE id = ".claude"         -> Declared(".claude", "read_write", FALSE)
       [] id = ".claude.json"    -> Declared(".claude.json", "read_write", FALSE)
       [] id = ".codex"          -> Declared(".codex", "read_write", FALSE)
       [] id = ".agents"         -> Declared(".agents", "read_write", TRUE)
       [] id = "gh-auth"         -> Declared(".config/gh", "read_only", TRUE)
       [] id = "ssh-agent"       -> [Declared("", "socket", TRUE) EXCEPT
                                       !.source = sshAuthSock,
                                       !.target = sshAgentTarget]
       [] id = "ssh-known-hosts" -> Declared(".ssh/known_hosts", "read_write", TRUE)
       [] id = "uv-cache"        -> Declared(".cache/uv", "read_write", TRUE)
       [] id = "uv-python"       -> [Declared(".local/share/uv/python",
                                              "read_write", TRUE) EXCEPT
                                       !.target[1] = HostHome,
                                       !.env = "UV_PYTHON_INSTALL_DIR"]
       [] id = "npm"             -> Declared(".npm", "read_write", TRUE)
       [] id = "apt"             -> [Declared(".cache/agents-sandbox-apt",
                                              "read_write", TRUE) EXCEPT
                                       !.target = <<"/", "var/cache/apt/archives">>]
       [] id = "pulse-audio"     -> [Declared("", "socket", TRUE) EXCEPT
                                       !.source = pulseSocket,
                                       !.target = pulseAudioTarget]
       [] id = "opencode-config" -> Declared(".config/opencode", "read_write", TRUE)
       [] OTHER -> Declared(".local/share/opencode", "read_write", TRUE)]

builtInToolingCapabilities ==
  [claude   |-> <<".claude", ".claude.json", "pulse-audio">>,
   codex    |-> <<".codex", ".agents">>,
   git      |-> <<"ssh-agent", "gh-auth", "ssh-known-hosts">>,
   uv       |-> <<"uv-cache", "uv-python">>,
   npm      |-> <<"npm">>,
   apt      |-> <<"apt">>,
   opencode |-> <<"opencode-config", "opencode-data">>]

Tools == DOMAIN builtInToolingCapabilities

\* The first occurrence of each item, in order.
dedupeStrings(items) ==
  LET first == SelectSeq([n \in DOMAIN items |-> n],
                         LAMBDA n : \A m \in 1 .. n - 1 : items[m] # items[n])
  IN [k \in DOMAIN first |-> items[first[k]]]

\* A socket has to be one, anything else only has to exist.
Available(host, id) ==
  LET mount == capabilityMounts[id] IN
  IF mount.mode = "socket" THEN Lstat(host, mount.source) = "socket"
                           ELSE Stat(host, mount.source)

\* materializeBuiltinTools: the mounts of all tools, each once, under a key
\* that tells where they come from; a mount the host does not offer is
\* passed over when it is optional and an error otherwise.
mountIDs(tools) ==
  UNION {ToSet(builtInToolingCapabilities[tool]) : tool \in ToSet(tools)}

materializeBuiltinTools(host, tools) ==
  LET ids == {id \in mountIDs(tools) : Available(host, id)}
  IN [ok |-> \A id \in mountIDs(tools) :
               capabilityMounts[id].optional \/ Available(host, id),
      mounts |-> [k \in {"tool"} \X ids |->
                    [source |-> capabilityMounts[k[2]].source,
                     target |-> capabilityMounts[k[2]].target,
                     readOnly |-> capabilityMounts[k[2]].mode = "read_only"]],
      env |-> [k \in {capabilityMounts[id].env : id \in ids} \ {""} |->
                 (CHOOSE m \in {capabilityMounts[id] : id \in ids} :
                    m.env = k).target[2]]]

\* paseoPreFlight: the tools whose required mounts exist; a tool the
\* daemon does not know is left for it to refuse.
paseoPreFlight(host, tools) ==
  SelectSeq(tools, LAMBDA tool :
    tool \in Tools =>
      \A i \in DOMAIN builtInToolingCapabilities[tool] :
        LET mount == capabilityMounts[builtInToolingCapabilities[tool][i]]
        IN mount.optional \/ Stat(host, mount.source))
=============================================================================
