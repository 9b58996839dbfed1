--------------------------- MODULE MCCreateRequest ---------------------------
(***************************************************************************)
(* CreateRequest for TLC: requests that ask for two things at once, the    *)
(* flags of agent commands, three hosts and the source trees of a copy.    *)
(***************************************************************************)
EXTENDS CreateRequest, TLC

Src == <<"/", "src">>
Sock == <<"/", "sock">>
HomeSrc == <<"~", "src">>

Mount(source, target) == [source |-> source, target |-> target, writable |-> FALSE]
Copy(source, target) == [source |-> source, target |-> target]
Port(c, h, proto) == [container |-> c, host |-> h, proto |-> proto]

Check(start, every, timeout, n) ==
  [test |-> TRUE, startPeriod |-> start, interval |-> every, timeout |-> timeout,
   startInterval |-> 0, retries |-> n]
Companion(name, image, hooks, health) ==
  [name |-> name, image |-> image, limit |-> "", hooks |-> hooks, health |-> health]

With(f, values) == {[EmptySpec EXCEPT ![f] = v] : v \in values}

\* One thing asked for at a time, legal or not; a request combines two.
Wishes ==
  With("limit", {"two", "zero"}) \cup With("gpus", {"all", "one"})
  \cup With("idleTtl", {<<0>>, <<-1>>})
  \cup With("mounts", {<<Mount(Src, <<"/", "a">>)>>,
                       <<Mount(HomeSrc, <<"~", ".claude">>)>>,
                       <<Mount(Sock, sshAgentTarget)>>,
                       <<Mount(<<"rel", "x">>, <<"/", "a">>)>>})
  \cup With("ports", {<<Port(80, 8080, "tcp")>>, <<Port(80, 8081, "tcp")>>,
                      <<Port(81, 8080, "tcp"), Port(80, 8080, "udp")>>,
                      <<Port(0, 1, "tcp")>>, <<Port(65535, 65536, "tcp")>>})
  \cup With("companions",
            {<<Companion("db", "pg", TRUE, <<Check(60, 10, 1, 3)>>)>>,
             <<Companion("db", "pg", FALSE, <<>>)>>,
             <<Companion("mq", "", FALSE, <<>>)>>,
             <<Companion("mq", "mq", TRUE, <<>>)>>,
             <<Companion("mq", "mq", TRUE, <<Check(0, 0, 0, 0)>>)>>,
             <<Companion("mq", "mq", TRUE, <<Check(0, 0, 0, 60000)>>)>>})
  \cup With("tools", {<<"claude", "uv">>, <<"uv", "git">>, <<"unknown">>})
  \cup With("envs", {"A" :> "1", "A" :> "2", "UV_PYTHON_INSTALL_DIR" :> "mine",
                     reserved :> "0"})
  \cup With("labels", {"team" :> "x", "team" :> "y"})

\* Copies meet each other and the mounts.
CopyWishes ==
  With("copies", {<<Copy(Src, <<"/", "a">>)>>,
                  <<Copy(HomeSrc, <<"~", "b">>), Copy(Src, <<"/", "c">>)>>,
                  <<Copy(Sock, <<"/", "c">>)>>,
                  <<Copy(<<"/", "">>, <<"/", "d">>)>>,
                  <<Copy(<<"~user", "x">>, <<"/", "d">>)>>})
MountWishes == {w \in Wishes : w.mounts # <<>>}

Commands == {EmptySpec} \cup With("command", {<<"run">>, <<"">>})
AsYAML(half) ==
  [half EXCEPT !.image = "base",
     !.command = IF half.command = <<>> THEN <<>> ELSE <<half.command>>]
  @@ [parses |-> TRUE]
WithImage(half) == [half EXCEPT !.image = "mine"]

TheRequests ==
  {[yaml |-> <<AsYAML(y)>>, spec |-> <<s>>] : y \in Wishes, s \in Wishes}
  \cup {[yaml |-> <<AsYAML(y)>>, spec |-> <<s>>] :
          y \in CopyWishes, s \in CopyWishes \cup MountWishes}
  \cup {[yaml |-> <<AsYAML(y)>>, spec |-> <<WithImage(s)>>] :
          y \in Commands, s \in Commands}
  \cup {[yaml |-> <<AsYAML(EmptySpec)>>, spec |-> <<>>],
        [yaml |-> <<[AsYAML(EmptySpec) EXCEPT !.command = << <<>> >>]>>, spec |-> <<>>],
        [yaml |-> <<[AsYAML(EmptySpec) EXCEPT !.parses = FALSE]>>, spec |-> <<>>],
        [yaml |-> <<>>, spec |-> <<>>], [yaml |-> <<>>, spec |-> <<EmptySpec>>],
        [yaml |-> <<>>,
         spec |-> <<WithImage([EmptySpec EXCEPT !.tools = <<"uv", "uv">>])>>]}

Flag(spec) ==
  [spec |-> spec, command |-> <<>>, mode |-> "", workspace |-> <<>>, parse |-> TRUE]
TheFlags ==
  {Flag(EmptySpec), Flag([EmptySpec EXCEPT !.tools = <<"uv", "codex">>]),
   Flag([EmptySpec EXCEPT !.labels = "agent-type" :> "mine"]),
   [Flag([EmptySpec EXCEPT !.envs = "PASEO_VOICE_MODE_ENABLED" :> "1"])
      EXCEPT !.mode = "long-running", !.command = << <<"my", "agent">> >>],
   [Flag([EmptySpec EXCEPT !.copies = <<Copy(Src, <<"/", "extra">>)>>])
      EXCEPT !.workspace = <<Src>>],
   [Flag(EmptySpec) EXCEPT !.command = << <<>> >>],
   [Flag(EmptySpec) EXCEPT !.workspace = <<(<<HostHome, "">>)>>]}

\* A full host, one without the required paths of claude, and one where
\* what the requests name is something else.
FullHost ==
  [p \in {Src, <<HostHome, "src">>, <<HostHome, ".openclaw">>, <<HostHome, "">>}
         \cup {capabilityMounts[id].source : id \in DOMAIN capabilityMounts}
     |-> "dir"]
HostWithout(paths) == [p \in DOMAIN FullHost \ paths |-> FullHost[p]]
TheHosts ==
  {Sock :> "socket" @@ sshAuthSock :> "socket" @@ FullHost,
   Sock :> "socket" @@ HostWithout({<<HostHome, ".claude">>, <<HostHome, ".cache/uv">>}),
   Src :> "symlink" @@ Sock :> "file" @@ FullHost}

\* The commands are started in a directory that is a symlink on one host.
TheCwd == Src
TheLinkTarget == <<HostHome, "src">>

\* Two entries in a directory, one of them a directory with an entry of its
\* own, and one beside it; or a single file.
Tree(top, kinds, last, excluded, ignored) ==
  [top |-> top, kind |-> kinds, last |-> last, excluded |-> excluded,
   ignored |-> ignored]
TheTrees ==
  {Tree("file", <<k>>, <<1>>, {}, {}) : k \in {"file", "unread"}}
  \cup
  {Tree("dir", <<"dir", "dir", k, l>>, <<3, 3, 3, 4>>, e, g) :
     k \in {"file", "outsideLink"}, l \in {"insideLink", "unread", "outsideLink"},
     e \in {{}, {2}, {4}}, g \in {{}, {1, 2, 3}, {3, 4}}}
==============================================================================
