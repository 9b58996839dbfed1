---------------------------- MODULE DaemonStartup ----------------------------
(***************************************************************************)
(* The agboxd process from main to exit (cmd/agboxd): configuration, host  *)
(* lock, id and event store, restored sandboxes, socket, service, and the  *)
(* way back on a signal.  Several processes may be launched on one host.   *)
(* They share the store, and the runtime directory, which holds lock file  *)
(* and socket, unless XDG_RUNTIME_DIR says otherwise.  What the service    *)
(* does between Serve and its end is SandboxLifecycle.                     *)
(*                                                                         *)
(* The kernel is external: flock(2) locks an inode, not a path; a path     *)
(* may be removed under a process; all locks of a dead process are free    *)
(* and its socket stays behind.                                            *)
(***************************************************************************)
EXTENDS Naturals, FiniteSets

CONSTANTS Daemons,       \* the processes there may be at one time
          RuntimeDirs,   \* the values of XDG_RUNTIME_DIR
          Layouts,       \* which process may have which of them
          MaxLaunches,   \* bound: processes launched
          MaxStreams,    \* bound: requests under way in a process
          MaxMishaps     \* bound: crashes, failed calls, lost files together

ASSUME StartupAssumption ==
    /\ "none" \notin Daemons /\ "stale" \notin Daemons
    /\ Layouts \subseteq [Daemons -> RuntimeDirs]
    /\ {MaxLaunches, MaxStreams, MaxMishaps} \subseteq Nat

VARIABLES
    pc,         \* where each process is
    dir,        \* its runtime directory
    told,       \* whether its context is done (SIGINT or SIGTERM)
    lock,       \* the inode of the lock file it has locked, 0 for none
    lockFile,   \* the inode at each lock path
    socket,     \* what is at each socket path: a listener of a process, the
                \* remains of one, or nothing
    store,      \* the process that has the bbolt file open
    streams,    \* requests the process has under way
    launches, mishaps

vars == <<pc, dir, told, lock, lockFile, socket, store, streams,
          launches, mishaps>>

Points == {"off", "config", "lock", "openStore", "newService", "restore",
           "removeSocket", "listen", "serve?", "serve", "drain", "closeStore",
           "release"}

Here(p) == dir[p]
Step(p, from, to) == pc[p] = from /\ pc' = [pc EXCEPT ![p] = to]

\* The process is over, and with it what only it knew.
Gone(p) ==
    /\ pc' = [pc EXCEPT ![p] = "off"]
    /\ told' = [told EXCEPT ![p] = FALSE]

Mishap == mishaps < MaxMishaps /\ mishaps' = mishaps + 1
NoMishap == UNCHANGED mishaps

\* The process acts on sandboxes: restore, watcher, cleanup loop, requests.
Acting(p) == pc[p] \in {"restore", "removeSocket", "listen", "serve?", "serve",
                        "drain", "closeStore"}

-----------------------------------------------------------------------------
StartupInit ==
    /\ pc = [p \in Daemons |-> "off"]
    /\ dir \in Layouts
    /\ told = [p \in Daemons |-> FALSE]
    /\ lock = [p \in Daemons |-> 0]
    /\ lockFile = [d \in RuntimeDirs |-> 1]
    /\ socket = [d \in RuntimeDirs |-> "none"]
    /\ store = "none"
    /\ streams = [p \in Daemons |-> 0]
    /\ launches = 0 /\ mishaps = 0

Launch(p) ==
    /\ launches < MaxLaunches
    /\ launches' = launches + 1
    /\ Step(p, "off", "config")
    /\ UNCHANGED <<dir, told, lock, lockFile, socket, store, streams, mishaps>>

\* The capability check, the paths, the configuration file and the logger:
\* each of them may end the process.
run(p) ==
    /\ pc[p] = "config"
    /\ \/ /\ Step(p, "config", "lock") /\ NoMishap
          /\ UNCHANGED told
       \/ Mishap /\ Gone(p)
    /\ UNCHANGED <<dir, lock, lockFile, socket, store, streams, launches>>

\* flock on the file that is at the path now, without waiting.
acquireHostLock(p) ==
    LET inode == lockFile[Here(p)]
        free  == \A q \in Daemons : dir[q] = Here(p) => lock[q] # inode
    IN  /\ pc[p] = "lock"
        /\ \/ /\ free
              /\ Step(p, "lock", "openStore")
              /\ lock' = [lock EXCEPT ![p] = inode]
              /\ NoMishap /\ UNCHANGED told
           \/ ~free /\ Gone(p) /\ NoMishap /\ UNCHANGED lock
           \/ Mishap /\ Gone(p) /\ UNCHANGED lock
        /\ UNCHANGED <<dir, lockFile, socket, store, streams, launches>>

\* Mutant: a store that is in use is opened all the same.
openBoltDBShared(p) ==
    /\ \/ Step(p, "openStore", "newService") /\ store' = p /\ NoMishap
       \/ Mishap /\ Step(p, "openStore", "release") /\ UNCHANGED store
    /\ UNCHANGED <<dir, told, lock, lockFile, socket, streams, launches>>

\* bbolt takes its own lock on the file and gives up after 250 ms.
openBoltDB(p) ==
    /\ \/ store = "none" /\ Step(p, "openStore", "newService") /\ store' = p /\ NoMishap
       \/ store # "none" /\ Step(p, "openStore", "release") /\ NoMishap /\ UNCHANGED store
       \/ Mishap /\ Step(p, "openStore", "release") /\ UNCHANGED store
    /\ UNCHANGED <<dir, told, lock, lockFile, socket, streams, launches>>

\* The stores on the open file and the Docker client.
NewService(p) ==
    /\ \/ Step(p, "newService", "restore") /\ NoMishap
       \/ Mishap /\ Step(p, "newService", "closeStore")
    /\ UNCHANGED <<dir, told, lock, lockFile, socket, store, streams, launches>>

\* restorePersistedSandboxes and a first cleanupExpiredEvents.  A context
\* that is done makes Docker's answers errors.
RestoreSandboxes(p) ==
    /\ \/ Step(p, "restore", "removeSocket") /\ NoMishap
       \/ ((told[p] /\ NoMishap) \/ Mishap) /\ Step(p, "restore", "closeStore")
    /\ UNCHANGED <<dir, told, lock, lockFile, socket, store, streams, launches>>

\* Mutant: the path is not cleared.
RemoveSocketNot(p) ==
    /\ Step(p, "removeSocket", "listen") /\ NoMishap
    /\ UNCHANGED <<dir, told, lock, lockFile, socket, store, streams, launches>>

RemoveSocket(p) ==
    /\ \/ /\ Step(p, "removeSocket", "listen") /\ NoMishap
          /\ socket' = [socket EXCEPT ![Here(p)] = "none"]
       \/ Mishap /\ Step(p, "removeSocket", "closeStore") /\ UNCHANGED socket
    /\ UNCHANGED <<dir, told, lock, lockFile, store, streams, launches>>

\* bind(2) needs a path that is free.
Listen(p) ==
    /\ \/ /\ IF socket[Here(p)] = "none"
             THEN /\ Step(p, "listen", "serve?")
                  /\ socket' = [socket EXCEPT ![Here(p)] = p]
             ELSE Step(p, "listen", "closeStore") /\ UNCHANGED socket
          /\ NoMishap
       \/ Mishap /\ Step(p, "listen", "closeStore") /\ UNCHANGED socket
    /\ UNCHANGED <<dir, told, lock, lockFile, store, streams, launches>>

-----------------------------------------------------------------------------
\* Closing a listener removes whatever is at its path.
Unlink(p) == socket' = [socket EXCEPT ![Here(p)] = "none"]

\* Serve, unless GracefulStop was faster.
Serve(p) ==
    /\ \/ Step(p, "serve?", "serve") /\ UNCHANGED socket
       \/ told[p] /\ Step(p, "serve?", "closeStore") /\ Unlink(p)
    /\ UNCHANGED <<dir, told, lock, lockFile, store, streams, launches, mishaps>>

Request(p) ==
    /\ pc[p] = "serve"
    /\ socket[Here(p)] = p
    /\ streams[p] < MaxStreams
    /\ streams' = [streams EXCEPT ![p] = @ + 1]
    /\ UNCHANGED <<pc, dir, told, lock, lockFile, socket, store, launches, mishaps>>

\* A request is answered, or the client of a stream hangs up.
RequestEnds(p) ==
    /\ streams[p] > 0
    /\ streams' = [streams EXCEPT ![p] = @ - 1]
    /\ UNCHANGED <<pc, dir, told, lock, lockFile, socket, store, launches, mishaps>>

\* Mutant: the listener stays until the process ends.
GracefulStopListening(p) ==
    /\ told[p]
    /\ Step(p, "serve", "drain")
    /\ UNCHANGED <<dir, told, lock, lockFile, socket, store, streams,
                   launches, mishaps>>

\* GracefulStop closes the listener and then waits for the requests.
GracefulStop(p) ==
    /\ told[p]
    /\ Step(p, "serve", "drain")
    /\ Unlink(p)
    /\ UNCHANGED <<dir, told, lock, lockFile, store, streams, launches, mishaps>>

\* Mutant: the requests are not waited for.
DrainedAtOnce(p) ==
    /\ Step(p, "drain", "closeStore")
    /\ UNCHANGED <<dir, told, lock, lockFile, socket, store, streams,
                   launches, mishaps>>

\* Mutant: the process goes on waiting when the last request has ended.
DrainedLate(p) ==
    /\ streams[p] = 0
    /\ ~told[p]
    /\ Step(p, "drain", "closeStore")
    /\ UNCHANGED <<dir, told, lock, lockFile, socket, store, streams,
                   launches, mishaps>>

Drained(p) ==
    /\ streams[p] = 0
    /\ Step(p, "drain", "closeStore")
    /\ UNCHANGED <<dir, told, lock, lockFile, socket, store, streams,
                   launches, mishaps>>

\* The deferred functions of runWithDeps, last one first.
CloseStore(p) ==
    /\ Step(p, "closeStore", "release")
    /\ store' = IF store = p THEN "none" ELSE store
    /\ UNCHANGED <<dir, told, lock, lockFile, socket, streams, launches, mishaps>>

\* Mutant: the deferred release runs when the service is told to stop.
releaseEarly(p) ==
    \/ /\ pc[p] = "release" /\ Gone(p)
       /\ lock' = [lock EXCEPT ![p] = 0]
       /\ UNCHANGED <<dir, lockFile, socket, store, streams, launches, mishaps>>
    \/ /\ pc[p] = "closeStore"
       /\ lock' = [lock EXCEPT ![p] = 0]
       /\ UNCHANGED <<pc, dir, told, lockFile, socket, store, streams,
                      launches, mishaps>>

release(p) ==
    /\ pc[p] = "release" /\ Gone(p)
    /\ lock' = [lock EXCEPT ![p] = 0]
    /\ UNCHANGED <<dir, lockFile, socket, store, streams, launches, mishaps>>

-----------------------------------------------------------------------------
\* SIGINT or SIGTERM; a second one changes nothing.
Signal(p) ==
    /\ pc[p] # "off"
    /\ told' = [told EXCEPT ![p] = TRUE]
    /\ UNCHANGED <<pc, dir, lock, lockFile, socket, store, streams, launches, mishaps>>

\* SIGKILL, a panic, the loss of power.
Crash(p) ==
    /\ pc[p] # "off"
    /\ Mishap
    /\ Gone(p)
    /\ lock' = [lock EXCEPT ![p] = 0]
    /\ store' = IF store = p THEN "none" ELSE store
    /\ socket' = [d \in RuntimeDirs |-> IF socket[d] = p THEN "stale" ELSE socket[d]]
    /\ streams' = [streams EXCEPT ![p] = 0]
    /\ UNCHANGED <<dir, lockFile, launches>>

\* Somebody removes the lock file, or, as at the end of a login session, the
\* whole runtime directory.
LoseFiles(d) ==
    /\ Mishap
    /\ lockFile' = [lockFile EXCEPT ![d] = @ + 1]
    /\ \/ UNCHANGED socket
       \/ socket' = [socket EXCEPT ![d] = "none"]
    /\ UNCHANGED <<pc, dir, told, lock, store, streams, launches>>

DaemonStep(p) ==
    \/ run(p) \/ acquireHostLock(p) \/ openBoltDB(p) \/ NewService(p)
    \/ RestoreSandboxes(p) \/ RemoveSocket(p) \/ Listen(p) \/ Serve(p)
    \/ GracefulStop(p) \/ Drained(p) \/ CloseStore(p) \/ release(p)

StartupNext ==
    \/ \E p \in Daemons : \/ DaemonStep(p) \/ Launch(p) \/ Signal(p) \/ Crash(p)
                          \/ Request(p) \/ RequestEnds(p)
    \/ \E d \in RuntimeDirs : LoseFiles(d)

(***************************************************************************)
(* Fairness: a process takes its next step.  Nothing obliges a client to   *)
(* hang up.                                                                *)
(***************************************************************************)
StartupSpec ==
    /\ StartupInit /\ [][StartupNext]_vars
    /\ \A p \in Daemons : WF_vars(DaemonStep(p) /\ NoMishap)

-----------------------------------------------------------------------------
(***************************************************************************)
(* Properties                                                              *)
(***************************************************************************)
\* The lock file of p's directory is the one p has locked.
HoldsLock(p) == lock[p] = lockFile[Here(p)]

\* Every variable keeps its kind of value, and a process that is over has
\* nothing: no lock and no store.
StartupTypeOK ==
    /\ pc \in [Daemons -> Points]
    /\ dir \in Layouts
    /\ told \in [Daemons -> BOOLEAN]
    /\ lock \in [Daemons -> 0..MaxMishaps + 1]
    /\ lockFile \in [RuntimeDirs -> 1..MaxMishaps + 1]
    /\ socket \in [RuntimeDirs -> Daemons \cup {"none", "stale"}]
    /\ store \in Daemons \cup {"none"}
    /\ streams \in [Daemons -> 0..MaxStreams]
    /\ \A p \in Daemons :
           pc[p] = "off" => lock[p] = 0 /\ store # p

\* At most one process restores, watches, cleans up or serves sandboxes:
\* also when the lock file was removed under a daemon, and when the second
\* one has another runtime directory.
OneDaemonActs == \A p, q \in Daemons : Acting(p) /\ Acting(q) => p = q

\* The socket path leads to the daemon that serves there, as long as nobody
\* has removed the files; no start-up that fails takes it away.  A socket
\* with a process behind it is one that is, or will be, served.  And a crash
\* never keeps the next daemon from serving: whatever it left at the path, the
\* address is free when a daemon comes to listen.
ServingIsReachable ==
    /\ \A p \in Daemons : pc[p] = "serve" =>
           socket[Here(p)] = p \/ (socket[Here(p)] = "none" /\ ~HoldsLock(p))
    /\ \A d \in RuntimeDirs : socket[d] \in Daemons =>
           pc[socket[d]] \in {"serve?", "serve"} /\ dir[socket[d]] = d
    /\ \A p \in Daemons : pc[p] = "listen" => socket[Here(p)] = "none"

\* On its way out a daemon first answers the requests it has accepted, then
\* closes the store, then gives the lock away: nobody's request loses the
\* store, and a daemon that has got the lock finds the store free, unless the
\* other one's lock file was removed or is in another directory.
ShutdownInOrder ==
    /\ \A p \in Daemons :
           pc[p] \in {"closeStore", "release", "off"} => streams[p] = 0
    /\ \A p, q \in Daemons :
           (pc[p] = "openStore" /\ HoldsLock(p) /\ store = q /\ dir[q] = dir[p])
               => lock[q] # 0 /\ ~HoldsLock(q)

\* A daemon told to stop ends, unless a client keeps a request open: then it
\* waits for that client, without bound.
ShutdownEnds ==
    \A p \in Daemons : (told[p] /\ pc[p] # "off") ~> (pc[p] = "off" \/ streams[p] > 0)

=============================================================================
