------------------------ MODULE DaemonStartup_proofs ------------------------
(***************************************************************************)
(* Proofs about DaemonStartup, for any number of agboxd processes, runtime *)
(* directories, launches, requests and mishaps.                            *)
(***************************************************************************)
EXTENDS DaemonStartup, TLAPS

\* Where a process has its lock, and where it has the store open.
StorePoints == {"newService", "restore", "removeSocket", "listen", "serve?",
                "serve", "drain", "closeStore"}
LockPoints == StorePoints \cup {"openStore", "release"}

\* The types, and that an inode number counts the mishaps there were.
Types ==
    /\ StartupTypeOK
    /\ launches \in Nat
    /\ mishaps \in 0..MaxMishaps
    /\ \A d \in RuntimeDirs : lockFile[d] <= mishaps + 1

\* A process has a lock from acquireHostLock to release, on an inode that is
\* or was the lock file of its directory, and shares it with nobody.
Locks ==
    /\ \A p \in Daemons : lock[p] # 0 <=> pc[p] \in LockPoints
    /\ \A p \in Daemons : lock[p] <= lockFile[dir[p]]
    /\ \A p, q \in Daemons :
           (dir[p] = dir[q] /\ lock[p] = lock[q] /\ lock[p] # 0) => p = q

\* A process has the store from openBoltDB to CloseStore.
Stores == \A p \in Daemons : store = p <=> pc[p] \in StorePoints

\* The socket of a process that is bound leads to it, unless the files of its
\* directory, its lock file among them, were removed.
Sockets ==
    /\ \A p \in Daemons : pc[p] \in {"serve?", "serve"} =>
           socket[dir[p]] = p \/ (socket[dir[p]] = "none" /\ lock[p] # lockFile[dir[p]])
    /\ \A d \in RuntimeDirs : socket[d] \in Daemons =>
           pc[socket[d]] \in {"serve?", "serve"} /\ dir[socket[d]] = d
    /\ \A p \in Daemons : pc[p] = "listen" => socket[dir[p]] = "none"

\* Requests are under way only in a process that serves or drains.
Streams == \A p \in Daemons : streams[p] # 0 => pc[p] \in {"serve", "drain"}

StartupInv == Types /\ Locks /\ Stores /\ Sockets /\ Streams

-----------------------------------------------------------------------------
(***************************************************************************)
(* Each part of the invariant, over one step of any process, signal, crash *)
(* or loss of files.                                                       *)
(***************************************************************************)
\* Every step keeps the types; an inode number grows only with a mishap.
LEMMA TypesNext ==
    ASSUME StartupInv, [StartupNext]_vars
    PROVE  Types'
<1> USE StartupAssumption DEF StartupInv
<1>1. dir \in [Daemons -> RuntimeDirs]
  BY DEF Types, StartupTypeOK
<1>2. CASE UNCHANGED vars
  BY <1>1, <1>2 DEF vars, Types, StartupTypeOK, Points, Stores, StorePoints,
     Locks, LockPoints
<1>3. ASSUME NEW d \in RuntimeDirs, LoseFiles(d)
      PROVE  Types'
  BY <1>1, <1>3 DEF LoseFiles, Mishap, Types, StartupTypeOK, Points, Stores,
     StorePoints, Locks, LockPoints
<1>4. ASSUME NEW p \in Daemons,
             \/ DaemonStep(p) \/ Launch(p) \/ Signal(p) \/ Crash(p)
             \/ Request(p) \/ RequestEnds(p)
      PROVE  Types'
  <2>1. CASE run(p)
    <3>1. CASE Mishap /\ Gone(p)
      BY <1>1, <2>1, <3>1 DEF run, Step, Gone, Mishap, NoMishap, Types,
         StartupTypeOK, Points, Stores, StorePoints, Locks, LockPoints
    <3>2. CASE Step(p, "config", "lock") /\ NoMishap /\ UNCHANGED told
      BY <1>1, <2>1, <3>2 DEF run, Step, Gone, Mishap, NoMishap, Types,
         StartupTypeOK, Points, Stores, StorePoints, Locks, LockPoints
    <3> QED
      BY <2>1, <3>1, <3>2 DEF run
  <2>2. CASE acquireHostLock(p)
    <3>1. CASE Gone(p) /\ UNCHANGED lock /\ (Mishap \/ NoMishap)
      BY <1>1, <2>2, <3>1 DEF acquireHostLock, Here, Step, Gone, Mishap,
         NoMishap, Types, StartupTypeOK, Points, Stores, StorePoints, Locks,
         LockPoints
    <3>2. CASE /\ Step(p, "lock", "openStore") /\ NoMishap /\ UNCHANGED told
               /\ lock' = [lock EXCEPT ![p] = lockFile[Here(p)]]
      BY <1>1, <2>2, <3>2 DEF acquireHostLock, Here, Step, Gone, Mishap,
         NoMishap, Types, StartupTypeOK, Points, Stores, StorePoints, Locks,
         LockPoints
    <3> QED
      BY <2>2, <3>1, <3>2 DEF acquireHostLock
  <2>3. CASE openBoltDB(p)
    BY <1>1, <2>3 DEF openBoltDB, Step, Mishap, NoMishap, Types,
       StartupTypeOK, Points, Stores, StorePoints, Locks, LockPoints
  <2>4. CASE NewService(p)
    BY <1>1, <2>4 DEF NewService, Step, Mishap, NoMishap, Types,
       StartupTypeOK, Points, Stores, StorePoints, Locks, LockPoints
  <2>5. CASE RestoreSandboxes(p)
    BY <1>1, <2>5 DEF RestoreSandboxes, Step, Mishap, NoMishap, Types,
       StartupTypeOK, Points, Stores, StorePoints, Locks, LockPoints
  <2>6. CASE RemoveSocket(p)
    BY <1>1, <2>6 DEF RemoveSocket, Here, Step, Mishap, NoMishap, Types,
       StartupTypeOK, Points, Stores, StorePoints, Locks, LockPoints
  <2>7. CASE Listen(p)
    BY <1>1, <2>7 DEF Listen, Here, Step, Mishap, NoMishap, Types,
       StartupTypeOK, Points, Stores, StorePoints, Locks, LockPoints
  <2>8. CASE Serve(p)
    BY <1>1, <2>8 DEF Serve, Here, Unlink, Step, Types, StartupTypeOK, Points,
       Stores, StorePoints, Locks, LockPoints
  <2>9. CASE GracefulStop(p)
    BY <1>1, <2>9 DEF GracefulStop, Here, Unlink, Step, Types, StartupTypeOK,
       Points, Stores, StorePoints, Locks, LockPoints
  <2>10. CASE Drained(p)
    BY <1>1, <2>10 DEF Drained, Step, Types, StartupTypeOK, Points, Stores,
       StorePoints, Locks, LockPoints
  <2>11. CASE CloseStore(p)
    BY <1>1, <2>11 DEF CloseStore, Step, Types, StartupTypeOK, Points, Stores,
       StorePoints, Locks, LockPoints
  <2>12. CASE release(p)
    BY <1>1, <2>12 DEF release, Gone, Types, StartupTypeOK, Points, Stores,
       StorePoints, Locks, LockPoints
  <2>13. CASE Launch(p)
    BY <1>1, <2>13 DEF Launch, Step, Types, StartupTypeOK, Points, Stores,
       StorePoints, Locks, LockPoints
  <2>14. CASE Signal(p)
    BY <1>1, <2>14 DEF Signal, Types, StartupTypeOK, Points, Stores,
       StorePoints, Locks, LockPoints
  <2>15. CASE Crash(p)
    BY <1>1, <2>15 DEF Crash, Gone, Mishap, Types, StartupTypeOK, Points,
       Stores, StorePoints, Locks, LockPoints
  <2>16. CASE Request(p)
    BY <1>1, <2>16 DEF Request, Here, Types, StartupTypeOK, Points, Stores,
       StorePoints, Locks, LockPoints
  <2>17. CASE RequestEnds(p)
    BY <1>1, <2>17 DEF RequestEnds, Types, StartupTypeOK, Points, Stores,
       StorePoints, Locks, LockPoints
  <2> QED
    BY <1>4, <2>1, <2>2, <2>3, <2>4, <2>5, <2>6, <2>7, <2>8, <2>9, <2>10,
       <2>11, <2>12, <2>13, <2>14, <2>15, <2>16, <2>17 DEF DaemonStep
<1> QED
  BY <1>2, <1>3, <1>4 DEF StartupNext

\* acquireHostLock locks an inode that nobody in the directory has locked, and
\* release, or the end of the process, gives it back: never both twice.
LEMMA LocksNext ==
    ASSUME StartupInv, [StartupNext]_vars
    PROVE  Locks'
<1> USE StartupAssumption DEF StartupInv
<1>1. dir \in [Daemons -> RuntimeDirs]
  BY DEF Types, StartupTypeOK
<1>2. CASE UNCHANGED vars
  BY <1>1, <1>2 DEF vars, Types, StartupTypeOK, Points, Locks, LockPoints,
     StorePoints
<1>3. ASSUME NEW d \in RuntimeDirs, LoseFiles(d)
      PROVE  Locks'
  BY <1>1, <1>3 DEF LoseFiles, Mishap, Types, StartupTypeOK, Points, Locks,
     LockPoints, StorePoints
<1>4. ASSUME NEW p \in Daemons,
             \/ DaemonStep(p) \/ Launch(p) \/ Signal(p) \/ Crash(p)
             \/ Request(p) \/ RequestEnds(p)
      PROVE  Locks'
  <2>1. CASE run(p)
    BY <1>1, <2>1 DEF run, Step, Gone, Mishap, NoMishap, Types, StartupTypeOK,
       Points, Locks, LockPoints, StorePoints
  <2>2. CASE acquireHostLock(p)
    BY <1>1, <2>2 DEF acquireHostLock, Here, Step, Gone, Mishap, NoMishap,
       Types, StartupTypeOK, Points, Locks, LockPoints, StorePoints
  <2>3. CASE openBoltDB(p)
    BY <1>1, <2>3 DEF openBoltDB, Step, Mishap, NoMishap, Types,
       StartupTypeOK, Points, Locks, LockPoints, StorePoints
  <2>4. CASE NewService(p)
    BY <1>1, <2>4 DEF NewService, Step, Mishap, NoMishap, Types,
       StartupTypeOK, Points, Locks, LockPoints, StorePoints
  <2>5. CASE RestoreSandboxes(p)
    BY <1>1, <2>5 DEF RestoreSandboxes, Step, Mishap, NoMishap, Types,
       StartupTypeOK, Points, Locks, LockPoints, StorePoints
  <2>6. CASE RemoveSocket(p)
    BY <1>1, <2>6 DEF RemoveSocket, Here, Step, Mishap, NoMishap, Types,
       StartupTypeOK, Points, Locks, LockPoints, StorePoints
  <2>7. CASE Listen(p)
    BY <1>1, <2>7 DEF Listen, Here, Step, Mishap, NoMishap, Types,
       StartupTypeOK, Points, Locks, LockPoints, StorePoints
  <2>8. CASE Serve(p)
    BY <1>1, <2>8 DEF Serve, Here, Unlink, Step, Types, StartupTypeOK, Points,
       Locks, LockPoints, StorePoints
  <2>9. CASE GracefulStop(p)
    BY <1>1, <2>9 DEF GracefulStop, Here, Unlink, Step, Types, StartupTypeOK,
       Points, Locks, LockPoints, StorePoints
  <2>10. CASE Drained(p)
    BY <1>1, <2>10 DEF Drained, Step, Types, StartupTypeOK, Points, Locks,
       LockPoints, StorePoints
  <2>11. CASE CloseStore(p)
    BY <1>1, <2>11 DEF CloseStore, Step, Types, StartupTypeOK, Points, Locks,
       LockPoints, StorePoints
  <2>12. CASE release(p)
    BY <1>1, <2>12 DEF release, Gone, Types, StartupTypeOK, Points, Locks,
       LockPoints, StorePoints
  <2>13. CASE Launch(p)
    BY <1>1, <2>13 DEF Launch, Step, Types, StartupTypeOK, Points, Locks,
       LockPoints, StorePoints
  <2>14. CASE Signal(p)
    BY <1>1, <2>14 DEF Signal, Types, StartupTypeOK, Points, Locks,
       LockPoints, StorePoints
  <2>15. CASE Crash(p)
    BY <1>1, <2>15 DEF Crash, Gone, Mishap, Types, StartupTypeOK, Points,
       Locks, LockPoints, StorePoints
  <2>16. CASE Request(p)
    BY <1>1, <2>16 DEF Request, Here, Types, StartupTypeOK, Points, Locks,
       LockPoints, StorePoints
  <2>17. CASE RequestEnds(p)
    BY <1>1, <2>17 DEF RequestEnds, Types, StartupTypeOK, Points, Locks,
       LockPoints, StorePoints
  <2> QED
    BY <1>4, <2>1, <2>2, <2>3, <2>4, <2>5, <2>6, <2>7, <2>8, <2>9, <2>10,
       <2>11, <2>12, <2>13, <2>14, <2>15, <2>16, <2>17 DEF DaemonStep
<1> QED
  BY <1>2, <1>3, <1>4 DEF StartupNext

\* openBoltDB gets the store only when nobody has it, and every way out of
\* runWithDeps after that passes through CloseStore.
LEMMA StoresNext ==
    ASSUME StartupInv, [StartupNext]_vars
    PROVE  Stores'
<1> USE StartupAssumption DEF StartupInv
<1>1. dir \in [Daemons -> RuntimeDirs]
  BY DEF Types, StartupTypeOK
<1>2. CASE UNCHANGED vars
  BY <1>1, <1>2 DEF vars, Types, StartupTypeOK, Stores, StorePoints
<1>3. ASSUME NEW d \in RuntimeDirs, LoseFiles(d)
      PROVE  Stores'
  BY <1>1, <1>3 DEF LoseFiles, Mishap, Types, StartupTypeOK, Stores,
     StorePoints
<1>4. ASSUME NEW p \in Daemons,
             \/ DaemonStep(p) \/ Launch(p) \/ Signal(p) \/ Crash(p)
             \/ Request(p) \/ RequestEnds(p)
      PROVE  Stores'
  <2>1. CASE run(p)
    BY <1>1, <2>1 DEF run, Step, Gone, Mishap, NoMishap, Types, StartupTypeOK,
       Stores, StorePoints
  <2>2. CASE acquireHostLock(p)
    BY <1>1, <2>2 DEF acquireHostLock, Here, Step, Gone, Mishap, NoMishap,
       Types, StartupTypeOK, Stores, StorePoints
  <2>3. CASE openBoltDB(p)
    BY <1>1, <2>3 DEF openBoltDB, Step, Mishap, NoMishap, Types,
       StartupTypeOK, Stores, StorePoints
  <2>4. CASE NewService(p)
    BY <1>1, <2>4 DEF NewService, Step, Mishap, NoMishap, Types,
       StartupTypeOK, Stores, StorePoints
  <2>5. CASE RestoreSandboxes(p)
    BY <1>1, <2>5 DEF RestoreSandboxes, Step, Mishap, NoMishap, Types,
       StartupTypeOK, Stores, StorePoints
  <2>6. CASE RemoveSocket(p)
    BY <1>1, <2>6 DEF RemoveSocket, Here, Step, Mishap, NoMishap, Types,
       StartupTypeOK, Stores, StorePoints
  <2>7. CASE Listen(p)
    BY <1>1, <2>7 DEF Listen, Here, Step, Mishap, NoMishap, Types,
       StartupTypeOK, Stores, StorePoints
  <2>8. CASE Serve(p)
    BY <1>1, <2>8 DEF Serve, Here, Unlink, Step, Types, StartupTypeOK, Stores,
       StorePoints
  <2>9. CASE GracefulStop(p)
    BY <1>1, <2>9 DEF GracefulStop, Here, Unlink, Step, Types, StartupTypeOK,
       Stores, StorePoints
  <2>10. CASE Drained(p)
    BY <1>1, <2>10 DEF Drained, Step, Types, StartupTypeOK, Stores,
       StorePoints
  <2>11. CASE CloseStore(p)
    BY <1>1, <2>11 DEF CloseStore, Step, Types, StartupTypeOK, Stores,
       StorePoints
  <2>12. CASE release(p)
    BY <1>1, <2>12 DEF release, Gone, Types, StartupTypeOK, Stores,
       StorePoints
  <2>13. CASE Launch(p)
    BY <1>1, <2>13 DEF Launch, Step, Types, StartupTypeOK, Stores, StorePoints
  <2>14. CASE Signal(p)
    BY <1>1, <2>14 DEF Signal, Types, StartupTypeOK, Stores, StorePoints
  <2>15. CASE Crash(p)
    BY <1>1, <2>15 DEF Crash, Gone, Mishap, Types, StartupTypeOK, Stores,
       StorePoints
  <2>16. CASE Request(p)
    BY <1>1, <2>16 DEF Request, Here, Types, StartupTypeOK, Stores,
       StorePoints
  <2>17. CASE RequestEnds(p)
    BY <1>1, <2>17 DEF RequestEnds, Types, StartupTypeOK, Stores, StorePoints
  <2> QED
    BY <1>4, <2>1, <2>2, <2>3, <2>4, <2>5, <2>6, <2>7, <2>8, <2>9, <2>10,
       <2>11, <2>12, <2>13, <2>14, <2>15, <2>16, <2>17 DEF DaemonStep
<1> QED
  BY <1>2, <1>3, <1>4 DEF StartupNext

\* Only a process that has the store touches a socket path, so nobody takes
\* the address of a daemon that serves, and RemoveSocket clears what Listen
\* needs.
LEMMA SocketsNext ==
    ASSUME StartupInv, [StartupNext]_vars
    PROVE  Sockets'
<1> USE StartupAssumption DEF StartupInv
<1>1. dir \in [Daemons -> RuntimeDirs]
  BY DEF Types, StartupTypeOK
<1>2. CASE UNCHANGED vars
  BY <1>1, <1>2 DEF vars, Types, StartupTypeOK, Locks, LockPoints, Stores,
     StorePoints, Sockets
<1>3. ASSUME NEW d \in RuntimeDirs, LoseFiles(d)
      PROVE  Sockets'
  BY <1>1, <1>3 DEF LoseFiles, Mishap, Types, StartupTypeOK, Locks,
     LockPoints, Stores, StorePoints, Sockets
<1>4. ASSUME NEW p \in Daemons,
             \/ DaemonStep(p) \/ Launch(p) \/ Signal(p) \/ Crash(p)
             \/ Request(p) \/ RequestEnds(p)
      PROVE  Sockets'
  <2>1. CASE run(p)
    BY <1>1, <2>1 DEF run, Step, Gone, Mishap, NoMishap, Types, StartupTypeOK,
       Locks, LockPoints, Stores, StorePoints, Sockets
  <2>2. CASE acquireHostLock(p)
    BY <1>1, <2>2 DEF acquireHostLock, Here, Step, Gone, Mishap, NoMishap,
       Types, StartupTypeOK, Locks, LockPoints, Stores, StorePoints, Sockets
  <2>3. CASE openBoltDB(p)
    BY <1>1, <2>3 DEF openBoltDB, Step, Mishap, NoMishap, Types,
       StartupTypeOK, Locks, LockPoints, Stores, StorePoints, Sockets
  <2>4. CASE NewService(p)
    BY <1>1, <2>4 DEF NewService, Step, Mishap, NoMishap, Types,
       StartupTypeOK, Locks, LockPoints, Stores, StorePoints, Sockets
  <2>5. CASE RestoreSandboxes(p)
    BY <1>1, <2>5 DEF RestoreSandboxes, Step, Mishap, NoMishap, Types,
       StartupTypeOK, Locks, LockPoints, Stores, StorePoints, Sockets
  <2>6. CASE RemoveSocket(p)
    BY <1>1, <2>6 DEF RemoveSocket, Here, Step, Mishap, NoMishap, Types,
       StartupTypeOK, Locks, LockPoints, Stores, StorePoints, Sockets
  <2>7. CASE Listen(p)
    BY <1>1, <2>7 DEF Listen, Here, Step, Mishap, NoMishap, Types,
       StartupTypeOK, Locks, LockPoints, Stores, StorePoints, Sockets
  <2>8. CASE Serve(p)
    BY <1>1, <2>8 DEF Serve, Here, Unlink, Step, Types, StartupTypeOK, Locks,
       LockPoints, Stores, StorePoints, Sockets
  <2>9. CASE GracefulStop(p)
    BY <1>1, <2>9 DEF GracefulStop, Here, Unlink, Step, Types, StartupTypeOK,
       Locks, LockPoints, Stores, StorePoints, Sockets
  <2>10. CASE Drained(p)
    BY <1>1, <2>10 DEF Drained, Step, Types, StartupTypeOK, Locks, LockPoints,
       Stores, StorePoints, Sockets
  <2>11. CASE CloseStore(p)
    BY <1>1, <2>11 DEF CloseStore, Step, Types, StartupTypeOK, Locks,
       LockPoints, Stores, StorePoints, Sockets
  <2>12. CASE release(p)
    BY <1>1, <2>12 DEF release, Gone, Types, StartupTypeOK, Locks, LockPoints,
       Stores, StorePoints, Sockets
  <2>13. CASE Launch(p)
    BY <1>1, <2>13 DEF Launch, Step, Types, StartupTypeOK, Locks, LockPoints,
       Stores, StorePoints, Sockets
  <2>14. CASE Signal(p)
    BY <1>1, <2>14 DEF Signal, Types, StartupTypeOK, Locks, LockPoints,
       Stores, StorePoints, Sockets
  <2>15. CASE Crash(p)
    BY <1>1, <2>15 DEF Crash, Gone, Mishap, Types, StartupTypeOK, Locks,
       LockPoints, Stores, StorePoints, Sockets
  <2>16. CASE Request(p)
    BY <1>1, <2>16 DEF Request, Here, Types, StartupTypeOK, Locks, LockPoints,
       Stores, StorePoints, Sockets
  <2>17. CASE RequestEnds(p)
    BY <1>1, <2>17 DEF RequestEnds, Types, StartupTypeOK, Locks, LockPoints,
       Stores, StorePoints, Sockets
  <2> QED
    BY <1>4, <2>1, <2>2, <2>3, <2>4, <2>5, <2>6, <2>7, <2>8, <2>9, <2>10,
       <2>11, <2>12, <2>13, <2>14, <2>15, <2>16, <2>17 DEF DaemonStep
<1> QED
  BY <1>2, <1>3, <1>4 DEF StartupNext

\* GracefulStop waits for the last request before the store is closed.
LEMMA StreamsNext ==
    ASSUME StartupInv, [StartupNext]_vars
    PROVE  Streams'
<1> USE StartupAssumption DEF StartupInv
<1>1. dir \in [Daemons -> RuntimeDirs]
  BY DEF Types, StartupTypeOK
<1>2. CASE UNCHANGED vars
  BY <1>1, <1>2 DEF vars, Types, StartupTypeOK, Streams
<1>3. ASSUME NEW d \in RuntimeDirs, LoseFiles(d)
      PROVE  Streams'
  BY <1>1, <1>3 DEF LoseFiles, Mishap, Types, StartupTypeOK, Streams
<1>4. ASSUME NEW p \in Daemons,
             \/ DaemonStep(p) \/ Launch(p) \/ Signal(p) \/ Crash(p)
             \/ Request(p) \/ RequestEnds(p)
      PROVE  Streams'
  <2>1. CASE run(p)
    BY <1>1, <2>1 DEF run, Step, Gone, Mishap, NoMishap, Types, StartupTypeOK,
       Streams
  <2>2. CASE acquireHostLock(p)
    BY <1>1, <2>2 DEF acquireHostLock, Here, Step, Gone, Mishap, NoMishap,
       Types, StartupTypeOK, Streams
  <2>3. CASE openBoltDB(p)
    BY <1>1, <2>3 DEF openBoltDB, Step, Mishap, NoMishap, Types,
       StartupTypeOK, Streams
  <2>4. CASE NewService(p)
    BY <1>1, <2>4 DEF NewService, Step, Mishap, NoMishap, Types,
       StartupTypeOK, Streams
  <2>5. CASE RestoreSandboxes(p)
    BY <1>1, <2>5 DEF RestoreSandboxes, Step, Mishap, NoMishap, Types,
       StartupTypeOK, Streams
  <2>6. CASE RemoveSocket(p)
    BY <1>1, <2>6 DEF RemoveSocket, Here, Step, Mishap, NoMishap, Types,
       StartupTypeOK, Streams
  <2>7. CASE Listen(p)
    BY <1>1, <2>7 DEF Listen, Here, Step, Mishap, NoMishap, Types,
       StartupTypeOK, Streams
  <2>8. CASE Serve(p)
    BY <1>1, <2>8 DEF Serve, Here, Unlink, Step, Types, StartupTypeOK, Streams
  <2>9. CASE GracefulStop(p)
    BY <1>1, <2>9 DEF GracefulStop, Here, Unlink, Step, Types, StartupTypeOK,
       Streams
  <2>10. CASE Drained(p)
    BY <1>1, <2>10 DEF Drained, Step, Types, StartupTypeOK, Streams
  <2>11. CASE CloseStore(p)
    BY <1>1, <2>11 DEF CloseStore, Step, Types, StartupTypeOK, Streams
  <2>12. CASE release(p)
    BY <1>1, <2>12 DEF release, Gone, Types, StartupTypeOK, Streams
  <2>13. CASE Launch(p)
    BY <1>1, <2>13 DEF Launch, Step, Types, StartupTypeOK, Streams
  <2>14. CASE Signal(p)
    BY <1>1, <2>14 DEF Signal, Types, StartupTypeOK, Streams
  <2>15. CASE Crash(p)
    BY <1>1, <2>15 DEF Crash, Gone, Mishap, Types, StartupTypeOK, Streams
  <2>16. CASE Request(p)
    BY <1>1, <2>16 DEF Request, Here, Types, StartupTypeOK, Streams
  <2>17. CASE RequestEnds(p)
    BY <1>1, <2>17 DEF RequestEnds, Types, StartupTypeOK, Streams
  <2> QED
    BY <1>4, <2>1, <2>2, <2>3, <2>4, <2>5, <2>6, <2>7, <2>8, <2>9, <2>10,
       <2>11, <2>12, <2>13, <2>14, <2>15, <2>16, <2>17 DEF DaemonStep
<1> QED
  BY <1>2, <1>3, <1>4 DEF StartupNext

\* The invariant holds before any process is launched.
LEMMA StartupInitInv == ASSUME StartupInit PROVE StartupInv
<1> USE StartupAssumption DEF StartupInit
<1>1. dir \in [Daemons -> RuntimeDirs]
  OBVIOUS
<1>2. Types
  BY <1>1 DEF Types, StartupTypeOK, Points
<1>3. Locks /\ Stores
  BY <1>1 DEF Locks, Stores, LockPoints, StorePoints
<1>4. Sockets /\ Streams
  BY <1>1 DEF Sockets, Streams
<1> QED
  BY <1>2, <1>3, <1>4 DEF StartupInv

-----------------------------------------------------------------------------
(***************************************************************************)
(* The theorems                                                            *)
(***************************************************************************)
\* The invariant holds in every state of every run of the processes.
THEOREM StartupInvariant == StartupSpec => []StartupInv
<1>1. StartupInit => StartupInv
  BY StartupInitInv
<1>2. StartupInv /\ [StartupNext]_vars => StartupInv'
  BY TypesNext, LocksNext, StoresNext, SocketsNext, StreamsNext DEF StartupInv
<1> QED
  BY <1>1, <1>2, PTL DEF StartupSpec

\* At most one agboxd process restores, watches, cleans up or serves at a
\* time, however many are launched and whatever files are removed under them:
\* the store, not the host lock, is what excludes the others.
THEOREM OneDaemonActsCorrect == StartupSpec => []OneDaemonActs
<1>1. StartupInv => OneDaemonActs
  BY DEF StartupInv, Stores, StorePoints, OneDaemonActs, Acting
<1> QED
  BY <1>1, StartupInvariant, PTL

\* The address of a daemon that serves leads to it unless the runtime
\* directory was emptied, a bound socket is served, and Listen finds its path
\* free after any crash.
THEOREM ServingIsReachableCorrect == StartupSpec => []ServingIsReachable
<1>1. StartupInv => ServingIsReachable
  BY DEF StartupInv, Sockets, ServingIsReachable, HoldsLock, Here
<1> QED
  BY <1>1, StartupInvariant, PTL

\* The deferred functions of runWithDeps run after the last request, and a
\* process that got the lock of the directory finds the store closed by its
\* predecessor there.
THEOREM ShutdownInOrderCorrect == StartupSpec => []ShutdownInOrder
<1>1. ASSUME StartupInv PROVE ShutdownInOrder
  <2>1. \A p \in Daemons :
            pc[p] \in {"closeStore", "release", "off"} => streams[p] = 0
    BY <1>1 DEF StartupInv, Streams
  <2>2. ASSUME NEW p \in Daemons, NEW q \in Daemons,
               pc[p] = "openStore", HoldsLock(p), store = q, dir[q] = dir[p]
        PROVE  lock[q] # 0 /\ ~HoldsLock(q)
    BY <1>1, <2>2 DEF StartupInv, Stores, StorePoints, Locks, LockPoints,
       HoldsLock, Here
  <2> QED
    BY <2>1, <2>2 DEF ShutdownInOrder
<1> QED
  BY <1>1, StartupInvariant, PTL

=============================================================================
