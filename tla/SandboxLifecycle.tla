-------------------------- MODULE SandboxLifecycle --------------------------
(***************************************************************************)
(* The life cycle of sandboxes in the agboxd daemon (internal/control):    *)
(* the gRPC handlers that accept a request under Service.mu, the           *)
(* goroutines that carry it out around a Docker call made without the      *)
(* lock, the periodic scans, the Docker watcher, and the bbolt store the   *)
(* daemon is rebuilt from after a crash.                                   *)
(*                                                                         *)
(* An action is one critical section of Service.mu, one Docker call or one *)
(* store transaction made outside the lock.  TTLs and windows are not      *)
(* timed: a scan may find any eligible sandbox expired.                    *)
(***************************************************************************)
EXTENDS Naturals, Sequences, FiniteSets

CONSTANTS
    Sandboxes,     \* sandbox ids callers may ask for
    Goroutines,    \* slots for the goroutines alive at one time
    Companions,    \* the sandboxes whose CreateSpec declares a companion
    StoreMayFail   \* whether a bbolt transaction may return an error

ASSUME CompanionsAssumption == Companions \subseteq Sandboxes
ASSUME StoreAssumption == StoreMayFail \in BOOLEAN

VARIABLES
    daemon,             \* "down", "restoring" or "serving"
    boxes,              \* keys of Service.boxes
    state,              \* record.handle.State
    runtimeState,       \* record.runtimeState # nil
    events,             \* record.events
    nextSequence,       \* record.nextSequence
    deletedAtRecorded,  \* record.deletedAtRecorded
    goroutine,          \* the goroutines started by "go"
    purging,            \* ids store.Cleanup removed, still to leave boxes
    sandboxIDs,         \* bucket of reserved sandbox ids
    configs,            \* keys of bucket sandbox-config
    bucket,             \* events bucket of each sandbox, by sequence
    deletedAt,          \* keys of bucket sandbox-deleted-at
    container           \* Docker's state of the primary container

recordVars == <<state, runtimeState, deletedAtRecorded>>
logVars    == <<events, nextSequence, bucket>>
idVars     == <<sandboxIDs, configs>>
vars == <<daemon, boxes, recordVars, logVars, goroutine, purging, idVars,
          deletedAt, container>>

-----------------------------------------------------------------------------
(***************************************************************************)
(* Values                                                                  *)
(***************************************************************************)
SandboxState == {"UNSPECIFIED", "PENDING", "READY", "FAILED", "STOPPED",
                 "DELETING", "DELETED"}

EventType == {"SANDBOX_ACCEPTED", "SANDBOX_PREPARING", "SANDBOX_READY",
              "SANDBOX_FAILED", "SANDBOX_STOP_REQUESTED", "SANDBOX_STOPPED",
              "SANDBOX_DELETE_REQUESTED", "SANDBOX_DELETED",
              "COMPANION_CONTAINER_READY", "COMPANION_CONTAINER_FAILED"}

Event == [seq : Nat \ {0}, type : EventType, st : SandboxState]

\* What appendEventLocked is asked to record: an event without its sequence.
Mutation(type, st) == [type |-> type, st |-> st]

\* "exited" is a container that ended by itself: Docker's unless-stopped
\* policy may start it again, which it never does to a "stopped" one.
ContainerState == {"absent", "stopped", "exited", "running"}

GoFunc == {"completeSandboxCreate", "completeSandboxResume",
           "completeSandboxStop", "completeSandboxDelete",
           "completeCompanionContainerStartup", "stopFailedSandbox"}

\* Where a goroutine is: about to take the lock, about to call the backend,
\* between docker create and docker start, or back with the call's result.
Point == {"start", "backend", "starting", "finish"}

Idle == [fn |-> "none"]

ActiveGoroutine == [fn : GoFunc, sb : Sandboxes, at : Point, err : BOOLEAN]

-----------------------------------------------------------------------------
(***************************************************************************)
(* The event log                                                           *)
(***************************************************************************)
\* Mutant: sequences start at 0.
StampFromZero(n, muts) ==
    [i \in 1..Len(muts) |-> [seq  |-> (n + i) - 1,
                             type |-> muts[i].type,
                             st   |-> muts[i].st]]

\* The events appendEventLocked builds after sequence n.
Stamp(n, muts) ==
    [i \in 1..Len(muts) |-> [seq  |-> n + i,
                             type |-> muts[i].type,
                             st   |-> muts[i].st]]

\* persistentEventStore.Append: Put by sequence, an existing key overwritten.
PutEvents(b, evs) ==
    LET Keys == {evs[i].seq : i \in DOMAIN evs}
    IN  [k \in DOMAIN b \cup Keys |->
            IF k \in Keys THEN evs[CHOOSE i \in DOMAIN evs : evs[i].seq = k]
                          ELSE b[k]]

\* persistentEventStore.LoadEvents: the bucket's values in key order.
LoadEvents(b) ==
    [i \in 1..Cardinality(DOMAIN b) |->
        b[CHOOSE k \in DOMAIN b : Cardinality({j \in DOMAIN b : j < k}) = i - 1]]

\* Mutant: the sequence is not recovered.
MaxSequenceForgotten(b) == 0

\* persistentEventStore.MaxSequence: the last key, 0 for an empty bucket.
MaxSequence(b) ==
    IF DOMAIN b = {} THEN 0
    ELSE CHOOSE k \in DOMAIN b : \A j \in DOMAIN b : j <= k

\* The last state a log carries, as restorePersistedSandboxes scans for it.
PersistedState(log) ==
    LET Carrying == {i \in DOMAIN log : log[i].st # "UNSPECIFIED"}
    IN  IF Carrying = {} THEN "UNSPECIFIED"
        ELSE log[CHOOSE i \in Carrying : \A j \in Carrying : j <= i].st

\* Mutant: the record shows events the store was never given.
RecordEventsUnsaved(s, loaded, n, muts) ==
    /\ events' = [events EXCEPT ![s] = loaded \o Stamp(n, muts)]
    /\ nextSequence' = [nextSequence EXCEPT ![s] = n + Len(muts)]
    /\ UNCHANGED bucket

\* The record of s continues `loaded` after sequence n with muts, each
\* written to the store before the record shows it.
RecordEvents(s, loaded, n, muts) ==
    /\ events' = [events EXCEPT ![s] = loaded \o Stamp(n, muts)]
    /\ nextSequence' = [nextSequence EXCEPT ![s] = n + Len(muts)]
    /\ bucket' = [bucket EXCEPT ![s] = PutEvents(@, Stamp(n, muts))]

appendEventLocked(s, muts) ==
    RecordEvents(s, events[s], nextSequence[s], muts)

\* A loop under one lock that appends the same event to every member of T.
appendEventToAll(T, mut) ==
    /\ events' = [s \in Sandboxes |->
           IF s \in T THEN events[s] \o Stamp(nextSequence[s], <<mut>>)
                      ELSE events[s]]
    /\ nextSequence' = [s \in Sandboxes |->
           IF s \in T THEN nextSequence[s] + 1 ELSE nextSequence[s]]
    /\ bucket' = [s \in Sandboxes |->
           IF s \in T THEN PutEvents(bucket[s], Stamp(nextSequence[s], <<mut>>))
                      ELSE bucket[s]]

-----------------------------------------------------------------------------
(***************************************************************************)
(* Goroutines                                                              *)
(***************************************************************************)
Free == {g \in Goroutines : goroutine[g] = Idle}

NewGoroutine(fn, s) == [fn |-> fn, sb |-> s, at |-> "start", err |-> FALSE]

\* go fn(s)
Go(fn, s) ==
    \E g \in Free : goroutine' = [goroutine EXCEPT ![g] = NewGoroutine(fn, s)]

\* go fn(s) for every s in T
GoAll(fn, T) ==
    \E h \in [T -> Free] :
        /\ \A s, t \in T : h[s] = h[t] => s = t
        /\ goroutine' = [g \in Goroutines |->
               IF \E s \in T : h[s] = g
               THEN NewGoroutine(fn, CHOOSE s \in T : h[s] = g)
               ELSE goroutine[g]]

At(g, fn, at) ==
    /\ goroutine[g] # Idle
    /\ goroutine[g].fn = fn
    /\ goroutine[g].at = at

Exit(g) == goroutine' = [goroutine EXCEPT ![g] = Idle]

MoveTo(g, at, err) ==
    goroutine' = [goroutine EXCEPT ![g] = [@ EXCEPT !.at = at, !.err = err]]

-----------------------------------------------------------------------------
(***************************************************************************)
(* Initial state: nothing stored, the daemon not started.                  *)
(***************************************************************************)
Init ==
    /\ daemon = "down"
    /\ boxes = {}
    /\ state = [s \in Sandboxes |-> "UNSPECIFIED"]
    /\ runtimeState = [s \in Sandboxes |-> FALSE]
    /\ events = [s \in Sandboxes |-> << >>]
    /\ nextSequence = [s \in Sandboxes |-> 0]
    /\ deletedAtRecorded = [s \in Sandboxes |-> FALSE]
    /\ goroutine = [g \in Goroutines |-> Idle]
    /\ purging = {}
    /\ sandboxIDs = {}
    /\ configs = {}
    /\ bucket = [s \in Sandboxes |-> << >>]
    /\ deletedAt = {}
    /\ container = [s \in Sandboxes |-> "absent"]

-----------------------------------------------------------------------------
(***************************************************************************)
(* gRPC handlers                                                           *)
(***************************************************************************)
\* requireSandboxLocked in a daemon that serves requests
Known(s) == daemon = "serving" /\ s \in boxes

CreateSandbox(s) ==
    /\ daemon = "serving"
    /\ s \notin sandboxIDs                        \* allocateSandboxID
    /\ sandboxIDs' = sandboxIDs \cup {s}
    /\ configs' = configs \cup {s}
    /\ RecordEvents(s, << >>, 0, <<Mutation("SANDBOX_ACCEPTED", "PENDING")>>)
    /\ boxes' = boxes \cup {s}
    /\ state' = [state EXCEPT ![s] = "PENDING"]
    /\ runtimeState' = [runtimeState EXCEPT ![s] = FALSE]
    /\ deletedAtRecorded' = [deletedAtRecorded EXCEPT ![s] = FALSE]
    /\ Go("completeSandboxCreate", s)
    /\ UNCHANGED <<daemon, purging, deletedAt, container>>

\* Saving the config or appending SANDBOX_ACCEPTED failed; either undo step,
\* DeleteSandboxConfig or ReleaseSandboxID, may fail as well.
CreateSandboxFails(s) ==
    /\ StoreMayFail
    /\ daemon = "serving"
    /\ s \notin sandboxIDs
    /\ sandboxIDs' \in {sandboxIDs, sandboxIDs \cup {s}}
    /\ configs' \in {configs, configs \cup {s}}
    /\ UNCHANGED <<daemon, boxes, recordVars, logVars, goroutine, purging,
                   deletedAt, container>>

ResumeSandbox(s) ==
    /\ Known(s)
    /\ state[s] = "STOPPED"
    /\ appendEventLocked(s, <<Mutation("SANDBOX_ACCEPTED", "PENDING")>>)
    /\ state' = [state EXCEPT ![s] = "PENDING"]
    /\ Go("completeSandboxResume", s)
    /\ UNCHANGED <<daemon, boxes, runtimeState, deletedAtRecorded, purging,
                   idVars, deletedAt, container>>

StopSandbox(s) ==
    /\ Known(s)
    /\ state[s] = "READY"
    /\ appendEventLocked(s, <<Mutation("SANDBOX_STOP_REQUESTED", "UNSPECIFIED")>>)
    /\ Go("completeSandboxStop", s)
    /\ UNCHANGED <<daemon, boxes, recordVars, purging, idVars, deletedAt,
                   container>>

\* The members of T that beginSandboxDeleteLocked starts to delete.
Deletable(T) == {s \in T : state[s] \notin {"DELETING", "DELETED"}}

beginSandboxDeleteLocked(T) ==
    /\ appendEventToAll(T, Mutation("SANDBOX_DELETE_REQUESTED", "DELETING"))
    /\ state' = [s \in Sandboxes |-> IF s \in T THEN "DELETING" ELSE state[s]]

DeleteSandbox(s) ==
    /\ Known(s)
    /\ \/ /\ state[s] = "DELETED"                 \* repair a lost MarkDeleted
          /\ ~deletedAtRecorded[s]
          /\ deletedAt' = deletedAt \cup {s}
          /\ deletedAtRecorded' = [deletedAtRecorded EXCEPT ![s] = TRUE]
          /\ UNCHANGED <<state, logVars, goroutine>>
       \/ /\ Deletable({s}) = {s}
          /\ beginSandboxDeleteLocked({s})
          /\ Go("completeSandboxDelete", s)
          /\ UNCHANGED <<deletedAt, deletedAtRecorded>>
    /\ UNCHANGED <<daemon, boxes, runtimeState, purging, idVars, container>>

\* T is what the label selector matches.  When an append fails the handler
\* returns at once and no goroutine is started for what it had begun.
DeleteSandboxes(T) ==
    /\ daemon = "serving"
    /\ T \subseteq boxes
    /\ Deletable(T) # {}
    /\ \/ /\ beginSandboxDeleteLocked(Deletable(T))
          /\ GoAll("completeSandboxDelete", Deletable(T))
       \/ /\ StoreMayFail
          /\ \E begun \in SUBSET Deletable(T) \ {Deletable(T)} :
                 beginSandboxDeleteLocked(begun)
          /\ UNCHANGED goroutine
    /\ UNCHANGED <<daemon, boxes, runtimeState, deletedAtRecorded, purging,
                   idVars, deletedAt, container>>

-----------------------------------------------------------------------------
(***************************************************************************)
(* The goroutines' critical sections.  A goroutine that comes back from    *)
(* its backend call settles the sandbox without looking at its state.      *)
(***************************************************************************)
\* Mutant: the handle keeps its state.
SettledSilently(s, muts, st) ==
    /\ appendEventLocked(s, muts)
    /\ UNCHANGED state

\* Append muts and enter st; an append that fails keeps the events before it
\* and leaves the state alone.
Settled(s, muts, st) ==
    /\ appendEventLocked(s, muts)
    /\ state' = [state EXCEPT ![s] = st]

SettleFails(s, muts) ==
    /\ StoreMayFail
    /\ \E k \in 0..(Len(muts) - 1) : appendEventLocked(s, SubSeq(muts, 1, k))
    /\ UNCHANGED state

Settle(s, muts, st) == Settled(s, muts, st) \/ SettleFails(s, muts)

\* The statuses of the companions: complete after a resume, and what has
\* arrived so far, taken without waiting, after a create.
ResumeStatuses(s) ==
    IF s \in Companions
    THEN {<<Mutation("COMPANION_CONTAINER_READY", "PENDING")>>,
          <<Mutation("COMPANION_CONTAINER_FAILED", "PENDING")>>}
    ELSE {<< >>}

DrainedStatuses(s) == {<< >>} \cup ResumeStatuses(s)

CreateStart(g) ==
    /\ At(g, "completeSandboxCreate", "start")
    /\ LET s == goroutine[g].sb IN
       \/ /\ s \in boxes
          /\ state[s] = "PENDING"
          /\ appendEventLocked(s, <<Mutation("SANDBOX_PREPARING", "PENDING")>>)
          /\ MoveTo(g, "backend", FALSE)
       \/ /\ \/ s \notin boxes
             \/ state[s] # "PENDING"
             \/ StoreMayFail                      \* the append failed
          /\ Exit(g)
          /\ UNCHANGED logVars
    /\ UNCHANGED <<daemon, boxes, recordVars, purging, idVars, deletedAt,
                   container>>

CreateFinish(g) ==
    /\ At(g, "completeSandboxCreate", "finish")
    /\ LET s == goroutine[g].sb IN
       \/ /\ s \notin boxes
          /\ container' \in IF goroutine[g].err THEN {container}
                 ELSE {container, [container EXCEPT ![s] = "absent"]}
          /\ Exit(g)
          /\ UNCHANGED <<state, runtimeState, logVars>>
       \/ /\ s \in boxes
          /\ goroutine[g].err
          /\ Settle(s, <<Mutation("SANDBOX_FAILED", "FAILED")>>, "FAILED")
          /\ Exit(g)
          /\ UNCHANGED <<runtimeState, container>>
       \/ /\ s \in boxes
          /\ ~goroutine[g].err
          /\ runtimeState' = [runtimeState EXCEPT ![s] = TRUE]
          /\ \E drained \in DrainedStatuses(s) :
                 LET muts == Append(drained, Mutation("SANDBOX_READY", "READY")) IN
                 \/ /\ Settled(s, muts, "READY")
                    /\ IF s \in Companions /\ drained = << >>
                       THEN goroutine' = [goroutine EXCEPT ![g] =
                                NewGoroutine("completeCompanionContainerStartup", s)]
                       ELSE Exit(g)
                 \/ SettleFails(s, muts) /\ Exit(g)
          /\ UNCHANGED container
    /\ UNCHANGED <<daemon, boxes, deletedAtRecorded, purging, idVars, deletedAt>>

\* One status received late; it is recorded only while the sandbox is READY.
CompanionStartup(g) ==
    /\ At(g, "completeCompanionContainerStartup", "start")
    /\ LET s == goroutine[g].sb IN
       \/ /\ s \in boxes
          /\ state[s] = "READY"
          /\ \E type \in {"COMPANION_CONTAINER_READY", "COMPANION_CONTAINER_FAILED"} :
                 appendEventLocked(s, <<Mutation(type, "READY")>>)
       \/ /\ s \notin boxes \/ state[s] # "READY" \/ StoreMayFail
          /\ UNCHANGED logVars
    /\ Exit(g)
    /\ UNCHANGED <<daemon, boxes, recordVars, purging, idVars, deletedAt,
                   container>>

ResumeStart(g) ==
    /\ At(g, "completeSandboxResume", "start")
    /\ LET s == goroutine[g].sb IN
       IF s \in boxes /\ state[s] = "PENDING"
       THEN MoveTo(g, "backend", FALSE)
       ELSE Exit(g)
    /\ UNCHANGED <<daemon, boxes, recordVars, logVars, purging, idVars,
                   deletedAt, container>>

ResumeFinish(g) ==
    /\ At(g, "completeSandboxResume", "finish")
    /\ LET s == goroutine[g].sb IN
       \/ /\ s \notin boxes
          /\ UNCHANGED <<state, logVars>>
       \/ /\ s \in boxes
          /\ goroutine[g].err
          /\ Settle(s, <<Mutation("SANDBOX_FAILED", "FAILED")>>, "FAILED")
       \/ /\ s \in boxes
          /\ ~goroutine[g].err
          /\ \E statuses \in ResumeStatuses(s) :
                 Settle(s, Append(statuses, Mutation("SANDBOX_READY", "READY")),
                        "READY")
    /\ Exit(g)
    /\ UNCHANGED <<daemon, boxes, runtimeState, deletedAtRecorded, purging,
                   idVars, deletedAt, container>>

StopStart(g) ==
    /\ At(g, "completeSandboxStop", "start")
    /\ LET s == goroutine[g].sb IN
       IF s \in boxes /\ state[s] # "DELETED"
       THEN MoveTo(g, "backend", FALSE)
       ELSE Exit(g)
    /\ UNCHANGED <<daemon, boxes, recordVars, logVars, purging, idVars,
                   deletedAt, container>>

StopFinish(g) ==
    /\ At(g, "completeSandboxStop", "finish")
    /\ LET s == goroutine[g].sb IN
       \/ /\ s \notin boxes
          /\ UNCHANGED <<state, logVars>>
       \/ /\ s \in boxes
          /\ goroutine[g].err
          /\ Settle(s, <<Mutation("SANDBOX_FAILED", "FAILED")>>, "FAILED")
       \/ /\ s \in boxes
          /\ ~goroutine[g].err
          /\ Settle(s, <<Mutation("SANDBOX_STOPPED", "STOPPED")>>, "STOPPED")
    /\ Exit(g)
    /\ UNCHANGED <<daemon, boxes, runtimeState, deletedAtRecorded, purging,
                   idVars, deletedAt, container>>

DeleteStart(g) ==
    /\ At(g, "completeSandboxDelete", "start")
    /\ IF goroutine[g].sb \in boxes THEN MoveTo(g, "backend", FALSE) ELSE Exit(g)
    /\ UNCHANGED <<daemon, boxes, recordVars, logVars, purging, idVars,
                   deletedAt, container>>

DeletedMutation == <<Mutation("SANDBOX_DELETED", "DELETED")>>

DeleteFinish(g) ==
    /\ At(g, "completeSandboxDelete", "finish")
    /\ LET s == goroutine[g].sb IN
       \/ /\ s \notin boxes
          /\ UNCHANGED <<state, deletedAtRecorded, logVars, deletedAt>>
       \/ /\ s \in boxes
          /\ goroutine[g].err
          /\ Settle(s, <<Mutation("SANDBOX_FAILED", "FAILED")>>, "FAILED")
          /\ UNCHANGED <<deletedAtRecorded, deletedAt>>
       \/ /\ s \in boxes
          /\ ~goroutine[g].err
          /\ appendEventLocked(s, DeletedMutation)
          /\ \/ /\ state' = [state EXCEPT ![s] = "DELETED"]
                /\ deletedAtRecorded' = [deletedAtRecorded EXCEPT ![s] = TRUE]
                /\ deletedAt' = deletedAt \cup {s}
             \/ /\ StoreMayFail                   \* MarkDeleted failed
                /\ UNCHANGED <<state, deletedAtRecorded, deletedAt>>
       \/ /\ s \in boxes
          /\ ~goroutine[g].err
          /\ StoreMayFail                         \* the append failed
          /\ UNCHANGED <<state, deletedAtRecorded, logVars, deletedAt>>
    /\ Exit(g)
    /\ UNCHANGED <<daemon, boxes, runtimeState, purging, idVars, container>>

-----------------------------------------------------------------------------
(***************************************************************************)
(* Backend calls, made without Service.mu.  They reach the record through  *)
(* a pointer, which stays valid when the sandbox leaves Service.boxes.     *)
(***************************************************************************)
\* Everything up to docker create; a failure leaves no primary container.
BackendCreate(g) ==
    /\ At(g, "completeSandboxCreate", "backend")
    /\ LET s == goroutine[g].sb IN
       \/ /\ container[s] = "absent"
          /\ container' = [container EXCEPT ![s] = "stopped"]
          /\ MoveTo(g, "starting", FALSE)
       \/ /\ MoveTo(g, "finish", TRUE)
          /\ UNCHANGED container
    /\ UNCHANGED <<daemon, boxes, recordVars, logVars, purging, idVars, deletedAt>>

\* docker start and the wait for it to run; on failure the deferred cleanup
\* removes the container, and the cleanup's own error is ignored.
BackendStart(g) ==
    /\ At(g, "completeSandboxCreate", "starting")
    /\ LET s == goroutine[g].sb IN
       \/ /\ container[s] # "absent"
          /\ container' = [container EXCEPT ![s] = "running"]
          /\ \E err \in BOOLEAN : MoveTo(g, "finish", err)
       \/ /\ container' \in {container, [container EXCEPT ![s] = "absent"]}
          /\ MoveTo(g, "finish", TRUE)
    /\ UNCHANGED <<daemon, boxes, recordVars, logVars, purging, idVars, deletedAt>>

\* Mutant: a container that is gone is waited for.
BackendResumePatient(g) ==
    /\ At(g, "completeSandboxResume", "backend")
    /\ container[goroutine[g].sb] # "absent"
    /\ container' = [container EXCEPT ![goroutine[g].sb] = "running"]
    /\ \E err \in BOOLEAN : MoveTo(g, "finish", err)
    /\ UNCHANGED <<daemon, boxes, recordVars, logVars, purging, idVars, deletedAt>>

BackendResume(g) ==
    /\ At(g, "completeSandboxResume", "backend")
    /\ LET s == goroutine[g].sb IN
       \/ /\ runtimeState[s]
          /\ container[s] # "absent"              \* dockerContainerMustExist
          /\ container' = [container EXCEPT ![s] = "running"]
          /\ \E err \in BOOLEAN : MoveTo(g, "finish", err)
       \/ /\ MoveTo(g, "finish", TRUE)
          /\ UNCHANGED container
    /\ UNCHANGED <<daemon, boxes, recordVars, logVars, purging, idVars, deletedAt>>

\* docker stop; dockerContainerStop does nothing unless the container runs.
StopContainer(s) ==
    container' = IF container[s] = "running"
                 THEN [container EXCEPT ![s] = "stopped"] ELSE container

BackendStop(g) ==
    /\ At(g, "completeSandboxStop", "backend")
    /\ LET s == goroutine[g].sb IN
       \/ /\ runtimeState[s]
          /\ StopContainer(s)
          /\ \E err \in BOOLEAN : MoveTo(g, "finish", err)
       \/ /\ MoveTo(g, "finish", TRUE)
          /\ UNCHANGED container
    /\ UNCHANGED <<daemon, boxes, recordVars, logVars, purging, idVars, deletedAt>>

\* The best-effort stop after applyPrimaryFailed: its error is only logged.
StopFailedSandbox(g) ==
    /\ At(g, "stopFailedSandbox", "start")
    /\ LET s == goroutine[g].sb IN
       \/ runtimeState[s] /\ StopContainer(s)
       \/ UNCHANGED container
    /\ Exit(g)
    /\ UNCHANGED <<daemon, boxes, recordVars, logVars, purging, idVars, deletedAt>>

\* Mutant: the deletion waits until the container has stopped.
BackendDeletePatient(g) ==
    /\ At(g, "completeSandboxDelete", "backend")
    /\ container[goroutine[g].sb] # "running"
    /\ container' = [container EXCEPT ![goroutine[g].sb] = "absent"]
    /\ \E err \in BOOLEAN : MoveTo(g, "finish", err)
    /\ UNCHANGED <<daemon, boxes, recordVars, logVars, purging, idVars, deletedAt>>

\* Without a runtimeState there is nothing to delete and no error; an error
\* may come before or after the container is gone.
BackendDelete(g) ==
    /\ At(g, "completeSandboxDelete", "backend")
    /\ LET s == goroutine[g].sb IN
       \/ /\ ~runtimeState[s]
          /\ MoveTo(g, "finish", FALSE)
          /\ UNCHANGED container
       \/ /\ runtimeState[s]
          /\ container' = [container EXCEPT ![s] = "absent"]
          /\ \E err \in BOOLEAN : MoveTo(g, "finish", err)
       \/ /\ runtimeState[s]
          /\ MoveTo(g, "finish", TRUE)
          /\ UNCHANGED container
    /\ UNCHANGED <<daemon, boxes, recordVars, logVars, purging, idVars, deletedAt>>

\* RunExec finds the primary container not running and starts it, whatever
\* the state of the sandbox.  Module Execs says which commands get here.
dockerContainerEnsureRunning(s) ==
    /\ daemon = "serving"
    /\ runtimeState[s]
    /\ container[s] \in {"stopped", "exited"}
    /\ container' = [container EXCEPT ![s] = "running"]
    /\ UNCHANGED <<daemon, boxes, recordVars, logVars, goroutine, purging,
                   idVars, deletedAt>>

-----------------------------------------------------------------------------
(***************************************************************************)
(* cleanupLoop and the Docker watcher                                      *)
(***************************************************************************)
\* T are the READY sandboxes found idle for longer than their TTL.
idleScanAndStop(T) ==
    /\ daemon = "serving"
    /\ T # {}
    /\ T \subseteq {s \in boxes : state[s] = "READY"}
    /\ appendEventToAll(T, Mutation("SANDBOX_STOP_REQUESTED", "UNSPECIFIED"))
    /\ GoAll("completeSandboxStop", T)
    /\ UNCHANGED <<daemon, boxes, recordVars, purging, idVars, deletedAt,
                   container>>

\* T are the STOPPED sandboxes whose SANDBOX_STOPPED event is too old.
cleanupStoppedSandboxes(T) ==
    /\ daemon = "serving"
    /\ T # {}
    /\ T \subseteq {s \in boxes : /\ state[s] = "STOPPED"
                                  /\ \E i \in DOMAIN events[s] :
                                        events[s][i].type = "SANDBOX_STOPPED"}
    /\ beginSandboxDeleteLocked(T)
    /\ GoAll("completeSandboxDelete", T)
    /\ UNCHANGED <<daemon, boxes, runtimeState, deletedAtRecorded, purging,
                   idVars, deletedAt, container>>

\* Mutant: the ids of forgotten sandboxes are released.
CleanupReleasing(T) ==
    /\ daemon = "serving"
    /\ purging = {}
    /\ T # {}
    /\ T \subseteq deletedAt
    /\ bucket' = [s \in Sandboxes |-> IF s \in T THEN << >> ELSE bucket[s]]
    /\ configs' = configs \ T
    /\ sandboxIDs' = sandboxIDs \ T
    /\ deletedAt' = deletedAt \ T
    /\ purging' = T
    /\ UNCHANGED <<daemon, boxes, recordVars, events, nextSequence, goroutine,
                   container>>

\* store.Cleanup: one transaction, made without Service.mu, that forgets
\* every sandbox whose deletion is older than CleanupTTL.
Cleanup(T) ==
    /\ daemon = "serving"
    /\ purging = {}
    /\ T # {}
    /\ T \subseteq deletedAt
    /\ bucket' = [s \in Sandboxes |-> IF s \in T THEN << >> ELSE bucket[s]]
    /\ configs' = configs \ T
    /\ deletedAt' = deletedAt \ T
    /\ purging' = T
    /\ UNCHANGED <<daemon, boxes, recordVars, events, nextSequence, goroutine,
                   sandboxIDs, container>>

\* The second half of cleanupExpiredEvents, under Service.mu.
DropPurged ==
    /\ purging # {}
    /\ boxes' = boxes \ purging
    /\ purging' = {}
    /\ UNCHANGED <<daemon, recordVars, logVars, goroutine, idVars, deletedAt,
                   container>>

\* reconcileAll or handleEvent finds the primaries of T missing, or not
\* running for longer than the window.
applyPrimaryFailed(T) ==
    /\ daemon = "serving"
    /\ T # {}
    /\ T \subseteq {s \in boxes : /\ state[s] = "READY"
                                  /\ runtimeState[s]
                                  /\ container[s] # "running"}
    /\ appendEventToAll(T, Mutation("SANDBOX_FAILED", "FAILED"))
    /\ state' = [s \in Sandboxes |-> IF s \in T THEN "FAILED" ELSE state[s]]
    /\ GoAll("stopFailedSandbox", T)
    /\ UNCHANGED <<daemon, boxes, runtimeState, deletedAtRecorded, purging,
                   idVars, deletedAt, container>>

\* The same scan finds a companion of s failed.
ReportCompanionFailed(s) ==
    /\ Known(s)
    /\ s \in Companions
    /\ state[s] = "READY"
    /\ runtimeState[s]
    /\ appendEventLocked(s, <<Mutation("COMPANION_CONTAINER_FAILED", "READY")>>)
    /\ UNCHANGED <<daemon, boxes, recordVars, goroutine, purging, idVars,
                   deletedAt, container>>

-----------------------------------------------------------------------------
(***************************************************************************)
(* Crash and restart                                                       *)
(***************************************************************************)
\* The process ends: what was in memory is gone.
LoseMemory ==
    /\ daemon' = "down"
    /\ boxes' = {}
    /\ state' = [s \in Sandboxes |-> "UNSPECIFIED"]
    /\ runtimeState' = [s \in Sandboxes |-> FALSE]
    /\ events' = [s \in Sandboxes |-> << >>]
    /\ nextSequence' = [s \in Sandboxes |-> 0]
    /\ deletedAtRecorded' = [s \in Sandboxes |-> FALSE]
    /\ goroutine' = [g \in Goroutines |-> Idle]
    /\ purging' = {}

Crash ==
    /\ daemon # "down"
    /\ LoseMemory
    /\ UNCHANGED <<idVars, bucket, deletedAt, container>>

\* A crash inside CreateSandbox: the id is reserved, the config perhaps saved.
CrashInCreateSandbox(s) ==
    /\ daemon = "serving"
    /\ s \notin sandboxIDs
    /\ LoseMemory
    /\ sandboxIDs' = sandboxIDs \cup {s}
    /\ configs' \in {configs, configs \cup {s}}
    /\ UNCHANGED <<bucket, deletedAt, container>>

\* A crash inside DeleteFinish, after SANDBOX_DELETED and before MarkDeleted.
CrashInDeleteFinish(g) ==
    /\ At(g, "completeSandboxDelete", "finish")
    /\ ~goroutine[g].err
    /\ LET s == goroutine[g].sb IN
       /\ s \in boxes
       /\ bucket' = [bucket EXCEPT ![s] =
              PutEvents(@, Stamp(nextSequence[s], DeletedMutation))]
    /\ LoseMemory
    /\ UNCHANGED <<idVars, deletedAt, container>>

\* A crash inside CreateFinish or ResumeFinish, between the companion's
\* event and SANDBOX_READY.
CrashBeforeReady(g) ==
    /\ \E fn \in {"completeSandboxCreate", "completeSandboxResume"} :
           At(g, fn, "finish")
    /\ ~goroutine[g].err
    /\ LET s == goroutine[g].sb IN
       /\ s \in boxes \cap Companions
       /\ \E status \in ResumeStatuses(s) :
              bucket' = [bucket EXCEPT ![s] =
                             PutEvents(@, Stamp(nextSequence[s], status))]
    /\ LoseMemory
    /\ UNCHANGED <<idVars, deletedAt, container>>

Startup ==
    /\ daemon = "down"
    /\ daemon' = "restoring"
    /\ UNCHANGED <<boxes, recordVars, logVars, goroutine, purging, idVars,
                   deletedAt, container>>

\* Mutant: an interrupted create or resume is restored as it was.
ReconciledStatePending(persisted, exists) ==
    CASE persisted = "DELETING"                        -> "DELETED"
      [] persisted \in {"READY", "STOPPED"} /\ ~exists -> "FAILED"
      [] OTHER                                         -> persisted

\* What restorePersistedSandboxes makes of a persisted state, given whether
\* docker inspect finds the primary container.
ReconciledState(persisted, exists) ==
    CASE persisted = "PENDING"                         -> "FAILED"
      [] persisted = "DELETING"                        -> "DELETED"
      [] persisted \in {"READY", "STOPPED"} /\ ~exists -> "FAILED"
      [] OTHER                                         -> persisted

\* Mutant: an interrupted deletion is finished without its event.
RestoreMutationsSilent(persisted, reconciled) ==
    IF persisted = reconciled \/ reconciled = "DELETED" THEN << >>
    ELSE <<Mutation("SANDBOX_FAILED", "FAILED")>>

\* The event a reconciliation that changes the state appends.
RestoreMutations(persisted, reconciled) ==
    IF persisted = reconciled THEN << >>
    ELSE IF reconciled = "DELETED" THEN DeletedMutation
    ELSE <<Mutation("SANDBOX_FAILED", "FAILED")>>

\* Mutant: only FAILED sandboxes get a runtime state.
RestoredRuntimeStateFailed(persisted, reconciled) == reconciled = "FAILED"

\* Whether the restored record has the runtime state rebuilt from its names.
RestoredRuntimeState(persisted, reconciled) ==
    /\ reconciled # "DELETED"
    /\ persisted # "PENDING"
    /\ ~(persisted = "STOPPED" /\ reconciled = "FAILED")

Restorable == {s \in configs : DOMAIN bucket[s] # {}}

\* One iteration of restorePersistedSandboxes.
Restore(s) ==
    /\ daemon = "restoring"
    /\ s \in Restorable \ boxes
    /\ LET loaded     == LoadEvents(bucket[s])
           persisted  == PersistedState(loaded)
           reconciled == ReconciledState(persisted, container[s] # "absent")
       IN  /\ persisted # "UNSPECIFIED"
           /\ RecordEvents(s, loaded, MaxSequence(bucket[s]),
                           RestoreMutations(persisted, reconciled))
           /\ state' = [state EXCEPT ![s] = reconciled]
           /\ runtimeState' = [runtimeState EXCEPT ![s] =
                  RestoredRuntimeState(persisted, reconciled)]
           /\ deletedAtRecorded' = [deletedAtRecorded EXCEPT ![s] =
                  s \in deletedAt \/ persisted = "DELETING"]
           /\ deletedAt' = IF persisted = "DELETING" THEN deletedAt \cup {s}
                                                     ELSE deletedAt
           /\ container' \in IF persisted = "DELETING"
                             THEN {container, [container EXCEPT ![s] = "absent"]}
                             ELSE {container}
    /\ boxes' = boxes \cup {s}
    /\ UNCHANGED <<daemon, goroutine, purging, idVars>>

\* MarkDeleted fails, or the process ends before it, in a restore that has
\* just appended SANDBOX_DELETED: startup is abandoned.
RestoreAborts(s) ==
    /\ daemon = "restoring"
    /\ s \in Restorable \ boxes
    /\ PersistedState(LoadEvents(bucket[s])) = "DELETING"
    /\ bucket' = [bucket EXCEPT ![s] =
           PutEvents(@, Stamp(MaxSequence(@), DeletedMutation))]
    /\ LoseMemory
    /\ UNCHANGED <<idVars, deletedAt, container>>

Serve ==
    /\ daemon = "restoring"
    /\ Restorable \subseteq boxes
    /\ daemon' = "serving"
    /\ UNCHANGED <<boxes, recordVars, logVars, goroutine, purging, idVars,
                   deletedAt, container>>

-----------------------------------------------------------------------------
(***************************************************************************)
(* Docker and its user (external)                                          *)
(***************************************************************************)
SetContainer(s, from, to) ==
    /\ container[s] \in from
    /\ container' = [container EXCEPT ![s] = to]
    /\ UNCHANGED <<daemon, boxes, recordVars, logVars, goroutine, purging,
                   idVars, deletedAt>>

ContainerExits(s)   == SetContainer(s, {"running"}, "exited")
ContainerRestarts(s) == SetContainer(s, {"exited"}, "running")
ContainerRemoved(s) == SetContainer(s, {"stopped", "exited"}, "absent")

-----------------------------------------------------------------------------
GoroutineStep(g) ==
    \/ CreateStart(g) \/ BackendCreate(g) \/ BackendStart(g) \/ CreateFinish(g)
    \/ CompanionStartup(g)
    \/ ResumeStart(g) \/ BackendResume(g) \/ ResumeFinish(g)
    \/ StopStart(g) \/ BackendStop(g) \/ StopFinish(g) \/ StopFailedSandbox(g)
    \/ DeleteStart(g) \/ BackendDelete(g) \/ DeleteFinish(g)

\* What starts new work on the sandboxes of T, apart from the idle scan.
Request(T) ==
    \/ \E s \in T : \/ CreateSandbox(s) \/ CreateSandboxFails(s)
                    \/ ResumeSandbox(s) \/ StopSandbox(s) \/ DeleteSandbox(s)
                    \/ ReportCompanionFailed(s)
    \/ DeleteSandboxes(T) \/ cleanupStoppedSandboxes(T) \/ applyPrimaryFailed(T)

CrashStep ==
    \/ Crash
    \/ \E s \in Sandboxes : CrashInCreateSandbox(s) \/ RestoreAborts(s)
    \/ \E g \in Goroutines : CrashInDeleteFinish(g) \/ CrashBeforeReady(g)

DockerStep ==
    \E s \in Sandboxes :
        ContainerExits(s) \/ ContainerRestarts(s) \/ ContainerRemoved(s)

RestartStep == Startup \/ Serve \/ \E s \in Sandboxes : Restore(s)

Next ==
    \/ \E g \in Goroutines : GoroutineStep(g)
    \/ \E T \in SUBSET Sandboxes : Request(T) \/ idleScanAndStop(T) \/ Cleanup(T)
    \/ DropPurged
    \/ \E s \in Sandboxes : dockerContainerEnsureRunning(s)
    \/ CrashStep
    \/ RestartStep
    \/ DockerStep

Spec == Init /\ [][Next]_vars

-----------------------------------------------------------------------------
(***************************************************************************)
(* Fairness: a goroutine that can run does, and Docker answers its call.   *)
(* Requests, scans, crashes, restarts and what Docker does by itself are   *)
(* never forced.                                                           *)
(***************************************************************************)
Fairness == \A g \in Goroutines : WF_vars(GoroutineStep(g))

FairSpec == Spec /\ Fairness

-----------------------------------------------------------------------------
(***************************************************************************)
(* Properties                                                              *)
(***************************************************************************)
\* Every variable has its type; every event stored or shown is well formed.
TypeOK ==
    /\ daemon \in {"down", "restoring", "serving"}
    /\ boxes \subseteq Sandboxes
    /\ state \in [Sandboxes -> SandboxState]
    /\ runtimeState \in [Sandboxes -> BOOLEAN]
    /\ events \in [Sandboxes -> Seq(Event)]
    /\ nextSequence \in [Sandboxes -> Nat]
    /\ deletedAtRecorded \in [Sandboxes -> BOOLEAN]
    /\ goroutine \in [Goroutines -> ActiveGoroutine \cup {Idle}]
    /\ purging \subseteq Sandboxes
    /\ sandboxIDs \subseteq Sandboxes
    /\ configs \subseteq Sandboxes
    /\ bucket = [s \in Sandboxes |-> bucket[s]]
    /\ \A s \in Sandboxes : /\ DOMAIN bucket[s] \subseteq Nat \ {0}
                            /\ \A k \in DOMAIN bucket[s] : bucket[s][k] \in Event
    /\ deletedAt \subseteq Sandboxes
    /\ container \in [Sandboxes -> ContainerState]

\* A log whose sequences are 1, 2, 3, ... without a gap or a repeat.
Contiguous(log) ==
    /\ log \in Seq(Event)
    /\ \A i \in DOMAIN log : log[i].seq = i

\* The history of a sandbox is the same in memory and in the store, and its
\* sequences are contiguous: appendEventLocked writes the store before the
\* record, and a restore continues after MaxSequence.  A sandbox whose store
\* entry is gone is one that cleanupExpiredEvents is about to drop.
LogDurable ==
    /\ \A s \in configs : Contiguous(bucket[s])
    /\ \A s \in boxes : IF s \in configs
                        THEN /\ events[s] = bucket[s]
                             /\ nextSequence[s] = Len(events[s])
                        ELSE s \in purging

\* As long as the store works, the state GetSandbox answers with is the one
\* a restart would recover from the events.
StateFollowsLog ==
    StoreMayFail \/ \A s \in boxes : state[s] = PersistedState(events[s])

RunsFor(fns, s) ==
    \E g \in Goroutines : /\ goroutine[g] # Idle
                          /\ goroutine[g].fn \in fns
                          /\ goroutine[g].sb = s

DeletingHasWorker ==
    \A s \in boxes : state[s] = "DELETING" => RunsFor({"completeSandboxDelete"}, s)

PendingHasWorker ==
    \A s \in boxes : state[s] = "PENDING" =>
        RunsFor({"completeSandboxCreate", "completeSandboxResume"}, s)

\* As long as the store works, a sandbox in a transient state has a goroutine
\* that will take it out of it, also after a restart and whatever other
\* goroutines of the same sandbox did in between.
TransientHasWorker == StoreMayFail \/ (DeletingHasWorker /\ PendingHasWorker)

\* A sandbox that may be stopped, resumed or run commands in has the runtime
\* state without which the backend refuses all three.
UsableHasRuntimeState ==
    \A s \in boxes : state[s] \in {"READY", "STOPPED"} => runtimeState[s]

\* History is marked for removal only once SANDBOX_DELETED is part of it.
MarkedOnlyAfterDeleted ==
    \A s \in deletedAt \cap configs :
        \E k \in DOMAIN bucket[s] : bucket[s][k].type = "SANDBOX_DELETED"

\* What was accepted ends: a deletion in DELETED or FAILED, and a create or
\* resume does not stay PENDING.
AcceptedEnds ==
    \A s \in Sandboxes :
        /\ (Known(s) /\ state[s] = "DELETING")
               ~> (~Known(s) \/ state[s] \in {"DELETED", "FAILED"})
        /\ (Known(s) /\ state[s] = "PENDING") ~> (~Known(s) \/ state[s] # "PENDING")

\* Deleted is the last state of the life cycle diagram.
DeletedIsFinal ==
    [][\A s \in boxes \cap boxes' : state[s] = "DELETED" => state'[s] = "DELETED"]_vars

\* A deletion publishes SANDBOX_DELETED after the containers are removed.
\* Not kept when a restart finishes the deletion (README, seen without a run).
DeletedHasNoContainer ==
    \A s \in boxes : state[s] = "DELETED" => container[s] = "absent"

-----------------------------------------------------------------------------
(***************************************************************************)
(* The store implements EventLog.  The history of a sandbox is its bucket  *)
(* as long as its config is stored; a reserved id without a config is      *)
(* retired, because reserve refuses it and nothing releases it.            *)
(***************************************************************************)
StoredLog == [s \in Sandboxes |-> IF s \in configs THEN bucket[s] ELSE << >>]

Log == INSTANCE EventLog WITH Events  <- Event,
                              log     <- StoredLog,
                              retired <- sandboxIDs \ configs

\* Every behaviour of the daemon, its crashes and failed writes included, is
\* one of the append-only event log that SubscribeSandboxEvents documents.
ImplementsEventLog == Log!LogSpec

=============================================================================
