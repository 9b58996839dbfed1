----------------------------- MODULE EventStream -----------------------------
(***************************************************************************)
(* Waiting for a sandbox: the calls of the SDKs (sdk/go, sdk/python) and   *)
(* of the agbox command that ask for an operation, read a baseline, and    *)
(* follow SubscribeSandboxEvents until the sandbox is where they want it.  *)
(* The daemon is SandboxLifecycle; its steps are steps of this module, and *)
(* a crash also breaks the streams.                                        *)
(*                                                                         *)
(* No caller in the repository asks for the current snapshot, so that part *)
(* of SubscribeSandboxEvents is left out.                                  *)
(***************************************************************************)
EXTENDS SandboxLifecycle, Integers

CONSTANTS
    Clients,    \* the calls that wait at one time
    Calls       \* what they may be: see AllCalls

\* by: the SDKs' wait, the command's, or the clean-up of an agent session.
AllCalls ==
    [by : {"sdk", "cli"}, op : {"create", "resume", "stop", "delete"}]
        \cup {[by |-> "session", op |-> "delete"]}

ASSUME CallsAssumption == Calls \subseteq AllCalls

VARIABLE client    \* each call and its event stream

streamVars == <<vars, client>>

-----------------------------------------------------------------------------
(***************************************************************************)
(* Values                                                                  *)
(***************************************************************************)
\* About to read the baseline, to subscribe, to receive an event, or to
\* read the state again because of one.
WaitPoint == {"baseline", "subscribe", "waiting", "reread"}

\* "expired" is the OUT_OF_RANGE of validateSequenceNotExpired.
Outcome == {"reached", "failed", "expired", "error"}

NoCall == [at |-> "none"]

\* accepted: sequence when the request was accepted; from: sequence the
\* subscription starts after; link: the stream as the client will find it;
\* sent: SubscribeSandboxEvents' own nextSequence; inbox: sent, not received.
ClientCall ==
    [at : WaitPoint, call : Calls, sb : Sandboxes, accepted : Nat, from : Nat,
     link : {"none", "open", "ended", "broken"}, sent : Nat, inbox : Seq(Event)]

Ended == [at : Outcome]

Waiting(c) == client[c].at \in WaitPoint

Target(op) ==
    CASE op \in {"create", "resume"} -> "READY"
      [] op = "stop"                 -> "STOPPED"
      [] op = "delete"               -> "DELETED"

\* The states at which each wait gives up.
raiseForFailedSandbox == {"FAILED"}
waitForSandboxReady   == {"FAILED", "STOPPED", "DELETED"}
classifyResumed       == {"FAILED", "DELETED"}
classifyStopped       == {"FAILED", "DELETED"}
classifyDeleted       == {}
deleteAndWait         == {"FAILED"}

GivesUpAt(call) ==
    CASE call.by = "sdk"     -> raiseForFailedSandbox
      [] call.by = "session" -> deleteAndWait
      [] call.by = "cli"     -> CASE call.op = "create" -> waitForSandboxReady
                                  [] call.op = "resume" -> classifyResumed
                                  [] call.op = "stop"   -> classifyStopped
                                  [] call.op = "delete" -> classifyDeleted

\* What a call makes of a state: it is over, or it is "waiting" on.
Verdict(call, st) ==
    CASE st = Target(call.op)     -> "reached"
      [] st \in GivesUpAt(call)   -> "failed"
      [] OTHER                    -> "waiting"

-----------------------------------------------------------------------------
(***************************************************************************)
(* The daemon's side of a stream                                           *)
(***************************************************************************)
\* Mutant: the whole history is replayed.
eventsAfterAll(log, n) == log

\* The events after sequence n, in the order of the log: the positions that
\* qualify, closed up in the way LoadEvents lists the keys of a bucket.
eventsAfter(log, n) ==
    LoadEvents([i \in {k \in DOMAIN log : log[k].seq > n} |-> log[i]])

\* Mutant: the newest sequence is taken for one that is not retained.
validateSequenceNotExpiredStrict(s, n) == n < nextSequence[s]

validateSequenceNotExpired(s, n) == n <= nextSequence[s]

\* What the record has after sequence `after` is on its way to the client.
Send(c, s, after) ==
    LET new == eventsAfter(events[s], after)
    IN  [client[c] EXCEPT !.inbox = @ \o new,
                          !.sent  = IF new = << >> THEN after ELSE new[Len(new)].seq]

Set(c, rec) == client' = [client EXCEPT ![c] = rec]

End(c, outcome) == Set(c, [at |-> outcome])

\* State st ends the call or lets it go on as `rest`.
Decide(c, st, rest) ==
    LET v == Verdict(client[c].call, st)
    IN  IF v = "waiting" THEN Set(c, rest) ELSE End(c, v)

\* One tick of SubscribeSandboxEvents: what is new is sent; a record no
\* longer in boxes is drained and the stream ends.
Poll(c) ==
    /\ Waiting(c)
    /\ client[c].link = "open"
    /\ daemon = "serving"
    /\ LET s == client[c].sb IN
       \/ /\ s \notin boxes
          /\ Set(c, [Send(c, s, client[c].sent) EXCEPT !.link = "ended"])
       \/ /\ s \in boxes
          /\ IF validateSequenceNotExpired(s, client[c].sent)
             THEN /\ eventsAfter(events[s], client[c].sent) # << >>
                  /\ Set(c, Send(c, s, client[c].sent))
             ELSE End(c, "expired")
    /\ UNCHANGED vars

-----------------------------------------------------------------------------
(***************************************************************************)
(* The client's side                                                       *)
(***************************************************************************)
StreamInit == Init /\ client = [c \in Clients |-> NoCall]

\* DeleteSandbox acknowledges a deletion under way or done.
DeleteAcknowledged(s) ==
    /\ Known(s)
    /\ \/ state[s] = "DELETING"
       \/ state[s] = "DELETED" /\ deletedAtRecorded[s]
    /\ UNCHANGED vars

Requested(op, s) ==
    \/ op = "create" /\ CreateSandbox(s)
    \/ op = "resume" /\ ResumeSandbox(s)
    \/ op = "stop" /\ StopSandbox(s)
    \/ op = "delete" /\ (DeleteSandbox(s) \/ DeleteAcknowledged(s))

\* The request is accepted.  The SDKs take the handle in CreateSandbox's
\* response for their baseline; every other wait reads one.
Call(c, call, s) ==
    /\ client[c] = NoCall
    /\ Requested(call.op, s)
    /\ Set(c, [at       |-> IF call = [by |-> "sdk", op |-> "create"]
                            THEN "subscribe" ELSE "baseline",
               call     |-> call,
               sb       |-> s,
               accepted |-> nextSequence'[s],
               from     |-> nextSequence'[s],
               link     |-> "none",
               sent     |-> 0,
               inbox    |-> << >>])

\* GetSandbox: state and LastEventSequence under one lock.
Baseline(c) ==
    /\ client[c].at = "baseline"
    /\ LET s == client[c].sb IN
       IF Known(s)
       THEN Decide(c, state[s], [client[c] EXCEPT !.at = "subscribe",
                                                 !.from = nextSequence[s]])
       ELSE End(c, "error")
    /\ UNCHANGED vars

\* Mutant: the subscription starts from where the log is now.
SubscribeFromNow(c) ==
    /\ client[c].at = "subscribe"
    /\ LET s == client[c].sb IN
       IF ~Known(s) THEN End(c, "error")
       ELSE Set(c, [Send(c, s, nextSequence[s])
                       EXCEPT !.at = "waiting", !.link = "open"])
    /\ UNCHANGED vars

\* SubscribeSandboxEvents up to its loop.
Subscribe(c) ==
    /\ client[c].at = "subscribe"
    /\ LET s == client[c].sb IN
       IF ~Known(s) THEN End(c, "error")
       ELSE IF ~validateSequenceNotExpired(s, client[c].from) THEN End(c, "expired")
       ELSE Set(c, [Send(c, s, client[c].from)
                       EXCEPT !.at = "waiting", !.link = "open"])
    /\ UNCHANGED vars

\* The next event of the stream, and the call without it.
Arrives(c) == client[c].at = "waiting" /\ client[c].inbox # << >>

Received(c) == [client[c] EXCEPT !.inbox = Tail(@)]

\* The SDKs take an event after the baseline as a reason to read the state
\* again.
ReceiveSDK(c) ==
    /\ Arrives(c)
    /\ client[c].call.by = "sdk"
    /\ Set(c, [Received(c) EXCEPT
                  !.at = IF Head(client[c].inbox).seq <= client[c].from
                         THEN "waiting" ELSE "reread"])
    /\ UNCHANGED vars

\* The command and a session judge the state the event carries.
ReceiveCLI(c) ==
    /\ Arrives(c)
    /\ client[c].call.by # "sdk"
    /\ Decide(c, Head(client[c].inbox).st, Received(c))
    /\ UNCHANGED vars

\* GetSandbox after an event.
Reread(c) ==
    /\ client[c].at = "reread"
    /\ IF Known(client[c].sb)
       THEN Decide(c, state[client[c].sb], [client[c] EXCEPT !.at = "waiting"])
       ELSE End(c, "error")
    /\ UNCHANGED vars

\* Mutant: a broken stream is taken for a quiet one.
StreamOverPatient(c) ==
    /\ client[c].at = "waiting"
    /\ client[c].link = "ended"
    /\ client[c].inbox = << >>
    /\ End(c, "error")
    /\ UNCHANGED vars

\* Recv finds the stream at its end or, with or without what was still on
\* its way, broken; no caller subscribes again.
StreamOver(c) ==
    /\ client[c].at = "waiting"
    /\ \/ client[c].link = "broken"
       \/ client[c].link = "ended" /\ client[c].inbox = << >>
    /\ End(c, "error")
    /\ UNCHANGED vars

\* The operation timeout of the SDKs, deleteAndWaitTimeout of a session.
TimesOut(c) ==
    /\ client[c].at \in {"subscribe", "waiting", "reread"}
    /\ client[c].call.by # "cli"
    /\ End(c, "error")
    /\ UNCHANGED vars

ClientStep(c) ==
    \/ Baseline(c) \/ Subscribe(c) \/ ReceiveSDK(c) \/ ReceiveCLI(c)
    \/ Reread(c) \/ StreamOver(c)

-----------------------------------------------------------------------------
\* The daemon's sockets go with its process.
StreamsCrash ==
    /\ CrashStep
    /\ client' = [c \in Clients |->
           IF Waiting(c) /\ client[c].link = "open"
           THEN [client[c] EXCEPT !.link = "broken"] ELSE client[c]]

DaemonStep ==
    /\ \/ \E g \in Goroutines : GoroutineStep(g)
       \/ \E T \in SUBSET Sandboxes : Request(T) \/ idleScanAndStop(T) \/ Cleanup(T)
       \/ DropPurged
       \/ \E s \in Sandboxes : dockerContainerEnsureRunning(s)
       \/ RestartStep
       \/ DockerStep
    /\ UNCHANGED client

StreamNext ==
    \/ \E c \in Clients : \/ \E call \in Calls, s \in Sandboxes : Call(c, call, s)
                          \/ ClientStep(c) \/ TimesOut(c) \/ Poll(c)
    \/ StreamsCrash
    \/ DaemonStep

StreamSpec == StreamInit /\ [][StreamNext]_streamVars

(***************************************************************************)
(* Fairness: goroutines run as in the life cycle, the ticker of an open    *)
(* stream fires, and a client goes on.  No timeout is relied upon.         *)
(***************************************************************************)
StreamFairness ==
    /\ \A g \in Goroutines : WF_streamVars(GoroutineStep(g) /\ UNCHANGED client)
    /\ \A c \in Clients : WF_streamVars(ClientStep(c)) /\ WF_streamVars(Poll(c))

-----------------------------------------------------------------------------
(***************************************************************************)
(* Properties                                                              *)
(***************************************************************************)
\* Every call stands at a known point, with a stream and events of its kind.
StreamTypeOK == client \in [Clients -> ClientCall \cup Ended \cup {NoCall}]

\* A sequence the daemon has issued is never refused as expired, also when
\* the daemon has been restarted between the baseline and the subscription.
AnchorAccepted == \A c \in Clients : client[c].at # "expired"

\* As long as the store works, a client that has handled everything its
\* sandbox has recorded is not waiting for what has already come about, or
\* cannot any more: between baseline, replay and polling no event is missed.
NoLostWakeup ==
    StoreMayFail \/
    \A c \in Clients :
        LET s == client[c].sb IN
        (/\ client[c].at = "waiting"
         /\ client[c].link = "open"
         /\ client[c].inbox = << >>
         /\ s \in boxes
         /\ client[c].sent = nextSequence[s])
            => Verdict(client[c].call, state[s]) = "waiting"

\* A create, resume or stop that reports success does so because of a state
\* entered after it was accepted, never because of replayed history.
SuccessIsFresh ==
    [][\A c \in Clients :
          LET s == client[c].sb IN
          (/\ Waiting(c)
           /\ client[c].call.op # "delete"
           /\ client'[c] = [at |-> "reached"]
           /\ s \in configs)
              => \E k \in DOMAIN bucket[s] :
                     /\ k >= client[c].accepted
                     /\ bucket[s][k].st = Target(client[c].call.op)]_streamVars

\* A call does not go on for ever unless the state of its sandbox tells it
\* to: restarts, purged sandboxes and states left again included.
CallEnds ==
    \A c \in Clients :
        []<>(\/ ~Waiting(c)
             \/ /\ Known(client[c].sb)
                /\ Verdict(client[c].call, state[client[c].sb]) = "waiting")

\* waitForSandboxState of the command waits until the target state is
\* reached or an error state is encountered.  Not kept by the wait for a
\* deletion that fails (README, seen without a run).
ErrorStateEndsWait ==
    \A c \in Clients :
        []<>(\/ ~Waiting(c)
             \/ ~Known(client[c].sb)
             \/ state[client[c].sb] # "FAILED")

=============================================================================
