-------------------------- MODULE EventStream_proofs --------------------------
(***************************************************************************)
(* Proofs about EventStream, for any number of sandboxes, goroutines and   *)
(* waiting calls: every behaviour is one of the life cycle, no sequence    *)
(* the daemon has issued is refused, no wake-up is lost as long as the     *)
(* store works, and no wait ends because of replayed history.              *)
(***************************************************************************)
EXTENDS EventStream, SandboxLifecycle_proofs

(***************************************************************************)
(* The invariants of the daemon that a stream relies on                    *)
(***************************************************************************)
\* What is in memory is a gapless log, also of a sandbox that the daemon has
\* purged from the store or dropped while a stream still points at it.
MemoryLog ==
    \A s \in Sandboxes : Contiguous(events[s]) /\ nextSequence[s] = Len(events[s])

\* What cleanupExpiredEvents is about to drop has left the store for good.
PurgedIsGone == purging \subseteq sandboxIDs \ configs

\* A restart would not find a READY sandbox STOPPED, whichever writes failed.
ReadyIsNotStopped ==
    \A s \in boxes : state[s] = "READY" => PersistedState(events[s]) # "STOPPED"

\* What holds of the daemon, with or without streams.
DaemonInv == RecordInv /\ MarkInv /\ MemoryLog /\ PurgedIsGone /\ ReadyIsNotStopped

(***************************************************************************)
(* The invariants of a waiting call q                                      *)
(***************************************************************************)
\* The sandbox can still be found, now or after a restart, and its history.
Alive(s) == s \in boxes \/ s \in configs

History(s) == IF s \in configs THEN bucket[s] ELSE events[s]

\* The sequence up to which the call knows the history.
Handled(q) == IF q.link = "none" THEN q.from ELSE q.sent - Len(q.inbox)

\* An open stream belongs to a daemon that has, or has dropped, the record.
Linked(q) ==
    /\ q.sb \in sandboxIDs
    /\ q.link = "none" <=> q.at \in {"baseline", "subscribe"}
    /\ q.link = "none" => q.inbox = << >> /\ q.sent = 0
    /\ q.link = "open" => daemon = "serving" /\ (q.sb \in boxes \/ q.sb \notin configs)

\* Sequences the call holds were issued, and what is on its way to it is the
\* part of the history that follows what it knows.
Anchored(q) ==
    Alive(q.sb) =>
        /\ q.accepted <= q.from /\ q.from <= Handled(q)
        /\ q.from <= Len(History(q.sb)) /\ q.sent <= Len(History(q.sb))
        /\ \A i \in 1..Len(q.inbox) : q.inbox[i] = History(q.sb)[Handled(q) + i]

\* The target state was entered after the request was accepted.
Entered(q) ==
    \E k \in 1..Len(History(q.sb)) : /\ k >= q.accepted
                                     /\ History(q.sb)[k].st = Target(q.call.op)

\* Before it was, neither the record nor the log is in that state.
Fresh(q) ==
    (/\ Alive(q.sb) /\ q.call.op # "delete" /\ ~Entered(q)) =>
        /\ q.sb \in boxes => state[q.sb] # Target(q.call.op)
        /\ PersistedState(History(q.sb)) # Target(q.call.op)

\* The state a log carries up to sequence r.
StateAt(log, r) == PersistedState(SubSeq(log, 1, r))

\* The call has seen that it has to wait, at or after what it knows.
Watched(q) ==
    (/\ Alive(q.sb) /\ q.at \in {"subscribe", "waiting"}) =>
        \E r \in Handled(q)..Len(History(q.sb)) :
            Verdict(q.call, StateAt(History(q.sb), r)) = "waiting"

\* What holds of a call, whatever writes fail, and Watched as long as none does.
CallInv(q) == Linked(q) /\ Anchored(q) /\ Fresh(q) /\ (StoreMayFail \/ Watched(q))

\* The inductive invariant of daemon, streams and calls.
StreamInv ==
    /\ DaemonInv
    /\ StreamTypeOK
    /\ AnchorAccepted
    /\ \A c \in Clients, q \in ClientCall : client[c] = q => CallInv(q)

-----------------------------------------------------------------------------
(***************************************************************************)
(* Operators                                                               *)
(***************************************************************************)
\* For a gapless log, eventsAfter returns what follows sequence n.
LEMMA EventsAfter ==
    ASSUME NEW log, Contiguous(log), NEW n \in Nat
    PROVE  LET new == eventsAfter(log, n)
               m   == IF n <= Len(log) THEN Len(log) - n ELSE 0
           IN  /\ new \in Seq(Event) /\ Len(new) = m
               /\ \A i \in 1..m : new[i] = log[n + i] /\ new[i].seq = n + i
<1> DEFINE L   == Len(log)
           m   == IF n <= L THEN L - n ELSE 0
           K   == {k \in DOMAIN log : log[k].seq > n}
           b   == [i \in K |-> log[i]]
           nth(i) == CHOOSE k \in K : Cardinality({j \in K : j < k}) = i - 1
<1>1. /\ log \in Seq(Event) /\ L \in Nat /\ DOMAIN log = 1..L
      /\ \A i \in 1..L : log[i].seq = i
  BY DEF Contiguous
<1>2. K = (n + 1)..L /\ m \in Nat
  BY <1>1
<1> HIDE DEF L, K
<1>3. \A k \in K : Cardinality({j \in K : j < k}) = k - n - 1
  <2> SUFFICES ASSUME NEW k \in K
               PROVE  Cardinality({j \in K : j < k}) = k - n - 1
    OBVIOUS
  <2> DEFINE S == {j \in K : j < k}
  <2>1. S = (n + 1)..(k - 1) /\ k \in Int /\ n + 1 \in Int /\ k - 1 \in Int /\ k >= n + 1
    BY <1>1, <1>2
  <2> HIDE DEF S
  <2>2. Cardinality((n + 1)..(k - 1)) = IF n + 1 > k - 1 THEN 0 ELSE (k - 1) - (n + 1) + 1
    BY <2>1, FS_Interval
  <2>3. Cardinality(S) = k - n - 1
    BY <2>1, <2>2
  <2> QED
    BY <2>3 DEF S
<1>4. Cardinality(K) = m
  <2>1. n + 1 \in Int /\ L \in Int
    BY <1>1
  <2>2. Cardinality((n + 1)..L) = IF n + 1 > L THEN 0 ELSE L - (n + 1) + 1
    BY <2>1, FS_Interval
  <2> QED
    BY <1>1, <1>2, <2>2
<1>5. \A i \in 1..m : nth(i) = n + i
  <2> SUFFICES ASSUME NEW i \in 1..m
               PROVE  nth(i) = n + i
    OBVIOUS
  <2>1. n + i \in K /\ Cardinality({j \in K : j < n + i}) = i - 1
    BY <1>1, <1>2, <1>3
  <2>2. \A k \in K : Cardinality({j \in K : j < k}) = i - 1 => k = n + i
    <3>1. \A k \in K : k \in Int /\ (k - n - 1 = i - 1 => k = n + i)
      BY <1>1, <1>2
    <3> QED
      BY <1>3, <3>1
  <2> QED
    BY <2>1, <2>2
<1>6. eventsAfter(log, n) = [i \in 1..m |-> b[nth(i)]]
  <2>1. DOMAIN b = K
    OBVIOUS
  <2>2. eventsAfter(log, n) = LoadEvents(b)
    BY DEF eventsAfter, K
  <2> HIDE DEF b, m
  <2> QED
    BY <1>4, <2>1, <2>2 DEF LoadEvents
<1> HIDE DEF nth
<1>7. \A i \in 1..m : n + i \in K /\ n + i \in 1..L
  BY <1>1, <1>2
<1>8. \A i \in 1..m : b[nth(i)] = log[n + i]
  BY <1>5, <1>7
<1> HIDE DEF b
<1>9. /\ eventsAfter(log, n) \in Seq(Event) /\ Len(eventsAfter(log, n)) = m
      /\ \A i \in 1..m : eventsAfter(log, n)[i] = log[n + i]
  <2>1. \A i \in 1..m : b[nth(i)] \in Event
    BY <1>1, <1>7, <1>8
  <2> DEFINE f == [i \in 1..m |-> b[nth(i)]]
  <2>2. f \in [1..m -> Event]
    BY <2>1
  <2>3. f \in Seq(Event) /\ Len(f) = m
    <3> HIDE DEF f
    <3> QED
      BY <1>2, <2>2
  <2> QED
    BY <1>6, <1>8, <2>3
<1> QED
  BY <1>1, <1>7, <1>9 DEF L

\* old is a prefix of new.
Prefix(old, new) ==
    /\ old \in Seq(Event) /\ new \in Seq(Event) /\ Len(old) <= Len(new)
    /\ \A k \in 1..Len(old) : new[k] = old[k]

\* An append continues a log, by as many events as there are mutations.
LEMMA StampPrefix ==
    ASSUME NEW log \in Seq(Event), NEW n \in Nat, NEW muts \in Seq(Mutations)
    PROVE  LET new == log \o Stamp(n, muts)
           IN  /\ Prefix(log, new) /\ Len(new) = Len(log) + Len(muts)
               /\ \A i \in 1..Len(muts) : new[Len(log) + i].st = muts[i].st
               /\ muts = << >> => new = log
<1>1. /\ Stamp(n, muts) \in Seq(Event) /\ Len(Stamp(n, muts)) = Len(muts)
      /\ \A i \in 1..Len(muts) : Stamp(n, muts)[i].st = muts[i].st
  BY StampProperties DEF Stamp
<1>2. muts = << >> => Stamp(n, muts) = << >>
  BY <1>1, EmptySeq
<1> DEFINE new == log \o Stamp(n, muts)
<1>3. /\ new \in Seq(Event) /\ Len(new) = Len(log) + Len(muts) /\ Len(muts) \in Nat
      /\ \A i \in 1..Len(log) : new[i] = log[i]
      /\ \A i \in (Len(log) + 1)..(Len(log) + Len(muts)) :
             new[i] = Stamp(n, muts)[i - Len(log)]
  <2>1. Stamp(n, muts) \in Seq(Event) /\ Len(Stamp(n, muts)) = Len(muts)
    BY <1>1
  <2> QED
    BY <2>1
<1>4. muts = << >> => new = log
  BY <1>2
<1>5. Prefix(log, new)
  BY <1>3 DEF Prefix
<1> HIDE DEF new
<1>6. \A i \in 1..Len(muts) : new[Len(log) + i].st = muts[i].st
  <2>1. \A i \in 1..Len(muts) : /\ Len(log) + i \in (Len(log) + 1)..(Len(log) + Len(muts))
                                /\ (Len(log) + i) - Len(log) = i
    BY <1>3
  <2> QED
    BY <1>1, <1>3, <2>1
<1> QED
  BY <1>3, <1>4, <1>5, <1>6 DEF new

\* The state a continued log carries is the one it carried before or that of
\* an event it was continued with.
LEMMA PersistedPrefix ==
    ASSUME NEW old, NEW new, Prefix(old, new)
    PROVE  \/ PersistedState(new) = PersistedState(old)
           \/ /\ PersistedState(new) # "UNSPECIFIED"
              /\ \E k \in (Len(old) + 1)..Len(new) : new[k].st = PersistedState(new)
<1> DEFINE a == Len(old)
           b == Len(new)
           C == {i \in 1..b : new[i].st # "UNSPECIFIED"}
<1>1. /\ old \in Seq(Event) /\ new \in Seq(Event) /\ a \in Nat /\ b \in Nat /\ a <= b
      /\ \A k \in 1..a : new[k] = old[k]
  BY DEF Prefix
<1>l. /\ \A m \in 1..b :
             (/\ new[m].st # "UNSPECIFIED"
              /\ \A j \in (m + 1)..b : new[j].st = "UNSPECIFIED")
             => PersistedState(new) = new[m].st
      /\ \A m \in 1..a :
             (/\ old[m].st # "UNSPECIFIED"
              /\ \A j \in (m + 1)..a : old[j].st = "UNSPECIFIED")
             => PersistedState(old) = old[m].st
      /\ (\A m \in 1..b : new[m].st = "UNSPECIFIED") => PersistedState(new) = "UNSPECIFIED"
      /\ (\A m \in 1..a : old[m].st = "UNSPECIFIED") => PersistedState(old) = "UNSPECIFIED"
  BY <1>1, PersistedStateOf
<1> HIDE DEF a, b
<1>2. CASE C = {}
  <2>1. \A m \in 1..b : new[m].st = "UNSPECIFIED"
    BY <1>2
  <2>2. \A m \in 1..a : old[m].st = "UNSPECIFIED"
    BY <1>1, <2>1
  <2> QED
    BY <1>l, <2>1, <2>2
<1>3. CASE C # {}
  <2>1. PICK m \in C : \A j \in C : j <= m
    BY <1>1, <1>3, LastPosition
  <2>2. m \in 1..b /\ new[m].st # "UNSPECIFIED"
        /\ \A j \in (m + 1)..b : new[j].st = "UNSPECIFIED"
    BY <1>1, <2>1
  <2>3. PersistedState(new) = new[m].st
    BY <1>l, <2>2
  <2>4. CASE m <= a
    <3>1. m \in 1..a /\ old[m].st # "UNSPECIFIED"
          /\ \A j \in (m + 1)..a : old[j].st = "UNSPECIFIED"
      BY <1>1, <2>2, <2>4
    <3> QED
      BY <1>1, <1>l, <2>3, <3>1
  <2>5. CASE m > a
    BY <1>1, <2>2, <2>3, <2>5 DEF a, b
  <2> QED
    BY <1>1, <2>2, <2>4, <2>5
<1> QED
  BY <1>2, <1>3

-----------------------------------------------------------------------------
(***************************************************************************)
(* What a step of the daemon does to one record                            *)
(***************************************************************************)
\* The record gets events, perhaps none.  A state is entered with its event,
\* which is the last; STOPPED is never recorded without being entered.
Moves(s) ==
    \E muts \in Seq(Mutations) :
        /\ events'[s] = events[s] \o Stamp(nextSequence[s], muts)
        /\ nextSequence'[s] = nextSequence[s] + Len(muts)
        /\ state'[s] = state[s] \/ (muts # << >> /\ muts[Len(muts)].st = state'[s])
        /\ \A i \in 1..Len(muts) : muts[i].st = "STOPPED" => state'[s] = "STOPPED"

\* A record that is left alone.
LEMMA StaysMoves ==
    ASSUME TypeOK, NEW s \in Sandboxes, events'[s] = events[s],
           nextSequence'[s] = nextSequence[s], state'[s] = state[s]
    PROVE  Moves(s)
<1> DEFINE muts == << >>
<1>1. /\ events[s] \in Seq(Event) /\ nextSequence[s] \in Nat /\ muts \in Seq(Mutations)
      /\ Len(muts) = 0
  BY DEF TypeOK
<1>2. events[s] \o Stamp(nextSequence[s], muts) = events[s]
  BY <1>1, StampPrefix
<1>3. nextSequence[s] + Len(muts) = nextSequence[s] /\ 1..Len(muts) = {}
  BY <1>1
<1> HIDE DEF muts
<1> QED
  BY <1>1, <1>2, <1>3 DEF Moves

\* appendEventLocked moves one record.
LEMMA OneMoves ==
    ASSUME TypeOK, NEW s \in Sandboxes, NEW muts \in Seq(Mutations),
           appendEventLocked(s, muts), \A t \in Sandboxes \ {s} : state'[t] = state[t],
           state'[s] = state[s] \/ (muts # << >> /\ muts[Len(muts)].st = state'[s]),
           \A i \in 1..Len(muts) : muts[i].st = "STOPPED" => state'[s] = "STOPPED"
    PROVE  \A t \in Sandboxes : Moves(t)
<1>1. /\ events \in [Sandboxes -> Seq(Event)] /\ nextSequence \in [Sandboxes -> Nat]
  BY DEF TypeOK
<1>2. /\ events'[s] = events[s] \o Stamp(nextSequence[s], muts)
      /\ nextSequence'[s] = nextSequence[s] + Len(muts)
      /\ \A t \in Sandboxes \ {s} : events'[t] = events[t]
                                    /\ nextSequence'[t] = nextSequence[t]
  BY <1>1 DEF appendEventLocked, RecordEvents
<1>3. Moves(s)
  BY <1>2 DEF Moves
<1> QED
  BY <1>2, <1>3, StaysMoves

\* A loop under one lock moves several, each with the same event.
LEMMA AllMove ==
    ASSUME TypeOK, NEW T \in SUBSET Sandboxes, NEW mut \in Mutations,
           appendEventToAll(T, mut), mut.st # "STOPPED",
           \A s \in Sandboxes : state'[s] =
               IF s \in T /\ mut.st # "UNSPECIFIED" THEN mut.st ELSE state[s]
    PROVE  \A s \in Sandboxes : Moves(s)
<1> SUFFICES ASSUME NEW s \in Sandboxes
             PROVE  Moves(s)
  OBVIOUS
<1>1. CASE s \in T
  <2> DEFINE muts == <<mut>>
  <2>1. /\ muts \in Seq(Mutations) /\ muts # << >> /\ Len(muts) = 1 /\ muts[1] = mut
    OBVIOUS
  <2>2. /\ events'[s] = events[s] \o Stamp(nextSequence[s], muts)
        /\ nextSequence'[s] = nextSequence[s] + 1
    BY <1>1 DEF appendEventToAll
  <2>3. state'[s] = state[s] \/ mut.st = state'[s]
    BY <1>1
  <2> HIDE DEF muts
  <2>4. /\ state'[s] = state[s] \/ (muts # << >> /\ muts[Len(muts)].st = state'[s])
        /\ \A i \in 1..Len(muts) : muts[i].st = "STOPPED" => state'[s] = "STOPPED"
        /\ nextSequence'[s] = nextSequence[s] + Len(muts)
    BY <2>1, <2>2, <2>3
  <2> QED
    BY <2>1, <2>2, <2>4 DEF Moves
<1>2. CASE s \notin T
  <2>1. events'[s] = events[s] /\ nextSequence'[s] = nextSequence[s] /\ state'[s] = state[s]
    BY <1>2 DEF appendEventToAll
  <2> QED
    BY <2>1, StaysMoves
<1> QED
  BY <1>1, <1>2

\* The mutations a goroutine settles with: one, or the companion's before it.
LEMMA SettleMutations ==
    ASSUME NEW type, NEW st, NEW s \in Sandboxes, NEW d \in DrainedStatuses(s)
    PROVE  LET muts == Append(d, Mutation(type, st))
           IN  /\ Len(d) \in {0, 1} /\ Len(muts) = Len(d) + 1
               /\ muts # << >> /\ muts[Len(muts)].st = st
               /\ \A i \in 1..(Len(muts) - 1) : muts[i].st = "PENDING"
<1>1. \/ d = << >> \/ d = <<Mutation("COMPANION_CONTAINER_READY", "PENDING")>>
      \/ d = <<Mutation("COMPANION_CONTAINER_FAILED", "PENDING")>>
  BY DEF DrainedStatuses, ResumeStatuses
<1> QED
  BY <1>1 DEF Mutation

\* Settling moves the record, and so does a settlement that fails on the way.
LEMMA SettleMoves ==
    ASSUME TypeOK, NEW s \in Sandboxes, NEW muts \in Seq(Mutations), NEW st,
           muts # << >>, muts[Len(muts)].st = st,
           \A i \in 1..(Len(muts) - 1) : muts[i].st = "PENDING",
           Settled(s, muts, st) \/ SettleFails(s, muts)
    PROVE  \A t \in Sandboxes : Moves(t)
<1>0. state \in [Sandboxes -> SandboxState] /\ Len(muts) \in Nat
  BY DEF TypeOK
<1>1. CASE Settled(s, muts, st)
  <2>1. appendEventLocked(s, muts) /\ state'[s] = st
        /\ \A t \in Sandboxes \ {s} : state'[t] = state[t]
    BY <1>0, <1>1 DEF Settled
  <2>2. \A i \in 1..Len(muts) : muts[i].st = "STOPPED" => state'[s] = "STOPPED"
    <3>1. \A i \in 1..Len(muts) : i \in 1..(Len(muts) - 1) \/ i = Len(muts)
      BY <1>0
    <3> QED
      BY <2>1, <3>1
  <2> QED
    BY <2>1, <2>2, OneMoves
<1>2. CASE SettleFails(s, muts)
  <2>1. PICK k \in 0..(Len(muts) - 1) : appendEventLocked(s, SubSeq(muts, 1, k))
    BY <1>2 DEF SettleFails
  <2> DEFINE some == SubSeq(muts, 1, k)
  <2>2. /\ some \in Seq(Mutations) /\ Len(some) = k
        /\ \A i \in 1..k : some[i] = muts[i] /\ i \in 1..(Len(muts) - 1)
    BY <1>0, <2>1
  <2>3. state' = state
    BY <1>2 DEF SettleFails
  <2> HIDE DEF some
  <2>4. \A i \in 1..Len(some) : some[i].st = "STOPPED" => state'[s] = "STOPPED"
    BY <2>2
  <2> QED
    BY <2>1, <2>2, <2>3, <2>4, OneMoves DEF some
<1> QED
  BY <1>1, <1>2

\* One event that carries a state, recorded with or without that state.
LEMMA SingleMoves ==
    ASSUME TypeOK, NEW s \in Sandboxes, NEW type \in EventType, NEW st \in LiveState,
           \/ Settle(s, <<Mutation(type, st)>>, st)
           \/ /\ appendEventLocked(s, <<Mutation(type, st)>>)
              /\ UNCHANGED state /\ st # "STOPPED"
    PROVE  \A t \in Sandboxes : Moves(t)
<1> DEFINE muts == <<Mutation(type, st)>>
<1>1. /\ muts \in Seq(Mutations) /\ muts # << >> /\ Len(muts) = 1 /\ muts[1].st = st
  BY MutationTypes, LastMutation
<1> HIDE DEF muts
<1>2. CASE Settle(s, muts, st)
  BY <1>1, <1>2, SettleMoves DEF Settle
<1>3. CASE appendEventLocked(s, muts) /\ UNCHANGED state /\ st # "STOPPED"
  BY <1>1, <1>3, OneMoves
<1> QED
  BY <1>2, <1>3 DEF muts

\* Every goroutine, whatever it finds and whichever write fails.
LEMMA GoroutineMoves ==
    ASSUME TypeOK, NEW g \in Goroutines, GoroutineStep(g)
    PROVE  \A t \in Sandboxes : Moves(t)
<1> DEFINE s == goroutine[g].sb
<1>0. GoTypeOK /\ boxes \subseteq Sandboxes /\ state \in [Sandboxes -> SandboxState]
  BY TypeParts DEF RestTypeOK
<1>t. /\ {"SANDBOX_PREPARING", "SANDBOX_READY", "SANDBOX_FAILED",
          "SANDBOX_STOPPED", "COMPANION_CONTAINER_READY",
          "COMPANION_CONTAINER_FAILED"} \subseteq EventType
      /\ {"PENDING", "READY", "FAILED", "STOPPED"} \subseteq LiveState
  BY DEF EventType, LiveState, SandboxState
<1>u. ASSUME UNCHANGED <<state, logVars>>
      PROVE  \A t \in Sandboxes : Moves(t)
  BY <1>u, StaysMoves DEF logVars
<1>f. ASSUME s \in boxes, NEW type \in {"SANDBOX_FAILED", "SANDBOX_STOPPED"},
             NEW st \in {"FAILED", "STOPPED"}, Settle(s, <<Mutation(type, st)>>, st)
      PROVE  \A t \in Sandboxes : Moves(t)
  BY <1>0, <1>t, <1>f, SingleMoves
<1>r. ASSUME s \in boxes, NEW d \in DrainedStatuses(s),
             \/ Settled(s, Append(d, Mutation("SANDBOX_READY", "READY")), "READY")
             \/ SettleFails(s, Append(d, Mutation("SANDBOX_READY", "READY")))
      PROVE  \A t \in Sandboxes : Moves(t)
  <2> DEFINE muts == Append(d, Mutation("SANDBOX_READY", "READY"))
  <2>1. muts \in Seq(Mutations)
    BY <1>0, <1>t, <1>r, StatusTypes
  <2>2. /\ muts # << >> /\ muts[Len(muts)].st = "READY"
        /\ \A i \in 1..(Len(muts) - 1) : muts[i].st = "PENDING"
    BY <1>0, <1>r, SettleMutations
  <2> HIDE DEF muts
  <2>3. Settled(s, muts, "READY") \/ SettleFails(s, muts)
    BY <1>r DEF muts
  <2> QED
    BY <1>0, <1>r, <2>1, <2>2, <2>3, SettleMoves
<1>3. CASE CreateStart(g)
  <2>1. CASE UNCHANGED logVars
    BY <1>u, <1>3, <2>1 DEF CreateStart, recordVars
  <2>2. CASE /\ s \in boxes
             /\ appendEventLocked(s, <<Mutation("SANDBOX_PREPARING", "PENDING")>>)
    <3>1. UNCHANGED state
      BY <1>3 DEF CreateStart, recordVars
    <3> QED
      BY <1>0, <1>t, <2>2, <3>1, SingleMoves
  <2> QED
    BY <1>3, <2>1, <2>2 DEF CreateStart
<1>4. CASE CompanionStartup(g)
  <2>1. CASE UNCHANGED logVars
    BY <1>u, <1>4, <2>1 DEF CompanionStartup, recordVars
  <2>2. ASSUME s \in boxes,
               NEW type \in {"COMPANION_CONTAINER_READY", "COMPANION_CONTAINER_FAILED"},
               appendEventLocked(s, <<Mutation(type, "READY")>>)
        PROVE  \A t \in Sandboxes : Moves(t)
    <3>1. UNCHANGED state
      BY <1>4 DEF CompanionStartup, recordVars
    <3> QED
      BY <1>0, <1>t, <2>2, <3>1, SingleMoves
  <2> QED
    BY <1>4, <2>1, <2>2 DEF CompanionStartup
<1>5. CASE CreateFinish(g)
  <2>1. CASE UNCHANGED <<state, logVars>>
    BY <1>u, <2>1
  <2>2. CASE s \in boxes /\ Settle(s, <<Mutation("SANDBOX_FAILED", "FAILED")>>, "FAILED")
    BY <1>f, <2>2
  <2>3. CASE /\ s \in boxes
             /\ \E d \in DrainedStatuses(s) :
                    \/ Settled(s, Append(d, Mutation("SANDBOX_READY", "READY")), "READY")
                    \/ SettleFails(s, Append(d, Mutation("SANDBOX_READY", "READY")))
    BY <1>r, <2>3
  <2> QED
    BY <1>5, <2>1, <2>2, <2>3 DEF CreateFinish
<1>6. CASE ResumeFinish(g)
  <2>1. CASE UNCHANGED <<state, logVars>>
    BY <1>u, <2>1
  <2>2. CASE s \in boxes /\ Settle(s, <<Mutation("SANDBOX_FAILED", "FAILED")>>, "FAILED")
    BY <1>f, <2>2
  <2>3. ASSUME s \in boxes, NEW d \in ResumeStatuses(s),
               Settle(s, Append(d, Mutation("SANDBOX_READY", "READY")), "READY")
        PROVE  \A t \in Sandboxes : Moves(t)
    BY <1>r, <2>3 DEF Settle, DrainedStatuses
  <2> QED
    BY <1>6, <2>1, <2>2, <2>3 DEF ResumeFinish
<1>7. CASE StopFinish(g)
  BY <1>u, <1>f, <1>7 DEF StopFinish
<1>8. CASE DeleteFinish(g)
  <2>1. CASE UNCHANGED <<state, logVars>>
    BY <1>u, <2>1
  <2>2. CASE s \in boxes /\ Settle(s, <<Mutation("SANDBOX_FAILED", "FAILED")>>, "FAILED")
    BY <1>f, <2>2
  <2>3. CASE /\ s \in boxes /\ appendEventLocked(s, DeletedMutation)
             /\ state' = state \/ state' = [state EXCEPT ![s] = "DELETED"]
    <3>1. /\ DeletedMutation \in Seq(Mutations) /\ DeletedMutation # << >>
          /\ Len(DeletedMutation) = 1 /\ DeletedMutation[1].st = "DELETED"
      BY MutationTypes, LastMutation DEF DeletedMutation
    <3>2. s \in Sandboxes /\ \A t \in Sandboxes \ {s} : state'[t] = state[t]
      BY <1>0, <2>3
    <3>3. state'[s] = state[s] \/ state'[s] = "DELETED"
      BY <1>0, <2>3
    <3> QED
      BY <2>3, <3>1, <3>2, <3>3, OneMoves
  <2> QED
    BY <1>8, <2>1, <2>2, <2>3 DEF DeleteFinish
<1>9. CASE \/ BackendCreate(g) \/ BackendStart(g) \/ ResumeStart(g) \/ BackendResume(g)
           \/ StopStart(g) \/ BackendStop(g) \/ StopFailedSandbox(g)
           \/ DeleteStart(g) \/ BackendDelete(g)
  <2>1. UNCHANGED <<state, logVars>>
    BY <1>9 DEF BackendCreate, BackendStart, ResumeStart, BackendResume, StopStart,
       BackendStop, StopFailedSandbox, DeleteStart, BackendDelete, recordVars
  <2> QED
    BY <1>u, <2>1
<1> QED
  BY <1>3, <1>4, <1>5, <1>6, <1>7, <1>8, <1>9 DEF GoroutineStep

\* Every request and scan, apart from the record that is created.
LEMMA RequestMoves ==
    ASSUME TypeOK, NEW T \in SUBSET Sandboxes,
           Request(T) \/ idleScanAndStop(T) \/ Cleanup(T) \/ DropPurged
    PROVE  \A t \in Sandboxes : Moves(t) \/ CreateSandbox(t)
<1>0. boxes \subseteq Sandboxes /\ state \in [Sandboxes -> SandboxState]
      /\ events \in [Sandboxes -> Seq(Event)] /\ nextSequence \in [Sandboxes -> Nat]
  BY DEF TypeOK
<1>t. /\ {"SANDBOX_ACCEPTED", "SANDBOX_STOP_REQUESTED", "SANDBOX_FAILED",
          "SANDBOX_DELETE_REQUESTED", "COMPANION_CONTAINER_FAILED"} \subseteq EventType
      /\ {"PENDING", "READY", "FAILED", "UNSPECIFIED", "DELETING"} \subseteq LiveState
  BY DEF EventType, LiveState, SandboxState
<1>m. \A type \in EventType, st \in LiveState :
          Mutation(type, st) \in Mutations /\ Mutation(type, st).st = st
  BY MutationTypes, LastMutation
<1>1. ASSUME NEW s \in T, CreateSandbox(s), NEW t \in Sandboxes
      PROVE  Moves(t) \/ CreateSandbox(t)
  <2>1. t # s => /\ events'[t] = events[t] /\ nextSequence'[t] = nextSequence[t]
                 /\ state'[t] = state[t]
    BY <1>0, <1>1 DEF CreateSandbox, RecordEvents
  <2> QED
    BY <1>1, <2>1, StaysMoves
<1>2. ASSUME NEW s \in T, ResumeSandbox(s)
      PROVE  \A t \in Sandboxes : Moves(t)
  <2>1. Settle(s, <<Mutation("SANDBOX_ACCEPTED", "PENDING")>>, "PENDING")
    BY <1>2 DEF ResumeSandbox, Settle, Settled
  <2> QED
    BY <1>t, <2>1, SingleMoves
<1>3. ASSUME NEW s \in T, ReportCompanionFailed(s)
      PROVE  \A t \in Sandboxes : Moves(t)
  <2>1. /\ appendEventLocked(s, <<Mutation("COMPANION_CONTAINER_FAILED", "READY")>>)
        /\ UNCHANGED state
    BY <1>3 DEF ReportCompanionFailed, recordVars
  <2> QED
    BY <1>t, <2>1, SingleMoves
<1>4. ASSUME NEW s \in T, StopSandbox(s)
      PROVE  \A t \in Sandboxes : Moves(t)
  <2>1. /\ appendEventLocked(s, <<Mutation("SANDBOX_STOP_REQUESTED", "UNSPECIFIED")>>)
        /\ UNCHANGED state
    BY <1>4 DEF StopSandbox, recordVars
  <2> QED
    BY <1>t, <2>1, SingleMoves
<1>5. ASSUME NEW U \in SUBSET Sandboxes, beginSandboxDeleteLocked(U)
      PROVE  \A t \in Sandboxes : Moves(t)
  <2> DEFINE mut == Mutation("SANDBOX_DELETE_REQUESTED", "DELETING")
  <2>1. /\ mut \in Mutations /\ mut.st = "DELETING" /\ appendEventToAll(U, mut)
        /\ \A s \in Sandboxes : state'[s] = IF s \in U THEN "DELETING" ELSE state[s]
    BY <1>t, <1>m, <1>5 DEF beginSandboxDeleteLocked
  <2> HIDE DEF mut
  <2> QED
    BY <2>1, AllMove
<1>6. ASSUME UNCHANGED <<state, events, nextSequence>>
      PROVE  \A t \in Sandboxes : Moves(t)
  BY <1>6, StaysMoves
<1>7. ASSUME NEW s \in T, DeleteSandbox(s) \/ CreateSandboxFails(s)
      PROVE  \A t \in Sandboxes : Moves(t)
  <2>1. CASE UNCHANGED <<state, logVars>>
    BY <1>6, <2>1 DEF logVars
  <2>2. CASE beginSandboxDeleteLocked({s})
    BY <1>5, <2>2
  <2> QED
    BY <1>7, <2>1, <2>2 DEF DeleteSandbox, CreateSandboxFails, recordVars
<1>8. CASE DeleteSandboxes(T)
  <2>1. \E U \in SUBSET Deletable(T) : beginSandboxDeleteLocked(U)
    BY <1>8 DEF DeleteSandboxes
  <2> QED
    BY <1>5, <2>1 DEF Deletable
<1>9. CASE cleanupStoppedSandboxes(T)
  BY <1>5, <1>9 DEF cleanupStoppedSandboxes
<1>10. CASE applyPrimaryFailed(T)
  <2> DEFINE mut == Mutation("SANDBOX_FAILED", "FAILED")
  <2>1. /\ mut \in Mutations /\ mut.st = "FAILED" /\ appendEventToAll(T, mut)
        /\ \A s \in Sandboxes : state'[s] = IF s \in T THEN "FAILED" ELSE state[s]
    BY <1>t, <1>m, <1>10 DEF applyPrimaryFailed
  <2> HIDE DEF mut
  <2> QED
    BY <2>1, AllMove
<1>11. CASE idleScanAndStop(T)
  <2> DEFINE mut == Mutation("SANDBOX_STOP_REQUESTED", "UNSPECIFIED")
  <2>1. /\ mut \in Mutations /\ mut.st = "UNSPECIFIED" /\ appendEventToAll(T, mut)
        /\ UNCHANGED state
    BY <1>t, <1>m, <1>11 DEF idleScanAndStop, recordVars
  <2> HIDE DEF mut
  <2> QED
    BY <2>1, AllMove
<1>12. CASE Cleanup(T) \/ DropPurged
  <2>1. UNCHANGED <<state, events, nextSequence>>
    BY <1>12 DEF Cleanup, DropPurged, recordVars, logVars
  <2> QED
    BY <1>6, <2>1
<1> QED
  BY <1>1, <1>2, <1>3, <1>4, <1>7, <1>8, <1>9, <1>10, <1>11, <1>12 DEF Request

\* Every step of the daemon: a record is moved, created, restored or lost.
LEMMA StepMoves ==
    ASSUME TypeOK, [Next]_vars
    PROVE  \/ LoseMemory
           \/ \A s \in Sandboxes : Moves(s) \/ CreateSandbox(s) \/ Restore(s)
<1>0. /\ state \in [Sandboxes -> SandboxState] /\ events \in [Sandboxes -> Seq(Event)]
      /\ nextSequence \in [Sandboxes -> Nat]
  BY DEF TypeOK
<1>u. ASSUME UNCHANGED <<state, events, nextSequence>>
      PROVE  \A t \in Sandboxes : Moves(t)
  BY <1>u, StaysMoves
<1>1. ASSUME NEW g \in Goroutines, GoroutineStep(g)
      PROVE  \A s \in Sandboxes : Moves(s)
  BY <1>1, GoroutineMoves
<1>2. ASSUME NEW T \in SUBSET Sandboxes,
             Request(T) \/ idleScanAndStop(T) \/ Cleanup(T) \/ DropPurged
      PROVE  \A s \in Sandboxes : Moves(s) \/ CreateSandbox(s)
  BY <1>2, RequestMoves
<1>3. CASE CrashStep
  BY <1>3 DEF CrashStep, Crash, CrashInCreateSandbox, RestoreAborts,
     CrashInDeleteFinish, CrashBeforeReady
<1>4. ASSUME NEW s \in Sandboxes, Restore(s), NEW t \in Sandboxes
      PROVE  Moves(t) \/ Restore(t)
  <2>1. t # s => /\ events'[t] = events[t] /\ nextSequence'[t] = nextSequence[t]
                 /\ state'[t] = state[t]
    BY <1>0, <1>4 DEF Restore, RecordEvents
  <2> QED
    BY <1>4, <2>1, StaysMoves
<1>5. ASSUME \/ Startup \/ Serve \/ DockerStep \/ UNCHANGED vars
             \/ \E s \in Sandboxes : dockerContainerEnsureRunning(s)
      PROVE  UNCHANGED <<state, events, nextSequence>>
  BY <1>5 DEF Startup, Serve, DockerStep, ContainerExits, ContainerRestarts,
     ContainerRemoved, SetContainer, dockerContainerEnsureRunning, vars, recordVars, logVars
<1>6. DropPurged => \E T \in SUBSET Sandboxes : DropPurged
  OBVIOUS
<1> QED
  BY <1>u, <1>1, <1>2, <1>3, <1>4, <1>5, <1>6 DEF Next, RestartStep

\* What the daemon has in memory of each sandbox stays a gapless log.
LEMMA NextMemoryLog ==
    ASSUME TypeOK, LogInv, MemoryLog, [Next]_vars, TypeOK', LogInv'
    PROVE  MemoryLog'
<1> SUFFICES ASSUME NEW s \in Sandboxes
             PROVE  Contiguous(events'[s]) /\ nextSequence'[s] = Len(events'[s])
  BY DEF MemoryLog
<1>1. Contiguous(events[s]) /\ nextSequence[s] = Len(events[s])
  BY DEF MemoryLog
<1>2. CASE LoseMemory
  <2>1. events'[s] = << >> /\ nextSequence'[s] = 0
    BY <1>2 DEF LoseMemory
  <2> QED
    BY <2>1 DEF Contiguous
<1>3. CASE Moves(s)
  <2>1. PICK muts \in Seq(Mutations) :
            /\ events'[s] = events[s] \o Stamp(nextSequence[s], muts)
            /\ nextSequence'[s] = nextSequence[s] + Len(muts)
    BY <1>3 DEF Moves
  <2> QED
    BY <1>1, <2>1, PutEventsAppends
<1>4. CASE CreateSandbox(s) \/ Restore(s)
  <2>1. s \in boxes' /\ s \in configs'
    BY <1>4 DEF CreateSandbox, Restore, Restorable, idVars
  <2> QED
    BY <2>1 DEF LogInv, LogDurable
<1> QED
  BY <1>2, <1>3, <1>4, StepMoves

\* What is being dropped stays out of the store.
LEMMA NextPurged ==
    ASSUME TypeOK, MarkInv, PurgedIsGone, [Next]_vars
    PROVE  PurgedIsGone'
<1>1. ASSUME NEW g \in Goroutines, GoroutineStep(g)
      PROVE  PurgedIsGone'
  BY <1>1, GoroutineStepAppends DEF PurgedIsGone
<1>2. ASSUME NEW T \in SUBSET Sandboxes, Request(T) \/ idleScanAndStop(T)
      PROVE  PurgedIsGone'
  <2>1. \/ \E s \in T : CreateSandbox(s) \/ CreateSandboxFails(s)
        \/ UNCHANGED <<configs, purging, sandboxIDs>>
    BY <1>2, RequestAppends
  <2>2. ASSUME NEW s \in T, CreateSandbox(s) \/ CreateSandboxFails(s)
        PROVE  PurgedIsGone'
    BY <2>2 DEF CreateSandbox, CreateSandboxFails, PurgedIsGone
  <2> QED
    BY <2>1, <2>2 DEF PurgedIsGone
<1>3. ASSUME NEW T \in SUBSET Sandboxes, Cleanup(T)
      PROVE  PurgedIsGone'
  BY <1>3 DEF Cleanup, PurgedIsGone, MarkInv, DeletedOnRecord
<1>4. CASE DropPurged
  BY <1>4 DEF DropPurged, PurgedIsGone, idVars
<1>5. CASE CrashStep
  BY <1>5 DEF CrashStep, Crash, CrashInCreateSandbox, RestoreAborts,
     CrashInDeleteFinish, CrashBeforeReady, LoseMemory, PurgedIsGone
<1>6. CASE \/ RestartStep \/ DockerStep \/ UNCHANGED vars
           \/ \E s \in Sandboxes : dockerContainerEnsureRunning(s)
  <2>1. UNCHANGED <<purging, configs, sandboxIDs>>
    BY <1>6 DEF RestartStep, Startup, Serve, Restore, DockerStep, ContainerExits,
       ContainerRestarts, ContainerRemoved, SetContainer, dockerContainerEnsureRunning,
       vars, idVars
  <2> QED
    BY <2>1 DEF PurgedIsGone
<1> QED
  BY <1>1, <1>2, <1>3, <1>4, <1>5, <1>6 DEF Next

\* A record enters boxes by a create or a restore only.
LEMMA NewRecord ==
    ASSUME TypeOK, [Next]_vars
    PROVE  \/ LoseMemory
           \/ \A s \in boxes' : s \in boxes \/ CreateSandbox(s) \/ Restore(s)
<1>1. ASSUME NEW g \in Goroutines, GoroutineStep(g)
      PROVE  boxes' = boxes
  BY <1>1, GoroutineStepAppends
<1>2. ASSUME NEW T \in SUBSET Sandboxes, Request(T) \/ idleScanAndStop(T)
      PROVE  \/ boxes' = boxes
             \/ \E t \in T : CreateSandbox(t) /\ boxes' = boxes \cup {t}
  <2>1. \A t \in T : /\ CreateSandbox(t) => boxes' = boxes \cup {t}
                     /\ CreateSandboxFails(t) => boxes' = boxes
    BY DEF CreateSandbox, CreateSandboxFails
  <2> QED
    BY <1>2, <2>1, RequestAppends
<1>3. ASSUME NEW t \in Sandboxes, Restore(t)
      PROVE  boxes' = boxes \cup {t}
  BY <1>3 DEF Restore
<1>4. CASE CrashStep
  BY <1>4 DEF CrashStep, Crash, CrashInCreateSandbox, RestoreAborts,
     CrashInDeleteFinish, CrashBeforeReady
<1>5. ASSUME \/ Startup \/ Serve \/ DockerStep \/ UNCHANGED vars \/ DropPurged
             \/ \E t \in Sandboxes : dockerContainerEnsureRunning(t)
             \/ \E T \in SUBSET Sandboxes : Cleanup(T)
      PROVE  boxes' \subseteq boxes
  BY <1>5 DEF Startup, Serve, DockerStep, ContainerExits, ContainerRestarts,
     ContainerRemoved, SetContainer, dockerContainerEnsureRunning, vars, DropPurged, Cleanup
<1> QED
  BY <1>1, <1>2, <1>3, <1>4, <1>5 DEF Next, RestartStep

\* STOPPED is recorded only where it is entered, and READY is the last event
\* where READY is entered.
LEMMA NextReady ==
    ASSUME TypeOK, LogInv, ReadyIsNotStopped, [Next]_vars, TypeOK', LogInv'
    PROVE  ReadyIsNotStopped'
<1> SUFFICES ASSUME NEW s \in boxes', state'[s] = "READY"
             PROVE  PersistedState(events'[s]) # "STOPPED"
  BY DEF ReadyIsNotStopped
<1>0. s \in Sandboxes /\ events[s] \in Seq(Event) /\ nextSequence[s] \in Nat
  BY DEF TypeOK
<1>1. CASE LoseMemory
  BY <1>1 DEF LoseMemory
<1>2. CASE Restore(s)
  BY <1>0, <1>2, RestoredFollows
<1>3. CASE CreateSandbox(s)
  BY <1>0, <1>3 DEF CreateSandbox, TypeOK
<1>4. CASE Moves(s) /\ s \in boxes
  <2>1. PICK muts \in Seq(Mutations) :
            /\ events'[s] = events[s] \o Stamp(nextSequence[s], muts)
            /\ state'[s] = state[s] \/ (muts # << >> /\ muts[Len(muts)].st = state'[s])
            /\ \A i \in 1..Len(muts) : muts[i].st = "STOPPED" => state'[s] = "STOPPED"
    BY <1>4 DEF Moves
  <2>2. CASE muts # << >> /\ muts[Len(muts)].st = "READY"
    BY <1>0, <2>1, <2>2, PersistedAppend
  <2>3. CASE state[s] = "READY"
    <3> DEFINE new == events[s] \o Stamp(nextSequence[s], muts)
    <3>1. /\ Prefix(events[s], new) /\ Len(new) = Len(events[s]) + Len(muts)
          /\ \A i \in 1..Len(muts) : new[Len(events[s]) + i].st = muts[i].st
      BY <1>0, StampPrefix
    <3>2. PersistedState(events[s]) # "STOPPED"
      BY <1>4, <2>3 DEF ReadyIsNotStopped
    <3> HIDE DEF new
    <3>3. \A k \in (Len(events[s]) + 1)..Len(new) : new[k].st # "STOPPED"
      <4> SUFFICES ASSUME NEW k \in (Len(events[s]) + 1)..Len(new)
                   PROVE  new[k].st # "STOPPED"
        OBVIOUS
      <4>1. /\ k - Len(events[s]) \in 1..Len(muts)
            /\ Len(events[s]) + (k - Len(events[s])) = k
        BY <1>0, <2>1, <3>1
      <4>2. new[k].st = muts[k - Len(events[s])].st
        BY <3>1, <4>1
      <4> QED
        BY <2>1, <4>1, <4>2
    <3>4. PersistedState(new) # "STOPPED"
      BY <3>1, <3>2, <3>3, PersistedPrefix
    <3> QED
      BY <2>1, <3>4 DEF new
  <2> QED
    BY <2>1, <2>2, <2>3
<1>5. s \in boxes \/ CreateSandbox(s) \/ Restore(s) \/ LoseMemory
  BY NewRecord
<1> QED
  BY <1>0, <1>1, <1>2, <1>3, <1>4, <1>5, StepMoves

\* Together they hold in every state of the daemon.
LEMMA InitDaemon == Init => DaemonInv
<1> SUFFICES ASSUME Init
             PROVE  DaemonInv
  OBVIOUS
<1>1. RecordInv /\ MarkInv
  BY InitRecord, InitMark
<1>2. MemoryLog /\ PurgedIsGone /\ ReadyIsNotStopped
  <2>1. \A s \in Sandboxes : events[s] = << >> /\ nextSequence[s] = 0
    BY DEF Init
  <2>c. Contiguous(<< >>) /\ Len(<< >>) = 0
    BY DEF Contiguous
  <2>2. MemoryLog
    BY <2>1, <2>c DEF MemoryLog
  <2> QED
    BY <2>2 DEF Init, PurgedIsGone, ReadyIsNotStopped
<1> QED
  BY <1>1, <1>2 DEF DaemonInv

\* Every step keeps them.
LEMMA NextDaemon == DaemonInv /\ [Next]_vars => DaemonInv'
<1> SUFFICES ASSUME DaemonInv, [Next]_vars
             PROVE  DaemonInv'
  OBVIOUS
<1>1. RecordInv /\ MarkInv /\ TypeOK /\ LogInv
  BY DEF DaemonInv, RecordInv
<1>2. RecordInv' /\ TypeOK' /\ LogInv'
  BY <1>1, NextRecord DEF RecordInv
<1>3. MarkInv'
  BY <1>1, NextMark
<1>4. MemoryLog' /\ PurgedIsGone' /\ ReadyIsNotStopped'
  BY <1>1, <1>2, NextMemoryLog, NextPurged, NextReady DEF DaemonInv
<1> QED
  BY <1>2, <1>3, <1>4 DEF DaemonInv

-----------------------------------------------------------------------------
(***************************************************************************)
(* The history of a sandbox, wherever it is kept                           *)
(***************************************************************************)
\* A record shows the history, and its nextSequence is the history's length.
LEMMA HistoryFacts ==
    ASSUME DaemonInv, NEW s \in Sandboxes, Alive(s)
    PROVE  /\ Contiguous(History(s)) /\ History(s) \in Seq(Event)
           /\ Len(History(s)) \in Nat
           /\ s \in boxes => /\ History(s) = events[s]
                             /\ nextSequence[s] = Len(History(s))
           /\ s \in configs => History(s) = bucket[s]
<1>1. /\ \A t \in configs : Contiguous(bucket[t])
      /\ \A t \in boxes \cap configs : events[t] = bucket[t]
      /\ Contiguous(events[s]) /\ nextSequence[s] = Len(events[s])
  BY DEF DaemonInv, RecordInv, LogInv, LogDurable, MemoryLog
<1>2. Contiguous(History(s))
  BY <1>1 DEF Alive, History
<1>3. History(s) \in Seq(Event)
  BY <1>2 DEF Contiguous
<1> QED
  BY <1>1, <1>2, <1>3 DEF History

\* A log is a prefix of itself.
LEMMA PrefixOfItself ==
    ASSUME NEW log, Contiguous(log)
    PROVE  Prefix(log, log)
BY DEF Prefix, Contiguous

\* A stored history that has grown is a prefix of the new one.
LEMMA GrowPrefix ==
    ASSUME TypeOK, LogInv, StoredGrows, NEW s \in configs \cap configs'
    PROVE  Prefix(bucket[s], bucket'[s])
<1>1. s \in Sandboxes /\ Contiguous(bucket[s])
  BY DEF TypeOK, LogInv, LogDurable
<1>2. StoredLog[s] = bucket[s] /\ StoredLog'[s] = bucket'[s]
  BY <1>1, StoredContiguous
<1>3. PICK muts \in Seq(Mutations) : bucket'[s] = bucket[s] \o Stamp(Len(bucket[s]), muts)
  BY <1>1, <1>2 DEF StoredGrows
<1>4. bucket[s] \in Seq(Event) /\ Len(bucket[s]) \in Nat
  BY <1>1 DEF Contiguous
<1>5. Prefix(bucket[s], bucket[s] \o Stamp(Len(bucket[s]), muts))
  BY <1>4, StampPrefix
<1> QED
  BY <1>3, <1>5

\* As long as a sandbox can be found its history only grows, across purges,
\* crashes and restores; a reserved id never gets a second one.
LEMMA HistoryGrows ==
    ASSUME DaemonInv, [Next]_vars, NEW s \in sandboxIDs
    PROVE  /\ s \in sandboxIDs'
           /\ s \in configs' => s \in configs
           /\ (Alive(s))' => Alive(s) /\ Prefix(History(s), (History(s))')
<1>0. /\ TypeOK /\ LogInv /\ MarkInv /\ MemoryLog /\ s \in Sandboxes
      /\ (Alive(s))' <=> s \in boxes' \/ s \in configs'
      /\ (History(s))' = IF s \in configs' THEN bucket'[s] ELSE events'[s]
  BY DEF DaemonInv, RecordInv, TypeOK, Alive, History
<1>p. /\ events[s] \in Seq(Event) /\ nextSequence[s] \in Nat
      /\ Prefix(events[s], events[s])
      /\ s \in configs => Prefix(bucket[s], bucket[s])
  <2>1. Contiguous(events[s]) /\ (s \in configs => Contiguous(bucket[s]))
    BY <1>0 DEF MemoryLog, LogInv, LogDurable
  <2>2. events[s] \in Seq(Event) /\ nextSequence[s] \in Nat
    BY <1>0 DEF TypeOK
  <2> QED
    BY <2>1, <2>2, PrefixOfItself
<1>1. ASSUME s \in boxes', s \notin configs'
      PROVE  s \in boxes /\ Prefix(events[s], events'[s])
  <2>1. ~LoseMemory /\ ~CreateSandbox(s) /\ ~Restore(s)
    BY <1>0, <1>1 DEF LoseMemory, CreateSandbox, Restore, Restorable, idVars
  <2>2. s \in boxes
    BY <1>0, <1>1, <2>1, NewRecord
  <2>3. Moves(s)
    BY <1>0, <2>1, StepMoves
  <2>4. PICK muts \in Seq(Mutations) :
            events'[s] = events[s] \o Stamp(nextSequence[s], muts)
    BY <2>3 DEF Moves
  <2>5. Prefix(events[s], events[s] \o Stamp(nextSequence[s], muts))
    BY <1>p, StampPrefix
  <2> QED
    BY <2>2, <2>4, <2>5
<1>2. CASE GrowStep
  <2>1. configs' \cap sandboxIDs \subseteq configs /\ configs \subseteq configs'
        /\ sandboxIDs \subseteq sandboxIDs' /\ StoredGrows
    BY <1>2 DEF GrowStep
  <2>2. CASE s \in configs'
    <3>1. s \in configs /\ Prefix(bucket[s], bucket'[s])
      BY <1>0, <2>1, <2>2, GrowPrefix
    <3> QED
      BY <1>0, <2>1, <2>2, <3>1 DEF Alive, History
  <2>3. CASE s \notin configs'
    BY <1>0, <1>1, <2>1, <2>3 DEF Alive, History
  <2> QED
    BY <2>2, <2>3
<1>3. ASSUME NEW t \in Sandboxes, ReserveOnly(t)
      PROVE  /\ s \in sandboxIDs' /\ (s \in configs' => s \in configs)
             /\ (Alive(s))' => Alive(s) /\ Prefix(History(s), (History(s))')
  <2>1. configs' = configs /\ s \in sandboxIDs' /\ StoredLog' = StoredLog
    BY <1>3 DEF ReserveOnly
  <2>2. s \in configs => bucket'[s] = bucket[s]
    BY <1>0, <2>1, StoredContiguous
  <2>3. CASE s \in configs'
    BY <1>0, <1>p, <2>1, <2>2, <2>3 DEF Alive, History
  <2>4. CASE s \notin configs'
    BY <1>0, <1>1, <2>1, <2>4 DEF Alive, History
  <2> QED
    BY <2>1, <2>3, <2>4
<1>4. ASSUME NEW T \in SUBSET Sandboxes, Cleanup(T)
      PROVE  /\ s \in sandboxIDs' /\ (s \in configs' => s \in configs)
             /\ (Alive(s))' => Alive(s) /\ Prefix(History(s), (History(s))')
  <2>1. /\ configs' = configs \ T /\ sandboxIDs' = sandboxIDs
        /\ boxes' = boxes /\ events' = events
        /\ s \notin T => bucket'[s] = bucket[s]
    BY <1>0, <1>4 DEF Cleanup
  <2>2. s \in boxes \cap configs => events[s] = bucket[s]
    BY <1>0 DEF LogInv, LogDurable
  <2> QED
    BY <1>0, <1>p, <2>1, <2>2 DEF Alive, History
<1>5. CASE UNCHANGED vars
  <2>1. UNCHANGED <<configs, sandboxIDs, boxes, events, bucket>>
    BY <1>5 DEF vars, idVars, logVars
  <2> QED
    BY <1>0, <1>p, <2>1 DEF Alive, History
<1> QED
  BY <1>0, <1>2, <1>3, <1>4, <1>5, NextStored

\* A record is in the state it was in, in one that was entered with an event,
\* or in the one a restore found.
LEMMA StateEntered ==
    ASSUME DaemonInv, [Next]_vars, NEW s \in sandboxIDs, s \in boxes'
    PROVE  \/ s \in boxes /\ state'[s] = state[s]
           \/ \E k \in (Len(History(s)) + 1)..Len((History(s))') :
                  (History(s))'[k].st = state'[s]
           \/ state'[s] = PersistedState((History(s))')
<1>0. /\ TypeOK /\ LogInv /\ DaemonInv' /\ s \in Sandboxes /\ events[s] \in Seq(Event)
      /\ nextSequence[s] \in Nat
  BY NextDaemon DEF DaemonInv, RecordInv, TypeOK
<1>1. (History(s))' = events'[s]
  BY <1>0 DEF DaemonInv, RecordInv, LogInv, LogDurable, History
<1>2. ~LoseMemory /\ ~CreateSandbox(s)
  BY DEF LoseMemory, CreateSandbox
<1>3. CASE Restore(s)
  BY <1>0, <1>1, <1>3, RestoredFollows
<1>4. CASE ~Restore(s)
  <2>1. s \in boxes /\ Moves(s)
    BY <1>0, <1>2, <1>4, NewRecord, StepMoves
  <2>2. PICK muts \in Seq(Mutations) :
            /\ events'[s] = events[s] \o Stamp(nextSequence[s], muts)
            /\ state'[s] = state[s] \/ (muts # << >> /\ muts[Len(muts)].st = state'[s])
    BY <2>1 DEF Moves
  <2>3. History(s) = events[s]
    BY <2>1 DEF DaemonInv, RecordInv, LogInv, LogDurable, History
  <2>4. CASE muts # << >> /\ muts[Len(muts)].st = state'[s]
    <3> DEFINE new == events[s] \o Stamp(nextSequence[s], muts)
    <3>1. /\ Len(new) = Len(events[s]) + Len(muts)
          /\ \A i \in 1..Len(muts) : new[Len(events[s]) + i].st = muts[i].st
      BY <1>0, StampPrefix
    <3> HIDE DEF new
    <3>2. Len(muts) \in Nat /\ Len(muts) # 0 /\ Len(events[s]) \in Nat
      BY <1>0, <2>4
    <3>3. /\ Len(new) \in (Len(events[s]) + 1)..Len(new)
          /\ new[Len(new)].st = state'[s]
      BY <2>4, <3>1, <3>2
    <3>4. new = (History(s))'
      BY <1>1, <2>2 DEF new
    <3> QED
      BY <2>3, <3>3, <3>4
  <2> QED
    BY <2>1, <2>2, <2>4
<1> QED
  BY <1>3, <1>4

-----------------------------------------------------------------------------
(***************************************************************************)
(* The state a history carries up to a sequence, and what a call makes of  *)
(* a state                                                                 *)
(***************************************************************************)
\* What a history carries up to r does not depend on what follows r.
LEMMA StateAtPrefix ==
    ASSUME NEW old, NEW new, Prefix(old, new), NEW r \in 0..Len(old)
    PROVE  StateAt(new, r) = StateAt(old, r)
<1>1. /\ \A i \in 1..r : old[i] \in Event /\ new[i] \in Event /\ new[i] = old[i]
      /\ r \in Int /\ 1 \in Int /\ r >= 0
  BY DEF Prefix
<1> DEFINE a == SubSeq(old, 1, r)
           b == SubSeq(new, 1, r)
<1>2. a \in Seq(Event) /\ Len(a) = r /\ \A i \in 1..r : a[i] = old[i]
  <2>1. /\ a \in Seq(Event) /\ Len(a) = IF 1 <= r THEN r - 1 + 1 ELSE 0
        /\ \A i \in 1..(r - 1 + 1) : a[i] = old[1 + i - 1]
    BY <1>1, SubSeqProperties
  <2> HIDE DEF a
  <2> QED
    BY <1>1, <2>1
<1>3. b \in Seq(Event) /\ Len(b) = r /\ \A i \in 1..r : b[i] = new[i]
  <2>1. /\ b \in Seq(Event) /\ Len(b) = IF 1 <= r THEN r - 1 + 1 ELSE 0
        /\ \A i \in 1..(r - 1 + 1) : b[i] = new[1 + i - 1]
    BY <1>1, SubSeqProperties
  <2> HIDE DEF b
  <2> QED
    BY <1>1, <2>1
<1> HIDE DEF a, b
<1>4. \A i \in 1..Len(a) : a[i] = b[i]
  BY <1>1, <1>2, <1>3
<1>5. a = b
  BY <1>2, <1>3, <1>4, SeqEqual
<1> QED
  BY <1>5 DEF StateAt, a, b

\* Up to its end a history carries the state a restart would find.
LEMMA StateAtEnd ==
    ASSUME NEW log \in Seq(Event)
    PROVE  StateAt(log, Len(log)) = PersistedState(log)
<1> DEFINE a == SubSeq(log, 1, Len(log))
<1>1. \A i \in 1..Len(log) : log[i] \in Event
  OBVIOUS
<1>2. Len(log) \in Nat
  OBVIOUS
<1>3. /\ a \in Seq(Event) /\ Len(a) = IF 1 <= Len(log) THEN Len(log) - 1 + 1 ELSE 0
      /\ \A i \in 1..(Len(log) - 1 + 1) : a[i] = log[1 + i - 1]
  BY <1>1, <1>2, SubSeqProperties
<1> HIDE DEF a
<1>4. Len(a) = Len(log) /\ \A i \in 1..Len(a) : a[i] = log[i]
  BY <1>2, <1>3
<1>5. a = log
  BY <1>3, <1>4, SeqEqual
<1> QED
  BY <1>5 DEF StateAt, a

\* One event further a history carries that event's state, if it has one.
LEMMA StateAtNext ==
    ASSUME NEW log \in Seq(Event), NEW h \in Nat, h < Len(log)
    PROVE  StateAt(log, h + 1) = IF log[h + 1].st = "UNSPECIFIED" THEN StateAt(log, h)
                                                                  ELSE log[h + 1].st
<1>1. /\ \A i \in 1..(h + 1) : log[i] \in Event
      /\ \A i \in 1..h : log[i] \in Event
      /\ h \in Int /\ h + 1 \in Int /\ 1 \in Int /\ h >= 0
  OBVIOUS
<1> DEFINE a == SubSeq(log, 1, h)
           b == SubSeq(log, 1, h + 1)
<1>2. a \in Seq(Event) /\ Len(a) = h /\ \A i \in 1..h : a[i] = log[i]
  <2>1. /\ a \in Seq(Event) /\ Len(a) = IF 1 <= h THEN h - 1 + 1 ELSE 0
        /\ \A i \in 1..(h - 1 + 1) : a[i] = log[1 + i - 1]
    BY <1>1, SubSeqProperties
  <2> HIDE DEF a
  <2> QED
    BY <1>1, <2>1
<1>3. b \in Seq(Event) /\ Len(b) = h + 1 /\ \A i \in 1..(h + 1) : b[i] = log[i]
  <2>1. /\ b \in Seq(Event) /\ Len(b) = IF 1 <= h + 1 THEN (h + 1) - 1 + 1 ELSE 0
        /\ \A i \in 1..((h + 1) - 1 + 1) : b[i] = log[1 + i - 1]
    BY <1>1, SubSeqProperties
  <2> HIDE DEF b
  <2> QED
    BY <1>1, <2>1
<1> HIDE DEF a, b
<1>4. Prefix(a, b)
  BY <1>2, <1>3 DEF Prefix
<1>5. CASE log[h + 1].st = "UNSPECIFIED"
  <2>1. \/ PersistedState(b) = PersistedState(a)
        \/ /\ PersistedState(b) # "UNSPECIFIED"
           /\ \E k \in (Len(a) + 1)..Len(b) : b[k].st = PersistedState(b)
    BY <1>4, PersistedPrefix
  <2>2. \A k \in (Len(a) + 1)..Len(b) : b[k].st = "UNSPECIFIED"
    BY <1>2, <1>3, <1>5
  <2>3. PersistedState(b) = PersistedState(a)
    BY <2>1, <2>2
  <2> QED
    BY <1>5, <2>3 DEF StateAt, a, b
<1>6. CASE log[h + 1].st # "UNSPECIFIED"
  <2>1. \A j \in ((h + 1) + 1)..Len(b) : b[j].st = "UNSPECIFIED"
    BY <1>3
  <2>2. h + 1 \in 1..Len(b) /\ b[h + 1].st # "UNSPECIFIED"
    BY <1>3, <1>6
  <2>3. PersistedState(b) = b[h + 1].st
    BY <1>3, <2>1, <2>2, PersistedStateOf
  <2> QED
    BY <1>3, <1>6, <2>2, <2>3 DEF StateAt, b
<1> QED
  BY <1>5, <1>6

\* A call is over exactly at its target and where it gives up.
LEMMA VerdictOf ==
    ASSUME NEW call \in Calls, NEW st
    PROVE  /\ Verdict(call, st) \in {"reached", "failed", "waiting"}
           /\ Verdict(call, st) = "reached" => st = Target(call.op)
           /\ Verdict(call, st) = "waiting" <=> st # Target(call.op) /\ st \notin GivesUpAt(call)
<1>1. Target(call.op) \notin GivesUpAt(call)
  <2>1. call \in AllCalls
    BY CallsAssumption
  <2>2. /\ call.by \in {"sdk", "cli", "session"}
        /\ call.op \in {"create", "resume", "stop", "delete"}
    BY <2>1 DEF AllCalls
  <2>3. CASE call.by = "sdk"
    BY <2>2, <2>3 DEF Target, GivesUpAt, raiseForFailedSandbox
  <2>4. CASE call.by = "session"
    BY <2>2, <2>4 DEF Target, GivesUpAt, deleteAndWait
  <2>5. CASE call.by = "cli"
    BY <2>2, <2>5 DEF Target, GivesUpAt, waitForSandboxReady, classifyResumed,
       classifyStopped, classifyDeleted
  <2> QED
    BY <2>2, <2>3, <2>4, <2>5
<1> QED
  BY <1>1 DEF Verdict

\* A sandbox that is being created is not where the SDKs' create ends.
LEMMA PendingIsWaiting ==
    ASSUME NEW call \in Calls, call = [by |-> "sdk", op |-> "create"]
    PROVE  Verdict(call, "PENDING") = "waiting"
<1>1. Target(call.op) = "READY" /\ GivesUpAt(call) = {"FAILED"}
  BY DEF Target, GivesUpAt, raiseForFailedSandbox
<1> QED
  BY <1>1, VerdictOf

-----------------------------------------------------------------------------
(***************************************************************************)
(* A waiting call while the daemon goes on                                 *)
(***************************************************************************)
\* The fields of a call.
LEMMA CallFields ==
    ASSUME NEW q \in ClientCall
    PROVE  /\ q.at \in WaitPoint /\ q.call \in Calls /\ q.sb \in Sandboxes
           /\ q.accepted \in Nat /\ q.from \in Nat /\ q.sent \in Nat
           /\ q.inbox \in Seq(Event) /\ Len(q.inbox) \in Nat /\ Handled(q) \in Int
           /\ q.link \in {"none", "open", "ended", "broken"}
<1>1. /\ q.at \in WaitPoint /\ q.call \in Calls /\ q.sb \in Sandboxes
      /\ q.accepted \in Nat /\ q.from \in Nat /\ q.sent \in Nat
      /\ q.inbox \in Seq(Event) /\ q.link \in {"none", "open", "ended", "broken"}
  BY DEF ClientCall
<1>2. Len(q.inbox) \in Nat
  BY <1>1
<1> QED
  BY <1>1, <1>2 DEF Handled

\* What the call holds of the history is still part of it when it has grown.
LEMMA AnchoredStays ==
    ASSUME DaemonInv, [Next]_vars, NEW q \in ClientCall, Linked(q), Anchored(q)
    PROVE  (Anchored(q))'
<1> DEFINE s == q.sb
           h == Handled(q)
<1>1. s \in sandboxIDs
  BY DEF Linked
<1> SUFFICES ASSUME (Alive(s))'
             PROVE  (/\ q.accepted <= q.from /\ q.from <= Handled(q)
                     /\ q.from <= Len(History(q.sb)) /\ q.sent <= Len(History(q.sb))
                     /\ \A i \in 1..Len(q.inbox) :
                            q.inbox[i] = History(q.sb)[Handled(q) + i])'
  BY DEF Anchored
<1>2. Alive(s) /\ Prefix(History(s), (History(s))')
  BY <1>1, HistoryGrows
<1> DEFINE old == History(s)
           new == (History(s))'
<1>3. /\ q.accepted <= q.from /\ q.from <= h
      /\ q.from <= Len(old) /\ q.sent <= Len(old)
      /\ \A i \in 1..Len(q.inbox) : q.inbox[i] = old[h + i]
  BY <1>2 DEF Anchored
<1>4. /\ Len(old) \in Nat /\ Len(new) \in Nat /\ Len(old) <= Len(new)
      /\ \A k \in 1..Len(old) : new[k] = old[k]
  BY <1>2 DEF Prefix
<1>5. \/ q.link = "none" /\ q.inbox = << >>
      \/ h = q.sent - Len(q.inbox)
  BY DEF Linked, Handled
<1>6. h' = h /\ h \in Int /\ Len(q.inbox) \in Nat /\ q.from \in Nat /\ q.sent \in Nat
      /\ Len(q.inbox)' = Len(q.inbox)
  BY CallFields DEF Handled
<1> HIDE DEF s, h, old, new
<1>7. \A i \in 1..Len(q.inbox) : h + i \in 1..Len(old)
  BY <1>3, <1>4, <1>5, <1>6
<1>8. /\ q.from <= Len(new) /\ q.sent <= Len(new)
      /\ \A i \in 1..Len(q.inbox) : q.inbox[i] = new[h + i]
  BY <1>3, <1>4, <1>6, <1>7
<1> QED
  BY <1>3, <1>6, <1>8 DEF s, h, new

\* Until the target is entered nothing shows it.
LEMMA FreshStays ==
    ASSUME DaemonInv, [Next]_vars, NEW q \in ClientCall, Linked(q), Anchored(q), Fresh(q)
    PROVE  (Fresh(q))'
<1> DEFINE s == q.sb
           old == History(s)
           new == (History(s))'
           target == Target(q.call.op)
<1>1. s \in sandboxIDs
  BY DEF Linked
<1> SUFFICES ASSUME (Alive(s))', q.call.op # "delete", ~(Entered(q))'
             PROVE  /\ s \in boxes' => state'[s] # target
                    /\ PersistedState(new) # target
  BY DEF Fresh
<1>2. Alive(s) /\ Prefix(old, new)
  BY <1>1, HistoryGrows
<1>3. \A k \in 1..Len(new) : k >= q.accepted => new[k].st # target
  BY DEF Entered
<1>4. /\ Len(old) \in Nat /\ Len(new) \in Nat /\ Len(old) <= Len(new)
      /\ \A k \in 1..Len(old) : new[k] = old[k]
  BY <1>2 DEF Prefix
<1>5. q.accepted \in Nat /\ q.from \in Nat /\ q.accepted <= Len(old)
  <2>1. q.accepted <= q.from /\ q.from <= Len(old)
    BY <1>2 DEF Anchored
  <2> QED
    BY <1>4, <2>1, CallFields
<1>6. \A k \in (Len(old) + 1)..Len(new) : new[k].st # target
  <2>1. \A k \in (Len(old) + 1)..Len(new) : k \in 1..Len(new) /\ k >= q.accepted
    BY <1>4, <1>5
  <2> QED
    BY <1>3, <2>1
<1>7. ~Entered(q)
  <2>1. \A k \in 1..Len(old) : k \in 1..Len(new)
    BY <1>4
  <2> QED
    BY <1>3, <1>4, <2>1 DEF Entered
<1>8. (s \in boxes => state[s] # target) /\ PersistedState(old) # target
  BY <1>2, <1>7 DEF Fresh
<1>9. PersistedState(new) # target
  BY <1>2, <1>6, <1>8, PersistedPrefix
<1>10. ASSUME s \in boxes'
       PROVE  state'[s] # target
  <2>1. \/ s \in boxes /\ state'[s] = state[s]
        \/ \E k \in (Len(old) + 1)..Len(new) : new[k].st = state'[s]
        \/ state'[s] = PersistedState(new)
    BY <1>1, <1>10, StateEntered
  <2> HIDE DEF target, old, new
  <2> QED
    BY <1>6, <1>8, <1>9, <2>1
<1> QED
  BY <1>9, <1>10

\* What the call has seen is still in the history.
LEMMA WatchedStays ==
    ASSUME DaemonInv, [Next]_vars, NEW q \in ClientCall, Linked(q), Anchored(q), Watched(q)
    PROVE  (Watched(q))'
<1> DEFINE s == q.sb
           h == Handled(q)
           old == History(s)
           new == (History(s))'
<1>1. s \in sandboxIDs
  BY DEF Linked
<1> SUFFICES ASSUME (Alive(s))', q.at \in {"subscribe", "waiting"}
             PROVE  \E r \in h..Len(new) : Verdict(q.call, StateAt(new, r)) = "waiting"
  BY DEF Watched, Handled, Verdict, StateAt, Target, GivesUpAt
<1>2. Alive(s) /\ Prefix(old, new)
  BY <1>1, HistoryGrows
<1>3. PICK r \in h..Len(old) : Verdict(q.call, StateAt(old, r)) = "waiting"
  BY <1>2 DEF Watched
<1>4. Len(old) \in Nat /\ Len(new) \in Nat /\ Len(old) <= Len(new)
  BY <1>2 DEF Prefix
<1>5. h \in Int /\ h >= 0
  <2>1. q.from <= h
    BY <1>2 DEF Anchored
  <2> HIDE DEF h
  <2>2. h \in Int /\ q.from \in Nat
    BY CallFields DEF h
  <2> QED
    BY <2>1, <2>2
<1> HIDE DEF h, old, new
<1>6. r \in 0..Len(old) /\ r \in h..Len(new)
  BY <1>3, <1>4, <1>5
<1>7. StateAt(new, r) = StateAt(old, r)
  BY <1>2, <1>6, StateAtPrefix
<1> QED
  BY <1>3, <1>6, <1>7

\* A record leaves a daemon that goes on serving only after its history left
\* the store.
LEMMA BoxesStay ==
    ASSUME DaemonInv, [Next]_vars, daemon' = "serving", NEW s \in boxes
    PROVE  s \in boxes' \/ s \notin configs'
<1>0. TypeOK /\ PurgedIsGone
  BY DEF DaemonInv, RecordInv
<1>1. ASSUME NEW g \in Goroutines, GoroutineStep(g)
      PROVE  s \in boxes'
  BY <1>0, <1>1, GoroutineStepAppends
<1>2. ASSUME NEW T \in SUBSET Sandboxes, Request(T) \/ idleScanAndStop(T)
      PROVE  s \in boxes'
  <2>1. \A t \in T : CreateSandbox(t) \/ CreateSandboxFails(t) => s \in boxes'
    BY DEF CreateSandbox, CreateSandboxFails
  <2> QED
    BY <1>0, <1>2, <2>1, RequestAppends
<1>3. CASE DropPurged
  BY <1>0, <1>3 DEF DropPurged, PurgedIsGone, idVars
<1>4. CASE CrashStep
  BY <1>4 DEF CrashStep, Crash, CrashInCreateSandbox, RestoreAborts,
     CrashInDeleteFinish, CrashBeforeReady, LoseMemory
<1>5. ASSUME \/ Startup \/ Serve \/ DockerStep \/ UNCHANGED vars
             \/ \E t \in Sandboxes : dockerContainerEnsureRunning(t) \/ Restore(t)
             \/ \E T \in SUBSET Sandboxes : Cleanup(T)
      PROVE  s \in boxes'
  BY <1>5 DEF Startup, Serve, DockerStep, ContainerExits, ContainerRestarts, Restore,
     ContainerRemoved, SetContainer, dockerContainerEnsureRunning, vars, Cleanup
<1> QED
  BY <1>1, <1>2, <1>3, <1>4, <1>5 DEF Next, RestartStep

\* An open stream stays that of a daemon that knows its sandbox.
LEMMA LinkedStays ==
    ASSUME DaemonInv, [Next]_vars, daemon = "serving" => daemon' = "serving",
           NEW q \in ClientCall, Linked(q)
    PROVE  (Linked(q))'
<1>1. q.sb \in sandboxIDs
  BY DEF Linked
<1>2. q.sb \in sandboxIDs' /\ (q.sb \in configs' => q.sb \in configs)
  BY <1>1, HistoryGrows
<1>3. ASSUME q.link = "open"
      PROVE  daemon' = "serving" /\ (q.sb \in boxes' \/ q.sb \notin configs')
  <2>1. daemon' = "serving" /\ (q.sb \in boxes \/ q.sb \notin configs)
    BY <1>3 DEF Linked
  <2> QED
    BY <1>2, <2>1, BoxesStay
<1> QED
  BY <1>2, <1>3 DEF Linked

\* So what holds of a call keeps holding while others move.
LEMMA CallStays ==
    ASSUME DaemonInv, [Next]_vars, NEW q \in ClientCall, CallInv(q), (Linked(q))'
    PROVE  (CallInv(q))'
<1>1. Linked(q) /\ Anchored(q) /\ Fresh(q) /\ (StoreMayFail \/ Watched(q))
  BY DEF CallInv
<1>2. (Anchored(q))' /\ (Fresh(q))' /\ (StoreMayFail \/ (Watched(q))')
  BY <1>1, AnchoredStays, FreshStays, WatchedStays
<1> QED
  BY <1>2 DEF CallInv

\* A stream that breaks leaves the call with what it has.
LEMMA CallBreaks ==
    ASSUME NEW q \in ClientCall, CallInv(q), q.link = "open",
           NEW p \in ClientCall, p = [q EXCEPT !.link = "broken"]
    PROVE  CallInv(p)
<1>1. /\ p.at = q.at /\ p.call = q.call /\ p.sb = q.sb /\ p.accepted = q.accepted
      /\ p.from = q.from /\ p.sent = q.sent /\ p.inbox = q.inbox /\ p.link = "broken"
  BY DEF ClientCall
<1>2. Handled(p) = Handled(q)
  BY <1>1 DEF Handled
<1>3. Linked(p)
  BY <1>1 DEF CallInv, Linked
<1>4. Anchored(p)
  BY <1>1, <1>2 DEF CallInv, Anchored
<1>5. Fresh(p)
  BY <1>1 DEF CallInv, Fresh, Entered
<1>6. StoreMayFail \/ Watched(p)
  BY <1>1, <1>2 DEF CallInv, Watched
<1> QED
  BY <1>3, <1>4, <1>5, <1>6 DEF CallInv

\* Every step but a crash leaves a serving daemon serving.
LEMMA StaysServing ==
    ASSUME DaemonStep \/ (\E op, s : Requested(op, s)) \/ UNCHANGED vars
    PROVE  daemon = "serving" => daemon' = "serving"
<1>1. ASSUME NEW g \in Goroutines, GoroutineStep(g)
      PROVE  daemon' = daemon
  BY <1>1 DEF GoroutineStep, CreateStart, BackendCreate, BackendStart, CreateFinish,
     CompanionStartup, ResumeStart, BackendResume, ResumeFinish, StopStart, BackendStop,
     StopFinish, StopFailedSandbox, DeleteStart, BackendDelete, DeleteFinish
<1>2. ASSUME NEW T \in SUBSET Sandboxes, Request(T) \/ idleScanAndStop(T) \/ Cleanup(T)
      PROVE  daemon' = daemon
  BY <1>2 DEF Request, CreateSandbox, CreateSandboxFails, ResumeSandbox, StopSandbox,
     DeleteSandbox, ReportCompanionFailed, DeleteSandboxes, cleanupStoppedSandboxes,
     applyPrimaryFailed, idleScanAndStop, Cleanup
<1>3. ASSUME \/ DropPurged \/ RestartStep \/ DockerStep \/ UNCHANGED vars
             \/ \E s \in Sandboxes : dockerContainerEnsureRunning(s)
      PROVE  daemon = "serving" => daemon' = "serving"
  BY <1>3 DEF DropPurged, RestartStep, Startup, Serve, Restore, DockerStep, ContainerExits,
     ContainerRestarts, ContainerRemoved, SetContainer, dockerContainerEnsureRunning, vars
<1>4. ASSUME NEW op, NEW s, Requested(op, s)
      PROVE  daemon' = daemon
  BY <1>4 DEF Requested, CreateSandbox, ResumeSandbox, StopSandbox, DeleteSandbox,
     DeleteAcknowledged, vars
<1> QED
  BY <1>1, <1>2, <1>3, <1>4 DEF DaemonStep

-----------------------------------------------------------------------------
(***************************************************************************)
(* The daemon with its streams is still the daemon                         *)
(***************************************************************************)
\* An accepted request is a step of the life cycle.
LEMMA RequestedIsNext ==
    ASSUME NEW op, NEW s \in Sandboxes, Requested(op, s)
    PROVE  [Next]_vars
<1>1. CASE CreateSandbox(s) \/ ResumeSandbox(s) \/ StopSandbox(s) \/ DeleteSandbox(s)
  <2>1. {s} \in SUBSET Sandboxes /\ Request({s})
    BY <1>1 DEF Request
  <2> QED
    BY <2>1 DEF Next
<1>2. CASE DeleteAcknowledged(s)
  BY <1>2 DEF DeleteAcknowledged
<1> QED
  BY <1>1, <1>2 DEF Requested

\* Every step with streams is one of the life cycle or leaves it alone.
LEMMA StreamIsNext == [StreamNext]_streamVars => [Next]_vars
<1>1. ASSUME NEW c \in Clients, NEW call \in Calls, NEW s \in Sandboxes, Call(c, call, s)
      PROVE  [Next]_vars
  BY <1>1, RequestedIsNext DEF Call
<1>2. ASSUME NEW c \in Clients, ClientStep(c) \/ TimesOut(c) \/ Poll(c)
      PROVE  UNCHANGED vars
  BY <1>2 DEF ClientStep, Baseline, Subscribe, ReceiveSDK, ReceiveCLI, Reread, StreamOver,
     TimesOut, Poll
<1>3. StreamsCrash => Next
  BY DEF StreamsCrash, Next
<1>4. DaemonStep => Next
  BY DEF DaemonStep, Next
<1>5. UNCHANGED streamVars => UNCHANGED vars
  BY DEF streamVars
<1> QED
  BY <1>1, <1>2, <1>3, <1>4, <1>5 DEF StreamNext

-----------------------------------------------------------------------------
(***************************************************************************)
(* What a call's own steps make of it: q before the step, p after it       *)
(***************************************************************************)
\* GetSandbox takes state and sequence at one moment: the baseline is at the
\* end of the history.
LEMMA BaselineCall ==
    ASSUME DaemonInv, NEW q \in ClientCall, CallInv(q), q.at = "baseline",
           q.sb \in boxes, Verdict(q.call, state[q.sb]) = "waiting",
           NEW p, p = [q EXCEPT !.at = "subscribe", !.from = nextSequence[q.sb]]
    PROVE  p \in ClientCall /\ CallInv(p)
<1> DEFINE s == q.sb
           log == History(s)
<1>0. Linked(q) /\ Anchored(q) /\ Fresh(q)
  BY DEF CallInv
<1>1. /\ Alive(s) /\ s \in Sandboxes /\ log \in Seq(Event) /\ Len(log) \in Nat
      /\ log = events[s] /\ nextSequence[s] = Len(log)
  <2>1. Alive(s) /\ s \in Sandboxes
    BY CallFields DEF Alive
  <2> QED
    BY <2>1, HistoryFacts
<1>2. /\ p.at = "subscribe" /\ p.call = q.call /\ p.sb = q.sb /\ p.accepted = q.accepted
      /\ p.from = Len(log) /\ p.sent = q.sent /\ p.inbox = q.inbox /\ p.link = q.link
      /\ p \in ClientCall
  BY <1>1 DEF ClientCall, WaitPoint
<1>3. q.link = "none" /\ q.inbox = << >> /\ q.sent = 0
  BY <1>0 DEF Linked
<1>4. Linked(p)
  BY <1>0, <1>2, <1>3 DEF Linked
<1>5. Handled(p) = Len(log)
  BY <1>2, <1>3 DEF Handled
<1>6. Anchored(p)
  <2>1. q.accepted <= q.from /\ q.from <= Len(log)
    BY <1>0, <1>1 DEF Anchored
  <2>2. q.accepted \in Nat /\ q.from \in Nat
    BY CallFields
  <2> HIDE DEF log
  <2>3. /\ p.accepted <= p.from /\ p.from <= Handled(p)
        /\ p.from <= Len(log) /\ p.sent <= Len(log)
        /\ 1..Len(p.inbox) = {}
    BY <1>1, <1>2, <1>3, <1>5, <2>1, <2>2
  <2> QED
    BY <1>2, <2>3 DEF Anchored, log
<1>7. Fresh(p)
  BY <1>0, <1>2 DEF Fresh, Entered
<1>8. ~StoreMayFail => Watched(p)
  <2> SUFFICES ASSUME ~StoreMayFail
               PROVE  Watched(p)
    OBVIOUS
  <2>1. state[s] = PersistedState(log)
    BY <1>1 DEF DaemonInv, RecordInv, StateFollowsLog
  <2>2. Verdict(p.call, StateAt(log, Len(log))) = "waiting"
    BY <1>1, <1>2, <2>1, StateAtEnd
  <2>3. Len(log) \in Handled(p)..Len(log)
    BY <1>1, <1>5
  <2> QED
    BY <1>2, <2>2, <2>3 DEF Watched
<1> QED
  BY <1>2, <1>4, <1>6, <1>7, <1>8 DEF CallInv

\* The parts of a concatenation.
LEMMA ConcatParts ==
    ASSUME NEW s \in Seq(Event), NEW t \in Seq(Event)
    PROVE  /\ s \o t \in Seq(Event) /\ Len(s \o t) = Len(s) + Len(t)
           /\ \A i \in 1..Len(s) : (s \o t)[i] = s[i]
           /\ \A i \in (Len(s) + 1)..(Len(s) + Len(t)) : (s \o t)[i] = t[i - Len(s)]
OBVIOUS

\* The record of a call to which the events of a log after n have been sent.
Sent(q, log, n) ==
    LET new == eventsAfter(log, n)
    IN  [q EXCEPT !.inbox = @ \o new,
                  !.sent  = IF new = << >> THEN n ELSE new[Len(new)].seq]

\* It has its type, whatever n is.
LEMMA SentFields ==
    ASSUME NEW q \in ClientCall, NEW log, Contiguous(log), NEW n \in Nat
    PROVE  LET p == Sent(q, log, n)
           IN  /\ p \in ClientCall
               /\ p.at = q.at /\ p.call = q.call /\ p.sb = q.sb /\ p.accepted = q.accepted
               /\ p.from = q.from /\ p.link = q.link
               /\ p.inbox = q.inbox \o eventsAfter(log, n)
               /\ n <= Len(log) => p.sent = Len(log)
<1> DEFINE p   == Sent(q, log, n)
           new == eventsAfter(log, n)
           m   == IF n <= Len(log) THEN Len(log) - n ELSE 0
           sent == IF new = << >> THEN n ELSE new[Len(new)].seq
<1>1. /\ new \in Seq(Event) /\ Len(new) = m
      /\ \A i \in 1..m : new[i].seq = n + i
  BY EventsAfter
<1>2. log \in Seq(Event) /\ Len(log) \in Nat /\ m \in Nat
  BY DEF Contiguous
<1>3. new = << >> <=> m = 0
  <2> HIDE DEF new, m
  <2> QED
    BY <1>1, <1>2, EmptySeq
<1>4. sent = (IF m = 0 THEN n ELSE n + m)
  <2> HIDE DEF new, m
  <2>1. m # 0 => m \in 1..m
    BY <1>2
  <2> QED
    BY <1>1, <1>3, <2>1
<1>5. sent \in Nat /\ (n <= Len(log) => sent = Len(log))
  <2> HIDE DEF sent
  <2> QED
    BY <1>2, <1>4
<1>6. q.inbox \in Seq(Event) /\ q.inbox \o new \in Seq(Event)
  <2> HIDE DEF new
  <2> QED
    BY <1>1, CallFields
<1>7. p = [q EXCEPT !.inbox = q.inbox \o new, !.sent = sent]
  BY DEF Sent
<1> HIDE DEF p, new, sent, m
<1>8. /\ p \in ClientCall
      /\ p.at = q.at /\ p.call = q.call /\ p.sb = q.sb /\ p.accepted = q.accepted
      /\ p.from = q.from /\ p.link = q.link /\ p.inbox = q.inbox \o new /\ p.sent = sent
  BY <1>5, <1>6, <1>7 DEF ClientCall
<1> QED
  BY <1>5, <1>8 DEF p, new

\* After a replay or a poll everything up to the end of the history is on its
\* way, each event once and in order.
LEMMA SentAnchored ==
    ASSUME DaemonInv, NEW q \in ClientCall, Linked(q), Anchored(q), q.sb \in boxes,
           NEW n, n = Handled(q) + Len(q.inbox), NEW p, p = Sent(q, events[q.sb], n)
    PROVE  /\ n \in Nat /\ n <= Len(History(q.sb)) /\ p.sent = Len(History(q.sb))
           /\ p.sent - Len(p.inbox) = Handled(q)
           /\ \A i \in 1..Len(p.inbox) : p.inbox[i] = History(q.sb)[Handled(q) + i]
<1> DEFINE s == q.sb
           log == History(s)
           h == Handled(q)
           L == Len(log)
           a == Len(q.inbox)
           new == eventsAfter(log, n)
<1>1. /\ s \in Sandboxes /\ Alive(s) /\ Contiguous(log) /\ log = events[s] /\ L \in Nat
  <2>1. Alive(s) /\ s \in Sandboxes
    BY CallFields DEF Alive
  <2> QED
    BY <2>1, HistoryFacts
<1>2. /\ q.from <= h /\ q.from <= L /\ q.sent <= L
      /\ \A i \in 1..a : q.inbox[i] = log[h + i]
  BY <1>1 DEF Anchored
<1>3. /\ q.from \in Nat /\ q.sent \in Nat /\ h \in Int /\ a \in Nat
      /\ q.inbox \in Seq(Event)
  BY CallFields
<1>4. n = q.sent \/ (n = q.from /\ a = 0)
  <2>1. CASE q.link = "none"
    <3>1. q.inbox = << >> /\ h = q.from
      BY <2>1 DEF Linked, Handled
    <3>2. a = 0
      BY <3>1
    <3> QED
      BY <1>3, <3>1, <3>2
  <2>2. CASE q.link # "none"
    <3>1. h = q.sent - a
      BY <2>2 DEF Handled
    <3> HIDE DEF h, a
    <3> QED
      BY <1>3, <3>1 DEF h, a
  <2> QED
    BY <2>1, <2>2
<1>5. n \in Nat /\ n <= L /\ n = h + a
  <2> HIDE DEF h, a, L
  <2>1. n = h + a
    BY DEF h, a
  <2> QED
    BY <1>1, <1>2, <1>3, <1>4, <2>1
<1>6. /\ new \in Seq(Event) /\ Len(new) = L - n
      /\ \A i \in 1..(L - n) : new[i] = log[n + i]
  <2>1. (IF n <= L THEN L - n ELSE 0) = L - n
    BY <1>5
  <2> QED
    BY <1>1, <1>5, <2>1, EventsAfter
<1>7. p.inbox = q.inbox \o new /\ p.sent = L
  <2>1. p = Sent(q, log, n)
    BY <1>1
  <2>2. Contiguous(log) /\ n \in Nat /\ n <= Len(log)
    BY <1>1, <1>5
  <2> HIDE DEF log
  <2>3. /\ Sent(q, log, n).inbox = q.inbox \o eventsAfter(log, n)
        /\ n <= Len(log) => Sent(q, log, n).sent = Len(log)
    <3>1. \A e : Contiguous(e) =>
              /\ Sent(q, e, n).inbox = q.inbox \o eventsAfter(e, n)
              /\ n <= Len(e) => Sent(q, e, n).sent = Len(e)
      BY ONLY q \in ClientCall, <2>2, SentFields
    <3> QED
      BY ONLY <2>2, <3>1
  <2> QED
    BY <2>1, <2>2, <2>3
<1> HIDE DEF s, log, h, L, a, new
<1>8. /\ Len(q.inbox \o new) = a + (L - n)
      /\ \A i \in 1..(a + (L - n)) : (q.inbox \o new)[i] =
             IF i <= a THEN q.inbox[i] ELSE new[i - a]
  <2>1. Len(q.inbox) = a
    BY DEF a
  <2> DEFINE box == q.inbox
  <2>2. /\ box \in Seq(Event) /\ new \in Seq(Event) /\ Len(box) = a /\ Len(new) = L - n
    BY <1>3, <1>6, <2>1
  <2> HIDE DEF box
  <2>3. /\ Len(box \o new) = a + (L - n)
        /\ \A i \in 1..(a + (L - n)) : (box \o new)[i] = IF i <= a THEN box[i] ELSE new[i - a]
    <3>1. /\ Len(box \o new) = Len(box) + Len(new)
          /\ \A i \in 1..Len(box) : (box \o new)[i] = box[i]
          /\ \A i \in (Len(box) + 1)..(Len(box) + Len(new)) :
                 (box \o new)[i] = new[i - Len(box)]
      BY <2>2, ConcatParts
    <3>2. \A i \in 1..(a + (L - n)) :
              IF i <= a THEN i \in 1..a ELSE i \in (a + 1)..(a + (L - n))
      BY <1>1, <1>3, <1>5
    <3> QED
      BY <2>2, <3>1, <3>2
  <2> QED
    BY <2>3 DEF box
<1>9. \A i \in 1..(a + (L - n)) : (q.inbox \o new)[i] = log[h + i]
  <2> SUFFICES ASSUME NEW i \in 1..(a + (L - n))
               PROVE  (q.inbox \o new)[i] = log[h + i]
    OBVIOUS
  <2>1. CASE i <= a
    <3>1. i \in 1..a
      BY <1>1, <1>3, <1>5, <2>1
    <3> QED
      BY <1>2, <1>8, <2>1, <3>1
  <2>2. CASE ~(i <= a)
    <3>1. i - a \in 1..(L - n) /\ n + (i - a) = h + i
      BY <1>1, <1>3, <1>5, <2>2
    <3> QED
      BY <1>6, <1>8, <2>2, <3>1
  <2> QED
    BY <2>1, <2>2
<1>10. L - (a + (L - n)) = h
  BY <1>1, <1>3, <1>5
<1> QED
  BY <1>5, <1>7, <1>8, <1>9, <1>10 DEF s, log, h, L

\* A call to which the rest of the history was sent misses nothing of it.
LEMMA SentCall ==
    ASSUME DaemonInv, NEW q \in ClientCall, CallInv(q), q.sb \in boxes,
           NEW n, n = Handled(q) + Len(q.inbox),
           NEW p \in ClientCall, p.call = q.call, p.sb = q.sb, p.accepted = q.accepted,
           p.from = q.from, p.inbox = Sent(q, events[q.sb], n).inbox,
           p.sent = Sent(q, events[q.sb], n).sent, p.link # "none", Linked(p),
           p.at = q.at \/ q.at = "subscribe"
    PROVE  CallInv(p)
<1> DEFINE s == q.sb
           log == History(s)
           h == Handled(q)
           new == Sent(q, events[s], n)
<1>0. Linked(q) /\ Anchored(q) /\ Fresh(q) /\ (StoreMayFail \/ Watched(q))
  BY DEF CallInv
<1>1. /\ new.sent = Len(log) /\ new.sent - Len(new.inbox) = h
      /\ \A i \in 1..Len(new.inbox) : new.inbox[i] = log[h + i]
  BY SMTT(30), <1>0, SentAnchored
<1>2. Alive(s) /\ log \in Seq(Event) /\ Len(log) \in Nat
  <2>1. Alive(s) /\ s \in Sandboxes
    BY CallFields DEF Alive
  <2> QED
    BY <2>1, HistoryFacts
<1> HIDE DEF new
<1>3. /\ p.sent = Len(log) /\ Handled(p) = h
      /\ \A i \in 1..Len(p.inbox) : p.inbox[i] = log[h + i]
  <2>1. p.inbox = new.inbox /\ p.sent = new.sent
    BY DEF new
  <2>2. Handled(p) = p.sent - Len(p.inbox)
    BY DEF Handled
  <2> QED
    BY <1>1, <2>1, <2>2
<1>4. Anchored(p)
  <2>1. q.accepted <= q.from /\ q.from <= h /\ q.from <= Len(log)
    BY <1>0, <1>2 DEF Anchored
  <2>2. Len(log) <= Len(log)
    BY <1>2
  <2> HIDE DEF h
  <2> QED
    BY <1>3, <2>1, <2>2 DEF Anchored
<1>5. Fresh(p)
  BY <1>0 DEF Fresh, Entered
<1>6. StoreMayFail \/ Watched(p)
  BY <1>0, <1>3 DEF Watched
<1> QED
  BY <1>4, <1>5, <1>6 DEF CallInv

\* A subscription replays what followed the baseline.
LEMMA SubscribeCall ==
    ASSUME DaemonInv, NEW q \in ClientCall, CallInv(q), q.at = "subscribe",
           daemon = "serving", q.sb \in boxes,
           NEW p, p = [Sent(q, events[q.sb], q.from) EXCEPT !.at = "waiting",
                                                           !.link = "open"]
    PROVE  p \in ClientCall /\ CallInv(p)
<1> DEFINE new == Sent(q, events[q.sb], q.from)
<1>1. Contiguous(events[q.sb]) /\ q.from \in Nat
  BY CallFields DEF DaemonInv, MemoryLog
<1>2. /\ new \in ClientCall /\ new.call = q.call /\ new.sb = q.sb
      /\ new.accepted = q.accepted /\ new.from = q.from
  BY <1>1, SentFields
<1>3. q.from = Handled(q) + Len(q.inbox) /\ Linked(q)
  <2>1. q.link = "none" /\ q.inbox = << >> /\ Linked(q)
    BY DEF CallInv, Linked
  <2>2. Handled(q) = q.from /\ Len(q.inbox) = 0
    BY <2>1 DEF Handled
  <2> QED
    BY <1>1, <2>1, <2>2
<1> HIDE DEF new
<1>4. /\ p \in ClientCall /\ p.at = "waiting" /\ p.link = "open"
      /\ p.call = q.call /\ p.sb = q.sb /\ p.accepted = q.accepted /\ p.from = q.from
      /\ p.inbox = new.inbox /\ p.sent = new.sent
  <2>1. p = [new EXCEPT !.at = "waiting", !.link = "open"]
    BY DEF new
  <2> QED
    BY <1>2, <2>1 DEF ClientCall, WaitPoint
<1>5. Linked(p)
  BY <1>3, <1>4 DEF Linked
<1> QED
  BY <1>3, <1>4, <1>5, SentCall DEF new

\* A tick of the stream sends what is new; one that finds the record gone
\* drains it.
LEMMA PollCall ==
    ASSUME DaemonInv, NEW q \in ClientCall, CallInv(q), q.link = "open",
           NEW p, \/ /\ q.sb \in boxes
                     /\ p = Sent(q, events[q.sb], q.sent)
                  \/ /\ q.sb \notin boxes
                     /\ p = [Sent(q, events[q.sb], q.sent) EXCEPT !.link = "ended"]
    PROVE  p \in ClientCall /\ CallInv(p)
<1> DEFINE new == Sent(q, events[q.sb], q.sent)
<1>0. Linked(q)
  BY DEF CallInv
<1>1. Contiguous(events[q.sb]) /\ q.sent \in Nat
  BY CallFields DEF DaemonInv, MemoryLog
<1>2. /\ new \in ClientCall /\ new.at = q.at /\ new.call = q.call /\ new.sb = q.sb
      /\ new.accepted = q.accepted /\ new.from = q.from /\ new.link = q.link
  BY <1>1, SentFields
<1>3. CASE q.sb \in boxes
  <2>1. p = new
    BY <1>3
  <2>2. q.sent = Handled(q) + Len(q.inbox)
    BY <1>1, CallFields DEF Handled
  <2> HIDE DEF new
  <2>3. Linked(p)
    BY <1>0, <1>2, <1>3, <2>1 DEF Linked
  <2>4. /\ p \in ClientCall /\ p.at = q.at /\ p.call = q.call /\ p.sb = q.sb
        /\ p.accepted = q.accepted /\ p.from = q.from /\ p.link # "none"
    BY <1>2, <2>1
  <2>5. /\ p.inbox = Sent(q, events[q.sb], q.sent).inbox
        /\ p.sent = Sent(q, events[q.sb], q.sent).sent
    BY <2>1 DEF new
  <2> QED
    BY <1>3, <2>2, <2>3, <2>4, <2>5, SentCall
<1>4. CASE q.sb \notin boxes
  <2>1. p = [new EXCEPT !.link = "ended"]
    BY <1>4
  <2> HIDE DEF new
  <2>2. p \in ClientCall /\ p.at = q.at /\ p.sb = q.sb /\ p.link = "ended"
    BY <1>2, <2>1 DEF ClientCall
  <2>3. q.sb \notin configs
    BY <1>0, <1>4 DEF Linked
  <2>4. Linked(p)
    BY <1>0, <2>2 DEF Linked
  <2>5. ~Alive(p.sb)
    BY <1>4, <2>2, <2>3 DEF Alive
  <2> QED
    BY <2>2, <2>4, <2>5 DEF CallInv, Anchored, Fresh, Watched
<1> QED
  BY <1>3, <1>4

\* The next event a call receives is the one after what it knows.
LEMMA InboxHead ==
    ASSUME DaemonInv, NEW q \in ClientCall, Linked(q), Anchored(q), Alive(q.sb),
           q.inbox # << >>
    PROVE  /\ Handled(q) \in Nat /\ q.from <= Handled(q) /\ q.accepted <= q.from
           /\ Handled(q) + 1 \in 1..Len(History(q.sb))
           /\ Head(q.inbox) = History(q.sb)[Handled(q) + 1]
           /\ Head(q.inbox).seq = Handled(q) + 1
<1> DEFINE log == History(q.sb)
           h == Handled(q)
           box == q.inbox
<1>1. /\ q.accepted <= q.from /\ q.from <= h /\ q.sent <= Len(log)
      /\ \A i \in 1..Len(box) : box[i] = log[h + i]
  BY DEF Anchored
<1>2. /\ q.from \in Nat /\ q.sent \in Nat /\ box \in Seq(Event) /\ Len(box) \in Nat
      /\ h \in Int /\ q.sb \in Sandboxes
  BY CallFields
<1>3. Contiguous(log) /\ Len(log) \in Nat
  BY <1>2, HistoryFacts
<1>4. h = q.sent - Len(box)
  BY DEF Linked, Handled
<1> HIDE DEF log, h, box
<1>5. box # << >>
  BY DEF box
<1>6. Len(box) >= 1 /\ Head(box) = box[1]
  BY <1>2, <1>5
<1>7. h \in Nat /\ h + 1 \in 1..Len(log) /\ 1 \in 1..Len(box)
  BY <1>1, <1>2, <1>3, <1>4, <1>6
<1>8. Head(box) = log[h + 1] /\ log[h + 1].seq = h + 1
  BY <1>1, <1>3, <1>6, <1>7 DEF Contiguous
<1> QED
  BY <1>1, <1>7, <1>8 DEF log, h, box

\* What is left without the first element.
LEMMA TailParts ==
    ASSUME NEW s \in Seq(Event), s # << >>
    PROVE  /\ Len(Tail(s)) = Len(s) - 1
           /\ \A i \in 1..(Len(s) - 1) : Tail(s)[i] = s[i + 1]
OBVIOUS

\* Receiving an event moves a call one step along the history.
LEMMA ReceiveCall ==
    ASSUME DaemonInv, NEW q \in ClientCall, CallInv(q), q.at = "waiting", q.inbox # << >>,
           NEW p \in ClientCall, p.at \in {"waiting", "reread"}, p.call = q.call,
           p.sb = q.sb, p.accepted = q.accepted, p.from = q.from, p.link = q.link,
           p.sent = q.sent, p.inbox = Tail(q.inbox),
           Alive(q.sb) /\ p.at = "waiting" => Verdict(q.call, Head(q.inbox).st) = "waiting"
    PROVE  CallInv(p)
<1> DEFINE log == History(q.sb)
           h == Handled(q)
           box == q.inbox
<1>0. Linked(q) /\ Anchored(q) /\ Fresh(q) /\ (StoreMayFail \/ Watched(q))
  BY DEF CallInv
<1>1. q.link # "none" /\ Linked(p)
  BY <1>0 DEF Linked
<1>2. Fresh(p)
  BY <1>0 DEF Fresh, Entered
<1>3. CASE ~Alive(q.sb)
  BY <1>1, <1>2, <1>3 DEF CallInv, Anchored, Watched
<1>4. CASE Alive(q.sb)
  <2>1. /\ h \in Nat /\ q.from <= h /\ q.accepted <= q.from /\ h + 1 \in 1..Len(log)
        /\ Head(box) = log[h + 1]
    BY <1>0, <1>4, InboxHead
  <2>2. /\ q.from <= Len(log) /\ q.sent <= Len(log)
        /\ \A i \in 1..Len(box) : box[i] = log[h + i]
    BY <1>0, <1>4 DEF Anchored
  <2>3. /\ q.from \in Nat /\ q.sent \in Nat /\ box \in Seq(Event) /\ Len(box) \in Nat
        /\ q.sb \in Sandboxes
    BY CallFields
  <2>4. log \in Seq(Event) /\ Len(log) \in Nat
    BY <1>4, <2>3, HistoryFacts
  <2>5. h = q.sent - Len(box) /\ Handled(p) = q.sent - Len(p.inbox) /\ box # << >>
        /\ p.inbox = Tail(box)
    BY <1>1 DEF Handled
  <2> HIDE DEF log, h, box
  <2>6. /\ Len(p.inbox) = Len(box) - 1
        /\ \A i \in 1..Len(p.inbox) : p.inbox[i] = box[i + 1]
    <3>1. /\ Len(Tail(box)) = Len(box) - 1
          /\ \A i \in 1..(Len(box) - 1) : Tail(box)[i] = box[i + 1]
      BY ONLY <2>3, <2>5, TailParts
    <3> QED
      BY <2>5, <3>1
  <2>7. Handled(p) = h + 1
    BY <2>1, <2>3, <2>5, <2>6
  <2>8. Anchored(p)
    <3>1. \A i \in 1..Len(p.inbox) : i + 1 \in 1..Len(box) /\ h + (i + 1) = (h + 1) + i
      <4>1. \A i \in 1..(Len(box) - 1) : i + 1 \in 1..Len(box) /\ h + (i + 1) = (h + 1) + i
        BY <2>1, <2>3
      <4> QED
        BY <2>6, <4>1
    <3>2. \A i \in 1..Len(p.inbox) : p.inbox[i] = log[(h + 1) + i]
      BY <2>2, <2>6, <3>1
    <3>3. q.from <= h + 1
      BY <2>1, <2>3
    <3> QED
      BY <2>1, <2>2, <2>7, <3>2, <3>3 DEF Anchored, log
  <2>9. ASSUME ~StoreMayFail, p.at = "waiting"
        PROVE  Watched(p)
    <3>1. PICK r \in h..Len(log) : Verdict(q.call, StateAt(log, r)) = "waiting"
      BY <1>0, <1>4, <2>9 DEF Watched, log, h
    <3>2. CASE r # h
      <4>1. r \in (h + 1)..Len(log)
        BY <2>1, <2>4, <3>1, <3>2
      <4> QED
        BY <2>7, <3>1, <4>1 DEF Watched, log
    <3>3. CASE r = h
      <4>1. h < Len(log) /\ h + 1 \in (h + 1)..Len(log)
        BY <2>1, <2>4
      <4>2. StateAt(log, h + 1) = IF log[h + 1].st = "UNSPECIFIED" THEN StateAt(log, h)
                                                                   ELSE log[h + 1].st
        BY <2>1, <2>4, <4>1, StateAtNext
      <4>3. Verdict(q.call, log[h + 1].st) = "waiting"
        BY <1>4, <2>1, <2>9 DEF box
      <4>4. Verdict(q.call, StateAt(log, h + 1)) = "waiting"
        BY <3>1, <3>3, <4>2, <4>3
      <4> QED
        BY <2>7, <4>1, <4>4 DEF Watched, log
    <3> QED
      BY <3>2, <3>3
  <2>10. p.at = "reread" => Watched(p)
    BY DEF Watched
  <2> QED
    BY <1>1, <1>2, <2>8, <2>9, <2>10 DEF CallInv
<1> QED
  BY <1>3, <1>4

\* A state read again is that of the end of the history.
LEMMA RereadCall ==
    ASSUME DaemonInv, NEW q \in ClientCall, CallInv(q), q.at = "reread", q.sb \in boxes,
           Verdict(q.call, state[q.sb]) = "waiting",
           NEW p, p = [q EXCEPT !.at = "waiting"]
    PROVE  p \in ClientCall /\ CallInv(p)
<1> DEFINE s == q.sb
           log == History(s)
           h == Handled(q)
<1>0. Linked(q) /\ Anchored(q) /\ Fresh(q)
  BY DEF CallInv
<1>1. /\ p \in ClientCall /\ p.at = "waiting" /\ p.call = q.call /\ p.sb = q.sb
      /\ p.accepted = q.accepted /\ p.from = q.from /\ p.sent = q.sent
      /\ p.inbox = q.inbox /\ p.link = q.link
  BY DEF ClientCall, WaitPoint
<1>2. Handled(p) = h
  BY <1>1 DEF Handled
<1>3. Linked(p)
  BY <1>0, <1>1 DEF Linked
<1>4. Anchored(p)
  BY <1>0, <1>1, <1>2 DEF Anchored
<1>5. Fresh(p)
  BY <1>0, <1>1 DEF Fresh, Entered
<1>6. ASSUME ~StoreMayFail
      PROVE  Watched(p)
  <2>1. Alive(s) /\ s \in Sandboxes
    BY CallFields DEF Alive
  <2>2. log \in Seq(Event) /\ Len(log) \in Nat /\ log = events[s]
    BY <2>1, HistoryFacts
  <2>3. state[s] = PersistedState(log)
    BY <1>6, <2>2 DEF DaemonInv, RecordInv, StateFollowsLog
  <2>4. Verdict(p.call, StateAt(log, Len(log))) = "waiting"
    BY <1>1, <2>2, <2>3, StateAtEnd
  <2>5. h <= Len(log) /\ h \in Int
    <3>1. q.sent <= Len(log) /\ h = q.sent - Len(q.inbox)
      BY <1>0, <2>1 DEF Anchored, Linked, Handled
    <3>2. q.sent \in Nat /\ Len(q.inbox) \in Nat
      BY CallFields
    <3> HIDE DEF h, log
    <3> QED
      BY <2>2, <3>1, <3>2
  <2>6. Len(log) \in h..Len(log)
    BY <2>2, <2>5
  <2> QED
    BY <1>1, <1>2, <2>4, <2>6 DEF Watched
<1> QED
  BY <1>1, <1>3, <1>4, <1>5, <1>6 DEF CallInv

\* What an accepted request leaves: a record, its last event, and a state
\* that is not yet the one asked for.
LEMMA RequestedLeaves ==
    ASSUME DaemonInv, DaemonInv', NEW op, NEW s \in Sandboxes, Requested(op, s),
           op \in {"create", "resume", "stop", "delete"}
    PROVE  /\ s \in boxes'
           /\ op # "delete" => /\ state'[s] # Target(op)
                               /\ PersistedState(events'[s]) # Target(op)
           /\ op = "create" => PersistedState(events'[s]) = "PENDING"
<1>0. /\ TypeOK /\ state \in [Sandboxes -> SandboxState]
      /\ events \in [Sandboxes -> Seq(Event)] /\ nextSequence \in [Sandboxes -> Nat]
  BY DEF DaemonInv, RecordInv, TypeOK
<1> DEFINE muts == <<Mutation("SANDBOX_ACCEPTED", "PENDING")>>
<1>1. /\ muts \in Seq(Mutations) /\ muts # << >> /\ Len(muts) = 1 /\ muts[1].st = "PENDING"
  <2>1. "SANDBOX_ACCEPTED" \in EventType /\ "PENDING" \in LiveState
    BY DEF EventType, LiveState, SandboxState
  <2> QED
    BY <2>1, MutationTypes, LastMutation
<1>2. s \in boxes'
  BY DEF Requested, CreateSandbox, ResumeSandbox, StopSandbox, DeleteSandbox,
     DeleteAcknowledged, Known, vars
<1>3. CASE op \in {"create", "resume"}
  <2>1. PICK log \in Seq(Event), n \in Nat : events'[s] = log \o Stamp(n, muts)
    <3>1. CASE op = "create"
      <4>1. events' = [events EXCEPT ![s] = << >> \o Stamp(0, muts)]
        BY <3>1 DEF Requested, CreateSandbox, RecordEvents
      <4>2. events'[s] = << >> \o Stamp(0, muts) /\ << >> \in Seq(Event) /\ 0 \in Nat
        BY <1>0, <4>1
      <4> QED
        BY <4>2
    <3>2. CASE op = "resume"
      <4>1. events' = [events EXCEPT ![s] = events[s] \o Stamp(nextSequence[s], muts)]
        BY <3>2 DEF Requested, ResumeSandbox, appendEventLocked, RecordEvents
      <4>2. /\ events'[s] = events[s] \o Stamp(nextSequence[s], muts)
            /\ events[s] \in Seq(Event) /\ nextSequence[s] \in Nat
        BY <1>0, <4>1
      <4> QED
        BY <4>2
    <3> QED
      BY <1>3, <3>1, <3>2
  <2>2. state'[s] = "PENDING"
    BY <1>0, <1>3 DEF Requested, CreateSandbox, ResumeSandbox
  <2>3. PersistedState(log \o Stamp(n, muts)) = "PENDING"
    <3> HIDE DEF muts
    <3> QED
      BY <1>1, <2>1, PersistedAppend
  <2>4. Target(op) = "READY"
    BY <1>3 DEF Target
  <2> QED
    BY <1>2, <2>1, <2>2, <2>3, <2>4
<1>4. CASE op = "stop"
  <2>1. state'[s] = "READY" /\ Target(op) = "STOPPED"
    BY <1>4 DEF Requested, StopSandbox, recordVars, Target
  <2>2. PersistedState(events'[s]) # "STOPPED"
    BY <1>2, <2>1 DEF DaemonInv, ReadyIsNotStopped
  <2> QED
    BY <1>2, <1>4, <2>1, <2>2
<1>5. CASE op = "delete"
  BY <1>2, <1>5
<1> QED
  BY <1>3, <1>4, <1>5

\* A call that begins waits for what its request has not brought about yet.
LEMMA NewCall ==
    ASSUME DaemonInv, DaemonInv', NEW call \in Calls, NEW s \in Sandboxes,
           Requested(call.op, s), NEW p,
           p = [at       |-> IF call = [by |-> "sdk", op |-> "create"]
                             THEN "subscribe" ELSE "baseline",
                call     |-> call,
                sb       |-> s,
                accepted |-> nextSequence'[s],
                from     |-> nextSequence'[s],
                link     |-> "none",
                sent     |-> 0,
                inbox    |-> << >>]
    PROVE  p \in ClientCall /\ (CallInv(p))'
<1> DEFINE log == (History(s))'
           n == nextSequence'[s]
<1>0. call.op \in {"create", "resume", "stop", "delete"}
  BY CallsAssumption DEF AllCalls
<1>1. /\ s \in boxes'
      /\ call.op # "delete" => /\ state'[s] # Target(call.op)
                               /\ PersistedState(events'[s]) # Target(call.op)
      /\ call.op = "create" => PersistedState(events'[s]) = "PENDING"
  BY <1>0, RequestedLeaves
<1>2. /\ log = events'[s] /\ n = Len(log) /\ log \in Seq(Event) /\ Len(log) \in Nat
      /\ s \in sandboxIDs'
  <2>1. /\ s \in configs' => events'[s] = bucket'[s]
        /\ Contiguous(events'[s]) /\ n = Len(events'[s]) /\ s \in sandboxIDs'
    BY <1>1 DEF DaemonInv, RecordInv, LogInv, LogDurable, IDsReserved, MemoryLog
  <2>2. log = events'[s]
    BY <2>1 DEF History
  <2>3. events'[s] \in Seq(Event)
    BY <2>1 DEF Contiguous
  <2> QED
    BY <2>1, <2>2, <2>3
<1>3. /\ p.at \in {"subscribe", "baseline"} /\ p.call = call /\ p.sb = s /\ p.accepted = n
      /\ p.from = n /\ p.link = "none" /\ p.sent = 0 /\ p.inbox = << >>
      /\ p.at = "subscribe" => call = [by |-> "sdk", op |-> "create"]
  OBVIOUS
<1>4. p \in ClientCall
  <2>1. n \in Nat /\ << >> \in Seq(Event)
    BY <1>2
  <2> HIDE DEF n
  <2>2. p = [at |-> p.at, call |-> call, sb |-> s, accepted |-> n, from |-> n,
             link |-> "none", sent |-> 0, inbox |-> << >>]
    BY <1>3 DEF n
  <2> QED
    BY <1>3, <2>1, <2>2 DEF ClientCall, WaitPoint
<1>5. (Linked(p))'
  BY <1>2, <1>3 DEF Linked
<1>6. (Handled(p))' = n
  BY <1>3 DEF Handled
<1>7. (Anchored(p))'
  <2>1. n <= n /\ 0 <= Len(log) /\ n <= Len(log) /\ 1..Len(p.inbox) = {}
    <3> HIDE DEF n, log
    <3> QED
      BY <1>2, <1>3
  <2> HIDE DEF n
  <2> QED
    BY <1>3, <1>6, <2>1 DEF Anchored
<1>8. (Fresh(p))'
  BY <1>1, <1>2, <1>3 DEF Fresh
<1>9. (Watched(p))'
  <2> SUFFICES ASSUME p.at = "subscribe"
               PROVE  \E r \in n..Len(log) : Verdict(call, StateAt(log, r)) = "waiting"
    BY <1>3, <1>6 DEF Watched
  <2>1. PersistedState(log) = "PENDING" /\ call = [by |-> "sdk", op |-> "create"]
    BY <1>1, <1>2, <1>3
  <2>2. Verdict(call, StateAt(log, Len(log))) = "waiting"
    BY <1>2, <2>1, StateAtEnd, PendingIsWaiting
  <2> HIDE DEF n, log
  <2>3. Len(log) \in n..Len(log)
    BY <1>2
  <2> QED
    BY <2>2, <2>3
<1> QED
  BY <1>4, <1>5, <1>7, <1>8, <1>9 DEF CallInv

-----------------------------------------------------------------------------
(***************************************************************************)
(* The invariant of the composition                                        *)
(***************************************************************************)
\* A call that waits has the fields of a call, one that is over has not.
LEMMA CallKinds ==
    /\ \A q \in ClientCall : q.at \in WaitPoint
    /\ \A o \in Outcome : [at |-> o] \in Ended /\ [at |-> o] \notin ClientCall
    /\ NoCall \notin ClientCall /\ NoCall.at \notin WaitPoint
    /\ \A e \in Ended : e.at \in Outcome /\ e.at \notin WaitPoint
<1>1. \A q \in ClientCall : q.at \in WaitPoint
  BY DEF ClientCall
<1>2. \A o \in Outcome : o \notin WaitPoint /\ [at |-> o].at = o /\ [at |-> o] \in Ended
  BY DEF Outcome, WaitPoint, Ended
<1>3. NoCall.at \notin WaitPoint
  BY DEF NoCall, WaitPoint
<1>4. \A e \in Ended : e.at \in Outcome /\ e.at \notin WaitPoint
  BY DEF Ended, Outcome, WaitPoint
<1> QED
  BY <1>1, <1>2, <1>3, <1>4

\* A client that waits is a call with its invariant.
LEMMA WaitingCall ==
    ASSUME StreamInv, NEW c \in Clients, client[c].at \in WaitPoint
    PROVE  client[c] \in ClientCall /\ CallInv(client[c])
<1>1. client[c] \in ClientCall \cup Ended \cup {NoCall}
  BY DEF StreamInv, StreamTypeOK
<1>2. client[c] \in ClientCall
  BY <1>1, CallKinds
<1> QED
  BY <1>2 DEF StreamInv

\* A state ends a call or lets it go on, and never as "expired".
LEMMA DecideMoves ==
    ASSUME NEW c, NEW st, NEW rest, client[c].call \in Calls, Decide(c, st, rest)
    PROVE  \/ /\ Verdict(client[c].call, st) = "waiting"
              /\ client' = [client EXCEPT ![c] = rest]
           \/ \E o \in Outcome \ {"expired"} :
                  /\ client' = [client EXCEPT ![c] = [at |-> o]]
                  /\ o = "reached" => st = Target(client[c].call.op)
<1>1. /\ Verdict(client[c].call, st) \in {"reached", "failed", "waiting"}
      /\ Verdict(client[c].call, st) = "reached" => st = Target(client[c].call.op)
  BY VerdictOf
<1>2. "reached" \in Outcome \ {"expired"} /\ "failed" \in Outcome \ {"expired"}
  BY DEF Outcome
<1>3. CASE Verdict(client[c].call, st) = "waiting"
  BY <1>3 DEF Decide, Set
<1>4. CASE Verdict(client[c].call, st) # "waiting"
  BY <1>1, <1>2, <1>4 DEF Decide, End, Set
<1> QED
  BY <1>3, <1>4

\* A step of a call leaves the daemon alone; the call goes on with its
\* invariant, or ends: not as expired, and at its target only if that was
\* entered after the request.
CallMoves(c) ==
    \E p : /\ client' = [client EXCEPT ![c] = p]
           /\ \/ p \in ClientCall /\ CallInv(p)
              \/ \E o \in Outcome \ {"expired"} :
                     /\ p = [at |-> o]
                     /\ (/\ o = "reached" /\ client[c].call.op # "delete"
                         /\ Alive(client[c].sb)) => Entered(client[c])

\* A record in the target state entered it after the request.
LEMMA TargetEntered ==
    ASSUME NEW q \in ClientCall, CallInv(q), q.sb \in boxes, q.call.op # "delete",
           state[q.sb] = Target(q.call.op)
    PROVE  Entered(q)
<1>1. Alive(q.sb)
  BY DEF Alive
<1> QED
  BY <1>1 DEF CallInv, Fresh

\* Ending a call in any other way needs no reason.
LEMMA EndMoves ==
    ASSUME NEW c, NEW o \in {"failed", "error"}, End(c, o)
    PROVE  CallMoves(c)
<1>1. o \in Outcome \ {"expired"} /\ o # "reached"
  BY DEF Outcome
<1>2. client' = [client EXCEPT ![c] = [at |-> o]]
  BY DEF End, Set
<1> QED
  BY <1>1, <1>2 DEF CallMoves

\* The baseline and the read after an event: GetSandbox decides.
LEMMA ReadMoves ==
    ASSUME StreamInv, NEW c \in Clients, Baseline(c) \/ Reread(c)
    PROVE  CallMoves(c)
<1> DEFINE q == client[c]
<1>0. DaemonInv
  BY DEF StreamInv
<1>1. q \in ClientCall /\ CallInv(q) /\ q.call \in Calls
  <2>1. q.at \in WaitPoint
    BY DEF Baseline, Reread, WaitPoint
  <2> QED
    BY <2>1, WaitingCall, CallFields
<1>2. CASE ~Known(q.sb)
  <2>1. End(c, "error")
    BY <1>2 DEF Baseline, Reread
  <2> QED
    BY <2>1, EndMoves
<1>3. CASE Known(q.sb)
  <2>0. q.sb \in boxes
    BY <1>3 DEF Known
  <2>1. PICK rest : /\ Decide(c, state[q.sb], rest)
                    /\ \/ /\ q.at = "baseline"
                          /\ rest = [q EXCEPT !.at = "subscribe",
                                              !.from = nextSequence[q.sb]]
                       \/ /\ q.at = "reread"
                          /\ rest = [q EXCEPT !.at = "waiting"]
    BY <1>3 DEF Baseline, Reread
  <2>2. \/ /\ Verdict(q.call, state[q.sb]) = "waiting"
           /\ client' = [client EXCEPT ![c] = rest]
        \/ \E o \in Outcome \ {"expired"} :
               /\ client' = [client EXCEPT ![c] = [at |-> o]]
               /\ o = "reached" => state[q.sb] = Target(q.call.op)
    BY <1>1, <2>1, DecideMoves
  <2>3. CASE /\ Verdict(q.call, state[q.sb]) = "waiting"
             /\ client' = [client EXCEPT ![c] = rest]
    <3>1. rest \in ClientCall /\ CallInv(rest)
      <4> HIDE DEF q
      <4> QED
        BY <1>0, <1>1, <2>0, <2>1, <2>3, BaselineCall, RereadCall
    <3> QED
      BY <2>3, <3>1 DEF CallMoves
  <2>4. ASSUME NEW o \in Outcome \ {"expired"},
               client' = [client EXCEPT ![c] = [at |-> o]],
               o = "reached" => state[q.sb] = Target(q.call.op)
        PROVE  CallMoves(c)
    <3>1. (o = "reached" /\ q.call.op # "delete") => Entered(q)
      <4> HIDE DEF q
      <4> QED
        BY <1>1, <2>0, <2>4, TargetEntered
    <3> QED
      BY <2>4, <3>1 DEF CallMoves
  <2> QED
    BY <2>2, <2>3, <2>4
<1> QED
  BY <1>2, <1>3

\* A subscription is never refused: its sequence is one the daemon issued.
LEMMA SubscribeMoves ==
    ASSUME StreamInv, NEW c \in Clients, Subscribe(c)
    PROVE  CallMoves(c)
<1> DEFINE q == client[c]
           s == q.sb
<1>0. DaemonInv /\ q.at = "subscribe"
  BY DEF StreamInv, Subscribe
<1>1. q \in ClientCall /\ CallInv(q)
  BY <1>0, WaitingCall DEF WaitPoint
<1>2. CASE ~Known(s)
  <2>1. End(c, "error")
    BY <1>2 DEF Subscribe
  <2> QED
    BY <2>1, EndMoves
<1>3. CASE Known(s)
  <2>1. daemon = "serving" /\ s \in boxes /\ Alive(s) /\ s \in Sandboxes
    BY <1>1, <1>3, CallFields DEF Known, Alive
  <2>2. q.from <= Len(History(s))
    BY <1>1, <2>1 DEF CallInv, Anchored
  <2>3. nextSequence[s] = Len(History(s))
    BY <1>0, <2>1, HistoryFacts
  <2>4. validateSequenceNotExpired(s, q.from)
    BY <2>2, <2>3 DEF validateSequenceNotExpired
  <2>5. client' = [client EXCEPT ![c] = [Sent(q, events[s], q.from) EXCEPT
                                             !.at = "waiting", !.link = "open"]]
    BY <1>3, <2>4 DEF Subscribe, Set, Send, Sent
  <2> DEFINE p == [Sent(q, events[s], q.from) EXCEPT !.at = "waiting", !.link = "open"]
  <2>6. p \in ClientCall /\ CallInv(p)
    <3>1. p = [Sent(q, events[q.sb], q.from) EXCEPT !.at = "waiting", !.link = "open"]
      OBVIOUS
    <3>2. daemon = "serving" /\ q.sb \in boxes
      BY <2>1
    <3> HIDE DEF p, q
    <3> QED
      BY <1>0, <1>1, <3>1, <3>2, SubscribeCall
  <2> HIDE DEF p
  <2>7. client' = [client EXCEPT ![c] = p]
    BY <2>5 DEF p
  <2> QED
    BY <2>6, <2>7 DEF CallMoves
<1> QED
  BY <1>2, <1>3

\* A tick of the stream never finds its own sequence expired.
LEMMA PollMoves ==
    ASSUME StreamInv, NEW c \in Clients, Poll(c)
    PROVE  CallMoves(c)
<1> DEFINE q == client[c]
           s == q.sb
           new == Sent(q, events[s], q.sent)
<1>0. DaemonInv /\ q.at \in WaitPoint /\ q.link = "open"
  BY DEF StreamInv, Poll, Waiting
<1>1. q \in ClientCall /\ CallInv(q)
  BY <1>0, WaitingCall
<1>2. s \in boxes => validateSequenceNotExpired(s, q.sent)
  <2> SUFFICES ASSUME s \in boxes
               PROVE  validateSequenceNotExpired(s, q.sent)
    OBVIOUS
  <2>1. Alive(s) /\ s \in Sandboxes
    BY <1>1, CallFields DEF Alive
  <2>2. q.sent <= Len(History(s))
    BY <1>1, <2>1 DEF CallInv, Anchored
  <2>3. nextSequence[s] = Len(History(s))
    BY <1>0, <2>1, HistoryFacts
  <2> QED
    BY <2>2, <2>3 DEF validateSequenceNotExpired
<1>3. \/ s \in boxes /\ client' = [client EXCEPT ![c] = new]
      \/ s \notin boxes /\ client' = [client EXCEPT ![c] = [new EXCEPT !.link = "ended"]]
  BY <1>2 DEF Poll, Set, Send, Sent
<1>4. PICK p : /\ client' = [client EXCEPT ![c] = p]
               /\ \/ s \in boxes /\ p = new
                  \/ s \notin boxes /\ p = [new EXCEPT !.link = "ended"]
  <2> HIDE DEF new
  <2> QED
    BY <1>3
<1>5. p \in ClientCall /\ CallInv(p)
  <2> HIDE DEF q
  <2> QED
    BY <1>0, <1>1, <1>4, PollCall
<1> QED
  BY <1>4, <1>5 DEF CallMoves

\* The SDKs: an event that arrives is always newer than the baseline.
LEMMA ReceiveSDKMoves ==
    ASSUME StreamInv, NEW c \in Clients, ReceiveSDK(c)
    PROVE  CallMoves(c)
<1> DEFINE q == client[c]
           a == IF Head(q.inbox).seq <= q.from THEN "waiting" ELSE "reread"
<1>0. DaemonInv /\ q.at = "waiting" /\ q.inbox # << >>
  BY DEF StreamInv, ReceiveSDK, Arrives
<1>1. q \in ClientCall /\ CallInv(q)
  BY <1>0, WaitingCall DEF WaitPoint
<1>2. client' = [client EXCEPT ![c] = [[q EXCEPT !.inbox = Tail(@)] EXCEPT !.at = a]]
  BY DEF ReceiveSDK, Set, Received
<1>3. Alive(q.sb) => a = "reread"
  <2> SUFFICES ASSUME Alive(q.sb)
               PROVE  a = "reread"
    OBVIOUS
  <2> HIDE DEF q
  <2>1. /\ Handled(q) \in Nat /\ q.from <= Handled(q)
        /\ Head(q.inbox).seq = Handled(q) + 1 /\ q.from \in Nat
    BY <1>0, <1>1, InboxHead, CallFields DEF CallInv
  <2>2. ~(Head(q.inbox).seq <= q.from)
    BY <2>1
  <2> QED
    BY <2>2
<1>4. a \in {"waiting", "reread"} /\ a \in WaitPoint
  BY DEF WaitPoint
<1> HIDE DEF q, a
<1>5. Tail(q.inbox) \in Seq(Event)
  BY <1>0, <1>1, CallFields, HeadTailProperties
<1>6. PICK p : p = [[q EXCEPT !.inbox = Tail(@)] EXCEPT !.at = a]
  OBVIOUS
<1>7. /\ p \in ClientCall /\ p.at = a /\ p.call = q.call /\ p.sb = q.sb
      /\ p.accepted = q.accepted /\ p.from = q.from /\ p.link = q.link
      /\ p.sent = q.sent /\ p.inbox = Tail(q.inbox)
  BY <1>1, <1>4, <1>5, <1>6 DEF ClientCall
<1>8. CallInv(p)
  BY <1>0, <1>1, <1>3, <1>4, <1>7, ReceiveCall
<1> QED
  BY <1>2, <1>6, <1>7, <1>8 DEF CallMoves

\* The command and a session: what an event carries was entered after the
\* request.
LEMMA ReceiveCLIMoves ==
    ASSUME StreamInv, NEW c \in Clients, ReceiveCLI(c)
    PROVE  CallMoves(c)
<1> DEFINE q == client[c]
           p == [q EXCEPT !.inbox = Tail(@)]
           st == Head(q.inbox).st
<1>0. DaemonInv /\ q.at = "waiting" /\ q.inbox # << >>
  BY DEF StreamInv, ReceiveCLI, Arrives
<1>1. q \in ClientCall /\ CallInv(q) /\ q.call \in Calls
  BY <1>0, WaitingCall, CallFields DEF WaitPoint
<1>2. Decide(c, st, p)
  BY DEF ReceiveCLI, Received
<1>3. \/ /\ Verdict(q.call, st) = "waiting"
         /\ client' = [client EXCEPT ![c] = p]
      \/ \E o \in Outcome \ {"expired"} :
             /\ client' = [client EXCEPT ![c] = [at |-> o]]
             /\ o = "reached" => st = Target(q.call.op)
  BY <1>1, <1>2, DecideMoves
<1>4. Tail(q.inbox) \in Seq(Event)
  <2> HIDE DEF q
  <2> QED
    BY <1>0, <1>1, CallFields, HeadTailProperties
<1>5. /\ p \in ClientCall /\ p.at = q.at /\ p.call = q.call /\ p.sb = q.sb
      /\ p.accepted = q.accepted /\ p.from = q.from /\ p.link = q.link
      /\ p.sent = q.sent /\ p.inbox = Tail(q.inbox)
  <2> HIDE DEF q
  <2> QED
    BY <1>1, <1>4 DEF ClientCall
<1>6. CASE /\ Verdict(q.call, st) = "waiting"
           /\ client' = [client EXCEPT ![c] = p]
  <2>1. CallInv(p)
    <3>1. p.at = "waiting"
      BY <1>0, <1>5
    <3>2. Verdict(q.call, Head(q.inbox).st) = "waiting"
      BY <1>6
    <3> HIDE DEF q, p
    <3> QED
      BY <1>0, <1>1, <1>5, <3>1, <3>2, ReceiveCall
  <2> HIDE DEF p
  <2> QED
    BY <1>5, <1>6, <2>1 DEF CallMoves
<1>7. ASSUME NEW o \in Outcome \ {"expired"},
             client' = [client EXCEPT ![c] = [at |-> o]],
             o = "reached" => st = Target(q.call.op)
      PROVE  CallMoves(c)
  <2>1. ASSUME o = "reached", Alive(q.sb)
        PROVE  Entered(q)
    <3>1. st = Target(q.call.op)
      BY <1>7, <2>1
    <3> HIDE DEF q
    <3>2. /\ Handled(q) \in Nat /\ q.from <= Handled(q) /\ q.accepted <= q.from
          /\ Handled(q) + 1 \in 1..Len(History(q.sb))
          /\ Head(q.inbox) = History(q.sb)[Handled(q) + 1]
      BY <1>0, <1>1, <2>1, InboxHead DEF CallInv
    <3>3. q.accepted \in Nat /\ q.from \in Nat
      BY <1>1, CallFields
    <3>4. Handled(q) + 1 >= q.accepted
      BY <3>2, <3>3
    <3> QED
      BY <3>1, <3>2, <3>4 DEF Entered
  <2> QED
    BY <1>7, <2>1 DEF CallMoves
<1> QED
  BY <1>3, <1>6, <1>7

\* Every step a call takes by itself, or the daemon for its stream.
LEMMA ClientMoves ==
    ASSUME StreamInv, NEW c \in Clients, ClientStep(c) \/ TimesOut(c) \/ Poll(c)
    PROVE  CallMoves(c) /\ UNCHANGED vars
<1>1. UNCHANGED vars
  BY DEF ClientStep, Baseline, Subscribe, ReceiveSDK, ReceiveCLI, Reread, StreamOver,
     TimesOut, Poll
<1>2. CASE StreamOver(c) \/ TimesOut(c)
  <2>1. End(c, "error")
    BY <1>2 DEF StreamOver, TimesOut
  <2> QED
    BY <1>1, <2>1, EndMoves
<1> QED
  BY <1>1, <1>2, ReadMoves, SubscribeMoves, ReceiveSDKMoves, ReceiveCLIMoves, PollMoves
     DEF ClientStep

\* A call that does not move keeps its invariant, unless the daemon crashes.
LEMMA OtherCalls ==
    ASSUME StreamInv, [Next]_vars, daemon = "serving" => daemon' = "serving",
           NEW q \in ClientCall, CallInv(q)
    PROVE  (CallInv(q))'
<1>1. DaemonInv
  BY DEF StreamInv
<1>2. (Linked(q))'
  BY <1>1, LinkedStays DEF CallInv
<1> QED
  BY <1>1, <1>2, CallStays

\* What StreamInv says of the calls, when one of them moves.
LEMMA OneCallMoves ==
    ASSUME StreamInv, [Next]_vars, daemon = "serving" => daemon' = "serving",
           NEW c \in Clients, NEW p, client' = [client EXCEPT ![c] = p],
           \/ p \in ClientCall /\ (CallInv(p))'
           \/ \E o \in Outcome \ {"expired"} : p = [at |-> o]
    PROVE  /\ StreamTypeOK' /\ AnchorAccepted'
           /\ \A d \in Clients, q \in ClientCall : client'[d] = q => (CallInv(q))'
<1>1. client \in [Clients -> ClientCall \cup Ended \cup {NoCall}]
  BY DEF StreamInv, StreamTypeOK
<1>2. /\ client'[c] = p /\ \A d \in Clients \ {c} : client'[d] = client[d]
  BY <1>1
<1>3. /\ p \in ClientCall \cup Ended /\ p.at # "expired"
      /\ p \in ClientCall => (CallInv(p))'
  <2>1. CASE p \in ClientCall /\ (CallInv(p))'
    <3>1. p.at \in WaitPoint
      BY <2>1, CallKinds
    <3>2. p.at # "expired"
      BY <3>1 DEF WaitPoint
    <3> QED
      BY <2>1, <3>2
  <2>2. CASE \E o \in Outcome \ {"expired"} : p = [at |-> o]
    BY <2>2, CallKinds
  <2> QED
    BY <2>1, <2>2
<1>4. StreamTypeOK'
  BY <1>1, <1>3 DEF StreamTypeOK
<1>5. AnchorAccepted'
  BY <1>2, <1>3 DEF StreamInv, AnchorAccepted
<1>6. ASSUME NEW d \in Clients, NEW q \in ClientCall, client'[d] = q
      PROVE  (CallInv(q))'
  <2>1. CASE d = c
    BY <1>2, <1>3, <1>6, <2>1
  <2>2. CASE d # c
    <3>1. CallInv(q)
      BY <1>2, <1>6, <2>2 DEF StreamInv
    <3> QED
      BY <3>1, OtherCalls
  <2> QED
    BY <2>1, <2>2
<1> QED
  BY <1>4, <1>5, <1>6

\* No call waits in a system that has just been installed.
LEMMA InitStream == StreamInit => StreamInv
<1> SUFFICES ASSUME StreamInit
             PROVE  StreamInv
  OBVIOUS
<1>1. DaemonInv
  BY InitDaemon DEF StreamInit
<1>2. \A c \in Clients : client[c] = NoCall
  BY DEF StreamInit
<1>3. StreamTypeOK
  BY DEF StreamInit, StreamTypeOK
<1>4. AnchorAccepted
  BY <1>2 DEF AnchorAccepted, NoCall
<1> QED
  BY <1>1, <1>2, <1>3, <1>4, CallKinds DEF StreamInv

\* Every step of the daemon, its clients and their streams keeps it.
LEMMA NextStream == StreamInv /\ [StreamNext]_streamVars => StreamInv'
<1> SUFFICES ASSUME StreamInv, [StreamNext]_streamVars
             PROVE  StreamInv'
  OBVIOUS
<1>1. [Next]_vars
  BY StreamIsNext
<1>2. DaemonInv /\ DaemonInv'
  BY <1>1, NextDaemon DEF StreamInv
<1>3. client \in [Clients -> ClientCall \cup Ended \cup {NoCall}]
  BY DEF StreamInv, StreamTypeOK
<1> DEFINE Goal == /\ StreamTypeOK' /\ AnchorAccepted'
                   /\ \A d \in Clients, q \in ClientCall : client'[d] = q => (CallInv(q))'
<1>4. ASSUME NEW c \in Clients, NEW call \in Calls, NEW s \in Sandboxes, Call(c, call, s)
      PROVE  Goal
  <2>1. PICK p : /\ client' = [client EXCEPT ![c] = p]
                 /\ p = [at       |-> IF call = [by |-> "sdk", op |-> "create"]
                                      THEN "subscribe" ELSE "baseline",
                         call     |-> call,
                         sb       |-> s,
                         accepted |-> nextSequence'[s],
                         from     |-> nextSequence'[s],
                         link     |-> "none",
                         sent     |-> 0,
                         inbox    |-> << >>]
    BY <1>4 DEF Call, Set
  <2>2. Requested(call.op, s)
    BY <1>4 DEF Call
  <2>3. p \in ClientCall /\ (CallInv(p))'
    BY <1>2, <2>1, <2>2, NewCall
  <2>4. daemon = "serving" => daemon' = "serving"
    BY <2>2, StaysServing
  <2> QED
    BY <1>1, <2>1, <2>3, <2>4, OneCallMoves
<1>5. ASSUME NEW c \in Clients, ClientStep(c) \/ TimesOut(c) \/ Poll(c)
      PROVE  Goal
  <2>1. CallMoves(c) /\ UNCHANGED vars
    BY <1>5, ClientMoves
  <2>2. daemon = "serving" => daemon' = "serving"
    BY <2>1, StaysServing
  <2>3. PICK p : /\ client' = [client EXCEPT ![c] = p]
                 /\ \/ p \in ClientCall /\ CallInv(p)
                    \/ \E o \in Outcome \ {"expired"} : p = [at |-> o]
    BY <2>1 DEF CallMoves
  <2>4. p \in ClientCall /\ CallInv(p) => (CallInv(p))'
    BY <1>1, <2>2, OtherCalls
  <2> QED
    BY <1>1, <2>2, <2>3, <2>4, OneCallMoves
<1>6. ASSUME DaemonStep \/ UNCHANGED streamVars
      PROVE  Goal
  <2>1. client' = client /\ (daemon = "serving" => daemon' = "serving")
    BY <1>6, StaysServing DEF DaemonStep, streamVars
  <2>2. ASSUME NEW d \in Clients, NEW q \in ClientCall, client'[d] = q
        PROVE  (CallInv(q))'
    <3>1. CallInv(q)
      BY <2>1, <2>2 DEF StreamInv
    <3> QED
      BY <1>1, <2>1, <3>1, OtherCalls
  <2>3. StreamTypeOK' /\ AnchorAccepted'
    BY <1>3, <2>1 DEF StreamTypeOK, AnchorAccepted, StreamInv
  <2>4. \A d \in Clients, q \in ClientCall : client'[d] = q => (CallInv(q))'
    BY <2>2
  <2> QED
    BY <2>3, <2>4
<1>7. ASSUME StreamsCrash
      PROVE  Goal
  <2>1. \A d \in Clients : client'[d] =
            IF client[d].at \in WaitPoint /\ client[d].link = "open"
            THEN [client[d] EXCEPT !.link = "broken"] ELSE client[d]
    BY <1>7 DEF StreamsCrash, Waiting
  <2>c. \A d \in Clients : client[d].at \in WaitPoint =>
            client[d] \in ClientCall /\ CallInv(client[d])
    BY WaitingCall
  <2>b. ASSUME NEW q \in ClientCall
        PROVE  /\ [q EXCEPT !.link = "broken"] \in ClientCall
               /\ [q EXCEPT !.link = "broken"].at = q.at
               /\ [q EXCEPT !.link = "broken"].link = "broken"
    BY DEF ClientCall
  <2>2. StreamTypeOK'
    <3>1. \A d \in Clients : client'[d] \in ClientCall \cup Ended \cup {NoCall}
      BY <1>3, <2>1, <2>b, <2>c
    <3>2. client' = [d \in Clients |-> client'[d]]
      BY <1>7 DEF StreamsCrash
    <3> QED
      BY <3>1, <3>2 DEF StreamTypeOK
  <2>3. AnchorAccepted'
    <3>1. \A d \in Clients : client'[d].at = client[d].at
      BY <2>1, <2>b, <2>c
    <3> QED
      BY <3>1 DEF StreamInv, AnchorAccepted
  <2>4. ASSUME NEW d \in Clients, NEW q \in ClientCall, client'[d] = q
        PROVE  (CallInv(q))'
    <3>1. CallInv(q) /\ q.link # "open"
      <4>1. CASE client[d].at \in WaitPoint /\ client[d].link = "open"
        <5>1. q = [client[d] EXCEPT !.link = "broken"]
          BY <2>1, <2>4, <4>1
        <5>2. client[d] \in ClientCall /\ CallInv(client[d])
          BY <2>c, <4>1
        <5>3. q.link = "broken"
          BY <2>b, <5>1, <5>2
        <5> QED
          BY <4>1, <5>1, <5>2, <5>3, CallBreaks
      <4>2. CASE ~(client[d].at \in WaitPoint /\ client[d].link = "open")
        <5>1. q = client[d]
          BY <2>1, <2>4, <4>2
        <5>2. q.at \in WaitPoint
          BY CallKinds
        <5> QED
          BY <2>c, <4>2, <5>1, <5>2
      <4> QED
        BY <4>1, <4>2
    <3>2. q.sb \in sandboxIDs'
      BY <1>1, <1>2, <3>1, HistoryGrows DEF CallInv, Linked
    <3>3. (Linked(q))'
      BY <3>1, <3>2 DEF CallInv, Linked
    <3> QED
      BY <1>1, <1>2, <3>1, <3>3, CallStays
  <2>5. \A d \in Clients, q \in ClientCall : client'[d] = q => (CallInv(q))'
    BY <2>4
  <2> QED
    BY <2>2, <2>3, <2>5
<1> HIDE DEF Goal
<1>8. Goal
  BY <1>4, <1>5, <1>6, <1>7 DEF StreamNext
<1> QED
  BY <1>2, <1>8 DEF StreamInv, Goal

-----------------------------------------------------------------------------
(***************************************************************************)
(* What follows                                                            *)
(***************************************************************************)
\* With its clients and streams the daemon is still the life cycle: whatever
\* is proved of the life cycle holds while calls wait on it.
THEOREM StreamImplementsLifecycle == StreamSpec => Spec
<1>1. StreamInit => Init
  BY DEF StreamInit
<1> QED
  BY <1>1, StreamIsNext, PTL DEF StreamSpec, Spec

\* The invariant of daemon, streams and calls holds in every state.
THEOREM StreamInvariant == StreamSpec => []StreamInv
BY InitStream, NextStream, PTL DEF StreamSpec

\* Every call stands at a known point, with a stream and events of its kind.
THEOREM StreamTypeCorrect == StreamSpec => []StreamTypeOK
<1>1. StreamInv => StreamTypeOK
  BY DEF StreamInv
<1> QED
  BY <1>1, StreamInvariant, PTL

\* No sequence the daemon has issued is refused as expired, whatever crashes,
\* restores and clean-ups come between the baseline and the subscription.
THEOREM AnchorAcceptedCorrect == StreamSpec => []AnchorAccepted
<1>1. StreamInv => AnchorAccepted
  BY DEF StreamInv
<1> QED
  BY <1>1, StreamInvariant, PTL

\* As long as the store works no wake-up is lost: a client that has handled
\* all its sandbox has recorded waits for something still to come.
THEOREM NoLostWakeupCorrect == StreamSpec => []NoLostWakeup
<1>1. StreamInv => NoLostWakeup
  <2> SUFFICES ASSUME StreamInv, ~StoreMayFail, NEW c \in Clients,
                      client[c].at = "waiting", client[c].link = "open",
                      client[c].inbox = << >>, client[c].sb \in boxes,
                      client[c].sent = nextSequence[client[c].sb]
               PROVE  Verdict(client[c].call, state[client[c].sb]) = "waiting"
    BY DEF NoLostWakeup
  <2> DEFINE q == client[c]
             s == q.sb
             log == History(s)
  <2>0. DaemonInv
    BY DEF StreamInv
  <2>1. q \in ClientCall /\ CallInv(q)
    BY WaitingCall DEF WaitPoint
  <2>2. Alive(s) /\ s \in Sandboxes
    BY <2>1, CallFields DEF Alive
  <2>3. /\ log \in Seq(Event) /\ Len(log) \in Nat /\ log = events[s]
        /\ nextSequence[s] = Len(log)
    BY <2>0, <2>2, HistoryFacts
  <2>4. Handled(q) = Len(log)
    <3>1. Handled(q) = q.sent - Len(q.inbox) /\ Len(q.inbox) = 0 /\ q.sent = Len(log)
      BY <2>3 DEF Handled
    <3> HIDE DEF q, log
    <3> QED
      BY <2>3, <3>1
  <2>5. PICK r \in Handled(q)..Len(log) : Verdict(q.call, StateAt(log, r)) = "waiting"
    BY <2>1, <2>2 DEF CallInv, Watched
  <2>6. r = Len(log)
    <3> HIDE DEF q, log
    <3> QED
      BY <2>3, <2>4, <2>5
  <2>7. StateAt(log, Len(log)) = PersistedState(events[s])
    BY <2>3, StateAtEnd
  <2>8. state[s] = PersistedState(events[s])
    BY <2>0 DEF DaemonInv, RecordInv, StateFollowsLog
  <2> QED
    BY <2>5, <2>6, <2>7, <2>8
<1> QED
  BY <1>1, StreamInvariant, PTL

\* A create, resume or stop that reports success has seen its state entered
\* after the request was accepted, also when writes of the store fail.
THEOREM SuccessIsFreshCorrect == StreamSpec => SuccessIsFresh
<1>1. StreamInv /\ [StreamNext]_streamVars =>
      [\A c \in Clients :
          LET s == client[c].sb IN
          (/\ Waiting(c)
           /\ client[c].call.op # "delete"
           /\ client'[c] = [at |-> "reached"]
           /\ s \in configs)
              => \E k \in DOMAIN bucket[s] :
                     /\ k >= client[c].accepted
                     /\ bucket[s][k].st = Target(client[c].call.op)]_streamVars
  <2> SUFFICES ASSUME StreamInv, StreamNext, NEW c \in Clients, Waiting(c),
                      client[c].call.op # "delete", client'[c] = [at |-> "reached"],
                      client[c].sb \in configs
               PROVE  \E k \in DOMAIN bucket[client[c].sb] :
                          /\ k >= client[c].accepted
                          /\ bucket[client[c].sb][k].st = Target(client[c].call.op)
    OBVIOUS
  <2> DEFINE q == client[c]
             s == q.sb
  <2>0. DaemonInv /\ client \in [Clients -> ClientCall \cup Ended \cup {NoCall}]
    BY DEF StreamInv, StreamTypeOK
  <2>1. q \in ClientCall /\ s \in Sandboxes /\ Alive(s)
    BY WaitingCall, CallFields DEF Waiting, Alive
  <2>2. client'[c] \notin ClientCall /\ client'[c] # client[c]
    <3>1. [at |-> "reached"] \notin ClientCall
      BY CallKinds DEF Outcome
    <3> QED
      BY <2>1, <3>1
  <2>3. ~DaemonStep
    BY <2>2 DEF DaemonStep
  <2>4. ~StreamsCrash
    <3>1. StreamsCrash => client'[c] = q \/ client'[c] = [q EXCEPT !.link = "broken"]
      BY DEF StreamsCrash
    <3>2. [q EXCEPT !.link = "broken"] \in ClientCall
      <4> HIDE DEF q
      <4> QED
        BY <2>1 DEF ClientCall
    <3> QED
      BY <2>2, <3>1, <3>2
  <2>5. ASSUME NEW d \in Clients, NEW call \in Calls, NEW t \in Sandboxes, Call(d, call, t)
        PROVE  FALSE
    <3>1. client[d] = NoCall
      BY <2>5 DEF Call
    <3>2. d # c
      BY <2>1, <3>1, CallKinds
    <3>3. client'[c] = client[c]
      BY <2>0, <2>5, <3>2 DEF Call, Set
    <3> QED
      BY <2>2, <3>3
  <2>6. PICK d \in Clients : ClientStep(d) \/ TimesOut(d) \/ Poll(d)
    BY <2>3, <2>4, <2>5 DEF StreamNext
  <2>7. CallMoves(d)
    BY <2>6, ClientMoves
  <2>8. d = c
    BY <2>0, <2>2, <2>7 DEF CallMoves
  <2>9. Entered(q)
    <3>1. PICK p : /\ client' = [client EXCEPT ![c] = p]
                   /\ \/ p \in ClientCall
                      \/ \E o \in Outcome \ {"expired"} :
                             /\ p = [at |-> o]
                             /\ (o = "reached" /\ q.call.op # "delete" /\ Alive(s))
                                    => Entered(q)
      BY <2>7, <2>8 DEF CallMoves
    <3>2. client'[c] = p
      BY <2>0, <3>1
    <3>3. PICK o \in Outcome : /\ p = [at |-> o]
                               /\ (o = "reached" /\ q.call.op # "delete" /\ Alive(s))
                                      => Entered(q)
      BY <2>2, <3>1, <3>2
    <3>4. o = "reached"
      <4>1. [at |-> o].at = "reached"
        BY <3>2, <3>3
      <4> QED
        BY <4>1
    <3> QED
      BY <2>1, <3>3, <3>4
  <2>10. History(s) = bucket[s] /\ DOMAIN bucket[s] = 1..Len(History(s))
    <3>1. History(s) = bucket[s] /\ History(s) \in Seq(Event)
      BY <2>0, <2>1, HistoryFacts
    <3> QED
      BY <3>1
  <2> QED
    BY <2>9, <2>10 DEF Entered
<1> QED
  BY <1>1, StreamInvariant, PTL DEF StreamSpec, SuccessIsFresh
=============================================================================
