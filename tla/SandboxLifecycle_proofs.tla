----------------------- MODULE SandboxLifecycle_proofs -----------------------
(***************************************************************************)
(* Proofs about SandboxLifecycle, for any number of sandboxes and          *)
(* goroutines and for a store that may or may not fail: types and log, the *)
(* records, the marks, and that the store implements EventLog.             *)
(***************************************************************************)
EXTENDS SandboxLifecycle, SequenceTheorems, FiniteSetTheorems,
        WellFoundedInduction, TLAPS

\* What appendEventLocked is ever asked to record: only SANDBOX_DELETED says
\* that a sandbox is DELETED.
LiveState == SandboxState \ {"DELETED"}

Mutations == {m \in [type : EventType, st : SandboxState] :
                 m.st = "DELETED" => m.type = "SANDBOX_DELETED"}

\* What TypeOK says of one bucket.
BucketOK(b) == /\ DOMAIN b \subseteq Nat \ {0}
               /\ \A k \in DOMAIN b : b[k] \in Event

-----------------------------------------------------------------------------
(***************************************************************************)
(* The operators of the event log                                          *)
(***************************************************************************)
\* The events appendEventLocked builds are well formed and consecutive.
LEMMA StampProperties ==
    ASSUME NEW n \in Nat, NEW muts \in Seq(Mutations)
    PROVE  /\ Stamp(n, muts) \in Seq(Event)
           /\ Len(Stamp(n, muts)) = Len(muts)
           /\ DOMAIN Stamp(n, muts) = 1..Len(muts)
           /\ \A i \in 1..Len(muts) : Stamp(n, muts)[i].seq = n + i
<1> DEFINE f == Stamp(n, muts)
<1>1. Len(muts) \in Nat /\ \A i \in 1..Len(muts) : muts[i] \in Mutations
  OBVIOUS
<1>2. \A i \in 1..Len(muts) : /\ f[i] \in Event
                              /\ f[i].seq = n + i
  BY <1>1 DEF Stamp, Event, Mutations
<1>3. f \in [1..Len(muts) -> Event]
  BY <1>1, <1>2 DEF Stamp
<1>4. f \in Seq(Event)
  BY <1>1, <1>3, IsASeq
<1>5. Len(f) = Len(muts) /\ DOMAIN f = 1..Len(muts)
  BY <1>1, <1>3, <1>4
<1> QED
  BY <1>2, <1>4, <1>5

\* Storing events keeps a bucket well formed.
LEMMA PutEventsType ==
    ASSUME NEW b, BucketOK(b), NEW n \in Nat, NEW muts \in Seq(Mutations)
    PROVE  BucketOK(PutEvents(b, Stamp(n, muts)))
<1> DEFINE evs  == Stamp(n, muts)
           Keys == {evs[i].seq : i \in DOMAIN evs}
           p    == PutEvents(b, evs)
<1>1. /\ DOMAIN evs = 1..Len(muts) /\ Len(muts) \in Nat
      /\ \A i \in DOMAIN evs : evs[i] \in Event /\ evs[i].seq \in Nat \ {0}
  <2>1. evs \in Seq(Event) /\ DOMAIN evs = 1..Len(muts)
    BY StampProperties
  <2> HIDE DEF evs
  <2>2. \A i \in DOMAIN evs : evs[i] \in Event
    BY <2>1
  <2>3. \A e \in Event : e.seq \in Nat \ {0}
    BY DEF Event
  <2> QED
    BY <2>1, <2>2, <2>3
<1> HIDE DEF evs
<1>2. Keys \subseteq Nat \ {0}
  BY <1>1
<1>3. p = [k \in DOMAIN b \cup Keys |->
              IF k \in Keys THEN evs[CHOOSE i \in DOMAIN evs : evs[i].seq = k]
                            ELSE b[k]]
  BY DEF PutEvents
<1>4. \A k \in Keys : evs[CHOOSE i \in DOMAIN evs : evs[i].seq = k] \in Event
  <2>1. ASSUME NEW k \in Keys
        PROVE  evs[CHOOSE i \in DOMAIN evs : evs[i].seq = k] \in Event
    <3>1. \E i \in DOMAIN evs : evs[i].seq = k
      OBVIOUS
    <3>2. (CHOOSE i \in DOMAIN evs : evs[i].seq = k) \in DOMAIN evs
      BY <3>1
    <3> QED
      BY <3>2, <1>1
  <2> QED
    BY <2>1
<1>5. DOMAIN p = DOMAIN b \cup Keys
  BY <1>3
<1>6. \A k \in DOMAIN p : p[k] \in Event
  BY <1>3, <1>4 DEF BucketOK
<1> QED
  BY <1>2, <1>5, <1>6 DEF BucketOK, evs

\* Storing the next events of a contiguous log appends them to it.
LEMMA PutEventsAppends ==
    ASSUME NEW log, Contiguous(log), NEW muts \in Seq(Mutations)
    PROVE  /\ PutEvents(log, Stamp(Len(log), muts)) = log \o Stamp(Len(log), muts)
           /\ Contiguous(log \o Stamp(Len(log), muts))
           /\ Len(log \o Stamp(Len(log), muts)) = Len(log) + Len(muts)
<1> DEFINE n    == Len(log)
           m    == Len(muts)
           evs  == Stamp(n, muts)
           Keys == {evs[i].seq : i \in DOMAIN evs}
           p    == PutEvents(log, evs)
<1>1. log \in Seq(Event) /\ n \in Nat /\ m \in Nat /\ DOMAIN log = 1..n
  BY DEF Contiguous
<1>2. /\ evs \in Seq(Event) /\ Len(evs) = m /\ DOMAIN evs = 1..m
      /\ \A i \in 1..m : evs[i].seq = n + i
  BY <1>1, StampProperties
<1>3. \A i \in 1..n : log[i].seq = i
  BY <1>1 DEF Contiguous
<1>4. p = [k \in DOMAIN log \cup Keys |->
              IF k \in Keys THEN evs[CHOOSE i \in DOMAIN evs : evs[i].seq = k]
                            ELSE log[k]]
  BY DEF PutEvents
<1> HIDE DEF n, m, evs, p
<1>5. Keys = (n + 1)..(n + m)
  <2>1. \A k \in (n + 1)..(n + m) : k - n \in 1..m /\ evs[k - n].seq = k
    BY <1>1, <1>2
  <2>2. (n + 1)..(n + m) \subseteq Keys
    BY <1>1, <1>2, <2>1
  <2>3. \A i \in 1..m : evs[i].seq \in (n + 1)..(n + m)
    BY <1>1, <1>2
  <2> QED
    BY <1>2, <2>2, <2>3
<1>6. \A k \in (n + 1)..(n + m) :
          (CHOOSE i \in DOMAIN evs : evs[i].seq = k) = k - n
  <2>1. ASSUME NEW k \in (n + 1)..(n + m)
        PROVE  (CHOOSE i \in DOMAIN evs : evs[i].seq = k) = k - n
    <3>1. k - n \in DOMAIN evs /\ evs[k - n].seq = k
      BY <1>1, <1>2
    <3>2. \A i \in DOMAIN evs : evs[i].seq = k => i = k - n
      BY SMTT(30), <1>1, <1>2
    <3> QED
      BY <3>1, <3>2
  <2> QED
    BY <2>1
<1>7. DOMAIN p = 1..(n + m)
  BY <1>1, <1>4, <1>5
<1>8. \A k \in 1..(n + m) : p[k] = IF k <= n THEN log[k] ELSE evs[k - n]
  <2> HIDE DEF Keys
  <2>1. ASSUME NEW k \in 1..(n + m)
        PROVE  p[k] = IF k <= n THEN log[k] ELSE evs[k - n]
    <3>1. k \in DOMAIN log \cup Keys
      BY <1>1, <1>5
    <3>2. p[k] = IF k \in Keys
                 THEN evs[CHOOSE i \in DOMAIN evs : evs[i].seq = k] ELSE log[k]
      BY <1>4, <3>1
    <3>3. CASE k <= n
      BY <1>1, <1>5, <3>2, <3>3
    <3>4. CASE ~(k <= n)
      <4>1. k \in (n + 1)..(n + m)
        BY <1>1, <3>4
      <4> QED
        BY <1>5, <1>6, <3>2, <3>4, <4>1
    <3> QED
      BY <3>3, <3>4
  <2> QED
    BY <2>1
<1>9. /\ log \o evs \in Seq(Event) /\ Len(log \o evs) = n + m
      /\ \A k \in 1..(n + m) :
            (log \o evs)[k] = IF k <= n THEN log[k] ELSE evs[k - n]
  <2>1. /\ log \o evs \in Seq(Event)
        /\ Len(log \o evs) = Len(log) + Len(evs)
        /\ \A i \in 1..Len(log) + Len(evs) : (log \o evs)[i] =
              IF i <= Len(log) THEN log[i] ELSE evs[i - Len(log)]
    BY <1>1, <1>2, ConcatProperties
  <2> QED
    BY <1>1, <1>2, <2>1 DEF n
<1>10. p = log \o evs
  <2>1. DOMAIN (log \o evs) = 1..(n + m)
    BY <1>9, <1>1
  <2>2. p = [k \in DOMAIN p |-> p[k]]
    BY <1>4
  <2>3. log \o evs = [k \in 1..(n + m) |-> (log \o evs)[k]]
    <3>1. log \o evs \in [1..(n + m) -> Event]
      BY <1>9, LenProperties
    <3> HIDE DEF evs
    <3> QED
      BY <3>1
  <2>4. \A k \in 1..(n + m) : p[k] = (log \o evs)[k]
    BY <1>8, <1>9
  <2> HIDE DEF p
  <2> QED
    BY <1>7, <2>2, <2>3, <2>4, Zenon
<1>11. Contiguous(log \o evs)
  <2>1. \A k \in 1..(n + m) : (log \o evs)[k].seq = k
    BY <1>1, <1>2, <1>3, <1>9
  <2> QED
    BY <1>9, <2>1 DEF Contiguous
<1> QED
  BY <1>9, <1>10, <1>11 DEF n, m, evs, p

\* A restore continues a contiguous log after its last event.
LEMMA MaxSequenceIsLen ==
    ASSUME NEW log, Contiguous(log)
    PROVE  MaxSequence(log) = Len(log)
<1>1. Len(log) \in Nat /\ DOMAIN log = 1..Len(log)
  BY DEF Contiguous
<1>2. CASE Len(log) = 0
  BY <1>1, <1>2 DEF MaxSequence
<1>3. CASE Len(log) # 0
  <2>1. /\ Len(log) \in DOMAIN log
        /\ \A j \in DOMAIN log : j <= Len(log)
    BY <1>1, <1>3
  <2>2. \A k \in DOMAIN log : (\A j \in DOMAIN log : j <= k) => k = Len(log)
    BY <1>1, <2>1
  <2> QED
    BY <2>1, <2>2 DEF MaxSequence
<1> QED
  BY <1>2, <1>3

\* A restore reads a contiguous log as it was written.
LEMMA LoadEventsIsLog ==
    ASSUME NEW log, Contiguous(log)
    PROVE  LoadEvents(log) = log
<1> DEFINE n == Len(log)
<1>1. log \in Seq(Event) /\ n \in Nat /\ DOMAIN log = 1..n
  BY DEF Contiguous
<1> HIDE DEF n
<1>2. \A k \in Nat : Cardinality(1..k) = k
  BY FS_Interval
<1>3. \A k \in 1..n : {j \in DOMAIN log : j < k} = 1..(k - 1)
  BY <1>1
<1>4. \A k \in 1..n : Cardinality({j \in DOMAIN log : j < k}) = k - 1
  <2>1. \A k \in 1..n : k - 1 \in Nat
    BY <1>1
  <2> QED
    BY <1>2, <1>3, <2>1
<1>5. \A i \in 1..n :
          (CHOOSE k \in DOMAIN log : Cardinality({j \in DOMAIN log : j < k}) = i - 1)
             = i
  <2>1. ASSUME NEW i \in 1..n
        PROVE  (CHOOSE k \in DOMAIN log :
                   Cardinality({j \in DOMAIN log : j < k}) = i - 1) = i
    <3>1. i \in DOMAIN log /\ Cardinality({j \in DOMAIN log : j < i}) = i - 1
      BY <1>1, <1>4
    <3>2. \A k \in DOMAIN log :
              Cardinality({j \in DOMAIN log : j < k}) = i - 1 => k = i
      <4>1. ASSUME NEW k \in DOMAIN log,
                   Cardinality({j \in DOMAIN log : j < k}) = i - 1
            PROVE  k = i
        <5>1. k - 1 = i - 1
          BY <1>1, <1>4, <4>1
        <5> QED
          BY <1>1, <5>1
      <4> QED
        BY <4>1
    <3> QED
      BY <3>1, <3>2
  <2> QED
    BY <2>1
<1>6. Cardinality(DOMAIN log) = n
  BY <1>1, <1>2
<1> DEFINE nth(i) ==
        CHOOSE k \in DOMAIN log : Cardinality({j \in DOMAIN log : j < k}) = i - 1
<1>7. LoadEvents(log) = [i \in 1..n |-> log[i]]
  <2>1. LoadEvents(log) = [i \in 1..n |-> log[nth(i)]]
    BY <1>6 DEF LoadEvents
  <2>2. \A i \in 1..n : nth(i) = i
    BY <1>5
  <2> HIDE DEF nth
  <2> QED
    BY <2>1, <2>2
<1>8. log = [i \in 1..n |-> log[i]]
  BY <1>1
<1> QED
  BY <1>7, <1>8

-----------------------------------------------------------------------------
(***************************************************************************)
(* Type correctness                                                        *)
(***************************************************************************)
LogTypeOK ==
    /\ events \in [Sandboxes -> Seq(Event)]
    /\ nextSequence \in [Sandboxes -> Nat]
    /\ bucket = [s \in Sandboxes |-> bucket[s]]
    /\ \A s \in Sandboxes : BucketOK(bucket[s])

GoTypeOK == goroutine \in [Goroutines -> ActiveGoroutine \cup {Idle}]

RestTypeOK ==
    /\ daemon \in {"down", "restoring", "serving"}
    /\ boxes \subseteq Sandboxes
    /\ state \in [Sandboxes -> SandboxState]
    /\ runtimeState \in [Sandboxes -> BOOLEAN]
    /\ deletedAtRecorded \in [Sandboxes -> BOOLEAN]
    /\ purging \subseteq Sandboxes
    /\ sandboxIDs \subseteq Sandboxes
    /\ configs \subseteq Sandboxes
    /\ deletedAt \subseteq Sandboxes
    /\ container \in [Sandboxes -> ContainerState]

\* TypeOK in three parts that different actions change.
LEMMA TypeParts == TypeOK <=> LogTypeOK /\ GoTypeOK /\ RestTypeOK
BY DEF TypeOK, LogTypeOK, GoTypeOK, RestTypeOK, BucketOK

\* The same of the next state, where an action's effect is shown.
LEMMA TypePartsNext == LogTypeOK' /\ GoTypeOK' /\ RestTypeOK' => TypeOK'
BY DEF TypeOK, LogTypeOK, GoTypeOK, RestTypeOK, BucketOK

\* The mutations the daemon records are well formed.
LEMMA MutationTypes ==
    /\ \A t \in EventType, st \in LiveState :
          /\ Mutation(t, st) \in Mutations
          /\ <<Mutation(t, st)>> \in Seq(Mutations)
          /\ Append(<< >>, Mutation(t, st)) \in Seq(Mutations)
          /\ \A t2 \in EventType, st2 \in LiveState :
                Append(<<Mutation(t, st)>>, Mutation(t2, st2)) \in Seq(Mutations)
    /\ << >> \in Seq(Mutations)
    /\ DeletedMutation \in Seq(Mutations)
<1>1. \A t \in EventType, st \in LiveState : Mutation(t, st) \in Mutations
  BY DEF Mutation, Mutations, LiveState
<1>2. Mutation("SANDBOX_DELETED", "DELETED") \in Mutations
  BY DEF Mutation, Mutations, EventType, SandboxState
<1> QED
  BY <1>1, <1>2 DEF DeletedMutation

\* Recording events keeps the log's types.
LEMMA RecordEventsType ==
    ASSUME LogTypeOK, NEW s \in Sandboxes, NEW loaded \in Seq(Event),
           NEW n \in Nat, NEW muts \in Seq(Mutations),
           RecordEvents(s, loaded, n, muts)
    PROVE  LogTypeOK'
<1>1. /\ Stamp(n, muts) \in Seq(Event)
      /\ loaded \o Stamp(n, muts) \in Seq(Event)
      /\ n + Len(muts) \in Nat
  BY StampProperties, ConcatProperties
<1>2. BucketOK(PutEvents(bucket[s], Stamp(n, muts)))
  BY PutEventsType DEF LogTypeOK
<1>3. bucket' = [bucket EXCEPT ![s] = PutEvents(bucket[s], Stamp(n, muts))]
  BY DEF RecordEvents
<1>4. /\ events' = [events EXCEPT ![s] = loaded \o Stamp(n, muts)]
      /\ nextSequence' = [nextSequence EXCEPT ![s] = n + Len(muts)]
  BY DEF RecordEvents
<1>5. events' \in [Sandboxes -> Seq(Event)] /\ nextSequence' \in [Sandboxes -> Nat]
  BY <1>1, <1>4 DEF LogTypeOK
<1>6. /\ bucket' = [t \in Sandboxes |-> bucket'[t]]
      /\ \A t \in Sandboxes : bucket'[t] = IF t = s
             THEN PutEvents(bucket[s], Stamp(n, muts)) ELSE bucket[t]
  BY <1>3 DEF LogTypeOK
<1>7. \A t \in Sandboxes : BucketOK(bucket'[t])
  BY <1>2, <1>6 DEF LogTypeOK
<1> QED
  BY <1>5, <1>6, <1>7 DEF LogTypeOK, BucketOK

\* appendEventLocked, with or without a store error, keeps the log well typed.
LEMMA AppendLockedType ==
    ASSUME LogTypeOK, NEW s \in Sandboxes, NEW muts \in Seq(Mutations),
           appendEventLocked(s, muts)
    PROVE  LogTypeOK'
<1>1. events[s] \in Seq(Event) /\ nextSequence[s] \in Nat
  BY DEF LogTypeOK
<1> QED
  BY <1>1, RecordEventsType DEF appendEventLocked

\* DeleteSandboxes appends one event to each of a set of records and keeps
\* the log well typed.
LEMMA AppendToAllType ==
    ASSUME LogTypeOK, NEW T, NEW mut \in Mutations, appendEventToAll(T, mut)
    PROVE  LogTypeOK'
<1>1. <<mut>> \in Seq(Mutations)
  OBVIOUS
<1>2. \A s \in Sandboxes :
          /\ events[s] \o Stamp(nextSequence[s], <<mut>>) \in Seq(Event)
          /\ BucketOK(PutEvents(bucket[s], Stamp(nextSequence[s], <<mut>>)))
  BY <1>1, StampProperties, ConcatProperties, PutEventsType DEF LogTypeOK
<1>3. \A s \in Sandboxes : nextSequence[s] \in Nat /\ nextSequence[s] + 1 \in Nat
  BY DEF LogTypeOK
<1>4. events' \in [Sandboxes -> Seq(Event)] /\ nextSequence' \in [Sandboxes -> Nat]
  BY <1>2, <1>3 DEF appendEventToAll, LogTypeOK
<1>5. /\ bucket' = [s \in Sandboxes |-> bucket'[s]]
      /\ \A s \in Sandboxes : bucket'[s] = IF s \in T
             THEN PutEvents(bucket[s], Stamp(nextSequence[s], <<mut>>))
             ELSE bucket[s]
  BY DEF appendEventToAll
<1>6. \A s \in Sandboxes : BucketOK(bucket'[s])
  BY <1>2, <1>5 DEF LogTypeOK
<1> QED
  BY <1>4, <1>5, <1>6 DEF LogTypeOK, BucketOK

\* What becomes of a goroutine keeps its type.
LEMMA GoroutineTypes ==
    ASSUME GoTypeOK
    PROVE  /\ \A fn \in GoFunc, s \in Sandboxes : Go(fn, s) => GoTypeOK'
           /\ \A fn \in GoFunc, T \in SUBSET Sandboxes : GoAll(fn, T) => GoTypeOK'
           /\ \A g \in Goroutines : Exit(g) => GoTypeOK'
           /\ \A g \in Goroutines, at \in Point, err \in BOOLEAN :
                 goroutine[g] # Idle /\ MoveTo(g, at, err) => GoTypeOK'
<1>1. \A fn \in GoFunc, s \in Sandboxes : NewGoroutine(fn, s) \in ActiveGoroutine
  BY DEF NewGoroutine, ActiveGoroutine, Point
<1>2. \A fn \in GoFunc, s \in Sandboxes : Go(fn, s) => GoTypeOK'
  BY <1>1 DEF Go, GoTypeOK, Free
<1>3. ASSUME NEW fn \in GoFunc, NEW T \in SUBSET Sandboxes, GoAll(fn, T)
      PROVE  GoTypeOK'
  <2>1. PICK h \in [T -> Free] :
            goroutine' = [g \in Goroutines |->
               IF \E s \in T : h[s] = g
               THEN NewGoroutine(fn, CHOOSE s \in T : h[s] = g)
               ELSE goroutine[g]]
    BY <1>3 DEF GoAll
  <2>2. \A g \in Goroutines : (\E s \in T : h[s] = g) =>
            (CHOOSE s \in T : h[s] = g) \in Sandboxes
    OBVIOUS
  <2> QED
    BY <1>1, <2>1, <2>2 DEF GoTypeOK
<1>4. \A g \in Goroutines : Exit(g) => GoTypeOK'
  BY DEF Exit, GoTypeOK
<1>5. \A g \in Goroutines, at \in Point, err \in BOOLEAN :
          goroutine[g] # Idle /\ MoveTo(g, at, err) => GoTypeOK'
  BY DEF MoveTo, GoTypeOK, ActiveGoroutine
<1> QED
  BY <1>2, <1>3, <1>4, <1>5

\* A goroutine that is under way works for a sandbox.
LEMMA GoroutineSandbox ==
    ASSUME GoTypeOK
    PROVE  \A fn, at : \A g \in Goroutines :
               At(g, fn, at) => /\ goroutine[g] # Idle
                                /\ goroutine[g].sb \in Sandboxes
                                /\ goroutine[g].err \in BOOLEAN
BY DEF GoTypeOK, At, ActiveGoroutine

\* What is not touched keeps its type.
LEMMA UnchangedTypes ==
    /\ LogTypeOK /\ UNCHANGED logVars => LogTypeOK'
    /\ GoTypeOK /\ UNCHANGED goroutine => GoTypeOK'
BY DEF LogTypeOK, GoTypeOK, logVars, BucketOK

\* The mutations recorded with the statuses of companions.
LEMMA StatusTypes ==
    ASSUME NEW s \in Sandboxes, NEW type \in EventType, NEW st \in LiveState
    PROVE  /\ \A d \in DrainedStatuses(s) : Append(d, Mutation(type, st)) \in Seq(Mutations)
           /\ \A d \in ResumeStatuses(s) : /\ d \in Seq(Mutations)
                                          /\ Append(d, Mutation(type, st)) \in Seq(Mutations)
<1>1. Mutation(type, st) \in Mutations
  BY MutationTypes
<1>2. /\ Mutation("COMPANION_CONTAINER_READY", "PENDING") \in Mutations
      /\ Mutation("COMPANION_CONTAINER_FAILED", "PENDING") \in Mutations
  BY MutationTypes DEF EventType, LiveState, SandboxState
<1>3. /\ \A d \in DrainedStatuses(s) : d \in Seq(Mutations)
      /\ \A d \in ResumeStatuses(s) : d \in Seq(Mutations)
  <2>1. /\ << >> \in Seq(Mutations)
        /\ <<Mutation("COMPANION_CONTAINER_READY", "PENDING")>> \in Seq(Mutations)
        /\ <<Mutation("COMPANION_CONTAINER_FAILED", "PENDING")>> \in Seq(Mutations)
    BY <1>2
  <2> QED
    BY <2>1, Zenon DEF DrainedStatuses, ResumeStatuses
<1> QED
  BY <1>1, <1>3, AppendProperties

\* Settling a sandbox keeps the types, whether or not the store fails.
LEMMA SettleType ==
    ASSUME LogTypeOK, RestTypeOK, NEW s \in Sandboxes,
           NEW muts \in Seq(Mutations), NEW st \in SandboxState
    PROVE  /\ Settled(s, muts, st) =>
                 LogTypeOK' /\ state' \in [Sandboxes -> SandboxState]
           /\ SettleFails(s, muts) =>
                 LogTypeOK' /\ state' \in [Sandboxes -> SandboxState]
           /\ Settle(s, muts, st) =>
                 LogTypeOK' /\ state' \in [Sandboxes -> SandboxState]
<1>1. Settled(s, muts, st) => LogTypeOK' /\ state' \in [Sandboxes -> SandboxState]
  BY AppendLockedType DEF Settled, RestTypeOK
<1>2. ASSUME SettleFails(s, muts)
      PROVE  LogTypeOK' /\ state' \in [Sandboxes -> SandboxState]
  <2>1. PICK k \in 0..(Len(muts) - 1) : appendEventLocked(s, SubSeq(muts, 1, k))
    BY <1>2 DEF SettleFails
  <2>2. SubSeq(muts, 1, k) \in Seq(Mutations)
    <3>1. Len(muts) \in Nat /\ k \in Nat /\ k <= Len(muts)
      BY LenProperties
    <3> QED
      BY <3>1, SubSeqProperties
  <2>3. LogTypeOK'
    BY <2>1, <2>2, AppendLockedType
  <2> QED
    BY <1>2, <2>3 DEF SettleFails, RestTypeOK
<1> QED
  BY <1>1, <1>2 DEF Settle

\* A crash leaves well-typed memory behind.
LEMMA LoseMemoryType ==
    ASSUME LogTypeOK, RestTypeOK, LoseMemory
    PROVE  /\ GoTypeOK'
           /\ bucket' = bucket => LogTypeOK'
           /\ \A s \in Sandboxes, n \in Nat, muts \in Seq(Mutations) :
                 bucket' = [bucket EXCEPT ![s] = PutEvents(@, Stamp(n, muts))]
                    => LogTypeOK'
           /\ daemon' = "down" /\ boxes' = {} /\ purging' = {}
           /\ state' \in [Sandboxes -> SandboxState]
           /\ runtimeState' \in [Sandboxes -> BOOLEAN]
           /\ deletedAtRecorded' \in [Sandboxes -> BOOLEAN]
<1>1. /\ events' \in [Sandboxes -> Seq(Event)]
      /\ nextSequence' \in [Sandboxes -> Nat]
  BY DEF LoseMemory
<1>2. bucket' = bucket => LogTypeOK'
  BY <1>1 DEF LogTypeOK, BucketOK
<1>3. ASSUME NEW s \in Sandboxes, NEW n \in Nat, NEW muts \in Seq(Mutations),
             bucket' = [bucket EXCEPT ![s] = PutEvents(@, Stamp(n, muts))]
      PROVE  LogTypeOK'
  <2>1. BucketOK(PutEvents(bucket[s], Stamp(n, muts)))
    BY PutEventsType DEF LogTypeOK
  <2>2. /\ bucket' = [t \in Sandboxes |-> bucket'[t]]
        /\ \A t \in Sandboxes : bucket'[t] = IF t = s
               THEN PutEvents(bucket[s], Stamp(n, muts)) ELSE bucket[t]
    BY <1>3 DEF LogTypeOK
  <2>3. \A t \in Sandboxes : BucketOK(bucket'[t])
    BY <2>1, <2>2 DEF LogTypeOK
  <2> QED
    BY <1>1, <2>2, <2>3 DEF LogTypeOK, BucketOK
<1>4. GoTypeOK'
  BY DEF LoseMemory, GoTypeOK
<1> QED
  BY <1>2, <1>3, <1>4 DEF LoseMemory, SandboxState

\* Requests, scans and the watcher keep the types.
LEMMA RequestType ==
    ASSUME TypeOK, NEW T \in SUBSET Sandboxes,
           Request(T) \/ idleScanAndStop(T) \/ Cleanup(T) \/ DropPurged
    PROVE  TypeOK'
<1> USE TypeParts, MutationTypes, UnchangedTypes
<1>0. LogTypeOK /\ GoTypeOK /\ RestTypeOK
  OBVIOUS
<1>t. /\ {"SANDBOX_ACCEPTED", "SANDBOX_FAILED", "SANDBOX_STOP_REQUESTED",
          "SANDBOX_DELETE_REQUESTED", "COMPANION_CONTAINER_FAILED"} \subseteq EventType
      /\ SandboxState = {"UNSPECIFIED", "PENDING", "READY", "FAILED", "STOPPED",
                         "DELETING", "DELETED"}
      /\ LiveState = {"UNSPECIFIED", "PENDING", "READY", "FAILED", "STOPPED",
                      "DELETING"}
      /\ {"completeSandboxCreate", "completeSandboxResume", "completeSandboxStop",
          "completeSandboxDelete", "stopFailedSandbox"} \subseteq GoFunc
  BY DEF EventType, SandboxState, LiveState, GoFunc

<1>1. ASSUME NEW s \in Sandboxes, CreateSandbox(s)
      PROVE  TypeOK'
  <2>1. LogTypeOK'
    <3>1. << >> \in Seq(Event) /\ 0 \in Nat
      OBVIOUS
    <3> QED
      BY <1>0, <1>t, <1>1, <3>1, RecordEventsType DEF CreateSandbox
  <2>2. GoTypeOK'
    BY <1>0, <1>t, <1>1, GoroutineTypes DEF CreateSandbox
  <2>3. RestTypeOK'
    BY <1>0, <1>t, <1>1 DEF RestTypeOK, CreateSandbox
  <2> QED
    BY <2>1, <2>2, <2>3, TypePartsNext
<1>2. ASSUME NEW s \in Sandboxes, CreateSandboxFails(s)
      PROVE  TypeOK'
  <2>1. LogTypeOK'
    BY <1>0, <1>t, <1>2 DEF CreateSandboxFails
  <2>2. GoTypeOK'
    BY <1>0, <1>t, <1>2 DEF CreateSandboxFails
  <2>3. RestTypeOK'
    BY <1>0, <1>t, <1>2 DEF RestTypeOK, CreateSandboxFails, recordVars, idVars
  <2> QED
    BY <2>1, <2>2, <2>3, TypePartsNext
<1>3. ASSUME NEW s \in Sandboxes, ResumeSandbox(s)
      PROVE  TypeOK'
  <2>1. LogTypeOK'
    BY <1>0, <1>t, <1>3, AppendLockedType DEF ResumeSandbox
  <2>2. GoTypeOK'
    BY <1>0, <1>t, <1>3, GoroutineTypes DEF ResumeSandbox
  <2>3. RestTypeOK'
    BY <1>0, <1>t, <1>3 DEF RestTypeOK, ResumeSandbox, recordVars, idVars
  <2> QED
    BY <2>1, <2>2, <2>3, TypePartsNext
<1>4. ASSUME NEW s \in Sandboxes, StopSandbox(s)
      PROVE  TypeOK'
  <2>1. LogTypeOK'
    BY <1>0, <1>t, <1>4, AppendLockedType DEF StopSandbox
  <2>2. GoTypeOK'
    BY <1>0, <1>t, <1>4, GoroutineTypes DEF StopSandbox
  <2>3. RestTypeOK'
    BY <1>0, <1>t, <1>4 DEF RestTypeOK, StopSandbox, recordVars, idVars
  <2> QED
    BY <2>1, <2>2, <2>3, TypePartsNext
<1>5. ASSUME NEW s \in Sandboxes, DeleteSandbox(s)
      PROVE  TypeOK'
  <2>1. LogTypeOK'
    BY <1>0, <1>t, <1>5, AppendToAllType DEF DeleteSandbox, beginSandboxDeleteLocked
  <2>2. GoTypeOK'
    BY <1>0, <1>t, <1>5, GoroutineTypes DEF DeleteSandbox
  <2>3. RestTypeOK'
    BY <1>0, <1>t, <1>5 DEF RestTypeOK, DeleteSandbox, beginSandboxDeleteLocked, recordVars, idVars
  <2> QED
    BY <2>1, <2>2, <2>3, TypePartsNext
<1>6. ASSUME NEW s \in Sandboxes, ReportCompanionFailed(s)
      PROVE  TypeOK'
  <2>1. LogTypeOK'
    BY <1>0, <1>t, <1>6, AppendLockedType DEF ReportCompanionFailed
  <2>2. GoTypeOK'
    BY <1>0, <1>t, <1>6 DEF ReportCompanionFailed
  <2>3. RestTypeOK'
    BY <1>0, <1>t, <1>6 DEF RestTypeOK, ReportCompanionFailed, recordVars, idVars
  <2> QED
    BY <2>1, <2>2, <2>3, TypePartsNext
<1>7. CASE DeleteSandboxes(T)
  <2>1. LogTypeOK'
    BY <1>0, <1>t, <1>7, AppendToAllType DEF DeleteSandboxes, beginSandboxDeleteLocked
  <2>2. GoTypeOK'
    BY <1>0, <1>t, <1>7, GoroutineTypes DEF DeleteSandboxes, Deletable
  <2>3. RestTypeOK'
    BY <1>0, <1>t, <1>7
       DEF RestTypeOK, DeleteSandboxes, beginSandboxDeleteLocked, recordVars, idVars
  <2> QED
    BY <2>1, <2>2, <2>3, TypePartsNext
<1>8. CASE idleScanAndStop(T)
  <2>1. LogTypeOK'
    BY <1>0, <1>t, <1>8, AppendToAllType DEF idleScanAndStop
  <2>2. GoTypeOK'
    BY <1>0, <1>t, <1>8, GoroutineTypes DEF idleScanAndStop
  <2>3. RestTypeOK'
    BY <1>0, <1>t, <1>8 DEF RestTypeOK, idleScanAndStop, recordVars, idVars
  <2> QED
    BY <2>1, <2>2, <2>3, TypePartsNext
<1>9. CASE cleanupStoppedSandboxes(T)
  <2>1. LogTypeOK'
    BY <1>0, <1>t, <1>9, AppendToAllType DEF cleanupStoppedSandboxes, beginSandboxDeleteLocked
  <2>2. GoTypeOK'
    BY <1>0, <1>t, <1>9, GoroutineTypes DEF cleanupStoppedSandboxes
  <2>3. RestTypeOK'
    BY <1>0, <1>t, <1>9
       DEF RestTypeOK, cleanupStoppedSandboxes, beginSandboxDeleteLocked, recordVars, idVars
  <2> QED
    BY <2>1, <2>2, <2>3, TypePartsNext
<1>10. CASE applyPrimaryFailed(T)
  <2>1. LogTypeOK'
    BY <1>0, <1>t, <1>10, AppendToAllType DEF applyPrimaryFailed
  <2>2. GoTypeOK'
    BY <1>0, <1>t, <1>10, GoroutineTypes DEF applyPrimaryFailed
  <2>3. RestTypeOK'
    BY <1>0, <1>t, <1>10 DEF RestTypeOK, applyPrimaryFailed, recordVars, idVars
  <2> QED
    BY <2>1, <2>2, <2>3, TypePartsNext
<1>11. CASE Cleanup(T)
  <2>1. LogTypeOK'
    BY <1>0, <1>t, <1>11 DEF Cleanup, LogTypeOK, BucketOK
  <2>2. GoTypeOK'
    BY <1>0, <1>t, <1>11 DEF Cleanup
  <2>3. RestTypeOK'
    BY <1>0, <1>t, <1>11 DEF RestTypeOK, Cleanup, recordVars, idVars
  <2> QED
    BY <2>1, <2>2, <2>3, TypePartsNext
<1>12. CASE DropPurged
  <2>1. LogTypeOK'
    BY <1>0, <1>t, <1>12 DEF DropPurged
  <2>2. GoTypeOK'
    BY <1>0, <1>t, <1>12 DEF DropPurged
  <2>3. RestTypeOK'
    BY <1>0, <1>t, <1>12 DEF RestTypeOK, DropPurged, recordVars, idVars
  <2> QED
    BY <2>1, <2>2, <2>3, TypePartsNext
<1> QED
  BY <1>1, <1>2, <1>3, <1>4, <1>5, <1>6, <1>7, <1>8, <1>9, <1>10, <1>11, <1>12 DEF Request
\* The goroutines keep the types.
LEMMA GoroutineStepType ==
    ASSUME TypeOK, NEW g \in Goroutines, GoroutineStep(g)
    PROVE  TypeOK'
<1> USE TypeParts, MutationTypes, UnchangedTypes
<1>0. LogTypeOK /\ GoTypeOK /\ RestTypeOK
  OBVIOUS
<1>t. /\ {"SANDBOX_PREPARING", "SANDBOX_READY", "SANDBOX_FAILED", "SANDBOX_STOPPED",
          "COMPANION_CONTAINER_READY", "COMPANION_CONTAINER_FAILED"} \subseteq EventType
      /\ SandboxState = {"UNSPECIFIED", "PENDING", "READY", "FAILED", "STOPPED",
                         "DELETING", "DELETED"}
      /\ LiveState = {"UNSPECIFIED", "PENDING", "READY", "FAILED", "STOPPED",
                      "DELETING"}
      /\ ContainerState = {"absent", "stopped", "exited", "running"}
      /\ {"backend", "starting", "finish"} \subseteq Point
      /\ FALSE \in BOOLEAN /\ TRUE \in BOOLEAN
  BY DEF EventType, SandboxState, LiveState, ContainerState, Point
<1>s. \A fn, at : At(g, fn, at) => /\ goroutine[g] # Idle
                                   /\ goroutine[g].sb \in Sandboxes
                                   /\ goroutine[g].err \in BOOLEAN
  BY <1>0, GoroutineSandbox
<1>m. \A fn, at : At(g, fn, at) =>
          \A to \in Point, err \in BOOLEAN : MoveTo(g, to, err) => GoTypeOK'
  BY <1>0, <1>s, GoroutineTypes
<1>1. CASE CreateStart(g)
  <2>1. LogTypeOK'
    BY <1>0, <1>t, <1>s, <1>1, AppendLockedType DEF CreateStart
  <2>2. GoTypeOK'
    BY <1>0, <1>t, <1>s, <1>1, GoroutineTypes DEF CreateStart
  <2>3. RestTypeOK'
    BY <1>0, <1>t, <1>s, <1>1 DEF RestTypeOK, CreateStart, recordVars, idVars
  <2> QED
    BY <2>1, <2>2, <2>3, TypePartsNext
<1>2. CASE BackendCreate(g)
  <2>1. LogTypeOK'
    BY <1>0, <1>t, <1>s, <1>2 DEF BackendCreate
  <2>2. GoTypeOK'
    BY <1>0, <1>t, <1>s, <1>2, GoroutineTypes DEF BackendCreate
  <2>3. RestTypeOK'
    BY <1>0, <1>t, <1>s, <1>2 DEF RestTypeOK, BackendCreate, recordVars, idVars
  <2> QED
    BY <2>1, <2>2, <2>3, TypePartsNext
<1>3. CASE BackendStart(g)
  <2>1. LogTypeOK'
    BY <1>0, <1>t, <1>s, <1>3 DEF BackendStart
  <2>2. GoTypeOK'
    <3>1. At(g, "completeSandboxCreate", "starting") /\ "finish" \in Point
      BY <1>t, <1>3 DEF BackendStart
    <3>2. \A err \in BOOLEAN : MoveTo(g, "finish", err) => GoTypeOK'
      BY <1>m, <3>1
    <3>3. \E err \in BOOLEAN : MoveTo(g, "finish", err)
      BY <1>3, Zenon DEF BackendStart
    <3> QED
      BY <3>2, <3>3
  <2>3. RestTypeOK'
    BY <1>0, <1>t, <1>s, <1>3 DEF RestTypeOK, BackendStart, recordVars, idVars
  <2> QED
    BY <2>1, <2>2, <2>3, TypePartsNext
<1>4. CASE CreateFinish(g)
  <2>1. LogTypeOK'
    BY <1>0, <1>t, <1>s, <1>4, SettleType, StatusTypes DEF CreateFinish
  <2>2. GoTypeOK'
    <3>1. Exit(g) => GoTypeOK'
      BY <1>0, GoroutineTypes
    <3>2. \A b \in Sandboxes :
              goroutine' = [goroutine EXCEPT ![g] =
                  NewGoroutine("completeCompanionContainerStartup", b)] => GoTypeOK'
      BY <1>0 DEF NewGoroutine, GoTypeOK, ActiveGoroutine, GoFunc, Point
    <3> QED
      BY <1>s, <1>4, <3>1, <3>2 DEF CreateFinish
  <2>3. RestTypeOK'
    BY <1>0, <1>t, <1>s, <1>4 DEF RestTypeOK, CreateFinish, Settle, Settled,
              SettleFails, recordVars, idVars
  <2> QED
    BY <2>1, <2>2, <2>3, TypePartsNext
<1>5. CASE CompanionStartup(g)
  <2>1. LogTypeOK'
    BY <1>0, <1>t, <1>s, <1>5, AppendLockedType DEF CompanionStartup
  <2>2. GoTypeOK'
    BY <1>0, <1>t, <1>s, <1>5, GoroutineTypes DEF CompanionStartup
  <2>3. RestTypeOK'
    BY <1>0, <1>t, <1>s, <1>5 DEF RestTypeOK, CompanionStartup, recordVars, idVars
  <2> QED
    BY <2>1, <2>2, <2>3, TypePartsNext
<1>6. CASE ResumeStart(g)
  <2>1. LogTypeOK'
    BY <1>0, <1>t, <1>s, <1>6 DEF ResumeStart
  <2>2. GoTypeOK'
    BY <1>0, <1>t, <1>s, <1>6, GoroutineTypes DEF ResumeStart
  <2>3. RestTypeOK'
    BY <1>0, <1>t, <1>s, <1>6 DEF RestTypeOK, ResumeStart, recordVars, idVars
  <2> QED
    BY <2>1, <2>2, <2>3, TypePartsNext
<1>7. CASE BackendResume(g)
  <2>1. LogTypeOK'
    BY <1>0, <1>t, <1>s, <1>7 DEF BackendResume
  <2>2. GoTypeOK'
    <3>1. At(g, "completeSandboxResume", "backend") /\ "finish" \in Point
      BY <1>t, <1>7 DEF BackendResume
    <3>2. \A err \in BOOLEAN : MoveTo(g, "finish", err) => GoTypeOK'
      BY <1>m, <3>1
    <3>3. \E err \in BOOLEAN : MoveTo(g, "finish", err)
      BY <1>7, Zenon DEF BackendResume
    <3> QED
      BY <3>2, <3>3
  <2>3. RestTypeOK'
    BY <1>0, <1>t, <1>s, <1>7 DEF RestTypeOK, BackendResume, recordVars, idVars
  <2> QED
    BY <2>1, <2>2, <2>3, TypePartsNext
<1>8. CASE ResumeFinish(g)
  <2>1. LogTypeOK'
    BY <1>0, <1>t, <1>s, <1>8, SettleType, StatusTypes DEF ResumeFinish
  <2>2. GoTypeOK'
    BY <1>0, <1>t, <1>s, <1>8, GoroutineTypes DEF ResumeFinish
  <2>3. RestTypeOK'
    BY <1>0, <1>t, <1>s, <1>8 DEF RestTypeOK, ResumeFinish, Settle, Settled,
              SettleFails, recordVars, idVars
  <2> QED
    BY <2>1, <2>2, <2>3, TypePartsNext
<1>9. CASE StopStart(g)
  <2>1. LogTypeOK'
    BY <1>0, <1>t, <1>s, <1>9 DEF StopStart
  <2>2. GoTypeOK'
    BY <1>0, <1>t, <1>s, <1>9, GoroutineTypes DEF StopStart
  <2>3. RestTypeOK'
    BY <1>0, <1>t, <1>s, <1>9 DEF RestTypeOK, StopStart, recordVars, idVars
  <2> QED
    BY <2>1, <2>2, <2>3, TypePartsNext
<1>10. CASE BackendStop(g)
  <2>1. LogTypeOK'
    BY <1>0, <1>t, <1>s, <1>10 DEF BackendStop
  <2>2. GoTypeOK'
    BY <1>0, <1>t, <1>s, <1>10, GoroutineTypes DEF BackendStop
  <2>3. RestTypeOK'
    BY <1>0, <1>t, <1>s, <1>10 DEF RestTypeOK, BackendStop, recordVars, idVars, StopContainer
  <2> QED
    BY <2>1, <2>2, <2>3, TypePartsNext
<1>11. CASE StopFinish(g)
  <2>1. LogTypeOK'
    BY <1>0, <1>t, <1>s, <1>11, SettleType DEF StopFinish
  <2>2. GoTypeOK'
    BY <1>0, <1>t, <1>s, <1>11, GoroutineTypes DEF StopFinish
  <2>3. RestTypeOK'
    BY <1>0, <1>t, <1>s, <1>11 DEF RestTypeOK, StopFinish, Settle, Settled,
              SettleFails, recordVars, idVars
  <2> QED
    BY <2>1, <2>2, <2>3, TypePartsNext
<1>12. CASE StopFailedSandbox(g)
  <2>1. LogTypeOK'
    BY <1>0, <1>t, <1>s, <1>12 DEF StopFailedSandbox
  <2>2. GoTypeOK'
    BY <1>0, <1>t, <1>s, <1>12, GoroutineTypes DEF StopFailedSandbox
  <2>3. RestTypeOK'
    BY <1>0, <1>t, <1>s, <1>12 DEF RestTypeOK, StopFailedSandbox, recordVars, idVars, StopContainer
  <2> QED
    BY <2>1, <2>2, <2>3, TypePartsNext
<1>13. CASE DeleteStart(g)
  <2>1. LogTypeOK'
    BY <1>0, <1>t, <1>s, <1>13 DEF DeleteStart
  <2>2. GoTypeOK'
    BY <1>0, <1>t, <1>s, <1>13, GoroutineTypes DEF DeleteStart
  <2>3. RestTypeOK'
    BY <1>0, <1>t, <1>s, <1>13 DEF RestTypeOK, DeleteStart, recordVars, idVars
  <2> QED
    BY <2>1, <2>2, <2>3, TypePartsNext
<1>14. CASE BackendDelete(g)
  <2>1. LogTypeOK'
    BY <1>0, <1>t, <1>s, <1>14 DEF BackendDelete
  <2>2. GoTypeOK'
    <3>1. At(g, "completeSandboxDelete", "backend") /\ "finish" \in Point
      BY <1>t, <1>14 DEF BackendDelete
    <3>2. \A err \in BOOLEAN : MoveTo(g, "finish", err) => GoTypeOK'
      BY <1>m, <3>1
    <3>3. \E err \in BOOLEAN : MoveTo(g, "finish", err)
      BY <1>14, Zenon DEF BackendDelete
    <3> QED
      BY <3>2, <3>3
  <2>3. RestTypeOK'
    BY <1>0, <1>t, <1>s, <1>14 DEF RestTypeOK, BackendDelete, recordVars, idVars
  <2> QED
    BY <2>1, <2>2, <2>3, TypePartsNext
<1>15. CASE DeleteFinish(g)
  <2>1. LogTypeOK'
    BY <1>0, <1>t, <1>s, <1>15, AppendLockedType, SettleType DEF DeleteFinish
  <2>2. GoTypeOK'
    BY <1>0, <1>t, <1>s, <1>15, GoroutineTypes DEF DeleteFinish
  <2>3. RestTypeOK'
    BY ZenonT(60), <1>0, <1>t, <1>s, <1>15 DEF RestTypeOK, DeleteFinish, Settle, Settled,
              SettleFails, recordVars, idVars
  <2> QED
    BY <2>1, <2>2, <2>3, TypePartsNext
<1> QED
  BY <1>1, <1>2, <1>3, <1>4, <1>5, <1>6, <1>7, <1>8, <1>9, <1>10, <1>11, <1>12, <1>13, <1>14, <1>15
     DEF GoroutineStep
-----------------------------------------------------------------------------
(***************************************************************************)
(* What a restore reads                                                    *)
(***************************************************************************)
\* Positions of a sequence have a last member.
LEMMA LastPosition ==
    ASSUME NEW n \in Nat, NEW C \in SUBSET (1..n), C # {}
    PROVE  \E m \in C : \A j \in C : j <= m
<1> DEFINE D == {n - i : i \in C}
<1>1. D \subseteq Nat /\ D # {}
  <2>1. \A i \in C : n - i \in Nat
    OBVIOUS
  <2> QED
    BY <2>1
<1>2. PICK x \in D : \A y \in D : ~(<<y, x>> \in OpToRel(<, Nat))
  <2> HIDE DEF D
  <2> QED
    BY <1>1, NatLessThanWellFounded, WFMin
<1>3. \A y \in D : x <= y
  <2>1. ASSUME NEW y \in D
        PROVE  x <= y
    <3>1. x \in Nat /\ y \in Nat
      BY <1>1
    <3>2. y < x => <<y, x>> \in OpToRel(<, Nat)
      <4> HIDE DEF D
      <4>1. <<y, x>> \in Nat \X Nat /\ <<y, x>>[1] = y /\ <<y, x>>[2] = x
        BY <3>1
      <4> QED
        BY <4>1, Zenon DEF OpToRel
    <3>3. ~(y < x)
      BY <1>2, <3>2, Zenon
    <3> QED
      BY <3>1, <3>3
  <2> QED
    BY <2>1
<1>4. PICK m \in C : x = n - m
  OBVIOUS
<1>5. \A j \in C : n - m <= n - j
  BY <1>3, <1>4
<1> QED
  BY <1>5

\* The state read back is that of the last event that carries one.
LEMMA PersistedStateOf ==
    ASSUME NEW log \in Seq(Event)
    PROVE  /\ PersistedState(log) \in SandboxState
           /\ \A m \in 1..Len(log) :
                 /\ log[m].st # "UNSPECIFIED"
                 /\ \A j \in (m + 1)..Len(log) : log[j].st = "UNSPECIFIED"
                 => PersistedState(log) = log[m].st
           /\ (\A m \in 1..Len(log) : log[m].st = "UNSPECIFIED")
                 => PersistedState(log) = "UNSPECIFIED"
<1> DEFINE C == {i \in DOMAIN log : log[i].st # "UNSPECIFIED"}
           last == CHOOSE i \in C : \A j \in C : j <= i
<1>1. Len(log) \in Nat /\ DOMAIN log = 1..Len(log)
  OBVIOUS
<1>2. \A i \in DOMAIN log : log[i].st \in SandboxState
  <2>1. \A i \in DOMAIN log : log[i] \in Event
    OBVIOUS
  <2>2. \A e \in Event : e.st \in SandboxState
    BY DEF Event
  <2> QED
    BY <2>1, <2>2
<1>3. PersistedState(log) = IF C = {} THEN "UNSPECIFIED" ELSE log[last].st
  BY DEF PersistedState
<1>4. C # {} => last \in C /\ \A j \in C : j <= last
  <2>1. C # {} => \E i \in C : \A j \in C : j <= i
    BY <1>1, LastPosition
  <2> QED
    BY <2>1
<1> HIDE DEF last
<1>5. PersistedState(log) \in SandboxState
  BY <1>2, <1>3, <1>4 DEF SandboxState
<1>6. ASSUME NEW m \in 1..Len(log), log[m].st # "UNSPECIFIED",
             \A j \in (m + 1)..Len(log) : log[j].st = "UNSPECIFIED"
      PROVE  PersistedState(log) = log[m].st
  <2>1. m \in C
    BY <1>1, <1>6
  <2>2. \A j \in C : j <= m
    BY <1>1, <1>6
  <2>3. last = m
    BY <1>1, <1>4, <2>1, <2>2
  <2> QED
    BY <1>3, <2>1, <2>3
<1>7. (\A m \in 1..Len(log) : log[m].st = "UNSPECIFIED") => C = {}
  BY <1>1
<1> QED
  BY <1>3, <1>5, <1>6, <1>7

-----------------------------------------------------------------------------
(***************************************************************************)
(* The log in memory and the log in the store                              *)
(***************************************************************************)
\* An id that is not reserved has no stored history, and every sandbox the
\* daemon knows has a reserved id.
IDsReserved ==
    /\ boxes \subseteq sandboxIDs
    /\ \A s \in Sandboxes \ sandboxIDs : bucket[s] = << >>

\* The inductive invariant for LogDurable.
LogInv == LogDurable /\ IDsReserved

\* Appending to the log of a known sandbox keeps both logs equal.
LEMMA AppendLockedLog ==
    ASSUME TypeOK, LogInv, NEW s \in boxes, NEW muts \in Seq(Mutations),
           appendEventLocked(s, muts), UNCHANGED <<boxes, configs, purging, sandboxIDs>>
    PROVE  LogInv'
<1>1. /\ bucket = [t \in Sandboxes |-> bucket[t]]
      /\ events = [t \in Sandboxes |-> events[t]]
      /\ nextSequence = [t \in Sandboxes |-> nextSequence[t]]
      /\ s \in Sandboxes /\ boxes \subseteq Sandboxes /\ configs \subseteq Sandboxes
  BY DEF TypeOK
<1>2. /\ events'[s] = events[s] \o Stamp(nextSequence[s], muts)
      /\ nextSequence'[s] = nextSequence[s] + Len(muts)
      /\ bucket'[s] = PutEvents(bucket[s], Stamp(nextSequence[s], muts))
      /\ \A t \in Sandboxes \ {s} : /\ events'[t] = events[t]
                                    /\ nextSequence'[t] = nextSequence[t]
                                    /\ bucket'[t] = bucket[t]
  BY <1>1 DEF appendEventLocked, RecordEvents
<1>3. s \in configs => /\ Contiguous(bucket'[s])
                       /\ events'[s] = bucket'[s]
                       /\ nextSequence'[s] = Len(events'[s])
  <2> SUFFICES ASSUME s \in configs
               PROVE  /\ Contiguous(bucket'[s])
                      /\ events'[s] = bucket'[s]
                      /\ nextSequence'[s] = Len(events'[s])
    OBVIOUS
  <2>1. /\ Contiguous(bucket[s]) /\ events[s] = bucket[s]
        /\ nextSequence[s] = Len(bucket[s])
    BY DEF LogInv, LogDurable
  <2> QED
    BY <1>2, <2>1, PutEventsAppends
<1>4. LogDurable'
  BY <1>1, <1>2, <1>3 DEF LogInv, LogDurable
<1>5. IDsReserved'
  BY <1>1, <1>2 DEF LogInv, IDsReserved
<1> QED
  BY <1>4, <1>5 DEF LogInv

\* DeleteSandboxes' appends keep memory and store in agreement.
LEMMA AppendToAllLog ==
    ASSUME TypeOK, LogInv, NEW T \in SUBSET boxes, NEW mut \in Mutations,
           appendEventToAll(T, mut), UNCHANGED <<boxes, configs, purging, sandboxIDs>>
    PROVE  LogInv'
<1>1. boxes \subseteq Sandboxes /\ configs \subseteq Sandboxes
  BY DEF TypeOK
<1>2. <<mut>> \in Seq(Mutations) /\ Len(<<mut>>) = 1
  OBVIOUS
<1>3. \A s \in Sandboxes :
         IF s \in T
         THEN /\ events'[s] = events[s] \o Stamp(nextSequence[s], <<mut>>)
              /\ nextSequence'[s] = nextSequence[s] + 1
              /\ bucket'[s] = PutEvents(bucket[s], Stamp(nextSequence[s], <<mut>>))
         ELSE /\ events'[s] = events[s]
              /\ nextSequence'[s] = nextSequence[s]
              /\ bucket'[s] = bucket[s]
  BY DEF appendEventToAll
<1>4. \A s \in T \cap configs : /\ Contiguous(bucket'[s])
                                /\ events'[s] = bucket'[s]
                                /\ nextSequence'[s] = Len(events'[s])
  <2>1. ASSUME NEW s \in T \cap configs
        PROVE  /\ Contiguous(bucket'[s])
               /\ events'[s] = bucket'[s]
               /\ nextSequence'[s] = Len(events'[s])
    <3>1. /\ Contiguous(bucket[s]) /\ events[s] = bucket[s]
          /\ nextSequence[s] = Len(bucket[s]) /\ s \in Sandboxes
      BY <1>1 DEF LogInv, LogDurable
    <3> QED
      BY ZenonT(60), <1>2, <1>3, <3>1, PutEventsAppends
  <2> QED
    BY <2>1
<1>5. LogDurable'
  BY <1>1, <1>3, <1>4 DEF LogInv, LogDurable
<1>6. IDsReserved'
  BY <1>1, <1>3 DEF LogInv, IDsReserved
<1> QED
  BY <1>5, <1>6 DEF LogInv

\* A step that touches neither log nor ids keeps the invariant.
LEMMA UnchangedLog ==
    ASSUME LogInv, UNCHANGED <<logVars, boxes, configs, purging, sandboxIDs>>
    PROVE  LogInv'
BY DEF LogInv, LogDurable, IDsReserved, logVars, Contiguous

\* What restorePersistedSandboxes finds and adds, for a contiguous bucket.
LEMMA RestoreFinds ==
    ASSUME NEW b, Contiguous(b), NEW exists \in BOOLEAN
    PROVE  LET persisted  == PersistedState(LoadEvents(b))
               reconciled == ReconciledState(persisted, exists)
           IN  /\ LoadEvents(b) = b /\ b \in Seq(Event)
               /\ MaxSequence(b) = Len(b) /\ Len(b) \in Nat
               /\ persisted \in SandboxState
               /\ reconciled \in SandboxState
               /\ RestoreMutations(persisted, reconciled) \in Seq(Mutations)
               /\ RestoredRuntimeState(persisted, reconciled) \in BOOLEAN
<1> DEFINE persisted  == PersistedState(LoadEvents(b))
           reconciled == ReconciledState(persisted, exists)
<1>1. LoadEvents(b) = b /\ b \in Seq(Event) /\ MaxSequence(b) = Len(b) /\ Len(b) \in Nat
  BY LoadEventsIsLog, MaxSequenceIsLen DEF Contiguous
<1>2. persisted \in SandboxState
  BY <1>1, PersistedStateOf
<1> HIDE DEF persisted
<1>3. reconciled \in SandboxState
  BY <1>2 DEF ReconciledState, SandboxState
<1> HIDE DEF reconciled
<1>4. RestoreMutations(persisted, reconciled) \in Seq(Mutations)
  <2>1. <<Mutation("SANDBOX_FAILED", "FAILED")>> \in Seq(Mutations)
    BY MutationTypes DEF EventType, LiveState, SandboxState
  <2> QED
    BY <2>1, MutationTypes, Zenon DEF RestoreMutations
<1>5. RestoredRuntimeState(persisted, reconciled) \in BOOLEAN
  BY DEF RestoredRuntimeState
<1> QED
  BY <1>1, <1>2, <1>3, <1>4, <1>5 DEF persisted, reconciled

\* A restored record continues the stored log.
LEMMA RestoreLog ==
    ASSUME TypeOK, LogInv, NEW s \in Restorable, NEW muts \in Seq(Mutations),
           RecordEvents(s, LoadEvents(bucket[s]), MaxSequence(bucket[s]), muts),
           boxes' = boxes \cup {s}, UNCHANGED <<configs, purging, sandboxIDs>>
    PROVE  LogInv'
<1>1. /\ bucket = [t \in Sandboxes |-> bucket[t]]
      /\ events = [t \in Sandboxes |-> events[t]]
      /\ nextSequence = [t \in Sandboxes |-> nextSequence[t]]
      /\ boxes \subseteq Sandboxes /\ configs \subseteq Sandboxes
      /\ s \in configs /\ s \in Sandboxes /\ DOMAIN bucket[s] # {}
  BY DEF TypeOK, Restorable
<1>2. Contiguous(bucket[s])
  BY <1>1 DEF LogInv, LogDurable
<1>3. LoadEvents(bucket[s]) = bucket[s] /\ MaxSequence(bucket[s]) = Len(bucket[s])
  BY <1>2, LoadEventsIsLog, MaxSequenceIsLen
<1>4. /\ events'[s] = bucket[s] \o Stamp(Len(bucket[s]), muts)
      /\ nextSequence'[s] = Len(bucket[s]) + Len(muts)
      /\ bucket'[s] = PutEvents(bucket[s], Stamp(Len(bucket[s]), muts))
      /\ \A t \in Sandboxes \ {s} : /\ events'[t] = events[t]
                                    /\ nextSequence'[t] = nextSequence[t]
                                    /\ bucket'[t] = bucket[t]
  BY <1>1, <1>3 DEF RecordEvents
<1>5. /\ Contiguous(bucket'[s]) /\ events'[s] = bucket'[s]
      /\ nextSequence'[s] = Len(events'[s])
  BY <1>2, <1>4, PutEventsAppends
<1>6. LogDurable'
  BY <1>1, <1>4, <1>5 DEF LogInv, LogDurable
<1>7. s \in sandboxIDs
  BY <1>1 DEF LogInv, IDsReserved
<1>8. IDsReserved'
  BY <1>1, <1>4, <1>7 DEF LogInv, IDsReserved
<1> QED
  BY <1>6, <1>8 DEF LogInv

\* A crash may leave the store with one more event of a known sandbox.
LEMMA CrashLog ==
    ASSUME TypeOK, LogInv, NEW s \in Sandboxes, NEW n \in Nat,
           NEW muts \in Seq(Mutations),
           s \in sandboxIDs, s \in configs => n = Len(bucket[s]),
           bucket' = [bucket EXCEPT ![s] = PutEvents(@, Stamp(n, muts))],
           boxes' = {}, UNCHANGED <<configs, sandboxIDs>>
    PROVE  LogInv'
<1>1. /\ bucket = [t \in Sandboxes |-> bucket[t]] /\ configs \subseteq Sandboxes
      /\ bucket'[s] = PutEvents(bucket[s], Stamp(n, muts))
      /\ \A t \in Sandboxes \ {s} : bucket'[t] = bucket[t]
  BY DEF TypeOK
<1>2. s \in configs => Contiguous(bucket'[s])
  <2> SUFFICES ASSUME s \in configs
               PROVE  Contiguous(bucket'[s])
    OBVIOUS
  <2>1. Contiguous(bucket[s]) /\ n = Len(bucket[s])
    BY DEF LogInv, LogDurable
  <2>2. bucket'[s] = PutEvents(bucket[s], Stamp(Len(bucket[s]), muts))
    BY <1>1, <2>1
  <2> QED
    BY <2>1, <2>2, PutEventsAppends
<1> QED
  BY <1>1, <1>2 DEF LogInv, LogDurable, IDsReserved

\* Crash, restart and Docker steps keep the types.
LEMMA CrashRestartType ==
    ASSUME TypeOK, LogInv, CrashStep \/ RestartStep \/ DockerStep
    PROVE  TypeOK'
<1> USE TypeParts, UnchangedTypes
<1>0. LogTypeOK /\ GoTypeOK /\ RestTypeOK
  OBVIOUS
<1>1. CASE Crash
  BY <1>0, <1>1, LoseMemoryType, TypePartsNext DEF Crash, RestTypeOK, idVars
<1>2. ASSUME NEW s \in Sandboxes, CrashInCreateSandbox(s)
      PROVE  TypeOK'
  BY <1>0, <1>2, LoseMemoryType, TypePartsNext DEF CrashInCreateSandbox, RestTypeOK
<1>3. ASSUME NEW s \in Sandboxes, RestoreAborts(s)
      PROVE  TypeOK'
  <2>1. Contiguous(bucket[s])
    BY <1>3 DEF LogInv, LogDurable, RestoreAborts, Restorable
  <2>2. MaxSequence(bucket[s]) \in Nat /\ DeletedMutation \in Seq(Mutations)
    BY <2>1, MaxSequenceIsLen, MutationTypes DEF Contiguous
  <2>3. LogTypeOK'
    BY <1>0, <1>3, <2>2, LoseMemoryType DEF RestoreAborts
  <2> QED
    BY <1>0, <1>3, <2>3, LoseMemoryType, TypePartsNext
    DEF RestoreAborts, RestTypeOK, idVars
<1>4. ASSUME NEW g \in Goroutines, CrashInDeleteFinish(g)
      PROVE  TypeOK'
  <2>1. /\ goroutine[g].sb \in Sandboxes /\ nextSequence[goroutine[g].sb] \in Nat
        /\ DeletedMutation \in Seq(Mutations)
    BY <1>0, <1>4, GoroutineSandbox, MutationTypes DEF CrashInDeleteFinish, LogTypeOK
  <2>2. LogTypeOK'
    BY <1>0, <1>4, <2>1, LoseMemoryType DEF CrashInDeleteFinish
  <2> QED
    BY <1>0, <1>4, <2>2, LoseMemoryType, TypePartsNext
    DEF CrashInDeleteFinish, RestTypeOK, idVars
<1>5. ASSUME NEW g \in Goroutines, CrashBeforeReady(g)
      PROVE  TypeOK'
  <2>1. /\ goroutine[g].sb \in Sandboxes /\ nextSequence[goroutine[g].sb] \in Nat
    BY <1>0, <1>5, GoroutineSandbox DEF CrashBeforeReady, LogTypeOK
  <2>s. \A d \in ResumeStatuses(goroutine[g].sb) : d \in Seq(Mutations)
    BY <2>1, StatusTypes DEF EventType, LiveState, SandboxState
  <2>2. LogTypeOK'
    BY <1>0, <1>5, <2>1, <2>s, LoseMemoryType DEF CrashBeforeReady
  <2> QED
    BY <1>0, <1>5, <2>2, LoseMemoryType, TypePartsNext
    DEF CrashBeforeReady, RestTypeOK, idVars
<1>6. CASE Startup
  BY <1>0, <1>6, TypePartsNext DEF Startup, RestTypeOK, recordVars, idVars
<1>7. CASE Serve
  BY <1>0, <1>7, TypePartsNext DEF Serve, RestTypeOK, recordVars, idVars
<1>8. ASSUME NEW s \in Sandboxes, Restore(s)
      PROVE  TypeOK'
  <2> DEFINE persisted  == PersistedState(LoadEvents(bucket[s]))
             reconciled == ReconciledState(persisted, container[s] # "absent")
             muts       == RestoreMutations(persisted, reconciled)
             rs         == RestoredRuntimeState(persisted, reconciled)
  <2>1. Contiguous(bucket[s])
    BY <1>8 DEF LogInv, LogDurable, Restore, Restorable
  <2>2. /\ LoadEvents(bucket[s]) \in Seq(Event) /\ MaxSequence(bucket[s]) \in Nat
        /\ reconciled \in SandboxState
        /\ muts \in Seq(Mutations) /\ rs \in BOOLEAN
    BY <2>1, RestoreFinds
  <2>3. /\ RecordEvents(s, LoadEvents(bucket[s]), MaxSequence(bucket[s]), muts)
        /\ state' = [state EXCEPT ![s] = reconciled]
        /\ runtimeState' = [runtimeState EXCEPT ![s] = rs]
        /\ deletedAtRecorded' = [deletedAtRecorded EXCEPT ![s] =
               s \in deletedAt \/ persisted = "DELETING"]
        /\ deletedAt' \in {deletedAt, deletedAt \cup {s}}
        /\ container' \in {container, [container EXCEPT ![s] = "absent"]}
        /\ boxes' = boxes \cup {s}
        /\ UNCHANGED <<daemon, goroutine, purging, idVars>>
    BY <1>8 DEF Restore
  <2> HIDE DEF persisted, reconciled, muts, rs
  <2>4. LogTypeOK'
    BY <1>0, <2>2, <2>3, RecordEventsType
  <2>5. RestTypeOK'
    BY <1>0, <2>2, <2>3 DEF RestTypeOK, ContainerState, idVars
  <2> QED
    BY <1>0, <2>3, <2>4, <2>5, TypePartsNext
<1>9. CASE DockerStep
  BY <1>0, <1>9, TypePartsNext
  DEF DockerStep, ContainerExits, ContainerRestarts, ContainerRemoved, SetContainer,
      RestTypeOK, ContainerState, recordVars, idVars
<1> QED
  BY <1>1, <1>2, <1>3, <1>4, <1>5, <1>6, <1>7, <1>8, <1>9 DEF CrashStep, RestartStep

-----------------------------------------------------------------------------
(***************************************************************************)
(* How steps change the logs                                               *)
(***************************************************************************)
\* Nothing, or an append to the log of one known sandbox.
AppendsOne ==
    \/ UNCHANGED logVars
    \/ \E s \in boxes, muts \in Seq(Mutations) : appendEventLocked(s, muts)

\* The same, or one event appended to each of several known sandboxes.
AppendsSome ==
    \/ AppendsOne
    \/ \E T \in SUBSET boxes, mut \in Mutations : appendEventToAll(T, mut)

\* Settling a known sandbox appends to its log.
LEMMA SettleAppends ==
    ASSUME TypeOK, NEW s \in boxes, NEW muts \in Seq(Mutations), NEW st,
           Settle(s, muts, st) \/ Settled(s, muts, st) \/ SettleFails(s, muts)
    PROVE  AppendsOne
<1>1. ASSUME SettleFails(s, muts)
      PROVE  AppendsOne
  <2>1. PICK k \in 0..(Len(muts) - 1) : appendEventLocked(s, SubSeq(muts, 1, k))
    BY <1>1 DEF SettleFails
  <2>2. SubSeq(muts, 1, k) \in Seq(Mutations)
    <3>1. Len(muts) \in Nat /\ k \in Nat /\ k <= Len(muts)
      BY LenProperties
    <3> QED
      BY <3>1, SubSeqProperties
  <2> QED
    BY <2>1, <2>2 DEF AppendsOne
<1>2. Settled(s, muts, st) => AppendsOne
  BY DEF Settled, AppendsOne
<1> QED
  BY <1>1, <1>2 DEF Settle

\* A goroutine appends at most to the log of its own sandbox, and only while
\* the daemon knows it.
LEMMA GoroutineStepAppends ==
    ASSUME TypeOK, NEW g \in Goroutines, GoroutineStep(g)
    PROVE  AppendsOne /\ UNCHANGED <<boxes, configs, purging, sandboxIDs>>
<1>0. GoTypeOK /\ boxes \subseteq Sandboxes
  BY TypeParts DEF RestTypeOK
<1>t. \A type \in {"SANDBOX_PREPARING", "SANDBOX_READY", "SANDBOX_FAILED",
                   "SANDBOX_STOPPED", "COMPANION_CONTAINER_READY",
                   "COMPANION_CONTAINER_FAILED"} :
          \A st \in {"PENDING", "READY", "FAILED", "STOPPED"} :
              /\ type \in EventType /\ st \in LiveState
              /\ <<Mutation(type, st)>> \in Seq(Mutations)
  BY MutationTypes DEF EventType, LiveState, SandboxState
<1>1. CASE \/ BackendCreate(g) \/ BackendStart(g) \/ ResumeStart(g) \/ BackendResume(g)
           \/ StopStart(g) \/ BackendStop(g) \/ StopFailedSandbox(g)
           \/ DeleteStart(g) \/ BackendDelete(g)
  BY <1>1 DEF BackendCreate, BackendStart, ResumeStart, BackendResume, StopStart,
              BackendStop, StopFailedSandbox, DeleteStart, BackendDelete, AppendsOne,
              idVars
<1>2. CASE CreateStart(g)
  BY <1>t, <1>2 DEF CreateStart, AppendsOne, idVars
<1>3. CASE CompanionStartup(g)
  BY <1>t, <1>3 DEF CompanionStartup, AppendsOne, idVars
<1>4. CASE CreateFinish(g)
  <2>1. \A s \in boxes : \A d \in DrainedStatuses(s) :
            Append(d, Mutation("SANDBOX_READY", "READY")) \in Seq(Mutations)
    BY <1>0, <1>t, StatusTypes
  <2>2. \A s \in boxes : \A d \in DrainedStatuses(s) :
            LET muts == Append(d, Mutation("SANDBOX_READY", "READY"))
            IN  Settled(s, muts, "READY") \/ SettleFails(s, muts) => AppendsOne
    BY <2>1, SettleAppends
  <2>3. \A s \in boxes : Settle(s, <<Mutation("SANDBOX_FAILED", "FAILED")>>, "FAILED")
            => AppendsOne
    BY <1>t, SettleAppends
  <2>4. UNCHANGED logVars => AppendsOne
    BY DEF AppendsOne
  <2>5. AppendsOne
    BY <1>4, <2>2, <2>3, <2>4 DEF CreateFinish
  <2> QED
    BY <1>4, <2>5 DEF CreateFinish, idVars
<1>5. CASE ResumeFinish(g)
  <2>1. \A s \in boxes : \A d \in ResumeStatuses(s) :
            Append(d, Mutation("SANDBOX_READY", "READY")) \in Seq(Mutations)
    BY <1>0, <1>t, StatusTypes
  <2>2. \A s \in boxes : \A d \in ResumeStatuses(s) :
            Settle(s, Append(d, Mutation("SANDBOX_READY", "READY")), "READY") => AppendsOne
    BY <2>1, SettleAppends
  <2>3. \A s \in boxes : Settle(s, <<Mutation("SANDBOX_FAILED", "FAILED")>>, "FAILED")
            => AppendsOne
    BY <1>t, SettleAppends
  <2>4. UNCHANGED logVars => AppendsOne
    BY DEF AppendsOne
  <2>5. AppendsOne
    BY <1>5, <2>2, <2>3, <2>4 DEF ResumeFinish
  <2> QED
    BY <1>5, <2>5 DEF ResumeFinish, idVars
<1>6. CASE StopFinish(g)
  <2>1. \A s \in boxes :
            /\ Settle(s, <<Mutation("SANDBOX_FAILED", "FAILED")>>, "FAILED") => AppendsOne
            /\ Settle(s, <<Mutation("SANDBOX_STOPPED", "STOPPED")>>, "STOPPED") => AppendsOne
    BY <1>t, SettleAppends
  <2>2. AppendsOne
    <3>1. UNCHANGED logVars => AppendsOne
      BY DEF AppendsOne
    <3> QED
      BY <1>6, <2>1, <3>1 DEF StopFinish
  <2> QED
    BY <1>6, <2>2 DEF StopFinish, idVars
<1>7. CASE DeleteFinish(g)
  <2>1. \A s \in boxes :
            /\ Settle(s, <<Mutation("SANDBOX_FAILED", "FAILED")>>, "FAILED") => AppendsOne
            /\ appendEventLocked(s, DeletedMutation) => AppendsOne
    <3>1. DeletedMutation \in Seq(Mutations)
      BY MutationTypes
    <3>2. \A s \in boxes : appendEventLocked(s, DeletedMutation) => AppendsOne
      BY <3>1 DEF AppendsOne
    <3> QED
      BY <1>t, <3>2, SettleAppends
  <2>2. AppendsOne
    <3>1. UNCHANGED logVars => AppendsOne
      BY DEF AppendsOne
    <3> QED
      BY <1>7, <2>1, <3>1 DEF DeleteFinish
  <2> QED
    BY <1>7, <2>2 DEF DeleteFinish, idVars
<1> QED
  BY <1>1, <1>2, <1>3, <1>4, <1>5, <1>6, <1>7 DEF GoroutineStep

\* Every request but CreateSandbox appends at most to logs of known sandboxes.
LEMMA RequestAppends ==
    ASSUME TypeOK, NEW T \in SUBSET Sandboxes, Request(T) \/ idleScanAndStop(T)
    PROVE  \/ \E s \in T : CreateSandbox(s) \/ CreateSandboxFails(s)
           \/ AppendsSome /\ UNCHANGED <<boxes, configs, purging, sandboxIDs>>
<1>t. \A type \in {"SANDBOX_ACCEPTED", "SANDBOX_STOP_REQUESTED", "SANDBOX_FAILED",
                   "SANDBOX_DELETE_REQUESTED", "COMPANION_CONTAINER_FAILED"} :
          \A st \in LiveState : /\ Mutation(type, st) \in Mutations
                                /\ <<Mutation(type, st)>> \in Seq(Mutations)
  BY MutationTypes DEF EventType
<1>s. {"PENDING", "READY", "FAILED", "UNSPECIFIED", "DELETING"} \subseteq LiveState
  BY DEF LiveState, SandboxState
<1>1. ASSUME NEW s \in T,
             ResumeSandbox(s) \/ StopSandbox(s) \/ ReportCompanionFailed(s)
      PROVE  AppendsSome /\ UNCHANGED <<boxes, configs, purging, sandboxIDs>>
  BY <1>t, <1>s, <1>1 DEF ResumeSandbox, StopSandbox, ReportCompanionFailed, Known,
                          AppendsSome, AppendsOne, idVars
<1>2. ASSUME NEW s \in T, DeleteSandbox(s)
      PROVE  AppendsSome /\ UNCHANGED <<boxes, configs, purging, sandboxIDs>>
  <2>1. {s} \in SUBSET boxes
    BY <1>2 DEF DeleteSandbox, Known
  <2> QED
    BY <1>t, <1>s, <1>2, <2>1
    DEF DeleteSandbox, beginSandboxDeleteLocked, AppendsSome, AppendsOne, idVars
<1>3. CASE DeleteSandboxes(T)
  <2>1. T \in SUBSET boxes /\ Deletable(T) \in SUBSET boxes
    BY <1>3 DEF DeleteSandboxes, Deletable
  <2>2. \E U \in SUBSET boxes :
            appendEventToAll(U, Mutation("SANDBOX_DELETE_REQUESTED", "DELETING"))
    BY <1>3, <2>1 DEF DeleteSandboxes, beginSandboxDeleteLocked
  <2> QED
    BY <1>t, <1>s, <1>3, <2>2 DEF DeleteSandboxes, AppendsSome, idVars
<1>4. CASE idleScanAndStop(T)
  BY <1>t, <1>s, <1>4 DEF idleScanAndStop, AppendsSome, idVars
<1>5. CASE cleanupStoppedSandboxes(T)
  BY <1>t, <1>s, <1>5
  DEF cleanupStoppedSandboxes, beginSandboxDeleteLocked, AppendsSome, idVars
<1>6. CASE applyPrimaryFailed(T)
  BY <1>t, <1>s, <1>6 DEF applyPrimaryFailed, AppendsSome, idVars
<1> QED
  BY <1>1, <1>2, <1>3, <1>4, <1>5, <1>6 DEF Request

\* A new sandbox starts with an empty bucket, because its id is new.
LEMMA CreateSandboxLog ==
    ASSUME TypeOK, LogInv, NEW s \in Sandboxes, CreateSandbox(s)
    PROVE  LogInv'
<1> DEFINE muts == <<Mutation("SANDBOX_ACCEPTED", "PENDING")>>
<1>1. muts \in Seq(Mutations)
  BY MutationTypes DEF EventType, LiveState, SandboxState
<1>2. bucket[s] = << >> /\ s \notin sandboxIDs
  BY DEF CreateSandbox, LogInv, IDsReserved
<1>3. Contiguous(<< >>) /\ Len(<< >>) = 0
  BY DEF Contiguous
<1>4. /\ bucket = [t \in Sandboxes |-> bucket[t]]
      /\ events = [t \in Sandboxes |-> events[t]]
      /\ nextSequence = [t \in Sandboxes |-> nextSequence[t]]
      /\ boxes \subseteq Sandboxes /\ configs \subseteq Sandboxes
  BY DEF TypeOK
<1>5. /\ RecordEvents(s, << >>, 0, muts)
      /\ boxes' = boxes \cup {s} /\ configs' = configs \cup {s}
      /\ sandboxIDs' = sandboxIDs \cup {s} /\ purging' = purging
  BY DEF CreateSandbox
<1> HIDE DEF muts
<1>6. /\ events'[s] = << >> \o Stamp(Len(<< >>), muts)
      /\ nextSequence'[s] = 0 + Len(muts)
      /\ bucket'[s] = PutEvents(<< >>, Stamp(Len(<< >>), muts))
      /\ \A t \in Sandboxes \ {s} : /\ events'[t] = events[t]
                                    /\ nextSequence'[t] = nextSequence[t]
                                    /\ bucket'[t] = bucket[t]
  BY <1>2, <1>3, <1>4, <1>5 DEF RecordEvents
<1>7. /\ Contiguous(bucket'[s]) /\ events'[s] = bucket'[s]
      /\ nextSequence'[s] = Len(events'[s])
  BY <1>1, <1>3, <1>6, PutEventsAppends
<1>8. LogDurable'
  BY <1>4, <1>5, <1>6, <1>7 DEF LogInv, LogDurable
<1>9. IDsReserved'
  BY <1>4, <1>5, <1>6 DEF LogInv, IDsReserved
<1> QED
  BY <1>8, <1>9 DEF LogInv

\* Requests, scans and store.Cleanup keep both logs equal.
LEMMA RequestLog ==
    ASSUME TypeOK, LogInv, NEW T \in SUBSET Sandboxes,
           Request(T) \/ idleScanAndStop(T) \/ Cleanup(T) \/ DropPurged
    PROVE  LogInv'
<1>1. ASSUME AppendsSome, UNCHANGED <<boxes, configs, purging, sandboxIDs>>
      PROVE  LogInv'
  BY <1>1, AppendLockedLog, AppendToAllLog, UnchangedLog DEF AppendsSome, AppendsOne
<1>2. ASSUME NEW s \in Sandboxes, CreateSandboxFails(s)
      PROVE  LogInv'
  <2>1. Contiguous(bucket[s])
    <3>1. bucket[s] = << >>
      BY <1>2 DEF CreateSandboxFails, LogInv, IDsReserved
    <3>2. Contiguous(<< >>)
      BY DEF Contiguous
    <3> QED
      BY <3>1, <3>2
  <2>2. s \notin boxes
    BY <1>2 DEF CreateSandboxFails, LogInv, IDsReserved
  <2>3. /\ configs' \in {configs, configs \cup {s}}
        /\ sandboxIDs' \in {sandboxIDs, sandboxIDs \cup {s}}
        /\ UNCHANGED <<boxes, purging, events, nextSequence, bucket>>
    BY <1>2 DEF CreateSandboxFails, logVars
  <2> QED
    BY <2>1, <2>2, <2>3 DEF LogInv, LogDurable, IDsReserved
<1>3. CASE Cleanup(T)
  <2>1. /\ \A s \in Sandboxes : bucket'[s] = IF s \in T THEN << >> ELSE bucket[s]
        /\ configs' = configs \ T /\ purging = {} /\ purging' = T
        /\ UNCHANGED <<boxes, events, nextSequence, sandboxIDs>>
    BY <1>3 DEF Cleanup
  <2>2. boxes \subseteq Sandboxes /\ configs \subseteq Sandboxes
    BY DEF TypeOK
  <2>3. boxes \subseteq configs
    BY <2>1 DEF LogInv, LogDurable
  <2>4. LogDurable'
    BY <2>1, <2>2, <2>3 DEF LogInv, LogDurable
  <2>5. IDsReserved'
    BY <2>1 DEF LogInv, IDsReserved
  <2> QED
    BY <2>4, <2>5 DEF LogInv
<1>4. CASE DropPurged
  BY <1>4 DEF DropPurged, LogInv, LogDurable, IDsReserved, logVars, idVars
<1> QED
  BY <1>1, <1>2, <1>3, <1>4, RequestAppends, CreateSandboxLog

\* Crashes and restarts keep the stored logs whole.
LEMMA CrashRestartLog ==
    ASSUME TypeOK, LogInv, CrashStep \/ RestartStep \/ DockerStep
    PROVE  LogInv'
<1>0. GoTypeOK /\ LogTypeOK /\ configs \subseteq Sandboxes /\ boxes \subseteq Sandboxes
  BY TypeParts DEF RestTypeOK
<1>1. CASE Crash
  BY <1>1 DEF Crash, LoseMemory, LogInv, LogDurable, IDsReserved, idVars
<1>2. ASSUME NEW s \in Sandboxes, CrashInCreateSandbox(s)
      PROVE  LogInv'
  <2>1. Contiguous(bucket[s])
    <3>1. bucket[s] = << >>
      BY <1>2 DEF CrashInCreateSandbox, LogInv, IDsReserved
    <3>2. Contiguous(<< >>)
      BY DEF Contiguous
    <3> QED
      BY <3>1, <3>2
  <2>2. /\ configs' \in {configs, configs \cup {s}} /\ boxes' = {}
        /\ sandboxIDs' = sandboxIDs \cup {s} /\ bucket' = bucket
    BY <1>2 DEF CrashInCreateSandbox, LoseMemory
  <2> QED
    BY <2>1, <2>2 DEF LogInv, LogDurable, IDsReserved
<1>3. ASSUME NEW s \in Sandboxes, RestoreAborts(s)
      PROVE  LogInv'
  <2>1. s \in configs /\ DOMAIN bucket[s] # {} /\ Contiguous(bucket[s])
    BY <1>3 DEF RestoreAborts, Restorable, LogInv, LogDurable
  <2>2. s \in sandboxIDs
    BY <2>1 DEF LogInv, IDsReserved
  <2>3. MaxSequence(bucket[s]) = Len(bucket[s]) /\ Len(bucket[s]) \in Nat
    BY <2>1, MaxSequenceIsLen DEF Contiguous
  <2>4. /\ bucket' = [bucket EXCEPT ![s] =
               PutEvents(@, Stamp(MaxSequence(bucket[s]), DeletedMutation))]
        /\ boxes' = {} /\ UNCHANGED <<configs, sandboxIDs>>
        /\ DeletedMutation \in Seq(Mutations)
    BY <1>3, MutationTypes DEF RestoreAborts, LoseMemory, idVars
  <2> QED
    BY <2>2, <2>3, <2>4, CrashLog
<1>4. ASSUME NEW g \in Goroutines, CrashInDeleteFinish(g)
      PROVE  LogInv'
  <2> DEFINE s == goroutine[g].sb
  <2>1. s \in Sandboxes /\ nextSequence[s] \in Nat /\ s \in boxes
    BY <1>0, <1>4, GoroutineSandbox DEF CrashInDeleteFinish, LogTypeOK
  <2>2. s \in sandboxIDs /\ (s \in configs => nextSequence[s] = Len(bucket[s]))
    BY <2>1 DEF LogInv, LogDurable, IDsReserved
  <2>3. /\ bucket' = [bucket EXCEPT ![s] =
               PutEvents(@, Stamp(nextSequence[s], DeletedMutation))]
        /\ boxes' = {} /\ UNCHANGED <<configs, sandboxIDs>>
        /\ DeletedMutation \in Seq(Mutations)
    BY <1>4, MutationTypes DEF CrashInDeleteFinish, LoseMemory, idVars
  <2> QED
    BY <2>1, <2>2, <2>3, CrashLog
<1>5. ASSUME NEW g \in Goroutines, CrashBeforeReady(g)
      PROVE  LogInv'
  <2> DEFINE s == goroutine[g].sb
  <2>1. s \in Sandboxes /\ nextSequence[s] \in Nat /\ s \in boxes
    BY <1>0, <1>5, GoroutineSandbox DEF CrashBeforeReady, LogTypeOK
  <2>2. s \in sandboxIDs /\ (s \in configs => nextSequence[s] = Len(bucket[s]))
    BY <2>1 DEF LogInv, LogDurable, IDsReserved
  <2>3. \A d \in ResumeStatuses(s) : d \in Seq(Mutations)
    BY <2>1, StatusTypes DEF EventType, LiveState, SandboxState
  <2>4. /\ \E d \in ResumeStatuses(s) :
               bucket' = [bucket EXCEPT ![s] = PutEvents(@, Stamp(nextSequence[s], d))]
        /\ boxes' = {} /\ UNCHANGED <<configs, sandboxIDs>>
    BY <1>5 DEF CrashBeforeReady, LoseMemory, idVars
  <2> QED
    BY <2>1, <2>2, <2>3, <2>4, CrashLog
<1>6. CASE Startup \/ Serve \/ DockerStep
  BY <1>6, UnchangedLog
  DEF Startup, Serve, DockerStep, ContainerExits, ContainerRestarts,
      ContainerRemoved, SetContainer, idVars
<1>7. ASSUME NEW s \in Sandboxes, Restore(s)
      PROVE  LogInv'
  <2> DEFINE persisted  == PersistedState(LoadEvents(bucket[s]))
             reconciled == ReconciledState(persisted, container[s] # "absent")
             muts       == RestoreMutations(persisted, reconciled)
  <2>1. s \in Restorable /\ Contiguous(bucket[s])
    BY <1>7 DEF Restore, Restorable, LogInv, LogDurable
  <2>2. muts \in Seq(Mutations)
    BY <2>1, RestoreFinds
  <2>3. /\ RecordEvents(s, LoadEvents(bucket[s]), MaxSequence(bucket[s]), muts)
        /\ boxes' = boxes \cup {s} /\ UNCHANGED <<configs, purging, sandboxIDs>>
    BY <1>7 DEF Restore, idVars
  <2> QED
    BY <2>1, <2>2, <2>3, RestoreLog
<1> QED
  BY <1>1, <1>2, <1>3, <1>4, <1>5, <1>6, <1>7 DEF CrashStep, RestartStep

-----------------------------------------------------------------------------
(***************************************************************************)
(* The first two theorems.  Each needs the other: what a restore loads has *)
(* its type because the bucket is contiguous.                              *)
(***************************************************************************)
\* The first state of the daemon is typed, and its log is empty.
LEMMA InitInv == Init => TypeOK /\ LogInv
<1> SUFFICES ASSUME Init
             PROVE  TypeOK /\ LogInv
  OBVIOUS
<1>1. << >> \in Seq(Event) /\ DOMAIN << >> = {}
  OBVIOUS
<1>2. TypeOK
  BY <1>1 DEF Init, TypeOK, SandboxState, ContainerState
<1>3. LogInv
  BY DEF Init, LogInv, LogDurable, IDsReserved
<1> QED
  BY <1>2, <1>3

\* Every step of the specification keeps types and log invariant: one case
\* per action.
LEMMA NextInv == TypeOK /\ LogInv /\ [Next]_vars => TypeOK' /\ LogInv'
<1> SUFFICES ASSUME TypeOK, LogInv, [Next]_vars
             PROVE  TypeOK' /\ LogInv'
  OBVIOUS
<1>1. CASE UNCHANGED vars
  <2>1. TypeOK'
    BY <1>1 DEF vars, recordVars, logVars, idVars, TypeOK
  <2>2. LogInv'
    BY <1>1, UnchangedLog DEF vars, recordVars, idVars
  <2> QED
    BY <2>1, <2>2
<1>2. ASSUME NEW g \in Goroutines, GoroutineStep(g)
      PROVE  TypeOK' /\ LogInv'
  <2>1. LogInv'
    BY <1>2, GoroutineStepAppends, AppendLockedLog, UnchangedLog DEF AppendsOne
  <2> QED
    BY <1>2, <2>1, GoroutineStepType
<1>3. ASSUME NEW T \in SUBSET Sandboxes, Request(T) \/ idleScanAndStop(T) \/ Cleanup(T) \/ DropPurged
      PROVE  TypeOK' /\ LogInv'
  BY <1>3, RequestType, RequestLog
<1>4. CASE CrashStep \/ RestartStep \/ DockerStep
  BY <1>4, CrashRestartType, CrashRestartLog
<1>5. ASSUME NEW s \in Sandboxes, dockerContainerEnsureRunning(s)
      PROVE  TypeOK' /\ LogInv'
  <2>1. LogInv'
    BY <1>5, UnchangedLog DEF dockerContainerEnsureRunning, idVars
  <2>2. TypeOK'
    BY <1>5 DEF dockerContainerEnsureRunning, TypeOK, ContainerState, recordVars,
                logVars, idVars
  <2> QED
    BY <2>1, <2>2
<1> QED
  BY <1>1, <1>2, <1>3, <1>4, <1>5 DEF Next

\* Type correctness: every variable keeps its type, in particular every event
\* the daemon stores or shows is well formed, whatever crashes and store
\* failures happen.
THEOREM TypeCorrect == Spec => []TypeOK
BY InitInv, NextInv, PTL DEF Spec

\* The history in memory is the history in the store, numbered 1, 2, 3, ...
\* without gap or repeat, through every interleaving of the handlers and
\* goroutines that call appendEventLocked, through store failures, and across
\* crashes and the restores that continue after MaxSequence.
THEOREM LogDurableCorrect == Spec => []LogDurable
<1>1. LogInv => LogDurable
  BY DEF LogInv
<1> QED
  BY <1>1, InitInv, NextInv, PTL DEF Spec

-----------------------------------------------------------------------------
(***************************************************************************)
(* What the records promise about goroutines, runtime state and history    *)
(***************************************************************************)
\* Goroutines live in a daemon that serves, and work for ids it reserved.
GoServing ==
    \A g \in Goroutines : goroutine[g] # Idle =>
        daemon = "serving" /\ goroutine[g].sb \in sandboxIDs

\* The backend resumes and stops only what has a runtime state.
BackFromBackend ==
    \A g \in Goroutines :
        (/\ goroutine[g] # Idle
         /\ goroutine[g].fn \in {"completeSandboxResume", "completeSandboxStop"}
         /\ goroutine[g].at = "finish"
         /\ ~goroutine[g].err) => runtimeState[goroutine[g].sb]

RuntimeInv == GoServing /\ BackFromBackend /\ UsableHasRuntimeState

DeletedTyped(log) ==
    \A k \in DOMAIN log : log[k].st = "DELETED" => log[k].type = "SANDBOX_DELETED"

HasDeleted(log) == \E k \in DOMAIN log : log[k].type = "SANDBOX_DELETED"

\* DELETED, in the store or in a record, rests on a SANDBOX_DELETED event, and
\* only reserved ids are marked.
DeletedOnRecord ==
    /\ \A s \in configs : DeletedTyped(bucket[s])
    /\ \A s \in boxes \cap configs : state[s] = "DELETED" => HasDeleted(bucket[s])
    /\ deletedAt \subseteq sandboxIDs

MarkInv == DeletedOnRecord /\ MarkedOnlyAfterDeleted

-----------------------------------------------------------------------------
(***************************************************************************)
(* Goroutines started and moved                                            *)
(***************************************************************************)
\* Every member of T gets a goroutine of its own, in a slot that was free.
Starts(fn, T) ==
    /\ \A g \in Goroutines :
           \/ goroutine'[g] = goroutine[g]
           \/ /\ goroutine[g] = Idle
              /\ \E s \in T : goroutine'[g] = NewGoroutine(fn, s)
    /\ \A s \in T : \E g \in Goroutines : goroutine'[g] = NewGoroutine(fn, s)

\* "go fn(s)" starts one goroutine and leaves the others alone.
LEMMA GoStarts ==
    ASSUME GoTypeOK, NEW fn, NEW s, Go(fn, s)
    PROVE  Starts(fn, {s})
<1>1. PICK h \in Free : goroutine' = [goroutine EXCEPT ![h] = NewGoroutine(fn, s)]
  BY DEF Go
<1>2. /\ h \in Goroutines /\ goroutine[h] = Idle
      /\ \A g \in Goroutines : goroutine'[g] = IF g = h THEN NewGoroutine(fn, s)
                                                      ELSE goroutine[g]
  BY <1>1 DEF Free, GoTypeOK
<1> QED
  BY <1>2 DEF Starts

\* The loop of "go" statements starts one for each of the sandboxes collected.
LEMMA GoAllStarts ==
    ASSUME NEW fn, NEW T, GoAll(fn, T)
    PROVE  Starts(fn, T)
<1>1. PICK h \in [T -> Free] :
          /\ \A s, t \in T : h[s] = h[t] => s = t
          /\ goroutine' = [g \in Goroutines |->
                 IF \E s \in T : h[s] = g
                 THEN NewGoroutine(fn, CHOOSE s \in T : h[s] = g)
                 ELSE goroutine[g]]
  BY DEF GoAll
<1>2. ASSUME NEW g \in Goroutines
      PROVE  \/ goroutine'[g] = goroutine[g]
             \/ /\ goroutine[g] = Idle
                /\ \E s \in T : goroutine'[g] = NewGoroutine(fn, s)
  <2>1. CASE \E s \in T : h[s] = g
    <3>1. goroutine'[g] = NewGoroutine(fn, CHOOSE s \in T : h[s] = g)
      BY <1>1, <2>1
    <3>2. (CHOOSE s \in T : h[s] = g) \in T /\ goroutine[g] = Idle
      BY <1>1, <2>1 DEF Free
    <3> QED
      BY <3>1, <3>2
  <2> QED
    BY <1>1, <2>1
<1>3. ASSUME NEW s \in T
      PROVE  \E g \in Goroutines : goroutine'[g] = NewGoroutine(fn, s)
  <2>1. h[s] \in Goroutines /\ \E t \in T : h[t] = h[s]
    BY <1>1 DEF Free
  <2>2. (CHOOSE t \in T : h[t] = h[s]) = s
    BY <1>1
  <2>3. goroutine'[h[s]] = NewGoroutine(fn, CHOOSE t \in T : h[t] = h[s])
    BY <1>1, <2>1
  <2> QED
    BY <2>1, <2>2, <2>3
<1> QED
  BY <1>2, <1>3 DEF Starts

\* What the fields of a goroutine are after each of the ways it can move.
LEMMA GoroutineFields ==
    ASSUME GoTypeOK, NEW g \in Goroutines
    PROVE  /\ Exit(g) => goroutine'[g] = Idle
           /\ \A at, err : goroutine[g] # Idle /\ MoveTo(g, at, err) =>
                  /\ goroutine'[g] # Idle
                  /\ goroutine'[g].fn = goroutine[g].fn
                  /\ goroutine'[g].sb = goroutine[g].sb
                  /\ goroutine'[g].at = at
                  /\ goroutine'[g].err = err
           /\ \A fn, s : /\ NewGoroutine(fn, s) # Idle
                         /\ NewGoroutine(fn, s).fn = fn
                         /\ NewGoroutine(fn, s).sb = s
                         /\ NewGoroutine(fn, s).at = "start"
<1>1. Exit(g) => goroutine'[g] = Idle
  BY DEF Exit, GoTypeOK
<1>2. ASSUME NEW at, NEW err, goroutine[g] # Idle, MoveTo(g, at, err)
      PROVE  /\ goroutine'[g] # Idle
             /\ goroutine'[g].fn = goroutine[g].fn
             /\ goroutine'[g].sb = goroutine[g].sb
             /\ goroutine'[g].at = at
             /\ goroutine'[g].err = err
  <2>1. goroutine[g] \in [fn : GoFunc, sb : Sandboxes, at : Point, err : BOOLEAN]
    BY <1>2 DEF GoTypeOK, ActiveGoroutine
  <2>2. goroutine'[g] = [goroutine[g] EXCEPT !.at = at, !.err = err]
    BY <1>2 DEF MoveTo, GoTypeOK
  <2>3. [goroutine[g] EXCEPT !.at = at, !.err = err] # Idle
    <3>1. "sb" \in DOMAIN [goroutine[g] EXCEPT !.at = at, !.err = err]
      BY <2>1
    <3>2. "sb" \notin DOMAIN Idle
      BY DEF Idle
    <3> QED
      BY <3>1, <3>2
  <2> QED
    BY <2>1, <2>2, <2>3
<1>3. ASSUME NEW fn, NEW s
      PROVE  /\ NewGoroutine(fn, s) # Idle
             /\ NewGoroutine(fn, s).fn = fn
             /\ NewGoroutine(fn, s).sb = s
             /\ NewGoroutine(fn, s).at = "start"
  BY DEF NewGoroutine, Idle
<1> QED
  BY <1>1, <1>2, <1>3

\* A goroutine's step leaves every other goroutine alone.
LEMMA OthersStay ==
    ASSUME GoTypeOK, NEW g \in Goroutines, GoroutineStep(g)
    PROVE  \A h \in Goroutines \ {g} : goroutine'[h] = goroutine[h]
<1>1. \/ Exit(g)
      \/ \E at, err : MoveTo(g, at, err)
      \/ \E s : goroutine' = [goroutine EXCEPT ![g] =
                     NewGoroutine("completeCompanionContainerStartup", s)]
  BY DEF GoroutineStep, CreateStart, BackendCreate, BackendStart, CreateFinish,
         CompanionStartup, ResumeStart, BackendResume, ResumeFinish, StopStart,
         BackendStop, StopFinish, StopFailedSandbox, DeleteStart, BackendDelete,
         DeleteFinish
<1> QED
  BY <1>1 DEF Exit, MoveTo, GoTypeOK

-----------------------------------------------------------------------------
(***************************************************************************)
(* Runtime state of usable sandboxes                                       *)
(***************************************************************************)
\* New goroutines stand at their start and work for reserved ids.
LEMMA StartsRuntime ==
    ASSUME TypeOK, GoServing, BackFromBackend, NEW fn, NEW T \in SUBSET sandboxIDs',
           Starts(fn, T), daemon = "serving", daemon' = "serving",
           sandboxIDs \subseteq sandboxIDs',
           \A s \in sandboxIDs : runtimeState'[s] = runtimeState[s]
    PROVE  GoServing' /\ BackFromBackend'
<1>1. GoTypeOK
  BY TypeParts
<1>2. ASSUME NEW g \in Goroutines, goroutine'[g] # Idle
      PROVE  \/ goroutine'[g] = goroutine[g] /\ goroutine[g].sb \in sandboxIDs
             \/ goroutine'[g].at = "start" /\ goroutine'[g].sb \in sandboxIDs'
  BY <1>1, <1>2, GoroutineFields DEF Starts, GoServing
<1>3. GoServing'
  BY <1>2 DEF GoServing
<1>4. BackFromBackend'
  BY <1>2 DEF BackFromBackend
<1> QED
  BY <1>3, <1>4

\* Requests and scans: what they start begins at its start, a new record has a
\* new id, and none makes a sandbox READY or STOPPED.
LEMMA RequestRuntime ==
    ASSUME TypeOK, LogInv, RuntimeInv, NEW T \in SUBSET Sandboxes,
           Request(T) \/ idleScanAndStop(T) \/ Cleanup(T) \/ DropPurged
    PROVE  RuntimeInv'
<1>0. /\ GoTypeOK /\ boxes \subseteq sandboxIDs /\ boxes \subseteq Sandboxes
      /\ sandboxIDs \subseteq Sandboxes
      /\ state \in [Sandboxes -> SandboxState] /\ runtimeState \in [Sandboxes -> BOOLEAN]
      /\ GoServing /\ BackFromBackend /\ UsableHasRuntimeState
  BY TypeParts DEF RestTypeOK, LogInv, IDsReserved, RuntimeInv
<1>u. ASSUME UNCHANGED <<goroutine, daemon, runtimeState>>, sandboxIDs \subseteq sandboxIDs'
      PROVE  GoServing' /\ BackFromBackend'
  BY <1>0, <1>u DEF GoServing, BackFromBackend
<1>1. ASSUME NEW s \in T, CreateSandbox(s)
      PROVE  RuntimeInv'
  <2>1. /\ Starts("completeSandboxCreate", {s}) /\ daemon = "serving" /\ daemon' = daemon
        /\ sandboxIDs' = sandboxIDs \cup {s} /\ s \notin sandboxIDs /\ s \in Sandboxes
        /\ boxes' = boxes \cup {s}
        /\ state' = [state EXCEPT ![s] = "PENDING"]
        /\ runtimeState' = [runtimeState EXCEPT ![s] = FALSE]
    BY <1>0, <1>1, GoStarts DEF CreateSandbox
  <2>2. GoServing' /\ BackFromBackend'
    BY <1>0, <2>1, StartsRuntime
  <2>3. UsableHasRuntimeState'
    BY <1>0, <2>1 DEF UsableHasRuntimeState
  <2> QED
    BY <2>2, <2>3 DEF RuntimeInv
<1>2. ASSUME NEW s \in T, CreateSandboxFails(s)
      PROVE  RuntimeInv'
  <2>1. UNCHANGED <<goroutine, daemon, runtimeState, state, boxes>> /\ sandboxIDs \subseteq sandboxIDs'
    BY <1>2 DEF CreateSandboxFails, recordVars
  <2> QED
    BY <1>0, <1>u, <2>1 DEF RuntimeInv, UsableHasRuntimeState
<1>3. ASSUME NEW s \in T, ResumeSandbox(s)
      PROVE  RuntimeInv'
  <2>1. /\ Starts("completeSandboxResume", {s}) /\ daemon = "serving" /\ s \in boxes
        /\ state' = [state EXCEPT ![s] = "PENDING"]
        /\ UNCHANGED <<daemon, sandboxIDs, runtimeState, boxes>>
    BY <1>0, <1>3, GoStarts DEF ResumeSandbox, Known, idVars
  <2>2. GoServing' /\ BackFromBackend'
    BY <1>0, <2>1, StartsRuntime
  <2>3. UsableHasRuntimeState'
    BY <1>0, <2>1 DEF UsableHasRuntimeState
  <2> QED
    BY <2>2, <2>3 DEF RuntimeInv
<1>4. ASSUME NEW s \in T, StopSandbox(s)
      PROVE  RuntimeInv'
  <2>1. /\ Starts("completeSandboxStop", {s}) /\ daemon = "serving" /\ s \in boxes
        /\ UNCHANGED <<daemon, sandboxIDs, runtimeState, state, boxes>>
    BY <1>0, <1>4, GoStarts DEF StopSandbox, Known, idVars, recordVars
  <2>2. GoServing' /\ BackFromBackend'
    BY <1>0, <2>1, StartsRuntime
  <2> QED
    BY <1>0, <2>1, <2>2 DEF RuntimeInv, UsableHasRuntimeState
<1>5. ASSUME NEW U, U \subseteq boxes, daemon = "serving",
             state' = [s \in Sandboxes |-> IF s \in U THEN "DELETING" ELSE state[s]],
             UNCHANGED goroutine \/ Starts("completeSandboxDelete", U),
             UNCHANGED <<daemon, sandboxIDs, runtimeState, boxes>>
      PROVE  RuntimeInv'
  <2>1. GoServing' /\ BackFromBackend'
    BY <1>0, <1>u, <1>5, StartsRuntime
  <2>2. UsableHasRuntimeState'
    BY <1>0, <1>5 DEF UsableHasRuntimeState
  <2> QED
    BY <2>1, <2>2 DEF RuntimeInv
<1>6. ASSUME NEW s \in T, DeleteSandbox(s)
      PROVE  RuntimeInv'
  <2>1. /\ daemon = "serving" /\ s \in boxes
        /\ UNCHANGED <<daemon, sandboxIDs, runtimeState, boxes>>
    BY <1>6 DEF DeleteSandbox, Known, idVars
  <2>2. CASE UNCHANGED <<state, goroutine>>
    BY <1>0, <1>u, <2>1, <2>2 DEF RuntimeInv, UsableHasRuntimeState
  <2>3. CASE beginSandboxDeleteLocked({s}) /\ Go("completeSandboxDelete", s)
    BY <1>0, <1>5, <2>1, <2>3, GoStarts DEF beginSandboxDeleteLocked
  <2> QED
    BY <1>6, <2>2, <2>3 DEF DeleteSandbox
<1>7. ASSUME NEW s \in T, ReportCompanionFailed(s)
      PROVE  RuntimeInv'
  <2>1. UNCHANGED <<goroutine, daemon, runtimeState, state, boxes, sandboxIDs>>
    BY <1>7 DEF ReportCompanionFailed, recordVars, idVars
  <2> QED
    BY <1>0, <1>u, <2>1 DEF RuntimeInv, UsableHasRuntimeState
<1>8. CASE DeleteSandboxes(T)
  <2>1. /\ daemon = "serving" /\ Deletable(T) \subseteq boxes
        /\ UNCHANGED <<daemon, sandboxIDs, runtimeState, boxes>>
    BY <1>8 DEF DeleteSandboxes, Deletable, idVars
  <2>2. CASE beginSandboxDeleteLocked(Deletable(T))
                 /\ GoAll("completeSandboxDelete", Deletable(T))
    BY <1>5, <2>1, <2>2, GoAllStarts DEF beginSandboxDeleteLocked
  <2>3. ASSUME NEW U \in SUBSET Deletable(T) \ {Deletable(T)},
               beginSandboxDeleteLocked(U), UNCHANGED goroutine
        PROVE  RuntimeInv'
    BY <1>5, <2>1, <2>3 DEF beginSandboxDeleteLocked
  <2> QED
    BY <1>8, <2>2, <2>3 DEF DeleteSandboxes
<1>9. CASE cleanupStoppedSandboxes(T)
  BY <1>5, <1>9, GoAllStarts
  DEF cleanupStoppedSandboxes, beginSandboxDeleteLocked, idVars
<1>10. CASE applyPrimaryFailed(T)
  <2>1. /\ daemon = "serving" /\ T \subseteq boxes /\ Starts("stopFailedSandbox", T)
        /\ state' = [s \in Sandboxes |-> IF s \in T THEN "FAILED" ELSE state[s]]
        /\ UNCHANGED <<daemon, sandboxIDs, runtimeState, boxes>>
    BY <1>10, GoAllStarts DEF applyPrimaryFailed, idVars
  <2>2. GoServing' /\ BackFromBackend'
    BY <1>0, <2>1, StartsRuntime
  <2>3. UsableHasRuntimeState'
    BY <1>0, <2>1 DEF UsableHasRuntimeState
  <2> QED
    BY <2>2, <2>3 DEF RuntimeInv
<1>11. CASE idleScanAndStop(T)
  <2>1. /\ daemon = "serving" /\ T \subseteq boxes /\ Starts("completeSandboxStop", T)
        /\ UNCHANGED <<daemon, sandboxIDs, runtimeState, state, boxes>>
    BY <1>11, GoAllStarts DEF idleScanAndStop, idVars, recordVars
  <2>2. GoServing' /\ BackFromBackend'
    BY <1>0, <2>1, StartsRuntime
  <2> QED
    BY <1>0, <2>1, <2>2 DEF RuntimeInv, UsableHasRuntimeState
<1>12. CASE Cleanup(T) \/ DropPurged
  <2>1. /\ boxes' \subseteq boxes
        /\ UNCHANGED <<goroutine, daemon, runtimeState, state, sandboxIDs>>
    BY <1>12 DEF Cleanup, DropPurged, idVars, recordVars
  <2> QED
    BY <1>0, <1>u, <2>1 DEF RuntimeInv, UsableHasRuntimeState
<1> QED
  BY <1>1, <1>2, <1>3, <1>4, <1>6, <1>7, <1>8, <1>9, <1>10, <1>11, <1>12 DEF Request

\* Goroutines: a resume or a stop that comes back without an error found the
\* runtime state, which stays, and a create that succeeds sets it.
LEMMA GoroutineRuntime ==
    ASSUME TypeOK, LogInv, RuntimeInv, NEW g \in Goroutines, GoroutineStep(g)
    PROVE  RuntimeInv'
<1> DEFINE s == goroutine[g].sb
<1>0. /\ GoTypeOK /\ boxes \subseteq Sandboxes
      /\ state \in [Sandboxes -> SandboxState] /\ runtimeState \in [Sandboxes -> BOOLEAN]
      /\ GoServing /\ BackFromBackend /\ UsableHasRuntimeState
  BY TypeParts DEF RestTypeOK, RuntimeInv
<1>1. /\ goroutine[g] # Idle /\ s \in Sandboxes /\ s \in sandboxIDs
      /\ daemon = "serving" /\ UNCHANGED <<daemon, boxes, sandboxIDs>>
  <2>1. goroutine[g] # Idle
    BY DEF GoroutineStep, CreateStart, BackendCreate, BackendStart, CreateFinish,
           CompanionStartup, ResumeStart, BackendResume, ResumeFinish, StopStart,
           BackendStop, StopFinish, StopFailedSandbox, DeleteStart, BackendDelete,
           DeleteFinish, At
  <2>2. UNCHANGED <<daemon, boxes, sandboxIDs>>
    BY DEF GoroutineStep, CreateStart, BackendCreate, BackendStart, CreateFinish,
           CompanionStartup, ResumeStart, BackendResume, ResumeFinish, StopStart,
           BackendStop, StopFinish, StopFailedSandbox, DeleteStart, BackendDelete,
           DeleteFinish, idVars
  <2> QED
    BY <1>0, <2>1, <2>2 DEF GoServing, GoTypeOK, ActiveGoroutine
<1>2. \A h \in Goroutines \ {g} : goroutine'[h] = goroutine[h]
  BY <1>0, OthersStay
<1>3. \/ runtimeState' = runtimeState
      \/ runtimeState' = [runtimeState EXCEPT ![s] = TRUE]
  BY DEF GoroutineStep, CreateStart, BackendCreate, BackendStart, CreateFinish,
         CompanionStartup, ResumeStart, BackendResume, ResumeFinish, StopStart,
         BackendStop, StopFinish, StopFailedSandbox, DeleteStart, BackendDelete,
         DeleteFinish, recordVars
<1>4. \/ goroutine'[g] = Idle
      \/ goroutine'[g].at = "start" /\ goroutine'[g].sb = s
      \/ /\ goroutine'[g].sb = s
         /\ (/\ goroutine'[g].fn \in {"completeSandboxResume", "completeSandboxStop"}
             /\ goroutine'[g].at = "finish"
             /\ ~goroutine'[g].err) => runtimeState'[s]
  <2>1. CASE \/ CreateStart(g) \/ ResumeStart(g) \/ StopStart(g) \/ DeleteStart(g)
    <3>1. Exit(g) \/ MoveTo(g, "backend", FALSE)
      BY <2>1 DEF CreateStart, ResumeStart, StopStart, DeleteStart
    <3>2. Exit(g) => goroutine'[g] = Idle
      BY <1>0, GoroutineFields
    <3>3. MoveTo(g, "backend", FALSE) =>
              goroutine'[g].sb = s /\ goroutine'[g].at = "backend"
      BY <1>0, <1>1, GoroutineFields
    <3> QED
      BY <3>1, <3>2, <3>3
  <2>2. CASE BackendCreate(g) \/ BackendStart(g) \/ BackendDelete(g)
    BY <1>0, <1>1, <2>2, GoroutineFields
    DEF BackendCreate, BackendStart, BackendDelete, At
  <2>3. CASE BackendResume(g)
    <3>1. PICK err \in BOOLEAN : MoveTo(g, "finish", err) /\ (~err => runtimeState[s])
      BY <2>3 DEF BackendResume
    <3>2. runtimeState' = runtimeState
      BY <2>3 DEF BackendResume, recordVars
    <3> QED
      BY <1>0, <1>1, <3>1, <3>2, GoroutineFields
  <2>4. CASE BackendStop(g)
    <3>1. PICK err \in BOOLEAN : MoveTo(g, "finish", err) /\ (~err => runtimeState[s])
      BY <2>4 DEF BackendStop
    <3>2. runtimeState' = runtimeState
      BY <2>4 DEF BackendStop, recordVars
    <3> QED
      BY <1>0, <1>1, <3>1, <3>2, GoroutineFields
  <2>5. CASE CreateFinish(g)
    <3>1. \/ Exit(g)
          \/ goroutine' = [goroutine EXCEPT ![g] =
                 NewGoroutine("completeCompanionContainerStartup", s)]
      BY <2>5 DEF CreateFinish
    <3> QED
      BY <1>0, <3>1, GoroutineFields DEF GoTypeOK
  <2>6. CASE \/ CompanionStartup(g) \/ ResumeFinish(g) \/ StopFinish(g)
             \/ StopFailedSandbox(g) \/ DeleteFinish(g)
    BY <1>0, <2>6, GoroutineFields
    DEF CompanionStartup, ResumeFinish, StopFinish, StopFailedSandbox, DeleteFinish
  <2> QED
    BY <2>1, <2>2, <2>3, <2>4, <2>5, <2>6 DEF GoroutineStep
<1>5. GoServing'
  BY <1>0, <1>1, <1>2, <1>4 DEF GoServing
<1>6. BackFromBackend'
  <2>1. \A t \in Sandboxes : runtimeState[t] => runtimeState'[t]
    BY <1>0, <1>1, <1>3
  <2>2. \A h \in Goroutines : goroutine[h] # Idle => goroutine[h].sb \in Sandboxes
    BY <1>0 DEF GoTypeOK, ActiveGoroutine
  <2> QED
    BY <1>0, <1>2, <1>4, <2>1, <2>2 DEF BackFromBackend
<1>7. UsableHasRuntimeState'
  <2>1. \A t \in Sandboxes : runtimeState[t] => runtimeState'[t]
    BY <1>0, <1>1, <1>3
  <2>2. \/ state' = state
        \/ \E st : state' = [state EXCEPT ![s] = st]
                   /\ (st \in {"READY", "STOPPED"} => runtimeState'[s])
    <3>1. CASE CreateFinish(g)
      BY <1>0, <1>1, <3>1 DEF CreateFinish, Settle, Settled, SettleFails
    <3>2. CASE ResumeFinish(g)
      BY <1>0, <1>1, <3>2 DEF ResumeFinish, Settle, Settled, SettleFails,
         BackFromBackend, At
    <3>3. CASE StopFinish(g)
      BY <1>0, <1>1, <3>3 DEF StopFinish, Settle, Settled, SettleFails,
         BackFromBackend, At
    <3>4. CASE DeleteFinish(g)
      BY <3>4 DEF DeleteFinish, Settle, Settled, SettleFails
    <3>5. CASE ~(CreateFinish(g) \/ ResumeFinish(g) \/ StopFinish(g) \/ DeleteFinish(g))
      BY <3>5 DEF GoroutineStep, CreateStart, BackendCreate, BackendStart,
         CompanionStartup, ResumeStart, BackendResume, StopStart, BackendStop,
         StopFailedSandbox, DeleteStart, BackendDelete, recordVars
    <3> QED
      BY <3>1, <3>2, <3>3, <3>4, <3>5
  <2> QED
    BY <1>0, <1>1, <2>1, <2>2 DEF UsableHasRuntimeState
<1> QED
  BY <1>5, <1>6, <1>7 DEF RuntimeInv

\* A crash ends every goroutine; a restore runs before any is started, and
\* rebuilds the runtime state of what it restores as READY or STOPPED.
LEMMA CrashRestartRuntime ==
    ASSUME TypeOK, LogInv, RuntimeInv, CrashStep \/ RestartStep \/ DockerStep
    PROVE  RuntimeInv'
<1>0. /\ boxes \subseteq Sandboxes /\ GoServing /\ BackFromBackend /\ UsableHasRuntimeState
      /\ state \in [Sandboxes -> SandboxState] /\ runtimeState \in [Sandboxes -> BOOLEAN]
  BY TypeParts DEF RestTypeOK, RuntimeInv
<1>1. ASSUME LoseMemory
      PROVE  RuntimeInv'
  <2>1. boxes' = {} /\ \A g \in Goroutines : goroutine'[g] = Idle
    BY <1>1 DEF LoseMemory
  <2> QED
    BY <2>1 DEF RuntimeInv, GoServing, BackFromBackend, UsableHasRuntimeState
<1>2. CASE CrashStep
  <2>1. LoseMemory
    BY <1>2 DEF CrashStep, Crash, CrashInCreateSandbox, RestoreAborts,
       CrashInDeleteFinish, CrashBeforeReady
  <2> QED
    BY <1>1, <2>1
<1>3. ASSUME UNCHANGED <<goroutine, runtimeState, state, boxes, sandboxIDs>>,
             daemon # "serving" \/ daemon' = daemon
      PROVE  RuntimeInv'
  BY <1>0, <1>3 DEF RuntimeInv, GoServing, BackFromBackend, UsableHasRuntimeState
<1>4. CASE Startup \/ Serve \/ DockerStep
  BY <1>3, <1>4 DEF Startup, Serve, DockerStep, ContainerExits, ContainerRestarts,
     ContainerRemoved, SetContainer, recordVars, idVars
<1>5. ASSUME NEW s \in Sandboxes, Restore(s)
      PROVE  RuntimeInv'
  <2> DEFINE persisted == PersistedState(LoadEvents(bucket[s]))
             exists    == container[s] # "absent"
  <2>1. /\ state' = [state EXCEPT ![s] = ReconciledState(persisted, exists)]
        /\ runtimeState' = [runtimeState EXCEPT ![s] =
               RestoredRuntimeState(persisted, ReconciledState(persisted, exists))]
    BY <1>5 DEF Restore
  <2> HIDE DEF persisted, exists
  <2>2. /\ daemon # "serving" /\ boxes' = boxes \cup {s}
        /\ UNCHANGED <<daemon, goroutine, sandboxIDs>>
    BY <1>5 DEF Restore, idVars
  <2>3. \A g \in Goroutines : goroutine'[g] = Idle
    BY <1>0, <2>2 DEF GoServing
  <2>4. ReconciledState(persisted, exists) \in {"READY", "STOPPED"} =>
            RestoredRuntimeState(persisted, ReconciledState(persisted, exists))
    BY DEF ReconciledState, RestoredRuntimeState
  <2>5. UsableHasRuntimeState'
    BY <1>0, <2>1, <2>2, <2>4 DEF UsableHasRuntimeState
  <2> QED
    BY <2>3, <2>5 DEF RuntimeInv, GoServing, BackFromBackend
<1> QED
  BY <1>2, <1>4, <1>5 DEF RestartStep

-----------------------------------------------------------------------------
(***************************************************************************)
(* Transient states have a worker                                          *)
(***************************************************************************)
\* Starting goroutines takes none away, and gives each sandbox its own.
LEMMA StartsRuns ==
    ASSUME GoTypeOK, NEW fn, NEW T, Starts(fn, T)
    PROVE  /\ \A fns, s : RunsFor(fns, s) => RunsFor(fns, s)'
           /\ \A fns : fn \in fns => \A s \in T : RunsFor(fns, s)'
<1>1. ASSUME NEW fns, NEW s, RunsFor(fns, s)
      PROVE  RunsFor(fns, s)'
  <2>1. PICK g \in Goroutines : /\ goroutine[g] # Idle
                                /\ goroutine[g].fn \in fns
                                /\ goroutine[g].sb = s
    BY <1>1 DEF RunsFor
  <2>2. goroutine'[g] = goroutine[g]
    BY <2>1 DEF Starts
  <2> QED
    BY <2>1, <2>2 DEF RunsFor
<1>2. ASSUME NEW fns, fn \in fns, NEW s \in T
      PROVE  RunsFor(fns, s)'
  <2>1. PICK g \in Goroutines : goroutine'[g] = NewGoroutine(fn, s)
    BY DEF Starts
  <2> QED
    BY <1>2, <2>1, GoroutineFields DEF RunsFor
<1> QED
  BY <1>1, <1>2

\* A request that makes a sandbox transient starts the goroutine for it.
LEMMA RequestWorker ==
    ASSUME TypeOK, TransientHasWorker, NEW T \in SUBSET Sandboxes,
           Request(T) \/ idleScanAndStop(T) \/ Cleanup(T) \/ DropPurged
    PROVE  TransientHasWorker'
<1> SUFFICES ASSUME ~StoreMayFail
             PROVE  (DeletingHasWorker /\ PendingHasWorker)'
  BY DEF TransientHasWorker
<1>0. /\ GoTypeOK /\ boxes \subseteq Sandboxes /\ state \in [Sandboxes -> SandboxState]
      /\ DeletingHasWorker /\ PendingHasWorker
  BY TypeParts DEF RestTypeOK, TransientHasWorker
<1>u. ASSUME boxes' \subseteq boxes, UNCHANGED <<state, goroutine>>
      PROVE  (DeletingHasWorker /\ PendingHasWorker)'
  BY <1>0, <1>u DEF DeletingHasWorker, PendingHasWorker, RunsFor
<1>1. ASSUME NEW U \in SUBSET Sandboxes, NEW st, NEW fn, Starts(fn, U),
             boxes' \subseteq boxes \cup U,
             \A s \in Sandboxes : state'[s] = IF s \in U THEN st ELSE state[s],
             st = "DELETING" => fn = "completeSandboxDelete",
             st = "PENDING" => fn \in {"completeSandboxCreate", "completeSandboxResume"}
      PROVE  (DeletingHasWorker /\ PendingHasWorker)'
  <2>1. ASSUME NEW s \in boxes', state'[s] = "DELETING"
        PROVE  RunsFor({"completeSandboxDelete"}, s)'
    <3>1. CASE s \in U
      BY <1>0, <1>1, <2>1, <3>1, StartsRuns
    <3>2. CASE s \notin U
      BY <1>0, <1>1, <2>1, <3>2, StartsRuns DEF DeletingHasWorker
    <3> QED
      BY <3>1, <3>2
  <2>2. ASSUME NEW s \in boxes', state'[s] = "PENDING"
        PROVE  RunsFor({"completeSandboxCreate", "completeSandboxResume"}, s)'
    <3>1. CASE s \in U
      BY <1>0, <1>1, <2>2, <3>1, StartsRuns
    <3>2. CASE s \notin U
      BY <1>0, <1>1, <2>2, <3>2, StartsRuns DEF PendingHasWorker
    <3> QED
      BY <3>1, <3>2
  <2> QED
    BY <2>1, <2>2 DEF DeletingHasWorker, PendingHasWorker
<1>2. ASSUME NEW s \in T, CreateSandbox(s) \/ ResumeSandbox(s)
      PROVE  (DeletingHasWorker /\ PendingHasWorker)'
  <2>1. PICK fn \in {"completeSandboxCreate", "completeSandboxResume"} :
            Starts(fn, {s})
    BY <1>0, <1>2, GoStarts DEF CreateSandbox, ResumeSandbox
  <2>2. state' = [state EXCEPT ![s] = "PENDING"] /\ boxes' \subseteq boxes \cup {s}
    BY <1>2 DEF CreateSandbox, ResumeSandbox
  <2>3. \A t \in Sandboxes : state'[t] = IF t \in {s} THEN "PENDING" ELSE state[t]
    BY <1>0, <2>2
  <2> QED
    BY <1>1, <2>1, <2>2, <2>3
<1>3. ASSUME NEW s \in T, StopSandbox(s)
      PROVE  (DeletingHasWorker /\ PendingHasWorker)'
  <2>1. Starts("completeSandboxStop", {s}) /\ s \in boxes /\ state[s] = "READY"
    BY <1>0, <1>3, GoStarts DEF StopSandbox, Known
  <2>2. UNCHANGED <<state, boxes>>
    BY <1>3 DEF StopSandbox, recordVars
  <2> QED
    BY <1>1, <2>1, <2>2
<1>4. ASSUME NEW U \in SUBSET boxes, beginSandboxDeleteLocked(U), boxes' = boxes,
             Starts("completeSandboxDelete", U)
      PROVE  (DeletingHasWorker /\ PendingHasWorker)'
  <2>1. U \in SUBSET Sandboxes
    BY <1>0
  <2>2. \A s \in Sandboxes : state'[s] = IF s \in U THEN "DELETING" ELSE state[s]
    BY <1>4 DEF beginSandboxDeleteLocked
  <2> QED
    BY <1>1, <1>4, <2>1, <2>2
<1>5. ASSUME NEW s \in T, DeleteSandbox(s)
      PROVE  (DeletingHasWorker /\ PendingHasWorker)'
  <2>1. s \in boxes /\ boxes' = boxes
    BY <1>5 DEF DeleteSandbox, Known
  <2>2. CASE UNCHANGED <<state, goroutine>>
    BY <1>u, <2>1, <2>2
  <2>3. CASE beginSandboxDeleteLocked({s}) /\ Go("completeSandboxDelete", s)
    BY <1>0, <1>4, <2>1, <2>3, GoStarts
  <2> QED
    BY <1>5, <2>2, <2>3 DEF DeleteSandbox
<1>6. CASE DeleteSandboxes(T)
  <2>1. /\ Deletable(T) \in SUBSET boxes /\ boxes' = boxes
        /\ beginSandboxDeleteLocked(Deletable(T))
        /\ GoAll("completeSandboxDelete", Deletable(T))
    BY <1>6 DEF DeleteSandboxes, Deletable
  <2> QED
    BY <1>4, <2>1, GoAllStarts
<1>7. CASE cleanupStoppedSandboxes(T)
  <2>1. /\ T \in SUBSET boxes /\ boxes' = boxes /\ beginSandboxDeleteLocked(T)
        /\ GoAll("completeSandboxDelete", T)
    BY <1>7 DEF cleanupStoppedSandboxes
  <2> QED
    BY <1>4, <2>1, GoAllStarts
<1>8. CASE applyPrimaryFailed(T)
  <2>1. /\ boxes' = boxes /\ GoAll("stopFailedSandbox", T)
        /\ \A s \in Sandboxes : state'[s] = IF s \in T THEN "FAILED" ELSE state[s]
    BY <1>8 DEF applyPrimaryFailed
  <2> QED
    BY <1>1, <2>1, GoAllStarts
<1>9. CASE idleScanAndStop(T)
  <2>1. /\ UNCHANGED <<state, boxes>> /\ GoAll("completeSandboxStop", T)
        /\ \A s \in T : state[s] = "READY"
    BY <1>9 DEF idleScanAndStop, recordVars
  <2> QED
    BY <1>1, <2>1, GoAllStarts
<1>10. ASSUME NEW s \in T, CreateSandboxFails(s) \/ ReportCompanionFailed(s)
       PROVE  (DeletingHasWorker /\ PendingHasWorker)'
  BY <1>u, <1>10 DEF CreateSandboxFails, ReportCompanionFailed, recordVars
<1>11. CASE Cleanup(T) \/ DropPurged
  <2>1. boxes' \subseteq boxes /\ UNCHANGED <<state, goroutine>>
    BY <1>11 DEF Cleanup, DropPurged, recordVars
  <2> QED
    BY <1>u, <2>1
<1> QED
  BY <1>2, <1>3, <1>5, <1>6, <1>7, <1>8, <1>9, <1>10, <1>11 DEF Request

\* A goroutine ends when it has settled its sandbox, or when the sandbox is
\* not, or no longer, in the state the goroutine was started for.
LEMMA GoroutineWorker ==
    ASSUME TypeOK, TransientHasWorker, NEW g \in Goroutines, GoroutineStep(g)
    PROVE  TransientHasWorker'
<1> SUFFICES ASSUME ~StoreMayFail
             PROVE  (DeletingHasWorker /\ PendingHasWorker)'
  BY DEF TransientHasWorker
<1> DEFINE s == goroutine[g].sb
<1>0. /\ GoTypeOK /\ boxes \subseteq Sandboxes /\ state \in [Sandboxes -> SandboxState]
      /\ DeletingHasWorker /\ PendingHasWorker
  BY TypeParts DEF RestTypeOK, TransientHasWorker
<1>1. /\ goroutine[g] # Idle /\ s \in Sandboxes /\ UNCHANGED boxes
  <2>1. goroutine[g] # Idle /\ UNCHANGED boxes
    BY DEF GoroutineStep, CreateStart, BackendCreate, BackendStart, CreateFinish,
           CompanionStartup, ResumeStart, BackendResume, ResumeFinish, StopStart,
           BackendStop, StopFinish, StopFailedSandbox, DeleteStart, BackendDelete,
           DeleteFinish, At
  <2> QED
    BY <1>0, <2>1 DEF GoTypeOK, ActiveGoroutine
<1>2. \A h \in Goroutines \ {g} : goroutine'[h] = goroutine[h]
  BY <1>0, OthersStay
<1>3. \/ /\ state' = state
         /\ goroutine'[g] # Idle
         /\ goroutine'[g].fn = goroutine[g].fn /\ goroutine'[g].sb = s
      \/ /\ state' = state
         /\ goroutine[g].fn = "completeSandboxDelete" =>
                s \notin boxes \/ state[s] # "DELETING"
         /\ goroutine[g].fn \in {"completeSandboxCreate", "completeSandboxResume"} =>
                s \notin boxes \/ state[s] # "PENDING"
      \/ \E st : state' = [state EXCEPT ![s] = st] /\ st \notin {"PENDING", "DELETING"}
  <2>m. ASSUME NEW at, NEW err, MoveTo(g, at, err)
        PROVE  /\ goroutine'[g] # Idle
               /\ goroutine'[g].fn = goroutine[g].fn /\ goroutine'[g].sb = s
    BY <1>0, <1>1, <2>m, GoroutineFields
  <2>1. CASE CreateStart(g)
    BY <2>m, <2>1 DEF CreateStart, At, recordVars
  <2>2. CASE ResumeStart(g)
    BY <2>m, <2>2 DEF ResumeStart, At, recordVars
  <2>3. CASE StopStart(g)
    BY <2>m, <2>3 DEF StopStart, At, recordVars
  <2>4. CASE DeleteStart(g)
    BY <2>m, <2>4 DEF DeleteStart, At, recordVars
  <2>5. CASE \/ BackendCreate(g) \/ BackendStart(g) \/ BackendResume(g)
             \/ BackendStop(g) \/ BackendDelete(g)
    BY <2>m, <2>5 DEF BackendCreate, BackendStart, BackendResume, BackendStop,
       BackendDelete, recordVars
  <2>6. CASE StopFailedSandbox(g) \/ CompanionStartup(g)
    BY <2>6 DEF StopFailedSandbox, CompanionStartup, At, recordVars
  <2>7. CASE CreateFinish(g)
    BY <2>7 DEF CreateFinish, At, Settle, Settled, SettleFails
  <2>8. CASE ResumeFinish(g)
    BY <2>8 DEF ResumeFinish, At, Settle, Settled, SettleFails
  <2>9. CASE StopFinish(g)
    BY <2>9 DEF StopFinish, At, Settle, Settled, SettleFails
  <2>10. CASE DeleteFinish(g)
    BY <2>10 DEF DeleteFinish, At, Settle, Settled, SettleFails
  <2> QED
    BY <2>1, <2>2, <2>3, <2>4, <2>5, <2>6, <2>7, <2>8, <2>9, <2>10 DEF GoroutineStep
<1>4. ASSUME NEW fns, NEW t, RunsFor(fns, t),
             \/ goroutine'[g] # Idle /\ goroutine'[g].fn = goroutine[g].fn /\ goroutine'[g].sb = s
             \/ t # s
             \/ goroutine[g].fn \notin fns
      PROVE  RunsFor(fns, t)'
  <2>1. PICK h \in Goroutines : /\ goroutine[h] # Idle
                                /\ goroutine[h].fn \in fns
                                /\ goroutine[h].sb = t
    BY <1>4 DEF RunsFor
  <2>2. CASE h = g
    BY <1>4, <2>1, <2>2 DEF RunsFor
  <2>3. CASE h # g
    BY <1>2, <2>1, <2>3 DEF RunsFor
  <2> QED
    BY <2>2, <2>3
<1>5. DeletingHasWorker'
  <2>1. ASSUME NEW t \in boxes, state'[t] = "DELETING"
        PROVE  RunsFor({"completeSandboxDelete"}, t)'
    <3>1. state[t] = "DELETING" /\ (t = s => state' = state)
      BY <1>0, <1>1, <1>3, <2>1
    <3>2. RunsFor({"completeSandboxDelete"}, t)
      BY <1>0, <3>1 DEF DeletingHasWorker
    <3>3. \/ /\ goroutine'[g] # Idle
             /\ goroutine'[g].fn = goroutine[g].fn /\ goroutine'[g].sb = s
          \/ t # s
          \/ goroutine[g].fn \notin {"completeSandboxDelete"}
      BY <1>0, <1>1, <1>3, <2>1, <3>1
    <3> QED
      BY <1>4, <3>2, <3>3
  <2> QED
    BY <1>1, <2>1 DEF DeletingHasWorker
<1>6. PendingHasWorker'
  <2>1. ASSUME NEW t \in boxes, state'[t] = "PENDING"
        PROVE  RunsFor({"completeSandboxCreate", "completeSandboxResume"}, t)'
    <3>1. state[t] = "PENDING" /\ (t = s => state' = state)
      BY <1>0, <1>1, <1>3, <2>1
    <3>2. RunsFor({"completeSandboxCreate", "completeSandboxResume"}, t)
      BY <1>0, <3>1 DEF PendingHasWorker
    <3>3. \/ /\ goroutine'[g] # Idle
             /\ goroutine'[g].fn = goroutine[g].fn /\ goroutine'[g].sb = s
          \/ t # s
          \/ goroutine[g].fn \notin {"completeSandboxCreate", "completeSandboxResume"}
      BY <1>0, <1>1, <1>3, <2>1, <3>1
    <3> QED
      BY <1>4, <3>2, <3>3
  <2> QED
    BY <1>1, <2>1 DEF PendingHasWorker
<1> QED
  BY <1>5, <1>6

\* Nothing is restored in a transient state.
LEMMA CrashRestartWorker ==
    ASSUME TypeOK, TransientHasWorker, CrashStep \/ RestartStep \/ DockerStep
    PROVE  TransientHasWorker'
<1> SUFFICES ASSUME ~StoreMayFail
             PROVE  (DeletingHasWorker /\ PendingHasWorker)'
  BY DEF TransientHasWorker
<1>0. /\ boxes \subseteq Sandboxes /\ state \in [Sandboxes -> SandboxState]
      /\ DeletingHasWorker /\ PendingHasWorker
  BY TypeParts DEF RestTypeOK, TransientHasWorker
<1>1. CASE CrashStep
  <2>1. boxes' = {}
    BY <1>1 DEF CrashStep, Crash, CrashInCreateSandbox, RestoreAborts,
       CrashInDeleteFinish, CrashBeforeReady, LoseMemory
  <2> QED
    BY <2>1 DEF DeletingHasWorker, PendingHasWorker
<1>2. CASE Startup \/ Serve \/ DockerStep
  <2>1. UNCHANGED <<boxes, state, goroutine>>
    BY <1>2 DEF Startup, Serve, DockerStep, ContainerExits, ContainerRestarts,
       ContainerRemoved, SetContainer, recordVars
  <2> QED
    BY <1>0, <2>1 DEF DeletingHasWorker, PendingHasWorker, RunsFor
<1>3. ASSUME NEW s \in Sandboxes, Restore(s)
      PROVE  (DeletingHasWorker /\ PendingHasWorker)'
  <2> DEFINE persisted  == PersistedState(LoadEvents(bucket[s]))
             reconciled == ReconciledState(persisted, container[s] # "absent")
  <2>1. /\ state' = [state EXCEPT ![s] = reconciled]
        /\ boxes' = boxes \cup {s} /\ goroutine' = goroutine
    BY <1>3 DEF Restore
  <2>2. reconciled \notin {"PENDING", "DELETING"}
    BY DEF ReconciledState
  <2> HIDE DEF reconciled
  <2> QED
    BY <1>0, <2>1, <2>2 DEF DeletingHasWorker, PendingHasWorker, RunsFor
<1> QED
  BY <1>1, <1>2, <1>3 DEF RestartStep

-----------------------------------------------------------------------------
(***************************************************************************)
(* The state follows the log                                               *)
(***************************************************************************)
\* What restorePersistedSandboxes reads after an append: the state of the last
\* mutation, or the state before it when the mutations carry none.
LEMMA PersistedAppend ==
    ASSUME NEW log \in Seq(Event), NEW n \in Nat, NEW muts \in Seq(Mutations)
    PROVE  /\ muts # << >> /\ muts[Len(muts)].st # "UNSPECIFIED" =>
                  PersistedState(log \o Stamp(n, muts)) = muts[Len(muts)].st
           /\ (\A i \in 1..Len(muts) : muts[i].st = "UNSPECIFIED") =>
                  PersistedState(log \o Stamp(n, muts)) = PersistedState(log)
<1> DEFINE a == Len(log)
           b == Len(muts)
           new == log \o Stamp(n, muts)
<1>1. /\ a \in Nat /\ b \in Nat /\ new \in Seq(Event) /\ Len(new) = a + b
      /\ \A i \in 1..a : new[i] = log[i]
      /\ \A i \in (a + 1)..(a + b) : new[i] = Stamp(n, muts)[i - a]
  <2>1. Stamp(n, muts) \in Seq(Event) /\ Len(Stamp(n, muts)) = b
    BY StampProperties
  <2> QED
    BY <2>1
<1>2. \A i \in (a + 1)..(a + b) : new[i].st = muts[i - a].st
  BY <1>1 DEF Stamp
<1> HIDE DEF new, a, b
<1>l. /\ \A m \in 1..Len(new) :
             (/\ new[m].st # "UNSPECIFIED"
              /\ \A j \in (m + 1)..Len(new) : new[j].st = "UNSPECIFIED")
             => PersistedState(new) = new[m].st
      /\ \A m \in 1..a :
             (/\ log[m].st # "UNSPECIFIED"
              /\ \A j \in (m + 1)..a : log[j].st = "UNSPECIFIED")
             => PersistedState(log) = log[m].st
      /\ (\A m \in 1..Len(new) : new[m].st = "UNSPECIFIED")
             => PersistedState(new) = "UNSPECIFIED"
      /\ (\A m \in 1..a : log[m].st = "UNSPECIFIED")
             => PersistedState(log) = "UNSPECIFIED"
  BY <1>1, PersistedStateOf DEF a
<1>3. ASSUME muts # << >>, muts[b].st # "UNSPECIFIED"
      PROVE  PersistedState(new) = muts[b].st
  <2>1. b > 0
    BY <1>1, <1>3 DEF b
  <2>2. a + b \in 1..Len(new) /\ new[a + b].st = muts[b].st
    BY <1>1, <1>2, <2>1
  <2>3. \A j \in (a + b + 1)..Len(new) : new[j].st = "UNSPECIFIED"
    BY <1>1
  <2> QED
    BY <1>l, <1>3, <2>2, <2>3
<1>4. ASSUME \A i \in 1..b : muts[i].st = "UNSPECIFIED"
      PROVE  PersistedState(new) = PersistedState(log)
  <2> DEFINE C == {i \in 1..a : log[i].st # "UNSPECIFIED"}
  <2>1. \A i \in (a + 1)..(a + b) : new[i].st = "UNSPECIFIED"
    <3>1. \A i \in (a + 1)..(a + b) : i - a \in 1..b
      BY <1>1
    <3> QED
      BY <1>2, <1>4, <3>1
  <2>2. CASE C = {}
    <3>1. \A i \in 1..a : log[i].st = "UNSPECIFIED"
      BY <2>2
    <3>2. \A i \in 1..Len(new) : i \in 1..a \/ i \in (a + 1)..(a + b)
      BY <1>1
    <3>3. \A i \in 1..Len(new) : new[i].st = "UNSPECIFIED"
      BY <1>1, <2>1, <3>1, <3>2
    <3> QED
      BY <1>l, <3>1, <3>3
  <2>3. CASE C # {}
    <3>1. PICK m \in C : \A j \in C : j <= m
      BY <1>1, <2>3, LastPosition
    <3>2. \A j \in (m + 1)..a : log[j].st = "UNSPECIFIED"
      BY <1>1, <3>1
    <3>3. \A j \in (m + 1)..Len(new) : new[j].st = "UNSPECIFIED"
      BY <1>1, <2>1, <3>2
    <3>4. m \in 1..a /\ m \in 1..Len(new) /\ new[m].st = log[m].st
          /\ log[m].st # "UNSPECIFIED"
      BY <1>1
    <3> QED
      BY <1>l, <3>2, <3>3, <3>4
  <2> QED
    BY <2>2, <2>3
<1> QED
  BY <1>3, <1>4 DEF new, a, b

\* The body of StateFollowsLog.
StateFollows == \A s \in boxes : state[s] = PersistedState(events[s])

\* The record of s gets muts, and the state that the last of them carries.
Recorded(s, muts, st) ==
    /\ appendEventLocked(s, muts)
    /\ muts # << >> /\ muts[Len(muts)].st = st /\ st # "UNSPECIFIED"
    /\ state' = [state EXCEPT ![s] = st]

\* One record settled: its state and its log move together.
LEMMA RecordedFollows ==
    ASSUME TypeOK, StateFollows, NEW s \in boxes, NEW muts \in Seq(Mutations), NEW st,
           Recorded(s, muts, st), boxes' = boxes
    PROVE  StateFollows'
<1>1. /\ events \in [Sandboxes -> Seq(Event)] /\ nextSequence[s] \in Nat
      /\ boxes \subseteq Sandboxes /\ state \in [Sandboxes -> SandboxState]
  BY DEF TypeOK
<1>2. /\ events' = [events EXCEPT ![s] = events[s] \o Stamp(nextSequence[s], muts)]
      /\ state' = [state EXCEPT ![s] = st]
  BY DEF Recorded, appendEventLocked, RecordEvents
<1>3. PersistedState(events[s] \o Stamp(nextSequence[s], muts)) = st
  BY <1>1, PersistedAppend DEF Recorded
<1> QED
  BY <1>1, <1>2, <1>3 DEF StateFollows

\* A scan under one lock settles several records.
LEMMA AllRecordedFollows ==
    ASSUME TypeOK, StateFollows, NEW T \in SUBSET boxes, NEW mut \in Mutations,
           appendEventToAll(T, mut), boxes' = boxes,
           \A s \in Sandboxes : state'[s] =
               IF s \in T /\ mut.st # "UNSPECIFIED" THEN mut.st ELSE state[s]
    PROVE  StateFollows'
<1>1. /\ events \in [Sandboxes -> Seq(Event)] /\ nextSequence \in [Sandboxes -> Nat]
      /\ boxes \subseteq Sandboxes /\ state \in [Sandboxes -> SandboxState]
  BY DEF TypeOK
<1>2. \A s \in Sandboxes : events'[s] =
          IF s \in T THEN events[s] \o Stamp(nextSequence[s], <<mut>>) ELSE events[s]
  BY DEF appendEventToAll
<1>3. ASSUME NEW s \in T
      PROVE  state'[s] = PersistedState(events'[s])
  <2>1. /\ events[s] \in Seq(Event) /\ nextSequence[s] \in Nat /\ s \in Sandboxes
        /\ <<mut>> \in Seq(Mutations) /\ Len(<<mut>>) = 1 /\ <<mut>>[1] = mut
        /\ <<mut>> # << >>
    BY <1>1
  <2>2. /\ mut.st # "UNSPECIFIED" =>
               PersistedState(events[s] \o Stamp(nextSequence[s], <<mut>>)) = mut.st
        /\ mut.st = "UNSPECIFIED" =>
               PersistedState(events[s] \o Stamp(nextSequence[s], <<mut>>))
                   = PersistedState(events[s])
    <3> DEFINE muts == <<mut>>
    <3>1. /\ muts \in Seq(Mutations) /\ muts # << >>
          /\ Len(muts) = 1 /\ muts[1] = mut
      BY <2>1
    <3> HIDE DEF muts
    <3>2. /\ muts # << >> /\ muts[Len(muts)].st # "UNSPECIFIED" =>
                 PersistedState(events[s] \o Stamp(nextSequence[s], muts))
                     = muts[Len(muts)].st
          /\ (\A i \in 1..Len(muts) : muts[i].st = "UNSPECIFIED") =>
                 PersistedState(events[s] \o Stamp(nextSequence[s], muts))
                     = PersistedState(events[s])
      BY <2>1, <3>1, PersistedAppend
    <3>3. /\ mut.st # "UNSPECIFIED" =>
                 PersistedState(events[s] \o Stamp(nextSequence[s], muts)) = mut.st
          /\ mut.st = "UNSPECIFIED" =>
                 PersistedState(events[s] \o Stamp(nextSequence[s], muts))
                     = PersistedState(events[s])
      BY <3>1, <3>2
    <3> QED
      BY <3>3 DEF muts
  <2>3. state[s] = PersistedState(events[s])
    BY DEF StateFollows
  <2> QED
    BY <1>2, <2>1, <2>2, <2>3
<1> QED
  BY <1>1, <1>2, <1>3 DEF StateFollows

\* The mutations of the life cycle, with the state the last of them carries.
LEMMA LastMutation ==
    /\ \A type, st : /\ <<Mutation(type, st)>> # << >>
                     /\ Len(<<Mutation(type, st)>>) = 1
                     /\ <<Mutation(type, st)>>[1].st = st
    /\ \A muts \in Seq(Mutations) : \A mut : LET new == Append(muts, mut) IN
           new # << >> /\ new[Len(new)] = mut
    /\ \A type, st : Mutation(type, st).st = st
BY DEF Mutation

\* Every goroutine step that changes a state appends the event that says so.
LEMMA GoroutineFollows ==
    ASSUME TypeOK, StateFollows, ~StoreMayFail, NEW g \in Goroutines, GoroutineStep(g)
    PROVE  StateFollows'
<1> DEFINE s == goroutine[g].sb
<1>0. GoTypeOK /\ boxes \subseteq Sandboxes /\ state \in [Sandboxes -> SandboxState]
  BY TypeParts DEF RestTypeOK
<1>t. \A type \in {"SANDBOX_PREPARING", "SANDBOX_READY", "SANDBOX_FAILED",
                   "SANDBOX_STOPPED", "COMPANION_CONTAINER_READY",
                   "COMPANION_CONTAINER_FAILED"} :
          \A st \in {"PENDING", "READY", "FAILED", "STOPPED"} :
              /\ type \in EventType /\ st \in LiveState
              /\ <<Mutation(type, st)>> \in Seq(Mutations)
  BY MutationTypes DEF EventType, LiveState, SandboxState
<1>b. boxes' = boxes
  BY GoroutineStepAppends
<1>u. ASSUME UNCHANGED <<state, logVars>>
      PROVE  StateFollows'
  BY <1>b, <1>u DEF StateFollows, logVars
<1>r. ASSUME s \in boxes, NEW muts \in Seq(Mutations), NEW st, Recorded(s, muts, st)
      PROVE  StateFollows'
  BY <1>b, <1>r, RecordedFollows
<1>1. ASSUME NEW type \in {"SANDBOX_FAILED", "SANDBOX_STOPPED"},
             NEW st \in {"FAILED", "STOPPED"}, s \in boxes,
             Settle(s, <<Mutation(type, st)>>, st)
      PROVE  StateFollows'
  <2>1. Recorded(s, <<Mutation(type, st)>>, st)
    BY <1>1, LastMutation DEF Settle, Settled, SettleFails, Recorded
  <2> QED
    BY <1>t, <1>r, <1>1, <2>1
<1>2. ASSUME s \in boxes, NEW d \in Seq(Mutations),
             Append(d, Mutation("SANDBOX_READY", "READY")) \in Seq(Mutations),
             Settled(s, Append(d, Mutation("SANDBOX_READY", "READY")), "READY")
      PROVE  StateFollows'
  <2>1. Recorded(s, Append(d, Mutation("SANDBOX_READY", "READY")), "READY")
    BY <1>2, LastMutation DEF Settled, Recorded
  <2> QED
    BY <1>r, <1>2, <2>1
<1>d. \A t \in boxes :
          /\ \A d \in DrainedStatuses(t) :
                 /\ d \in Seq(Mutations)
                 /\ Append(d, Mutation("SANDBOX_READY", "READY")) \in Seq(Mutations)
          /\ \A d \in ResumeStatuses(t) :
                 /\ d \in Seq(Mutations)
                 /\ Append(d, Mutation("SANDBOX_READY", "READY")) \in Seq(Mutations)
  <2>1. \A t \in boxes : \A d \in DrainedStatuses(t) :
            d = << >> \/ d \in ResumeStatuses(t)
    BY DEF DrainedStatuses
  <2>2. << >> \in Seq(Mutations)
    OBVIOUS
  <2> QED
    BY <1>0, <1>t, <2>1, <2>2, StatusTypes
<1>3. CASE CreateStart(g)
  <2>1. CASE UNCHANGED logVars
    BY <1>u, <1>3, <2>1 DEF CreateStart, recordVars
  <2>2. CASE /\ s \in boxes /\ state[s] = "PENDING"
             /\ appendEventLocked(s, <<Mutation("SANDBOX_PREPARING", "PENDING")>>)
    <3>1. state' = [state EXCEPT ![s] = "PENDING"]
      BY <1>0, <1>3, <2>2 DEF CreateStart, recordVars
    <3>2. Recorded(s, <<Mutation("SANDBOX_PREPARING", "PENDING")>>, "PENDING")
      BY <2>2, <3>1, LastMutation DEF Recorded
    <3> QED
      BY <1>t, <1>r, <2>2, <3>2
  <2> QED
    BY <1>3, <2>1, <2>2 DEF CreateStart
<1>4. CASE CompanionStartup(g)
  <2>1. CASE UNCHANGED logVars
    BY <1>u, <1>4, <2>1 DEF CompanionStartup, recordVars
  <2>2. ASSUME s \in boxes, state[s] = "READY",
               NEW type \in {"COMPANION_CONTAINER_READY", "COMPANION_CONTAINER_FAILED"},
               appendEventLocked(s, <<Mutation(type, "READY")>>)
        PROVE  StateFollows'
    <3>1. state' = [state EXCEPT ![s] = "READY"]
      BY <1>0, <1>4, <2>2 DEF CompanionStartup, recordVars
    <3>2. Recorded(s, <<Mutation(type, "READY")>>, "READY")
      BY <2>2, <3>1, LastMutation DEF Recorded
    <3> QED
      BY <1>t, <1>r, <2>2, <3>2
  <2> QED
    BY <1>4, <2>1, <2>2 DEF CompanionStartup
<1>5. CASE CreateFinish(g)
  <2>1. CASE UNCHANGED <<state, logVars>>
    BY <1>u, <2>1
  <2>2. CASE s \in boxes /\ Settle(s, <<Mutation("SANDBOX_FAILED", "FAILED")>>, "FAILED")
    BY <1>1, <2>2
  <2>3. ASSUME s \in boxes, NEW d \in DrainedStatuses(s),
               Settled(s, Append(d, Mutation("SANDBOX_READY", "READY")), "READY")
        PROVE  StateFollows'
    BY <1>2, <1>d, <2>3
  <2> QED
    BY <1>5, <2>1, <2>2, <2>3 DEF CreateFinish, SettleFails
<1>6. CASE ResumeFinish(g)
  <2>1. CASE UNCHANGED <<state, logVars>>
    BY <1>u, <2>1
  <2>2. CASE s \in boxes /\ Settle(s, <<Mutation("SANDBOX_FAILED", "FAILED")>>, "FAILED")
    BY <1>1, <2>2
  <2>3. ASSUME s \in boxes, NEW d \in ResumeStatuses(s),
               Settled(s, Append(d, Mutation("SANDBOX_READY", "READY")), "READY")
        PROVE  StateFollows'
    BY <1>2, <1>d, <2>3
  <2> QED
    BY <1>6, <2>1, <2>2, <2>3 DEF ResumeFinish, Settle, SettleFails
<1>7. CASE StopFinish(g)
  BY <1>u, <1>1, <1>7 DEF StopFinish
<1>8. CASE DeleteFinish(g)
  <2>1. CASE UNCHANGED <<state, logVars>>
    BY <1>u, <2>1
  <2>2. CASE s \in boxes /\ Settle(s, <<Mutation("SANDBOX_FAILED", "FAILED")>>, "FAILED")
    BY <1>1, <2>2
  <2>3. CASE /\ s \in boxes /\ appendEventLocked(s, DeletedMutation)
             /\ state' = [state EXCEPT ![s] = "DELETED"]
    <3>1. Recorded(s, DeletedMutation, "DELETED")
      BY <2>3, LastMutation DEF Recorded, DeletedMutation
    <3> QED
      BY <1>r, <2>3, <3>1, MutationTypes
  <2> QED
    BY <1>8, <2>1, <2>2, <2>3 DEF DeleteFinish
<1>9. CASE \/ BackendCreate(g) \/ BackendStart(g) \/ ResumeStart(g) \/ BackendResume(g)
           \/ StopStart(g) \/ BackendStop(g) \/ StopFailedSandbox(g)
           \/ DeleteStart(g) \/ BackendDelete(g)
  <2>1. UNCHANGED <<state, logVars>>
    BY <1>9 DEF BackendCreate, BackendStart, ResumeStart, BackendResume, StopStart,
       BackendStop, StopFailedSandbox, DeleteStart, BackendDelete, recordVars
  <2> QED
    BY <1>u, <2>1
<1> QED
  BY <1>3, <1>4, <1>5, <1>6, <1>7, <1>8, <1>9 DEF GoroutineStep

\* Handlers and scans change a state only together with the log.
LEMMA RequestFollows ==
    ASSUME TypeOK, StateFollows, ~StoreMayFail, NEW T \in SUBSET Sandboxes,
           Request(T) \/ idleScanAndStop(T) \/ Cleanup(T) \/ DropPurged
    PROVE  StateFollows'
<1>0. boxes \subseteq Sandboxes /\ state \in [Sandboxes -> SandboxState]
      /\ events \in [Sandboxes -> Seq(Event)]
  BY DEF TypeOK
<1>t. \A type \in {"SANDBOX_ACCEPTED", "SANDBOX_STOP_REQUESTED", "SANDBOX_FAILED",
                   "SANDBOX_DELETE_REQUESTED", "COMPANION_CONTAINER_FAILED"} :
          \A st \in {"PENDING", "READY", "FAILED", "UNSPECIFIED", "DELETING"} :
              /\ Mutation(type, st) \in Mutations
              /\ <<Mutation(type, st)>> \in Seq(Mutations)
  BY MutationTypes DEF EventType, LiveState, SandboxState
<1>u. ASSUME boxes' \subseteq boxes, UNCHANGED <<state, events>>
      PROVE  StateFollows'
  BY <1>u DEF StateFollows
<1>1. ASSUME NEW s \in T, CreateSandbox(s)
      PROVE  StateFollows'
  <2> DEFINE muts == <<Mutation("SANDBOX_ACCEPTED", "PENDING")>>
  <2>1. /\ events' = [events EXCEPT ![s] = << >> \o Stamp(0, muts)]
        /\ state' = [state EXCEPT ![s] = "PENDING"] /\ boxes' = boxes \cup {s}
    BY <1>1 DEF CreateSandbox, RecordEvents
  <2>2. /\ muts \in Seq(Mutations) /\ muts # << >> /\ << >> \in Seq(Event) /\ 0 \in Nat
        /\ muts[Len(muts)].st = "PENDING"
    BY <1>t, LastMutation
  <2> HIDE DEF muts
  <2>3. PersistedState(<< >> \o Stamp(0, muts)) = "PENDING"
    BY <2>2, PersistedAppend
  <2> QED
    BY <1>0, <2>1, <2>3 DEF StateFollows
<1>2. ASSUME NEW s \in T, ResumeSandbox(s)
      PROVE  StateFollows'
  <2>1. Recorded(s, <<Mutation("SANDBOX_ACCEPTED", "PENDING")>>, "PENDING")
    BY <1>2, LastMutation DEF ResumeSandbox, Recorded
  <2> QED
    BY <1>t, <1>2, <2>1, RecordedFollows DEF ResumeSandbox, Known
<1>3. ASSUME NEW s \in T, ReportCompanionFailed(s)
      PROVE  StateFollows'
  <2>1. state' = [state EXCEPT ![s] = "READY"]
    BY <1>0, <1>3 DEF ReportCompanionFailed, recordVars
  <2>2. Recorded(s, <<Mutation("COMPANION_CONTAINER_FAILED", "READY")>>, "READY")
    BY <1>3, <2>1, LastMutation DEF ReportCompanionFailed, Recorded
  <2> QED
    BY <1>t, <1>3, <2>2, RecordedFollows DEF ReportCompanionFailed, Known
<1>4. ASSUME NEW s \in T, StopSandbox(s)
      PROVE  StateFollows'
  <2> DEFINE muts == <<Mutation("SANDBOX_STOP_REQUESTED", "UNSPECIFIED")>>
  <2>1. /\ events' = [events EXCEPT ![s] = events[s] \o Stamp(nextSequence[s], muts)]
        /\ UNCHANGED <<state, boxes>> /\ s \in boxes
    BY <1>4 DEF StopSandbox, Known, appendEventLocked, RecordEvents, recordVars
  <2>2. /\ muts \in Seq(Mutations) /\ nextSequence[s] \in Nat /\ events[s] \in Seq(Event)
        /\ \A i \in 1..Len(muts) : muts[i].st = "UNSPECIFIED"
    BY <1>t, <1>0, <2>1, LastMutation DEF TypeOK
  <2> HIDE DEF muts
  <2>3. PersistedState(events[s] \o Stamp(nextSequence[s], muts))
            = PersistedState(events[s])
    BY <2>2, PersistedAppend
  <2> QED
    BY <1>0, <2>1, <2>3 DEF StateFollows
<1>5. ASSUME NEW U \in SUBSET boxes, beginSandboxDeleteLocked(U), boxes' = boxes
      PROVE  StateFollows'
  <2> DEFINE mut == Mutation("SANDBOX_DELETE_REQUESTED", "DELETING")
  <2>1. /\ mut \in Mutations /\ mut.st = "DELETING" /\ appendEventToAll(U, mut)
        /\ \A s \in Sandboxes : state'[s] = IF s \in U THEN "DELETING" ELSE state[s]
    BY <1>t, <1>5, LastMutation DEF beginSandboxDeleteLocked
  <2> HIDE DEF mut
  <2> QED
    BY <1>5, <2>1, AllRecordedFollows
<1>6. ASSUME NEW s \in T, DeleteSandbox(s)
      PROVE  StateFollows'
  <2>1. s \in boxes /\ boxes' = boxes
    BY <1>6 DEF DeleteSandbox, Known
  <2>2. CASE UNCHANGED <<state, logVars>>
    BY <1>u, <2>1, <2>2 DEF logVars
  <2>3. CASE beginSandboxDeleteLocked({s})
    BY <1>5, <2>1, <2>3
  <2> QED
    BY <1>6, <2>2, <2>3 DEF DeleteSandbox
<1>7. CASE DeleteSandboxes(T)
  <2>1. /\ Deletable(T) \in SUBSET boxes /\ boxes' = boxes
        /\ beginSandboxDeleteLocked(Deletable(T))
    BY <1>7 DEF DeleteSandboxes, Deletable
  <2> QED
    BY <1>5, <2>1
<1>8. CASE cleanupStoppedSandboxes(T)
  BY <1>5, <1>8 DEF cleanupStoppedSandboxes
<1>9. CASE applyPrimaryFailed(T)
  <2> DEFINE mut == Mutation("SANDBOX_FAILED", "FAILED")
  <2>1. /\ mut \in Mutations /\ mut.st = "FAILED" /\ appendEventToAll(T, mut)
        /\ \A s \in Sandboxes : state'[s] = IF s \in T THEN "FAILED" ELSE state[s]
        /\ T \in SUBSET boxes /\ boxes' = boxes
    BY <1>t, <1>9, LastMutation DEF applyPrimaryFailed
  <2> HIDE DEF mut
  <2> QED
    BY <2>1, AllRecordedFollows
<1>10. CASE idleScanAndStop(T)
  <2> DEFINE mut == Mutation("SANDBOX_STOP_REQUESTED", "UNSPECIFIED")
  <2>1. /\ mut \in Mutations /\ mut.st = "UNSPECIFIED" /\ appendEventToAll(T, mut)
        /\ T \in SUBSET boxes /\ UNCHANGED <<boxes, state>>
    BY <1>t, <1>10, LastMutation DEF idleScanAndStop, recordVars
  <2> HIDE DEF mut
  <2> QED
    BY <2>1, AllRecordedFollows
<1>11. CASE Cleanup(T) \/ DropPurged
  <2>1. boxes' \subseteq boxes /\ UNCHANGED <<state, events>>
    BY <1>11 DEF Cleanup, DropPurged, recordVars, logVars
  <2> QED
    BY <1>u, <2>1
<1> QED
  BY <1>1, <1>2, <1>3, <1>4, <1>6, <1>7, <1>8, <1>9, <1>10, <1>11
  DEF Request, CreateSandboxFails

\* A restore takes its state from the log, and appends what it changes.
LEMMA RestoredFollows ==
    ASSUME TypeOK, LogInv, NEW s \in Sandboxes, Restore(s)
    PROVE  /\ state'[s] = PersistedState(events'[s])
           /\ boxes' = boxes \cup {s}
           /\ \A t \in Sandboxes \ {s} : state'[t] = state[t] /\ events'[t] = events[t]
<1>0. /\ state \in [Sandboxes -> SandboxState] /\ events \in [Sandboxes -> Seq(Event)]
  BY DEF TypeOK
<1> DEFINE loaded     == LoadEvents(bucket[s])
           persisted  == PersistedState(loaded)
           exists     == container[s] # "absent"
           reconciled == ReconciledState(persisted, exists)
           muts       == RestoreMutations(persisted, reconciled)
           n          == MaxSequence(bucket[s])
<1>1. Contiguous(bucket[s])
  BY DEF LogInv, LogDurable, Restore, Restorable
<1>2. /\ loaded \in Seq(Event) /\ n \in Nat /\ muts \in Seq(Mutations)
  BY <1>1, RestoreFinds
<1>3. /\ events' = [events EXCEPT ![s] = loaded \o Stamp(n, muts)]
      /\ state' = [state EXCEPT ![s] = reconciled]
      /\ boxes' = boxes \cup {s}
  BY DEF Restore, RecordEvents
<1>4. \/ muts = << >> /\ reconciled = persisted
      \/ muts # << >> /\ muts[Len(muts)].st = reconciled /\ reconciled # "UNSPECIFIED"
  <2> HIDE DEF persisted, exists
  <2>1. CASE reconciled = persisted
    BY <2>1 DEF RestoreMutations
  <2>2. CASE reconciled # persisted
    <3>1. reconciled \in {"FAILED", "DELETED"}
      BY <2>2 DEF ReconciledState
    <3>2. \/ reconciled = "DELETED" /\ muts = <<Mutation("SANDBOX_DELETED", "DELETED")>>
          \/ reconciled = "FAILED" /\ muts = <<Mutation("SANDBOX_FAILED", "FAILED")>>
      <4> HIDE DEF reconciled
      <4> QED
        BY <2>2, <3>1 DEF RestoreMutations, DeletedMutation
    <3> HIDE DEF reconciled, muts
    <3> QED
      BY <3>2, LastMutation
  <2> QED
    BY <2>1, <2>2
<1>5. persisted = PersistedState(loaded)
  OBVIOUS
<1> HIDE DEF loaded, persisted, reconciled, muts, n, exists
<1>6. PersistedState(loaded \o Stamp(n, muts)) = reconciled
  <2>1. CASE muts = << >> /\ reconciled = persisted
    <3>1. \A i \in 1..Len(muts) : muts[i].st = "UNSPECIFIED"
      BY <2>1
    <3> QED
      BY <1>2, <1>5, <2>1, <3>1, PersistedAppend
  <2>2. CASE muts # << >> /\ muts[Len(muts)].st = reconciled
             /\ reconciled # "UNSPECIFIED"
    BY <1>2, <2>2, PersistedAppend
  <2> QED
    BY <1>4, <2>1, <2>2
<1> QED
  BY <1>0, <1>3, <1>6

\* A crash forgets every state, and a restore finds it in the log.
LEMMA CrashRestartFollows ==
    ASSUME TypeOK, LogInv, StateFollows, CrashStep \/ RestartStep \/ DockerStep
    PROVE  StateFollows'
<1>0. /\ boxes \subseteq Sandboxes /\ state \in [Sandboxes -> SandboxState]
      /\ events \in [Sandboxes -> Seq(Event)]
  BY DEF TypeOK
<1>1. CASE CrashStep
  <2>1. boxes' = {}
    BY <1>1 DEF CrashStep, Crash, CrashInCreateSandbox, RestoreAborts,
       CrashInDeleteFinish, CrashBeforeReady, LoseMemory
  <2> QED
    BY <2>1 DEF StateFollows
<1>2. CASE Startup \/ Serve \/ DockerStep
  <2>1. UNCHANGED <<boxes, state, events>>
    BY <1>2 DEF Startup, Serve, DockerStep, ContainerExits, ContainerRestarts,
       ContainerRemoved, SetContainer, recordVars, logVars
  <2> QED
    BY <2>1 DEF StateFollows
<1>3. ASSUME NEW s \in Sandboxes, Restore(s)
      PROVE  StateFollows'
  BY <1>0, <1>3, RestoredFollows DEF StateFollows
<1> QED
  BY <1>1, <1>2, <1>3 DEF RestartStep

-----------------------------------------------------------------------------
(***************************************************************************)
(* The invariants of the records, together                                 *)
(***************************************************************************)
RecordInv == TypeOK /\ LogInv /\ RuntimeInv /\ TransientHasWorker /\ StateFollowsLog

\* An empty daemon has no record, no event and no worker.
LEMMA InitRecord == Init => RecordInv
<1> SUFFICES ASSUME Init
             PROVE  RecordInv
  OBVIOUS
<1>1. boxes = {} /\ \A g \in Goroutines : goroutine[g] = Idle
  BY DEF Init
<1>2. RuntimeInv /\ TransientHasWorker /\ StateFollowsLog
  BY <1>1 DEF RuntimeInv, GoServing, BackFromBackend, UsableHasRuntimeState,
     TransientHasWorker, DeletingHasWorker, PendingHasWorker, StateFollowsLog
<1> QED
  BY <1>2, InitInv DEF RecordInv

\* Every step of the daemon, its clients, Docker and crashes keeps them.
LEMMA NextRecord == RecordInv /\ [Next]_vars => RecordInv'
<1> SUFFICES ASSUME RecordInv, [Next]_vars
             PROVE  RecordInv'
  OBVIOUS
<1>0. /\ TypeOK /\ LogInv /\ RuntimeInv /\ TransientHasWorker
      /\ ~StoreMayFail => StateFollows
  BY DEF RecordInv, StateFollowsLog, StateFollows
<1>1. TypeOK' /\ LogInv'
  BY <1>0, NextInv
<1>2. ASSUME UNCHANGED <<boxes, state, runtimeState, events, goroutine, daemon, sandboxIDs>>
      PROVE  RuntimeInv' /\ TransientHasWorker' /\ (~StoreMayFail => StateFollows')
  <2>1. RuntimeInv'
    BY <1>0, <1>2 DEF RuntimeInv, GoServing, BackFromBackend, UsableHasRuntimeState
  <2>2. TransientHasWorker'
    BY <1>0, <1>2 DEF TransientHasWorker, DeletingHasWorker, PendingHasWorker, RunsFor
  <2>3. ~StoreMayFail => StateFollows'
    BY <1>0, <1>2 DEF StateFollows
  <2> QED
    BY <2>1, <2>2, <2>3
<1>3. ASSUME UNCHANGED vars
      PROVE  RuntimeInv' /\ TransientHasWorker' /\ (~StoreMayFail => StateFollows')
  BY <1>2, <1>3 DEF vars, recordVars, logVars, idVars
<1>4. ASSUME NEW s \in Sandboxes, dockerContainerEnsureRunning(s)
      PROVE  RuntimeInv' /\ TransientHasWorker' /\ (~StoreMayFail => StateFollows')
  BY <1>2, <1>4 DEF dockerContainerEnsureRunning, recordVars, logVars, idVars
<1>5. ASSUME NEW g \in Goroutines, GoroutineStep(g)
      PROVE  RuntimeInv' /\ TransientHasWorker' /\ (~StoreMayFail => StateFollows')
  BY <1>0, <1>5, GoroutineRuntime, GoroutineWorker, GoroutineFollows
<1>6. ASSUME NEW T \in SUBSET Sandboxes,
             Request(T) \/ idleScanAndStop(T) \/ Cleanup(T) \/ DropPurged
      PROVE  RuntimeInv' /\ TransientHasWorker' /\ (~StoreMayFail => StateFollows')
  BY <1>0, <1>6, RequestRuntime, RequestWorker, RequestFollows
<1>7. ASSUME CrashStep \/ RestartStep \/ DockerStep
      PROVE  RuntimeInv' /\ TransientHasWorker' /\ (~StoreMayFail => StateFollows')
  BY <1>0, <1>7, CrashRestartRuntime, CrashRestartWorker, CrashRestartFollows
<1>8. RuntimeInv' /\ TransientHasWorker' /\ (~StoreMayFail => StateFollows')
  BY <1>3, <1>4, <1>5, <1>6, <1>7 DEF Next
<1> QED
  BY <1>1, <1>8 DEF RecordInv, StateFollowsLog, StateFollows

\* The records' invariant holds throughout.
THEOREM RecordInvariant == Spec => []RecordInv
BY InitRecord, NextRecord, PTL DEF Spec

\* As long as the store works, a restart at any moment would recover the very
\* state GetSandbox answers with: no handler, scan or goroutine changes a
\* state without appending the event that carries it.
THEOREM StateFollowsLogCorrect == Spec => []StateFollowsLog
<1>1. RecordInv => StateFollowsLog
  BY DEF RecordInv
<1> QED
  BY <1>1, RecordInvariant, PTL

\* As long as the store works, a sandbox that is PENDING or DELETING has the
\* goroutine that takes it further, however many goroutines, repeated requests
\* and scans race for it and across crashes.
THEOREM TransientHasWorkerCorrect == Spec => []TransientHasWorker
<1>1. RecordInv => TransientHasWorker
  BY DEF RecordInv
<1> QED
  BY <1>1, RecordInvariant, PTL

\* A READY or STOPPED sandbox always has the runtime state that its next stop,
\* resume or exec needs, also when it was restored or when writes failed.
THEOREM UsableHasRuntimeStateCorrect == Spec => []UsableHasRuntimeState
<1>1. RecordInv => UsableHasRuntimeState
  BY DEF RecordInv, RuntimeInv
<1> QED
  BY <1>1, RecordInvariant, PTL

-----------------------------------------------------------------------------
(***************************************************************************)
(* How the stored histories change                                         *)
(***************************************************************************)
\* Every stored history is continued by stamped mutations, perhaps by none.
StoredGrows ==
    \A s \in Sandboxes :
        /\ Contiguous(StoredLog[s])
        /\ \E muts \in Seq(Mutations) :
               StoredLog'[s] = StoredLog[s] \o Stamp(Len(StoredLog[s]), muts)

\* No config is lost, and a new one belongs to an id that was not reserved.
GrowStep ==
    /\ StoredGrows
    /\ configs \subseteq configs' /\ (configs' \ configs) \cap sandboxIDs = {}
    /\ sandboxIDs \subseteq sandboxIDs'

\* A step that only fails, or dies, after reserving the id s.
ReserveOnly(s) ==
    /\ s \notin sandboxIDs /\ s \notin configs'
    /\ StoredLog' = StoredLog
    /\ sandboxIDs' = sandboxIDs \cup {s} /\ configs' = configs

\* The stored histories are contiguous; an id without a config has none.
LEMMA StoredContiguous ==
    ASSUME TypeOK, LogInv
    PROVE  /\ \A s \in Sandboxes : Contiguous(StoredLog[s])
           /\ \A s \in Sandboxes : StoredLog[s] = IF s \in configs THEN bucket[s] ELSE << >>
           /\ \A s \in Sandboxes : StoredLog'[s] = IF s \in configs' THEN bucket'[s] ELSE << >>
<1>1. Contiguous(<< >>)
  BY DEF Contiguous
<1>2. \A s \in configs : Contiguous(bucket[s])
  BY DEF LogInv, LogDurable
<1> QED
  BY <1>1, <1>2 DEF StoredLog

\* Appending no mutation changes nothing.
LEMMA EmptyAppend ==
    ASSUME NEW log, Contiguous(log)
    PROVE  /\ << >> \in Seq(Mutations)
           /\ log \o Stamp(Len(log), << >>) = log
<1>1. << >> \in Seq(Mutations) /\ log \in Seq(Event) /\ Len(log) \in Nat
  BY DEF Contiguous
<1>2. Stamp(Len(log), << >>) \in Seq(Event) /\ Len(Stamp(Len(log), << >>)) = 0
  BY <1>1, StampProperties
<1>3. Stamp(Len(log), << >>) = << >>
  BY <1>2, EmptySeq
<1> QED
  BY <1>1, <1>3

\* A step that leaves store and ids alone is a GrowStep.
LEMMA SameGrows ==
    ASSUME TypeOK, LogInv, UNCHANGED <<bucket, configs>>, sandboxIDs \subseteq sandboxIDs'
    PROVE  GrowStep /\ StoredLog' = StoredLog
<1>1. StoredLog' = StoredLog
  BY DEF StoredLog
<1>2. StoredGrows
  BY <1>1, StoredContiguous, EmptyAppend DEF StoredGrows
<1> QED
  BY <1>1, <1>2 DEF GrowStep

\* One bucket written at the sequence after its last: its history grows.
LEMMA PutGrows ==
    ASSUME TypeOK, LogInv, NEW s \in Sandboxes, NEW n \in Nat, NEW muts \in Seq(Mutations),
           s \in configs => n = Len(bucket[s]),
           bucket' = [bucket EXCEPT ![s] = PutEvents(@, Stamp(n, muts))],
           UNCHANGED <<configs, sandboxIDs>>
    PROVE  /\ GrowStep
           /\ s \in configs => bucket'[s] = bucket[s] \o Stamp(Len(bucket[s]), muts)
<1>1. /\ bucket = [t \in Sandboxes |-> bucket[t]]
      /\ bucket'[s] = PutEvents(bucket[s], Stamp(n, muts))
      /\ \A t \in Sandboxes \ {s} : bucket'[t] = bucket[t]
  BY DEF TypeOK
<1>2. ASSUME s \in configs
      PROVE  bucket'[s] = bucket[s] \o Stamp(Len(bucket[s]), muts)
  <2>1. Contiguous(bucket[s])
    BY <1>2 DEF LogInv, LogDurable
  <2>2. bucket'[s] = PutEvents(bucket[s], Stamp(Len(bucket[s]), muts))
    BY <1>1, <1>2
  <2> QED
    BY <2>1, <2>2, PutEventsAppends
<1>3. ASSUME NEW t \in Sandboxes
      PROVE  \E ms \in Seq(Mutations) :
                 StoredLog'[t] = StoredLog[t] \o Stamp(Len(StoredLog[t]), ms)
  <2>1. CASE t = s /\ t \in configs
    BY <1>2, <2>1, StoredContiguous
  <2>2. CASE t # s \/ t \notin configs
    <3>1. StoredLog'[t] = StoredLog[t]
      BY <1>1, <2>2, StoredContiguous
    <3> QED
      BY <3>1, StoredContiguous, EmptyAppend
  <2> QED
    BY <2>1, <2>2
<1>4. StoredGrows
  BY <1>3, StoredContiguous DEF StoredGrows
<1> QED
  BY <1>2, <1>4 DEF GrowStep

\* appendEventLocked, of a known sandbox or of one restored, is such a write.
LEMMA AppendLockedGrows ==
    ASSUME TypeOK, LogInv, NEW s \in boxes, NEW muts \in Seq(Mutations),
           appendEventLocked(s, muts), UNCHANGED <<configs, sandboxIDs>>
    PROVE  /\ GrowStep
           /\ s \in configs => bucket'[s] = bucket[s] \o Stamp(Len(bucket[s]), muts)
<1>1. s \in Sandboxes /\ nextSequence[s] \in Nat
  BY DEF TypeOK
<1>2. s \in configs => nextSequence[s] = Len(bucket[s])
  BY DEF LogInv, LogDurable
<1>3. bucket' = [bucket EXCEPT ![s] = PutEvents(@, Stamp(nextSequence[s], muts))]
  BY DEF appendEventLocked, RecordEvents
<1> QED
  BY <1>1, <1>2, <1>3, PutGrows

\* A loop of appends under one lock continues each of the histories.
LEMMA AppendToAllGrows ==
    ASSUME TypeOK, LogInv, NEW T \in SUBSET boxes, NEW mut \in Mutations,
           appendEventToAll(T, mut), UNCHANGED <<configs, sandboxIDs>>
    PROVE  GrowStep
<1>1. \A s \in Sandboxes : bucket'[s] =
          IF s \in T THEN PutEvents(bucket[s], Stamp(nextSequence[s], <<mut>>))
                     ELSE bucket[s]
  BY DEF appendEventToAll
<1>2. <<mut>> \in Seq(Mutations)
  OBVIOUS
<1>3. ASSUME NEW t \in Sandboxes
      PROVE  \E ms \in Seq(Mutations) :
                 StoredLog'[t] = StoredLog[t] \o Stamp(Len(StoredLog[t]), ms)
  <2>1. CASE t \in T /\ t \in configs
    <3>1. Contiguous(bucket[t]) /\ nextSequence[t] = Len(bucket[t])
      BY <2>1 DEF LogInv, LogDurable
    <3>2. bucket'[t] = PutEvents(bucket[t], Stamp(Len(bucket[t]), <<mut>>))
      BY <1>1, <2>1, <3>1
    <3>3. bucket'[t] = bucket[t] \o Stamp(Len(bucket[t]), <<mut>>)
      BY <1>2, <3>1, <3>2, PutEventsAppends
    <3> QED
      BY <1>2, <2>1, <3>3, StoredContiguous
  <2>2. CASE t \notin T \/ t \notin configs
    <3>1. StoredLog'[t] = StoredLog[t]
      BY <1>1, <2>2, StoredContiguous
    <3> QED
      BY <3>1, StoredContiguous, EmptyAppend
  <2> QED
    BY <2>1, <2>2
<1>4. StoredGrows
  BY <1>3, StoredContiguous DEF StoredGrows
<1> QED
  BY <1>4 DEF GrowStep

\* Appends of any kind only continue histories.
LEMMA AppendsGrow ==
    ASSUME TypeOK, LogInv, AppendsSome, UNCHANGED <<configs, sandboxIDs>>
    PROVE  GrowStep
BY AppendLockedGrows, AppendToAllGrows, SameGrows DEF AppendsSome, AppendsOne, logVars

\* A created sandbox's history starts with its first event.
LEMMA CreateGrows ==
    ASSUME TypeOK, LogInv, NEW s \in Sandboxes, CreateSandbox(s)
    PROVE  GrowStep /\ sandboxIDs' \ configs' = sandboxIDs \ configs
<1> DEFINE muts == <<Mutation("SANDBOX_ACCEPTED", "PENDING")>>
<1>1. muts \in Seq(Mutations)
  BY MutationTypes DEF EventType, LiveState, SandboxState
<1>2. /\ bucket[s] = << >> /\ s \notin sandboxIDs
      /\ configs' = configs \cup {s} /\ sandboxIDs' = sandboxIDs \cup {s}
      /\ bucket' = [bucket EXCEPT ![s] = PutEvents(@, Stamp(0, muts))]
      /\ bucket = [t \in Sandboxes |-> bucket[t]]
  BY DEF CreateSandbox, LogInv, IDsReserved, RecordEvents, TypeOK
<1> HIDE DEF muts
<1>3. Contiguous(<< >>) /\ Len(<< >>) = 0
  BY DEF Contiguous
<1>4. StoredLog[s] = << >>
  BY <1>2, StoredContiguous
<1>5. bucket'[s] = PutEvents(<< >>, Stamp(Len(<< >>), muts))
  BY <1>2, <1>3
<1>6. StoredLog'[s] = StoredLog[s] \o Stamp(Len(StoredLog[s]), muts)
  BY <1>1, <1>2, <1>3, <1>4, <1>5, PutEventsAppends, StoredContiguous
<1>7. \A t \in Sandboxes \ {s} : StoredLog'[t] = StoredLog[t]
  BY <1>2, StoredContiguous
<1>8. StoredGrows
  BY <1>1, <1>6, <1>7, StoredContiguous, EmptyAppend DEF StoredGrows
<1> QED
  BY <1>2, <1>8 DEF GrowStep

\* A create that fails or dies leaves at most a reserved id or a config
\* without events.
LEMMA ReserveGrows ==
    ASSUME TypeOK, LogInv, NEW s \in Sandboxes, s \notin sandboxIDs, bucket' = bucket,
           sandboxIDs' \in {sandboxIDs, sandboxIDs \cup {s}},
           configs' \in {configs, configs \cup {s}}
    PROVE  /\ GrowStep
           /\ sandboxIDs' \ configs' = sandboxIDs \ configs \/ ReserveOnly(s)
<1>1. bucket[s] = << >>
  BY DEF LogInv, IDsReserved
<1>2. StoredLog' = StoredLog
  BY <1>1 DEF StoredLog
<1>3. StoredGrows
  BY <1>2, StoredContiguous, EmptyAppend DEF StoredGrows
<1> QED
  BY <1>2, <1>3 DEF GrowStep, ReserveOnly

\* A restored sandbox's history goes on after its last event.
LEMMA RestoreGrows ==
    ASSUME TypeOK, LogInv, NEW s \in Restorable, NEW muts \in Seq(Mutations),
           bucket' = [bucket EXCEPT ![s] =
               PutEvents(@, Stamp(MaxSequence(bucket[s]), muts))],
           UNCHANGED <<configs, sandboxIDs>>
    PROVE  /\ GrowStep
           /\ bucket'[s] = bucket[s] \o Stamp(Len(bucket[s]), muts)
<1>1. s \in configs /\ s \in Sandboxes
  BY DEF Restorable, TypeOK
<1>2. Contiguous(bucket[s])
  BY <1>1 DEF LogInv, LogDurable
<1>3. MaxSequence(bucket[s]) = Len(bucket[s]) /\ Len(bucket[s]) \in Nat
  BY <1>2, MaxSequenceIsLen DEF Contiguous
<1> QED
  BY <1>1, <1>3, PutGrows

-----------------------------------------------------------------------------
(***************************************************************************)
(* Marked only after the deletion is on record                             *)
(***************************************************************************)
\* What an append keeps of a history and what it adds to it.
LEMMA GrownHistory ==
    ASSUME NEW log, Contiguous(log), NEW muts \in Seq(Mutations)
    PROVE  LET new == log \o Stamp(Len(log), muts)
           IN  /\ HasDeleted(log) => HasDeleted(new)
               /\ DeletedTyped(log) => DeletedTyped(new)
               /\ muts = DeletedMutation => HasDeleted(new)
<1> DEFINE a   == Len(log)
           b   == Len(muts)
           new == log \o Stamp(Len(log), muts)
<1>1. /\ a \in Nat /\ b \in Nat /\ log \in Seq(Event) /\ DOMAIN log = 1..a
      /\ DOMAIN new = 1..(a + b)
      /\ \A i \in 1..a : new[i] = log[i]
      /\ \A i \in (a + 1)..(a + b) : new[i] = Stamp(a, muts)[i - a]
  <2>1. log \in Seq(Event) /\ a \in Nat /\ b \in Nat
    BY DEF Contiguous
  <2>2. Stamp(a, muts) \in Seq(Event) /\ Len(Stamp(a, muts)) = b
    BY <2>1, StampProperties
  <2> HIDE DEF b
  <2>3. new \in Seq(Event) /\ Len(new) = a + b
    BY <2>1, <2>2
  <2>4. DOMAIN new = 1..(a + b) /\ DOMAIN log = 1..a
    BY <2>1, <2>3
  <2> QED
    BY <2>1, <2>2, <2>4
<1>2. \A i \in (a + 1)..(a + b) : /\ i - a \in 1..b
                                  /\ new[i].st = muts[i - a].st
                                  /\ new[i].type = muts[i - a].type
  BY <1>1 DEF Stamp
<1>3. \A i \in 1..b : muts[i].st = "DELETED" => muts[i].type = "SANDBOX_DELETED"
  <2>1. \A i \in 1..b : muts[i] \in Mutations
    OBVIOUS
  <2> QED
    BY <2>1 DEF Mutations
<1>4. \A i \in 1..(a + b) : i \in 1..a \/ i \in (a + 1)..(a + b)
  BY <1>1
<1>5. muts = DeletedMutation => b = 1 /\ muts[1].type = "SANDBOX_DELETED"
  BY DEF DeletedMutation, Mutation
<1> HIDE DEF a, b, new
<1>6. 1..a \subseteq 1..(a + b)
  BY <1>1
<1>7. HasDeleted(log) => HasDeleted(new)
  BY <1>1, <1>6 DEF HasDeleted
<1>8. DeletedTyped(log) => DeletedTyped(new)
  BY <1>1, <1>2, <1>3, <1>4 DEF DeletedTyped
<1>9. ASSUME muts = DeletedMutation
      PROVE  HasDeleted(new)
  <2>1. a + 1 \in (a + 1)..(a + b) /\ a + 1 \in DOMAIN new /\ (a + 1) - a = 1
    BY <1>1, <1>5, <1>9
  <2>2. new[a + 1].type = "SANDBOX_DELETED"
    BY <1>2, <1>5, <1>9, <2>1
  <2> QED
    BY <2>1, <2>2 DEF HasDeleted
<1> QED
  BY <1>7, <1>8, <1>9 DEF new

\* What grows keeps the invariant, if what the step marks, and what it calls
\* DELETED, has the event.
LEMMA MarkGrows ==
    ASSUME TypeOK, LogInv, MarkInv, GrowStep, TypeOK',
           deletedAt' \subseteq sandboxIDs',
           \A s \in (deletedAt' \ deletedAt) \cap configs' : HasDeleted(bucket'[s]),
           \A s \in boxes' \cap configs' : state'[s] = "DELETED" =>
               \/ s \in boxes \cap configs /\ state[s] = "DELETED"
               \/ HasDeleted(bucket'[s])
    PROVE  MarkInv'
<1>1. configs' \subseteq Sandboxes /\ configs \subseteq configs' /\ deletedAt \subseteq sandboxIDs
      /\ (configs' \ configs) \cap sandboxIDs = {}
  BY DEF TypeOK, GrowStep, MarkInv, DeletedOnRecord
<1>2. ASSUME NEW s \in configs'
      PROVE  /\ s \in configs /\ HasDeleted(bucket[s]) => HasDeleted(bucket'[s])
             /\ DeletedTyped(bucket'[s])
  <2>1. PICK muts \in Seq(Mutations) :
            StoredLog'[s] = StoredLog[s] \o Stamp(Len(StoredLog[s]), muts)
    BY <1>1 DEF GrowStep, StoredGrows
  <2>2. /\ Contiguous(StoredLog[s]) /\ StoredLog'[s] = bucket'[s]
        /\ StoredLog[s] = IF s \in configs THEN bucket[s] ELSE << >>
    BY <1>1, StoredContiguous
  <2>3. DeletedTyped(StoredLog[s])
    <3>1. DeletedTyped(<< >>)
      BY DEF DeletedTyped
    <3> QED
      BY <2>2, <3>1 DEF MarkInv, DeletedOnRecord
  <2>4. /\ HasDeleted(StoredLog[s]) => HasDeleted(bucket'[s])
        /\ DeletedTyped(bucket'[s])
    BY <2>1, <2>2, <2>3, GrownHistory
  <2> QED
    BY <2>2, <2>4
<1>3. \A s \in deletedAt' \cap configs' : HasDeleted(bucket'[s])
  <2>1. ASSUME NEW s \in deletedAt' \cap configs'
        PROVE  HasDeleted(bucket'[s])
    <3>1. CASE s \in deletedAt
      <4>1. s \in configs /\ HasDeleted(bucket[s])
        BY <1>1, <3>1 DEF MarkInv, MarkedOnlyAfterDeleted, HasDeleted
      <4> QED
        BY <1>2, <4>1
    <3> QED
      BY <3>1
  <2> QED
    BY <2>1
<1>4. \A s \in boxes' \cap configs' : state'[s] = "DELETED" => HasDeleted(bucket'[s])
  BY <1>2 DEF MarkInv, DeletedOnRecord
<1> QED
  BY <1>2, <1>3, <1>4 DEF MarkInv, DeletedOnRecord, MarkedOnlyAfterDeleted, HasDeleted,
           DeletedTyped

\* DeleteFinish appends SANDBOX_DELETED before it marks the sandbox, and no
\* other goroutine says DELETED.
LEMMA GoroutineMark ==
    ASSUME TypeOK, LogInv, MarkInv, NEW g \in Goroutines, GoroutineStep(g)
    PROVE  MarkInv'
<1> DEFINE s == goroutine[g].sb
<1>0. /\ TypeOK' /\ boxes \subseteq Sandboxes /\ state \in [Sandboxes -> SandboxState]
      /\ boxes \subseteq sandboxIDs /\ deletedAt \subseteq sandboxIDs
  BY GoroutineStepType DEF TypeOK, LogInv, IDsReserved, MarkInv, DeletedOnRecord
<1>1. GrowStep /\ UNCHANGED <<boxes, configs, sandboxIDs>>
  BY GoroutineStepAppends, AppendsGrow DEF AppendsSome
<1>2. \/ /\ deletedAt' = deletedAt
         /\ \/ state' = state
            \/ \E st : state' = [state EXCEPT ![s] = st] /\ st # "DELETED"
      \/ /\ s \in boxes /\ appendEventLocked(s, DeletedMutation)
         /\ state' = [state EXCEPT ![s] = "DELETED"] /\ deletedAt' = deletedAt \cup {s}
  <2>1. CASE CreateFinish(g)
    BY <2>1 DEF CreateFinish, Settle, Settled, SettleFails
  <2>2. CASE ResumeFinish(g)
    BY <2>2 DEF ResumeFinish, Settle, Settled, SettleFails
  <2>3. CASE StopFinish(g)
    BY <2>3 DEF StopFinish, Settle, Settled, SettleFails
  <2>4. CASE DeleteFinish(g)
    BY <2>4 DEF DeleteFinish, Settle, Settled, SettleFails
  <2>5. CASE ~(CreateFinish(g) \/ ResumeFinish(g) \/ StopFinish(g) \/ DeleteFinish(g))
    BY <2>5 DEF GoroutineStep, CreateStart, BackendCreate, BackendStart,
       CompanionStartup, ResumeStart, BackendResume, StopStart, BackendStop,
       StopFailedSandbox, DeleteStart, BackendDelete, recordVars
  <2> QED
    BY <2>1, <2>2, <2>3, <2>4, <2>5
<1>3. CASE /\ deletedAt' = deletedAt
           /\ \/ state' = state
              \/ \E st : state' = [state EXCEPT ![s] = st] /\ st # "DELETED"
  <2>1. \A t \in boxes : state'[t] = "DELETED" => state[t] = "DELETED"
    BY <1>0, <1>3
  <2> QED
    BY <1>0, <1>1, <1>3, <2>1, MarkGrows
<1>4. CASE /\ s \in boxes /\ appendEventLocked(s, DeletedMutation)
           /\ state' = [state EXCEPT ![s] = "DELETED"] /\ deletedAt' = deletedAt \cup {s}
  <2>1. s \in configs => HasDeleted(bucket'[s])
    <3> SUFFICES ASSUME s \in configs
                 PROVE  HasDeleted(bucket'[s])
      OBVIOUS
    <3>1. bucket'[s] = bucket[s] \o Stamp(Len(bucket[s]), DeletedMutation)
      BY <1>1, <1>4, AppendLockedGrows, MutationTypes
    <3>2. Contiguous(bucket[s]) /\ DeletedMutation \in Seq(Mutations)
      BY MutationTypes DEF LogInv, LogDurable
    <3> QED
      BY <3>1, <3>2, GrownHistory
  <2>2. \A t \in boxes \ {s} : state'[t] = state[t]
    BY <1>0, <1>4
  <2> QED
    BY <1>0, <1>1, <1>4, <2>1, <2>2, MarkGrows
<1> QED
  BY <1>2, <1>3, <1>4

\* Requests and scans: only the repair in DeleteSandbox marks, and it finds
\* the record DELETED; only store.Cleanup takes histories away, whole.
LEMMA RequestMark ==
    ASSUME TypeOK, LogInv, MarkInv, NEW T \in SUBSET Sandboxes,
           Request(T) \/ idleScanAndStop(T) \/ Cleanup(T) \/ DropPurged
    PROVE  MarkInv'
<1>0. /\ TypeOK' /\ boxes \subseteq Sandboxes /\ state \in [Sandboxes -> SandboxState]
      /\ boxes \subseteq sandboxIDs /\ deletedAt \subseteq sandboxIDs
  BY RequestType DEF TypeOK, LogInv, IDsReserved, MarkInv, DeletedOnRecord
<1>1. ASSUME NEW s \in T, CreateSandbox(s)
      PROVE  MarkInv'
  <2>1. /\ GrowStep /\ deletedAt' = deletedAt /\ sandboxIDs' = sandboxIDs \cup {s}
        /\ s \notin boxes /\ boxes' = boxes \cup {s} /\ configs' = configs \cup {s}
        /\ s \notin sandboxIDs /\ state' = [state EXCEPT ![s] = "PENDING"]
    BY <1>0, <1>1, CreateGrows DEF CreateSandbox
  <2>2. \A t \in boxes' \cap configs' : state'[t] = "DELETED" =>
            t \in boxes \cap configs /\ state[t] = "DELETED"
    BY <1>0, <2>1
  <2> QED
    BY <1>0, <2>1, <2>2, MarkGrows
<1>2. ASSUME NEW s \in T, CreateSandboxFails(s)
      PROVE  MarkInv'
  <2>1. GrowStep
    BY <1>2, ReserveGrows DEF CreateSandboxFails, logVars
  <2>2. /\ deletedAt' = deletedAt /\ UNCHANGED <<boxes, state>> /\ s \notin boxes
        /\ sandboxIDs \subseteq sandboxIDs' /\ configs' \in {configs, configs \cup {s}}
    BY <1>0, <1>2 DEF CreateSandboxFails, recordVars
  <2> QED
    BY <1>0, <2>1, <2>2, MarkGrows
<1>3. ASSUME AppendsSome, UNCHANGED <<boxes, configs, sandboxIDs>>,
             \A t \in boxes : state'[t] = "DELETED" => state[t] = "DELETED",
             \A t \in deletedAt' \ deletedAt :
                 t \in boxes /\ state[t] = "DELETED" /\ bucket' = bucket
      PROVE  MarkInv'
  <2>1. GrowStep
    BY <1>3, AppendsGrow
  <2>2. \A t \in (deletedAt' \ deletedAt) \cap configs' : HasDeleted(bucket'[t])
    BY <1>3 DEF MarkInv, DeletedOnRecord
  <2> QED
    BY <1>0, <1>3, <2>1, <2>2, MarkGrows
<1>4. ASSUME Request(T) \/ idleScanAndStop(T),
             ~\E s \in T : CreateSandbox(s) \/ CreateSandboxFails(s)
      PROVE  MarkInv'
  <2>1. AppendsSome /\ UNCHANGED <<boxes, configs, sandboxIDs>>
    BY <1>4, RequestAppends
  <2>2. /\ \A t \in boxes : state'[t] = "DELETED" => state[t] = "DELETED"
        /\ \A t \in deletedAt' \ deletedAt :
               t \in boxes /\ state[t] = "DELETED" /\ bucket' = bucket
    <3>1. CASE idleScanAndStop(T)
      BY <3>1 DEF idleScanAndStop, recordVars
    <3>2. CASE DeleteSandboxes(T)
      BY <1>0, <3>2 DEF DeleteSandboxes, beginSandboxDeleteLocked
    <3>3. CASE cleanupStoppedSandboxes(T)
      BY <1>0, <3>3 DEF cleanupStoppedSandboxes, beginSandboxDeleteLocked
    <3>4. CASE applyPrimaryFailed(T)
      BY <1>0, <3>4 DEF applyPrimaryFailed
    <3>5. ASSUME NEW s \in T, ResumeSandbox(s)
          PROVE  <2>2!1 /\ <2>2!2
      BY <1>0, <3>5 DEF ResumeSandbox
    <3>6. ASSUME NEW s \in T, StopSandbox(s) \/ ReportCompanionFailed(s)
          PROVE  <2>2!1 /\ <2>2!2
      BY <3>6 DEF StopSandbox, ReportCompanionFailed, recordVars
    <3>7. ASSUME NEW s \in T, DeleteSandbox(s)
          PROVE  <2>2!1 /\ <2>2!2
      BY <1>0, <3>7 DEF DeleteSandbox, Known, beginSandboxDeleteLocked, logVars
    <3> QED
      BY <1>4, <3>1, <3>2, <3>3, <3>4, <3>5, <3>6, <3>7 DEF Request
  <2> QED
    BY <1>3, <2>1, <2>2
<1>5. CASE Cleanup(T)
  <2>1. /\ \A s \in Sandboxes : bucket'[s] = IF s \in T THEN << >> ELSE bucket[s]
        /\ configs' = configs \ T /\ deletedAt' = deletedAt \ T
        /\ UNCHANGED <<boxes, state, sandboxIDs>>
    BY <1>5 DEF Cleanup, recordVars
  <2>2. configs \subseteq Sandboxes
    BY DEF TypeOK
  <2>3. \A s \in configs' : s \in configs /\ bucket'[s] = bucket[s]
    BY <2>1, <2>2
  <2> QED
    BY <2>1, <2>3 DEF MarkInv, DeletedOnRecord, MarkedOnlyAfterDeleted, HasDeleted,
           DeletedTyped
<1>6. CASE DropPurged
  <2>1. /\ boxes' \subseteq boxes
        /\ UNCHANGED <<state, bucket, configs, sandboxIDs, deletedAt>>
    BY <1>6 DEF DropPurged, recordVars, logVars, idVars
  <2> QED
    BY <2>1 DEF MarkInv, DeletedOnRecord, MarkedOnlyAfterDeleted, HasDeleted,
           DeletedTyped
<1> QED
  BY <1>1, <1>2, <1>4, <1>5, <1>6

\* A state that a log carries is the state of one of its events.
LEMMA PersistedWitness ==
    ASSUME NEW log \in Seq(Event), PersistedState(log) # "UNSPECIFIED"
    PROVE  \E k \in DOMAIN log : log[k].st = PersistedState(log)
<1> DEFINE C == {i \in 1..Len(log) : log[i].st # "UNSPECIFIED"}
<1>1. Len(log) \in Nat /\ DOMAIN log = 1..Len(log)
  OBVIOUS
<1>2. C # {}
  BY PersistedStateOf
<1>3. PICK m \in C : \A j \in C : j <= m
  BY <1>1, <1>2, LastPosition
<1>4. \A j \in (m + 1)..Len(log) : log[j].st = "UNSPECIFIED"
  BY <1>1, <1>3
<1>5. m \in 1..Len(log) /\ log[m].st # "UNSPECIFIED"
  BY <1>3
<1>6. PersistedState(log) = log[m].st
  BY <1>4, <1>5, PersistedStateOf
<1> QED
  BY <1>1, <1>5, <1>6

\* A restore calls a sandbox DELETED because its log says so, or after it has
\* appended the event; the crash in between leaves the mark out, never the
\* event.
LEMMA CrashRestartMark ==
    ASSUME TypeOK, LogInv, MarkInv, CrashStep \/ RestartStep \/ DockerStep
    PROVE  MarkInv'
<1>0. /\ TypeOK' /\ boxes \subseteq Sandboxes /\ state \in [Sandboxes -> SandboxState]
      /\ GoTypeOK /\ LogTypeOK /\ DeletedMutation \in Seq(Mutations)
      /\ boxes \subseteq sandboxIDs /\ deletedAt \subseteq sandboxIDs
  BY CrashRestartType, TypeParts, MutationTypes
  DEF TypeOK, LogInv, IDsReserved, MarkInv, DeletedOnRecord
<1>1. ASSUME GrowStep, boxes' = {}, deletedAt' = deletedAt, sandboxIDs \subseteq sandboxIDs'
      PROVE  MarkInv'
  BY <1>0, <1>1, MarkGrows
<1>2. CASE Crash
  BY <1>1, <1>2, SameGrows DEF Crash, LoseMemory, idVars
<1>3. ASSUME NEW s \in Sandboxes, CrashInCreateSandbox(s)
      PROVE  MarkInv'
  BY <1>1, <1>3, ReserveGrows DEF CrashInCreateSandbox, LoseMemory
<1>4. ASSUME NEW s \in Sandboxes, RestoreAborts(s)
      PROVE  MarkInv'
  <2>1. /\ s \in Restorable
        /\ bucket' = [bucket EXCEPT ![s] =
               PutEvents(@, Stamp(MaxSequence(bucket[s]), DeletedMutation))]
        /\ boxes' = {} /\ UNCHANGED <<configs, sandboxIDs, deletedAt>>
    BY <1>4 DEF RestoreAborts, LoseMemory, idVars
  <2> QED
    BY <1>0, <1>1, <2>1, RestoreGrows
<1>5. ASSUME NEW g \in Goroutines, CrashInDeleteFinish(g) \/ CrashBeforeReady(g)
      PROVE  MarkInv'
  <2> DEFINE s == goroutine[g].sb
  <2>1. s \in Sandboxes /\ nextSequence[s] \in Nat /\ s \in boxes
    BY <1>0, <1>5, GoroutineSandbox DEF CrashInDeleteFinish, CrashBeforeReady, LogTypeOK
  <2>2. s \in configs => nextSequence[s] = Len(bucket[s])
    BY <2>1 DEF LogInv, LogDurable
  <2>3. \A d \in ResumeStatuses(s) : d \in Seq(Mutations)
    BY <2>1, StatusTypes DEF EventType, LiveState, SandboxState
  <2>4. /\ \E d \in Seq(Mutations) :
               bucket' = [bucket EXCEPT ![s] = PutEvents(@, Stamp(nextSequence[s], d))]
        /\ boxes' = {} /\ UNCHANGED <<configs, sandboxIDs, deletedAt>>
    BY <1>0, <1>5, <2>3 DEF CrashInDeleteFinish, CrashBeforeReady, LoseMemory, idVars
  <2> QED
    BY <1>1, <2>1, <2>2, <2>4, PutGrows
<1>6. CASE Startup \/ Serve \/ DockerStep
  <2>1. UNCHANGED <<boxes, state, bucket, configs, sandboxIDs, deletedAt>>
    BY <1>6 DEF Startup, Serve, DockerStep, ContainerExits, ContainerRestarts,
       ContainerRemoved, SetContainer, recordVars, logVars, idVars
  <2> QED
    BY <2>1 DEF MarkInv, DeletedOnRecord, MarkedOnlyAfterDeleted, HasDeleted,
           DeletedTyped
<1>7. ASSUME NEW s \in Sandboxes, Restore(s)
      PROVE  MarkInv'
  <2> DEFINE persisted  == PersistedState(LoadEvents(bucket[s]))
             exists     == container[s] # "absent"
             reconciled == ReconciledState(persisted, exists)
             muts       == RestoreMutations(persisted, reconciled)
  <2>1. /\ s \in Restorable /\ Contiguous(bucket[s]) /\ s \in configs
        /\ s \in sandboxIDs
    BY <1>7 DEF Restore, Restorable, LogInv, LogDurable, IDsReserved
  <2>2. /\ muts \in Seq(Mutations) /\ LoadEvents(bucket[s]) = bucket[s]
        /\ bucket[s] \in Seq(Event)
    BY <2>1, RestoreFinds
  <2>3. /\ bucket' = [bucket EXCEPT ![s] =
               PutEvents(@, Stamp(MaxSequence(bucket[s]), muts))]
        /\ state' = [state EXCEPT ![s] = reconciled]
        /\ deletedAt' = IF persisted = "DELETING" THEN deletedAt \cup {s} ELSE deletedAt
        /\ boxes' = boxes \cup {s} /\ UNCHANGED <<configs, sandboxIDs>>
    BY <1>7 DEF Restore, RecordEvents, idVars
  <2>4. GrowStep /\ bucket'[s] = bucket[s] \o Stamp(Len(bucket[s]), muts)
    BY <2>1, <2>2, <2>3, RestoreGrows
  <2>5. persisted = "DELETING" => muts = DeletedMutation /\ reconciled = "DELETED"
    BY DEF RestoreMutations, ReconciledState
  <2>6. reconciled = "DELETED" => persisted \in {"DELETING", "DELETED"}
    BY DEF ReconciledState
  <2>7. persisted = "DELETED" => HasDeleted(bucket[s])
    <3>1. persisted = "DELETED" => \E k \in DOMAIN bucket[s] : bucket[s][k].st = "DELETED"
      BY <2>2, PersistedWitness
    <3> QED
      BY <2>1, <3>1 DEF MarkInv, DeletedOnRecord, HasDeleted, DeletedTyped
  <2> HIDE DEF persisted, reconciled, muts
  <2>8. reconciled = "DELETED" => HasDeleted(bucket'[s])
    BY <2>1, <2>2, <2>4, <2>5, <2>6, <2>7, GrownHistory
  <2>9. \A t \in deletedAt' \ deletedAt : HasDeleted(bucket'[t])
    BY <2>3, <2>5, <2>8
  <2>10. \A t \in boxes' : state'[t] = "DELETED" =>
             (t \in boxes /\ state[t] = "DELETED") \/ HasDeleted(bucket'[t])
    BY <1>0, <2>3, <2>8
  <2>11. deletedAt' \subseteq sandboxIDs'
    BY <1>0, <2>1, <2>3
  <2> QED
    BY <1>0, <2>3, <2>4, <2>9, <2>10, <2>11, MarkGrows
<1> QED
  BY <1>2, <1>3, <1>4, <1>5, <1>6, <1>7 DEF CrashStep, RestartStep

\* Every step keeps the marks behind the deletions.
LEMMA NextMark == TypeOK /\ LogInv /\ MarkInv /\ [Next]_vars => MarkInv'
<1> SUFFICES ASSUME TypeOK, LogInv, MarkInv, [Next]_vars
             PROVE  MarkInv'
  OBVIOUS
<1>1. ASSUME UNCHANGED <<boxes, state, bucket, configs, sandboxIDs, deletedAt>>
      PROVE  MarkInv'
  BY <1>1 DEF MarkInv, DeletedOnRecord, MarkedOnlyAfterDeleted, HasDeleted,
           DeletedTyped
<1>2. CASE UNCHANGED vars
  BY <1>1, <1>2 DEF vars, recordVars, logVars, idVars
<1>3. ASSUME NEW s \in Sandboxes, dockerContainerEnsureRunning(s)
      PROVE  MarkInv'
  BY <1>1, <1>3 DEF dockerContainerEnsureRunning, recordVars, logVars, idVars
<1> QED
  BY <1>2, <1>3, GoroutineMark, RequestMark, CrashRestartMark DEF Next

\* At the start nothing is stored, marked or deleted.
LEMMA InitMark == Init => MarkInv
BY DEF Init, MarkInv, DeletedOnRecord, MarkedOnlyAfterDeleted

\* Histories, marks and types together.
LEMMA MarkInvariant == Spec => [](TypeOK /\ LogInv /\ MarkInv)
<1>1. TypeOK /\ LogInv /\ MarkInv /\ [Next]_vars => (TypeOK /\ LogInv /\ MarkInv)'
  BY NextInv, NextMark
<1> QED
  BY InitInv, InitMark, <1>1, PTL DEF Spec

\* MarkDeleted is reached only after SANDBOX_DELETED is stored, in
\* completeSandboxDelete, in the repair of DeleteSandbox and in a restore
\* alike, so that cleanupExpiredEvents never removes the history of a sandbox
\* that was not deleted.
THEOREM MarkedOnlyAfterDeletedCorrect == Spec => []MarkedOnlyAfterDeleted
<1>1. MarkInv => MarkedOnlyAfterDeleted
  BY DEF MarkInv
<1> QED
  BY <1>1, MarkInvariant, PTL

-----------------------------------------------------------------------------
(***************************************************************************)
(* The store implements the event log                                      *)
(***************************************************************************)
\* Nothing is retired and nothing comes back from retirement.
SameRetired == sandboxIDs' \ configs' = sandboxIDs \ configs

\* Appending stamped mutations continues a history.
LEMMA AppendContinues ==
    ASSUME NEW log, Contiguous(log), NEW muts \in Seq(Mutations)
    PROVE  Log!Continues(log, log \o Stamp(Len(log), muts))
<1> DEFINE new == log \o Stamp(Len(log), muts)
<1>1. log \in Seq(Event) /\ Len(log) \in Nat /\ Len(muts) \in Nat
  BY DEF Contiguous
<1>2. /\ Stamp(Len(log), muts) \in Seq(Event)
      /\ Len(Stamp(Len(log), muts)) = Len(muts)
      /\ \A i \in 1..Len(muts) : Stamp(Len(log), muts)[i].seq = Len(log) + i
  BY <1>1, StampProperties DEF Stamp
<1>3. /\ new \in Seq(Event) /\ Len(new) = Len(log) + Len(muts)
      /\ \A i \in 1..Len(log) : new[i] = log[i]
      /\ \A i \in (Len(log) + 1)..(Len(log) + Len(muts)) :
             new[i] = Stamp(Len(log), muts)[i - Len(log)]
  BY <1>1, <1>2
<1>4. DOMAIN new = 1..(Len(log) + Len(muts)) /\ DOMAIN log = 1..Len(log)
  BY <1>1, <1>3
<1> HIDE DEF new
<1>5. \A i \in DOMAIN new \ DOMAIN log : new[i].seq = i
  <2>1. ASSUME NEW i \in DOMAIN new \ DOMAIN log
        PROVE  new[i].seq = i
    <3>1. i - Len(log) \in 1..Len(muts) /\ Len(log) + (i - Len(log)) = i
          /\ i \in (Len(log) + 1)..(Len(log) + Len(muts))
      BY <1>1, <1>4
    <3> QED
      BY <1>2, <1>3, <3>1
  <2> QED
    BY <2>1
<1>6. Len(log) <= Len(new)
  BY <1>1, <1>3
<1> QED
  BY <1>3, <1>4, <1>5, <1>6 DEF Log!Continues, new

\* A step that continues stored histories and retires no id publishes.
LEMMA GrowPublishes ==
    ASSUME TypeOK, LogInv, GrowStep, SameRetired
    PROVE  Log!Publish
<1>1. ASSUME NEW s \in Sandboxes
      PROVE  \/ StoredLog'[s] = StoredLog[s]
             \/ s \notin sandboxIDs \ configs /\ Log!Continues(StoredLog[s], StoredLog'[s])
  <2>1. CASE s \in sandboxIDs \ configs
    <3>1. s \notin configs'
      BY <2>1 DEF GrowStep
    <3> QED
      BY <2>1, <3>1, StoredContiguous
  <2>2. CASE s \notin sandboxIDs \ configs
    <3>1. Contiguous(StoredLog[s])
      BY StoredContiguous
    <3>2. PICK muts \in Seq(Mutations) :
              StoredLog'[s] = StoredLog[s] \o Stamp(Len(StoredLog[s]), muts)
      BY DEF GrowStep, StoredGrows
    <3> QED
      BY <2>2, <3>1, <3>2, AppendContinues
  <2> QED
    BY <2>1, <2>2
<1>2. StoredLog' = [s \in Sandboxes |-> StoredLog'[s]]
  BY DEF StoredLog
<1> QED
  BY <1>1, <1>2 DEF Log!Publish, SameRetired

\* A create that dies after the reservation retires the id it reserved.
LEMMA ReserveForgets ==
    ASSUME TypeOK, NEW s \in Sandboxes, ReserveOnly(s)
    PROVE  Log!LogNext
<1>1. /\ StoredLog[s] = << >> /\ StoredLog' = StoredLog
      /\ sandboxIDs' \ configs' = (sandboxIDs \ configs) \cup {s}
  BY DEF ReserveOnly, StoredLog
<1>2. StoredLog' = [t \in Sandboxes |-> IF t \in {s} THEN << >> ELSE StoredLog[t]]
  BY <1>1 DEF StoredLog
<1>3. Log!Forget({s})
  BY <1>1, <1>2 DEF Log!Forget
<1>4. {s} \in SUBSET Sandboxes
  OBVIOUS
<1> QED
  BY <1>3, <1>4 DEF Log!LogNext

\* store.Cleanup forgets whole histories that contain the deletion, and keeps
\* the ids reserved.
LEMMA CleanupForgets ==
    ASSUME TypeOK, LogInv, MarkInv, NEW T \in SUBSET Sandboxes, Cleanup(T)
    PROVE  Log!Forget(T)
<1>1. /\ T \subseteq deletedAt /\ deletedAt \subseteq sandboxIDs
      /\ \A s \in Sandboxes : bucket'[s] = IF s \in T THEN << >> ELSE bucket[s]
      /\ configs' = configs \ T /\ sandboxIDs' = sandboxIDs
  BY DEF Cleanup, MarkInv, DeletedOnRecord
<1>2. \A s \in T : \/ StoredLog[s] = << >>
                   \/ \E i \in DOMAIN StoredLog[s] : StoredLog[s][i].type = "SANDBOX_DELETED"
  BY <1>1, StoredContiguous DEF MarkInv, MarkedOnlyAfterDeleted
<1>3. StoredLog' = [s \in Sandboxes |-> IF s \in T THEN << >> ELSE StoredLog[s]]
  BY <1>1 DEF StoredLog
<1>4. sandboxIDs' \ configs' = (sandboxIDs \ configs) \cup T
  BY <1>1
<1> QED
  BY <1>2, <1>3, <1>4 DEF Log!Forget

\* Every step of the daemon continues histories, dies after a reservation or
\* cleans up.
LEMMA NextStored ==
    ASSUME TypeOK, LogInv, MarkInv, Next
    PROVE  \/ GrowStep /\ SameRetired
           \/ \E s \in Sandboxes : ReserveOnly(s)
           \/ \E T \in SUBSET Sandboxes : Cleanup(T)
<1>0. LogTypeOK /\ GoTypeOK /\ DeletedMutation \in Seq(Mutations)
  BY TypeParts, MutationTypes
<1>1. ASSUME AppendsSome, UNCHANGED <<configs, sandboxIDs>>
      PROVE  GrowStep /\ SameRetired
  BY <1>1, AppendsGrow DEF SameRetired
<1>2. ASSUME UNCHANGED <<bucket, configs, sandboxIDs>>
      PROVE  GrowStep /\ SameRetired
  BY <1>2, SameGrows DEF SameRetired
<1>3. ASSUME NEW g \in Goroutines, GoroutineStep(g)
      PROVE  GrowStep /\ SameRetired
  BY <1>1, <1>3, GoroutineStepAppends DEF AppendsSome
<1>4. ASSUME NEW s \in Sandboxes, CreateSandbox(s)
      PROVE  GrowStep /\ SameRetired
  BY <1>4, CreateGrows DEF SameRetired
<1>5. ASSUME NEW s \in Sandboxes, CreateSandboxFails(s) \/ CrashInCreateSandbox(s)
      PROVE  (GrowStep /\ SameRetired) \/ ReserveOnly(s)
  BY <1>5, ReserveGrows
  DEF CreateSandboxFails, CrashInCreateSandbox, SameRetired, logVars
<1>6. ASSUME NEW T \in SUBSET Sandboxes, Request(T) \/ idleScanAndStop(T),
             ~\E s \in T : CreateSandbox(s) \/ CreateSandboxFails(s)
      PROVE  GrowStep /\ SameRetired
  BY <1>1, <1>6, RequestAppends
<1>7. ASSUME \/ DropPurged \/ Crash \/ Startup \/ Serve \/ DockerStep
             \/ \E s \in Sandboxes : dockerContainerEnsureRunning(s)
      PROVE  GrowStep /\ SameRetired
  <2>1. UNCHANGED <<bucket, configs, sandboxIDs>>
    BY <1>7 DEF DropPurged, Crash, Startup, Serve, DockerStep, ContainerExits,
       ContainerRestarts, ContainerRemoved, SetContainer,
       dockerContainerEnsureRunning, logVars, idVars
  <2> QED
    BY <1>2, <2>1
<1>8. ASSUME NEW g \in Goroutines, CrashInDeleteFinish(g) \/ CrashBeforeReady(g)
      PROVE  GrowStep /\ SameRetired
  <2> DEFINE s == goroutine[g].sb
  <2>1. s \in Sandboxes /\ nextSequence[s] \in Nat /\ s \in boxes
    BY <1>0, <1>8, GoroutineSandbox DEF CrashInDeleteFinish, CrashBeforeReady, LogTypeOK
  <2>2. s \in configs => nextSequence[s] = Len(bucket[s])
    BY <2>1 DEF LogInv, LogDurable
  <2>3. \A d \in ResumeStatuses(s) : d \in Seq(Mutations)
    BY <2>1, StatusTypes DEF EventType, LiveState, SandboxState
  <2>4. /\ \E d \in Seq(Mutations) :
               bucket' = [bucket EXCEPT ![s] = PutEvents(@, Stamp(nextSequence[s], d))]
        /\ UNCHANGED <<configs, sandboxIDs>>
    BY <1>0, <1>8, <2>3 DEF CrashInDeleteFinish, CrashBeforeReady, idVars
  <2> QED
    BY <2>1, <2>2, <2>4, PutGrows DEF SameRetired
<1>9. ASSUME NEW s \in Sandboxes, RestoreAborts(s)
      PROVE  GrowStep /\ SameRetired
  <2>1. /\ s \in Restorable
        /\ bucket' = [bucket EXCEPT ![s] =
               PutEvents(@, Stamp(MaxSequence(bucket[s]), DeletedMutation))]
        /\ UNCHANGED <<configs, sandboxIDs>>
    BY <1>9 DEF RestoreAborts, idVars
  <2> QED
    BY <1>0, <2>1, RestoreGrows DEF SameRetired
<1>10. ASSUME NEW s \in Sandboxes, Restore(s)
       PROVE  GrowStep /\ SameRetired
  <2> DEFINE persisted  == PersistedState(LoadEvents(bucket[s]))
             reconciled == ReconciledState(persisted, container[s] # "absent")
             muts       == RestoreMutations(persisted, reconciled)
  <2>1. /\ s \in Restorable /\ Contiguous(bucket[s]) /\ s \in configs
    BY <1>10 DEF Restore, Restorable, LogInv, LogDurable
  <2>2. muts \in Seq(Mutations)
    BY <2>1, RestoreFinds
  <2>3. /\ bucket' = [bucket EXCEPT ![s] =
               PutEvents(@, Stamp(MaxSequence(bucket[s]), muts))]
        /\ UNCHANGED <<configs, sandboxIDs>>
    BY <1>10 DEF Restore, RecordEvents, idVars
  <2> QED
    BY <2>1, <2>2, <2>3, RestoreGrows DEF SameRetired
<1>11. ASSUME NEW T \in SUBSET Sandboxes, Request(T) \/ idleScanAndStop(T)
       PROVE  \/ GrowStep /\ SameRetired
              \/ \E s \in Sandboxes : ReserveOnly(s)
  <2>1. T \subseteq Sandboxes
    OBVIOUS
  <2> QED
    BY <1>4, <1>5, <1>6, <1>11, <2>1
<1> QED
  BY <1>3, <1>5, <1>7, <1>8, <1>9, <1>10, <1>11 DEF Next, CrashStep, RestartStep

\* Every behaviour of the daemon is one of the event log: what a subscriber
\* has read of a sandbox is never rewritten, renumbered or dropped from the
\* middle, whatever goroutines race, whichever write fails and wherever the
\* process dies; it is forgotten only as a whole and only after the deletion;
\* and an id that is done with never gets a second history.
THEOREM ImplementsEventLogCorrect == Spec => ImplementsEventLog
<1>1. Init => Log!LogInit
  BY DEF Init, Log!LogInit, StoredLog
<1>2. TypeOK /\ LogInv /\ MarkInv /\ [Next]_vars => [Log!LogNext]_(Log!logvars)
  <2> SUFFICES ASSUME TypeOK, LogInv, MarkInv, [Next]_vars
               PROVE  [Log!LogNext]_(Log!logvars)
    OBVIOUS
  <2>1. CASE UNCHANGED vars
    BY <2>1 DEF vars, logVars, idVars, StoredLog, Log!logvars
  <2>2. CASE Next
    <3>1. CASE GrowStep /\ SameRetired
      BY <3>1, GrowPublishes DEF Log!LogNext
    <3>2. CASE \E s \in Sandboxes : ReserveOnly(s)
      BY <3>2, ReserveForgets
    <3>3. CASE \E T \in SUBSET Sandboxes : Cleanup(T)
      BY <3>3, CleanupForgets DEF Log!LogNext
    <3> QED
      BY <2>2, <3>1, <3>2, <3>3, NextStored
  <2> QED
    BY <2>1, <2>2
<1> QED
  BY <1>1, <1>2, MarkInvariant, PTL DEF Spec, ImplementsEventLog, Log!LogSpec

=============================================================================
