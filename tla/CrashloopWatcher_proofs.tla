------------------------ MODULE CrashloopWatcher_proofs ------------------------
(***************************************************************************)
(* Proofs about CrashloopWatcher, for any companions and any values of the *)
(* tick, the guard and the window: what is down long enough is reported,   *)
(* and what was up long enough is not failed within the window after.      *)
(***************************************************************************)
EXTENDS CrashloopWatcher, TLAPS

-----------------------------------------------------------------------------
(***************************************************************************)
(* The inductive invariant                                                 *)
(***************************************************************************)
Down == {"exited", "stopped"}

\* Since when c has been up, or down, while the sandbox was READY.
From(c) == IF since[c] < readySince THEN readySince ELSE since[c]

\* The window of a container that is down is open from the first inspection
\* on, at most a Tick after it went down, and ends with a report.
DownTimers(c) ==
    container[c] \in Down =>
        /\ notRunningSince[c] # Nil => notRunningSince[c] <= From(c) + Tick
        /\ lastInspected > From(c) => notRunningSince[c] # Nil
        /\ (/\ lastInspected > From(c)
            /\ lastInspected - notRunningSince[c] > Window) => failedAt[c] >= since[c]

\* A window still open while a container is up is being measured against the
\* guard, from the first inspection on.
UpTimers(c) ==
    (container[c] \in Up /\ notRunningSince[c] # Nil) =>
        /\ runningSince[c] # Nil => runningSince[c] <= From(c) + Tick
        /\ lastInspected > From(c) => /\ runningSince[c] # Nil
                                      /\ lastInspected - runningSince[c] < Guard

\* An open window was opened after the last long run.
StableFirst(c) ==
    (stableAt[c] # Nil /\ notRunningSince[c] # Nil) => stableAt[c] <= notRunningSince[c]

\* The ticker is never late by more than a Tick.
InspectedLately == now - lastInspected <= Tick

TimersInv ==
    /\ InspectedLately
    /\ sandbox = "READY" => \A c \in Containers : DownTimers(c) /\ UpTimers(c)
    /\ \A c \in Containers : StableFirst(c)

WatcherInv == TypeOK /\ TimersInv

USE TimesAssumption DEF Nil

-----------------------------------------------------------------------------
(***************************************************************************)
(* evaluateContainer and what a reconcile does                             *)
(***************************************************************************)
\* What evaluateContainer decides, by the state it sees the container in.
LEMMA DecisionMade ==
    ASSUME TypeOK, NEW c \in Containers
    PROVE  /\ Decision(c).nrs \in {Nil} \cup 0..now
           /\ Decision(c).rs \in {Nil} \cup 0..now
           /\ container[c] = "absent" =>
                  /\ Decision(c).nrs = notRunningSince[c]
                  /\ Decision(c).fail
           /\ container[c] = "paused" =>
                  /\ Decision(c).nrs = Nil
                  /\ ~Decision(c).fail
           /\ container[c] = "running" =>
                  /\ \/ Decision(c).nrs = Nil
                     \/ /\ Decision(c).nrs = notRunningSince[c]
                        /\ Decision(c).rs = IF runningSince[c] = Nil
                                            THEN now ELSE runningSince[c]
                        /\ now - Decision(c).rs < Guard
                  /\ ~Decision(c).fail
           /\ container[c] \in Down =>
                  /\ Decision(c).nrs = IF notRunningSince[c] = Nil
                                       THEN now ELSE notRunningSince[c]
                  /\ Decision(c).fail <=> now - Decision(c).nrs > Window
<1> DEFINE n == notRunningSince[c]
           r == runningSince[c]
<1>1. /\ container[c] \in ContainerState
      /\ n \in {Nil} \cup 0..now
      /\ r \in {Nil} \cup 0..now
      /\ now \in Nat
  BY DEF TypeOK
<1>2. Decision(c) = Evaluate(container[c], n, r, now)
  BY DEF Decision
<1> HIDE DEF n, r
<1>3. CASE container[c] = "absent"
  <2>1. Decision(c) = [nrs |-> n, rs |-> r, fail |-> TRUE]
    BY <1>2, <1>3 DEF Evaluate
  <2> QED
    BY <2>1, <1>1, <1>3 DEF Down, n
<1>4. CASE container[c] = "paused"
  <2>1. Decision(c) = [nrs |-> Nil, rs |-> Nil, fail |-> FALSE]
    BY <1>2, <1>4 DEF Evaluate
  <2> QED
    BY <2>1, <1>1, <1>4 DEF Down
<1>5. CASE container[c] = "running"
  <2> DEFINE q == IF r = Nil THEN now ELSE r
  <2>1. q \in 0..now
    BY <1>1
  <2> HIDE DEF q
  <2>2. Decision(c) = IF now - q >= Guard
                      THEN [nrs |-> Nil, rs |-> Nil, fail |-> FALSE]
                      ELSE [nrs |-> n, rs |-> q, fail |-> FALSE]
    BY <1>2, <1>5 DEF Evaluate, q
  <2>3. CASE now - q >= Guard
    <3>1. Decision(c) = [nrs |-> Nil, rs |-> Nil, fail |-> FALSE]
      BY <2>2, <2>3
    <3> QED
      BY <3>1, <1>5 DEF Down
  <2>4. CASE ~(now - q >= Guard)
    <3>1. Decision(c) = [nrs |-> n, rs |-> q, fail |-> FALSE]
      BY <2>2, <2>4
    <3>2. now - q < Guard
      BY <2>1, <2>4, <1>1
    <3> QED
      BY <3>1, <3>2, <2>1, <1>1, <1>5 DEF Down, q, n, r
  <2> QED
    BY <2>3, <2>4
<1>6. CASE container[c] \in Down
  <2> DEFINE p == IF n = Nil THEN now ELSE n
  <2>1. p \in 0..now
    BY <1>1
  <2>2. Decision(c) = [nrs |-> p, rs |-> Nil, fail |-> now - p > Window]
    BY <1>2, <1>6 DEF Evaluate, Down
  <2>3. p = IF notRunningSince[c] = Nil THEN now ELSE notRunningSince[c]
    BY DEF n
  <2> HIDE DEF p
  <2>4. /\ Decision(c).nrs = p
        /\ Decision(c).rs = Nil
        /\ Decision(c).fail = (now - p > Window)
    BY <2>2
  <2>5. container[c] \notin {"absent", "paused", "running"}
    BY <1>6 DEF Down
  <2> QED
    BY <2>1, <2>3, <2>4, <2>5
<1> QED
  BY <1>1, <1>3, <1>4, <1>5, <1>6 DEF ContainerState, Down

\* What a step leaves alone in which the watcher only looks at containers.
Looks == UNCHANGED <<now, container, since, readySince, stableAt>>

\* Looking at some containers keeps the types.
LEMMA EvaluateAllTypes ==
    ASSUME TypeOK, NEW C \in SUBSET Containers, EvaluateAll(C), Looks
    PROVE  /\ notRunningSince' \in [Containers -> {Nil} \cup 0..now']
           /\ runningSince' \in [Containers -> {Nil} \cup 0..now']
           /\ failedAt' \in [Containers -> {Nil} \cup 0..now']
           /\ sandbox' \in {"READY", "STOPPED", "FAILED"}
<1>1. /\ now' = now
      /\ now \in Nat
      /\ notRunningSince \in [Containers -> {Nil} \cup 0..now]
      /\ runningSince \in [Containers -> {Nil} \cup 0..now]
      /\ failedAt \in [Containers -> {Nil} \cup 0..now]
      /\ sandbox \in {"READY", "STOPPED", "FAILED"}
  BY DEF Looks, TypeOK
<1>2. \A c \in Containers : /\ Decision(c).nrs \in {Nil} \cup 0..now
                            /\ Decision(c).rs \in {Nil} \cup 0..now
  BY DecisionMade
<1>3. notRunningSince' \in [Containers -> {Nil} \cup 0..now']
  BY <1>1, <1>2 DEF EvaluateAll
<1>4. runningSince' \in [Containers -> {Nil} \cup 0..now']
  BY <1>1, <1>2 DEF EvaluateAll
<1>5. failedAt' \in [Containers -> {Nil} \cup 0..now']
  BY <1>1 DEF EvaluateAll
<1>6. sandbox' \in {"READY", "STOPPED", "FAILED"}
  BY <1>1 DEF EvaluateAll
<1> QED
  BY <1>3, <1>4, <1>5, <1>6

\* When the whole of an inspection succeeds every container was looked at,
\* unless the primary failed.
Inspected(C) ==
    \/ lastInspected' = lastInspected
    \/ lastInspected' = now /\ (C = Containers \/ sandbox' = "FAILED")

\* Looking at some containers of a READY sandbox keeps what the timers say.
LEMMA EvaluateAllTimers ==
    ASSUME WatcherInv, sandbox = "READY", NEW C \in SUBSET Containers,
           EvaluateAll(C), Looks, Inspected(C)
    PROVE  /\ InspectedLately'
           /\ sandbox' = "READY" =>
                  \A c \in Containers : DownTimers(c)' /\ UpTimers(c)'
           /\ \A c \in Containers : StableFirst(c)'
<1>1. TypeOK /\ InspectedLately
  BY DEF WatcherInv, TimersInv
<1>2. /\ now' = now
      /\ now \in Nat
      /\ lastInspected \in 0..now
      /\ readySince \in 0..now
  BY <1>1 DEF Looks, TypeOK
<1>3. InspectedLately'
  BY <1>1, <1>2 DEF Inspected, InspectedLately
<1> SUFFICES ASSUME NEW c \in Containers
             PROVE  /\ sandbox' = "READY" => DownTimers(c)' /\ UpTimers(c)'
                    /\ StableFirst(c)'
  BY <1>3
<1> DEFINE n == notRunningSince[c]
           r == runningSince[c]
           nn == notRunningSince'[c]
           rr == runningSince'[c]
           f == failedAt[c]
           ff == failedAt'[c]
           s == stableAt[c]
           from == From(c)
<1>4. /\ n \in {Nil} \cup 0..now
      /\ r \in {Nil} \cup 0..now
      /\ f \in {Nil} \cup 0..now
      /\ s \in {Nil} \cup 0..now
      /\ since[c] \in 0..now
      /\ container[c] \in ContainerState
  BY <1>1 DEF TypeOK
<1>5. from \in 0..now
  BY <1>2, <1>4 DEF From
<1>6. /\ container'[c] = container[c]
      /\ since'[c] = since[c]
      /\ stableAt'[c] = s
      /\ From(c)' = from
  BY DEF Looks, From
<1>7. DownTimers(c) /\ UpTimers(c) /\ StableFirst(c)
  BY DEF WatcherInv, TimersInv
<1>8. /\ nn = IF c \in C THEN Decision(c).nrs ELSE n
      /\ rr = IF c \in C THEN Decision(c).rs ELSE r
      /\ ff = IF c \in C /\ Decision(c).fail THEN now ELSE f
  BY DEF EvaluateAll
<1>9. /\ container[c] \in Down =>
             /\ n # Nil => n <= from + Tick
             /\ lastInspected > from => n # Nil
             /\ (lastInspected > from /\ lastInspected - n > Window) => f >= since[c]
      /\ (container[c] \in Up /\ n # Nil) =>
             /\ r # Nil => r <= from + Tick
             /\ lastInspected > from => r # Nil /\ lastInspected - r < Guard
      /\ (s # Nil /\ n # Nil) => s <= n
  BY <1>7 DEF DownTimers, UpTimers, StableFirst
<1>10. now - lastInspected <= Tick
  BY <1>1 DEF InspectedLately
<1>11. /\ container[c] \in Down =>
             /\ Decision(c).nrs = IF n = Nil THEN now ELSE n
             /\ Decision(c).fail <=> now - Decision(c).nrs > Window
       /\ container[c] = "absent" => Decision(c).nrs = n
       /\ container[c] = "paused" => Decision(c).nrs = Nil
       /\ container[c] = "running" =>
             \/ Decision(c).nrs = Nil
             \/ /\ Decision(c).nrs = n
                /\ Decision(c).rs = IF r = Nil THEN now ELSE r
                /\ now - Decision(c).rs < Guard
  BY <1>1, DecisionMade
<1>12. lastInspected' = lastInspected
       \/ (lastInspected' = now /\ (c \in C \/ sandbox' = "FAILED"))
  BY DEF Inspected
<1> DEFINE l == lastInspected'
           d == Decision(c)
<1>13. l \in 0..now
  BY <1>12, <1>2
<1> HIDE DEF n, r, nn, rr, f, ff, s, from, l, d
<1>14. ASSUME container[c] \in Down, sandbox' = "READY"
       PROVE  /\ nn # Nil => nn <= from + Tick
              /\ l > from => nn # Nil
              /\ (l > from /\ l - nn > Window) => ff >= since[c]
  <2>1. CASE c \notin C
    <3>1. nn = n /\ ff = f /\ l = lastInspected
      BY <2>1, <1>8, <1>12, <1>14 DEF l, n, f
    <3> QED
      BY <3>1, <1>9, <1>14
  <2>2. CASE c \in C
    <3>1. nn = IF n = Nil THEN now ELSE n
      BY <2>2, <1>8, <1>11, <1>14
    <3>2. ff = IF now - nn > Window THEN now ELSE f
      BY <2>2, <1>8, <1>11, <1>14
    <3>3. l = lastInspected \/ l = now
      BY <1>12 DEF l
    <3> QED
      BY <3>1, <3>2, <3>3, <1>2, <1>4, <1>5, <1>9, <1>10, <1>14
  <2> QED
    BY <2>1, <2>2
<1>15. ASSUME container[c] \in Up, nn # Nil, sandbox' = "READY"
       PROVE  /\ rr # Nil => rr <= from + Tick
              /\ l > from => rr # Nil /\ l - rr < Guard
  <2>1. CASE c \notin C
    <3>1. nn = n /\ rr = r /\ l = lastInspected
      BY <2>1, <1>8, <1>12, <1>15 DEF l, n, r
    <3> QED
      BY <3>1, <1>9, <1>15
  <2>2. CASE c \in C
    <3>1. container[c] = "running"
      BY <2>2, <1>8, <1>11, <1>15 DEF Up
    <3>2. /\ nn = n
          /\ rr = IF r = Nil THEN now ELSE r
          /\ now - rr < Guard
      BY <3>1, <2>2, <1>8, <1>11, <1>15
    <3> QED
      BY <3>2, <1>2, <1>4, <1>5, <1>9, <1>10, <1>13, <1>15
  <2> QED
    BY <2>1, <2>2
<1>16. (s # Nil /\ nn # Nil) => s <= nn
  <2>1. nn = n \/ nn = Nil \/ nn = now
    BY <1>4, <1>8, <1>11 DEF ContainerState, Down
  <2> QED
    BY <2>1, <1>2, <1>4, <1>9
<1>17. sandbox' = "READY" => DownTimers(c)'
  BY <1>6, <1>14 DEF DownTimers, nn, ff, l
<1>18. sandbox' = "READY" => UpTimers(c)'
  BY <1>6, <1>15 DEF UpTimers, nn, rr, l
<1>19. StableFirst(c)'
  BY <1>6, <1>16 DEF StableFirst, nn
<1> QED
  BY <1>17, <1>18, <1>19

\* What reconcileAll does to a READY sandbox is to look at containers.
LEMMA ReconcileLooks ==
    ASSUME TypeOK, reconcileAll, sandbox = "READY"
    PROVE  \E C \in SUBSET Containers : EvaluateAll(C) /\ Inspected(C)
<1>1. PICK errs \in SUBSET Containers :
          /\ lastInspected' = IF errs = {} THEN now ELSE lastInspected
          /\ EvaluateAll(IF "primary" \in errs THEN {}
                         ELSE IF Decision("primary").fail THEN {"primary"}
                         ELSE Containers \ errs)
  BY DEF reconcileAll
<1> DEFINE C == IF "primary" \in errs THEN {}
                ELSE IF Decision("primary").fail THEN {"primary"}
                ELSE Containers \ errs
<1>2. C \in SUBSET Containers
  BY DEF Containers
<1>3. EvaluateAll(C)
  BY <1>1
<1>4. CASE errs # {}
  <2>1. Inspected(C)
    BY <1>1, <1>4 DEF Inspected
  <2> QED
    BY <1>2, <1>3, <2>1
<1>5. CASE errs = {} /\ Decision("primary").fail
  <2>1. C = {"primary"}
    BY <1>5
  <2>2. sandbox' = "FAILED"
    BY <1>3, <1>5, <2>1 DEF EvaluateAll
  <2>3. Inspected(C)
    BY <1>1, <1>5, <2>2 DEF Inspected
  <2> QED
    BY <1>2, <1>3, <2>3
<1>6. CASE errs = {} /\ ~Decision("primary").fail
  <2>1. C = Containers
    BY <1>6
  <2>2. Inspected(C)
    BY <1>1, <1>6, <2>1 DEF Inspected
  <2> QED
    BY <1>2, <1>3, <2>2
<1> QED
  BY <1>4, <1>5, <1>6

\* A reconcile keeps the invariant.
LEMMA ReconcileKeeps ==
    ASSUME WatcherInv, reconcileAll, Looks
    PROVE  /\ notRunningSince' \in [Containers -> {Nil} \cup 0..now']
           /\ runningSince' \in [Containers -> {Nil} \cup 0..now']
           /\ failedAt' \in [Containers -> {Nil} \cup 0..now']
           /\ sandbox' \in {"READY", "STOPPED", "FAILED"}
           /\ lastInspected' \in 0..now'
           /\ TimersInv'
<1>1. TypeOK /\ now' = now
  BY DEF WatcherInv, TimersInv, Looks
<1>2. now \in Nat /\ lastInspected \in 0..now
  BY <1>1 DEF TypeOK
<1>3. lastInspected' = now \/ lastInspected' = lastInspected
  BY DEF reconcileAll
<1>4. lastInspected' \in 0..now'
  BY <1>1, <1>2, <1>3
<1>5. CASE sandbox = "READY"
  <2>1. PICK C \in SUBSET Containers : EvaluateAll(C) /\ Inspected(C)
    BY <1>1, <1>5, ReconcileLooks
  <2> QED
    BY <1>1, <1>4, <1>5, <2>1, EvaluateAllTypes, EvaluateAllTimers DEF TimersInv
<1>6. CASE sandbox # "READY"
  <2>1. UNCHANGED <<notRunningSince, runningSince, failedAt, sandbox>>
    BY <1>6 DEF reconcileAll, timers
  <2>2. InspectedLately'
    BY <1>1, <1>2, <1>3 DEF InspectedLately, WatcherInv, TimersInv
  <2>3. \A c \in Containers : StableFirst(c)'
    BY <2>1 DEF StableFirst, WatcherInv, TimersInv, Looks
  <2> QED
    BY <1>1, <1>4, <1>6, <2>1, <2>2, <2>3 DEF TypeOK, TimersInv
<1> QED
  BY <1>5, <1>6

-----------------------------------------------------------------------------
(***************************************************************************)
(* The invariant is inductive                                              *)
(***************************************************************************)
\* When everything a container's timers are about starts over at the present
\* moment, they say nothing about the past.
LEMMA StartsOver ==
    ASSUME NEW c \in Containers, TypeOK', From(c)' = now'
    PROVE  DownTimers(c)' /\ UpTimers(c)'
<1>1. /\ now' \in Nat
      /\ lastInspected' \in 0..now'
      /\ notRunningSince'[c] \in {Nil} \cup 0..now'
      /\ runningSince'[c] \in {Nil} \cup 0..now'
  BY DEF TypeOK
<1>2. DownTimers(c)'
  BY <1>1 DEF DownTimers
<1>3. UpTimers(c)'
  BY <1>1 DEF UpTimers
<1> QED
  BY <1>2, <1>3

\* A step that leaves a container's times alone keeps what they say.
LEMMA SameTimers ==
    ASSUME NEW c \in Containers, DownTimers(c), UpTimers(c),
           UNCHANGED <<timers, failedAt, lastInspected, readySince>>,
           since'[c] = since[c],
           container'[c] = container[c] \/ (container[c] \in Up /\ container'[c] \in Up)
    PROVE  DownTimers(c)' /\ UpTimers(c)'
<1>1. From(c)' = From(c)
  BY DEF From
<1>2. /\ container'[c] \in Down <=> container[c] \in Down
      /\ container'[c] \in Up <=> container[c] \in Up
  BY DEF Down, Up
<1>3. DownTimers(c)'
  BY <1>1, <1>2 DEF DownTimers, timers
<1>4. UpTimers(c)'
  BY <1>1, <1>2 DEF UpTimers, timers
<1> QED
  BY <1>3, <1>4

\* The watcher starts with nothing seen yet.
LEMMA InitWatcherInv == Init => WatcherInv
<1> SUFFICES ASSUME Init PROVE WatcherInv
  OBVIOUS
<1>1. TypeOK
  <2>1. /\ now = 0
        /\ 0 \in 0..now
        /\ lastInspected = 0
        /\ readySince = 0
    BY DEF Init
  <2>2. container \in [Containers -> ContainerState]
    BY DEF Init, ContainerState
  <2>3. /\ notRunningSince \in [Containers -> {Nil} \cup 0..now]
        /\ runningSince \in [Containers -> {Nil} \cup 0..now]
        /\ failedAt \in [Containers -> {Nil} \cup 0..now]
        /\ stableAt \in [Containers -> {Nil} \cup 0..now]
    BY DEF Init
  <2>4. since \in [Containers -> 0..now]
    BY <2>1 DEF Init
  <2>5. /\ sandbox \in {"READY", "STOPPED", "FAILED"}
        /\ connection \in {"connect", "stream", "wait"}
        /\ dieEvents \subseteq Containers
    BY DEF Init
  <2>6. stopping \in BOOLEAN
    BY DEF Init
  <2>7. /\ now \in Nat
        /\ lastInspected \in 0..now
        /\ readySince \in 0..now
    BY <2>1
  <2> QED
    BY <2>2, <2>3, <2>4, <2>5, <2>6, <2>7 DEF TypeOK
<1>2. InspectedLately
  BY DEF Init, InspectedLately
<1>3. ASSUME NEW c \in Containers
      PROVE  DownTimers(c) /\ UpTimers(c) /\ StableFirst(c)
  BY <1>3 DEF Init, DownTimers, UpTimers, StableFirst, Down, Up
<1> QED
  BY <1>1, <1>2, <1>3 DEF WatcherInv, TimersInv

\* Connect and TickFires reconcile and do nothing else.
LEMMA ReconcileStep ==
    ASSUME WatcherInv, Connect \/ TickFires
    PROVE  WatcherInv'
<1>1. /\ reconcileAll
      /\ Looks
      /\ connection' \in {"connect", "stream", "wait"}
      /\ UNCHANGED <<stopping, dieEvents>>
  BY DEF Connect, TickFires, Looks, docker, history
<1>2. /\ notRunningSince' \in [Containers -> {Nil} \cup 0..now']
      /\ runningSince' \in [Containers -> {Nil} \cup 0..now']
      /\ failedAt' \in [Containers -> {Nil} \cup 0..now']
      /\ sandbox' \in {"READY", "STOPPED", "FAILED"}
      /\ lastInspected' \in 0..now'
      /\ TimersInv'
  BY <1>1, ReconcileKeeps
<1>3. TypeOK
  BY DEF WatcherInv, TimersInv
<1>4. TypeOK'
  BY <1>1, <1>2, <1>3 DEF TypeOK, Looks
<1> QED
  BY <1>2, <1>4 DEF WatcherInv, TimersInv

\* handleEvent looks at the container that died.
LEMMA EventStep ==
    ASSUME WatcherInv, NEW c \in Containers, handleEvent(c)
    PROVE  WatcherInv'
<1>1. TypeOK /\ InspectedLately
  BY DEF WatcherInv, TimersInv
<1>2. /\ Looks
      /\ UNCHANGED <<stopping, connection, lastInspected>>
      /\ dieEvents' = dieEvents \ {c}
  BY DEF handleEvent, Looks, history
<1>3. CASE sandbox = "READY"
  <2>1. PICK errs \in SUBSET {c} : EvaluateAll({c} \ errs)
    BY <1>3 DEF handleEvent
  <2> DEFINE C == {c} \ errs
  <2>2. C \in SUBSET Containers
    OBVIOUS
  <2>3. EvaluateAll(C)
    BY <2>1
  <2>4. Inspected(C)
    BY <1>2 DEF Inspected
  <2> HIDE DEF C
  <2>5. /\ notRunningSince' \in [Containers -> {Nil} \cup 0..now']
        /\ runningSince' \in [Containers -> {Nil} \cup 0..now']
        /\ failedAt' \in [Containers -> {Nil} \cup 0..now']
        /\ sandbox' \in {"READY", "STOPPED", "FAILED"}
    BY <1>1, <1>2, <2>2, <2>3, EvaluateAllTypes
  <2>6. TypeOK'
    BY <1>1, <1>2, <2>5 DEF TypeOK, Looks
  <2> QED
    BY <1>2, <1>3, <2>2, <2>3, <2>4, <2>6, EvaluateAllTimers DEF WatcherInv, TimersInv
<1>4. CASE sandbox # "READY"
  <2>1. UNCHANGED <<notRunningSince, runningSince, failedAt, sandbox>>
    BY <1>4 DEF handleEvent, timers
  <2>2. TypeOK'
    BY <1>1, <1>2, <2>1 DEF TypeOK, Looks
  <2>3. InspectedLately'
    BY <1>1, <1>2 DEF InspectedLately, Looks
  <2>4. \A x \in Containers : StableFirst(x)'
    BY <1>2, <2>1 DEF StableFirst, WatcherInv, TimersInv, Looks
  <2> QED
    BY <1>4, <2>1, <2>2, <2>3, <2>4 DEF WatcherInv, TimersInv
<1> QED
  BY <1>3, <1>4

\* The steps that change no time and no container.
LEMMA TimelessStep ==
    ASSUME WatcherInv, TypeOK',
           UNCHANGED <<now, timers, failedAt, lastInspected, container, since, history>>,
           sandbox' = "READY" => sandbox = "READY"
    PROVE  WatcherInv'
<1>1. ASSUME NEW c \in Containers, sandbox = "READY"
      PROVE  DownTimers(c)' /\ UpTimers(c)'
  BY <1>1, SameTimers DEF WatcherInv, TimersInv, history
<1>2. InspectedLately'
  BY DEF WatcherInv, TimersInv, InspectedLately
<1>3. \A c \in Containers : StableFirst(c)'
  BY DEF WatcherInv, TimersInv, StableFirst, timers, history
<1> QED
  BY <1>1, <1>2, <1>3 DEF WatcherInv, TimersInv

\* A resume starts the times of every container over.
LEMMA ResumeStep ==
    ASSUME WatcherInv, ResumeSandbox
    PROVE  WatcherInv'
<1>1. TypeOK
  BY DEF WatcherInv, TimersInv
<1>2. /\ now' = now
      /\ now \in Nat
      /\ since \in [Containers -> 0..now]
  BY <1>1 DEF TypeOK, ResumeSandbox
<1>3. /\ container' \in [Containers -> ContainerState]
      /\ since' \in [Containers -> 0..now']
      /\ readySince' = now
      /\ readySince' \in 0..now'
  BY <1>2 DEF ResumeSandbox, ContainerState
<1>4. TypeOK'
  BY <1>1, <1>3 DEF TypeOK, ResumeSandbox, timers
<1>5. ASSUME NEW c \in Containers
      PROVE  DownTimers(c)' /\ UpTimers(c)'
  <2>1. since'[c] \in 0..now
    BY <1>2, <1>3
  <2>2. From(c)' = now'
    BY <1>2, <1>3, <2>1 DEF From
  <2> QED
    BY <1>4, <2>2, StartsOver
<1>6. InspectedLately'
  BY DEF WatcherInv, TimersInv, InspectedLately, ResumeSandbox
<1>7. \A c \in Containers : StableFirst(c)'
  BY DEF WatcherInv, TimersInv, StableFirst, ResumeSandbox, timers
<1> QED
  BY <1>4, <1>5, <1>6, <1>7 DEF WatcherInv, TimersInv

\* So does the start of a new daemon.
LEMMA RestartStep ==
    ASSUME WatcherInv, RestartDaemon
    PROVE  WatcherInv'
<1>1. TypeOK
  BY DEF WatcherInv, TimersInv
<1>2. /\ now' = now
      /\ now \in Nat
      /\ since' = since
      /\ since \in [Containers -> 0..now]
      /\ stableAt' = stableAt
      /\ stableAt \in [Containers -> {Nil} \cup 0..now]
  BY <1>1 DEF TypeOK, RestartDaemon
<1>3. /\ notRunningSince' \in [Containers -> {Nil} \cup 0..now']
      /\ \A c \in Containers : notRunningSince'[c] \in {Nil, now}
      /\ runningSince' \in [Containers -> {Nil} \cup 0..now']
      /\ readySince' = now /\ lastInspected' = now
      /\ readySince' \in 0..now' /\ lastInspected' \in 0..now'
  BY <1>2 DEF RestartDaemon
<1>4. TypeOK'
  BY <1>1, <1>3 DEF TypeOK, RestartDaemon
<1>5. ASSUME NEW c \in Containers
      PROVE  DownTimers(c)' /\ UpTimers(c)'
  <2>1. since'[c] \in 0..now
    BY <1>2
  <2>2. From(c)' = now'
    BY <1>2, <1>3, <2>1 DEF From
  <2> QED
    BY <1>4, <2>2, StartsOver
<1>6. InspectedLately'
  BY <1>2, <1>3 DEF InspectedLately
<1>7. ASSUME NEW c \in Containers
      PROVE  StableFirst(c)'
  <2>1. stableAt'[c] \in {Nil} \cup 0..now
    BY <1>2
  <2>2. notRunningSince'[c] \in {Nil, now}
    BY <1>3
  <2> QED
    BY <1>2, <2>1, <2>2 DEF StableFirst
<1> QED
  BY <1>4, <1>5, <1>6, <1>7 DEF WatcherInv, TimersInv

\* A container that goes up, down or away starts its times over, and those of
\* the others stay.
LEMMA BecomesStep ==
    ASSUME WatcherInv, NEW c \in Containers, NEW from, NEW to \in ContainerState,
           Becomes(c, from, to)
    PROVE  WatcherInv'
<1>1. TypeOK
  BY DEF WatcherInv, TimersInv
<1>2. /\ now' = now
      /\ now \in Nat
      /\ container' = [container EXCEPT ![c] = to]
      /\ container \in [Containers -> ContainerState]
      /\ since \in [Containers -> 0..now]
      /\ readySince' = readySince
      /\ readySince \in 0..now
  BY <1>1 DEF TypeOK, Becomes, history
<1>3. \/ from \cup {to} = Up /\ since' = since
      \/ since' = [since EXCEPT ![c] = now]
  BY DEF Becomes
<1>4. /\ container' \in [Containers -> ContainerState]
      /\ since' \in [Containers -> 0..now']
  BY <1>2, <1>3
<1>5. dieEvents' \subseteq Containers
  BY <1>1 DEF TypeOK, Becomes
<1>6. TypeOK'
  BY <1>1, <1>4, <1>5 DEF TypeOK, Becomes, timers, history
<1>7. ASSUME NEW x \in Containers, sandbox = "READY"
      PROVE  DownTimers(x)' /\ UpTimers(x)'
  <2>1. CASE since'[x] = since[x]
             /\ (container'[x] = container[x] \/ (container[x] \in Up /\ container'[x] \in Up))
    BY <1>7, <2>1, SameTimers DEF WatcherInv, TimersInv, Becomes, history
  <2>2. CASE since'[x] = now
    <3>1. From(x)' = now'
      BY <1>2, <2>2 DEF From
    <3> QED
      BY <1>6, <3>1, StartsOver
  <2>3. CASE x # c
    <3>1. container'[x] = container[x] /\ since'[x] = since[x]
      BY <1>2, <1>3, <2>3
    <3> QED
      BY <2>1, <3>1
  <2>4. CASE x = c
    <3>1. CASE since' = [since EXCEPT ![c] = now]
      BY <1>2, <2>2, <2>4, <3>1
    <3>2. CASE from \cup {to} = Up /\ since' = since
      <4>1. container[x] \in Up /\ container'[x] \in Up
        BY <1>2, <2>4, <3>2 DEF Becomes
      <4> QED
        BY <2>1, <3>2, <4>1
    <3> QED
      BY <1>3, <3>1, <3>2
  <2> QED
    BY <2>3, <2>4
<1>8. InspectedLately'
  BY DEF WatcherInv, TimersInv, InspectedLately, Becomes
<1>9. \A x \in Containers : StableFirst(x)'
  BY DEF WatcherInv, TimersInv, StableFirst, Becomes, timers, history
<1>10. sandbox' = sandbox
  BY DEF Becomes
<1> QED
  BY <1>6, <1>7, <1>8, <1>9, <1>10 DEF WatcherInv, TimersInv

\* A container that has been up for LongRun has no window open: the watcher
\* has seen it up for the whole of the guard.
LEMMA LongRunHasNoWindow ==
    ASSUME WatcherInv, sandbox = "READY", NEW c \in Containers, container[c] \in Up,
           now - lastInspected < Tick, Lasting(c, now + 1) >= LongRun
    PROVE  notRunningSince[c] = Nil
<1>1. TypeOK
  BY DEF WatcherInv, TimersInv
<1>2. /\ now \in Nat
      /\ lastInspected \in 0..now
      /\ since[c] \in 0..now
      /\ readySince \in 0..now
      /\ runningSince[c] \in {Nil} \cup 0..now
  BY <1>1 DEF TypeOK
<1>3. From(c) \in 0..now
  BY <1>2 DEF From
<1>4. now + 1 - From(c) >= Guard + 2 * Tick
  <2>1. Lasting(c, now + 1) = now + 1 - From(c)
    BY <1>2 DEF Lasting, From
  <2> QED
    BY <2>1, <1>2, <1>3 DEF LongRun
<1>5. lastInspected >= From(c) + Guard + Tick
  BY <1>2, <1>3, <1>4
<1>6. lastInspected > From(c)
  BY <1>2, <1>3, <1>5
<1> SUFFICES ASSUME notRunningSince[c] # Nil PROVE FALSE
  OBVIOUS
<1>7. /\ runningSince[c] # Nil
      /\ runningSince[c] <= From(c) + Tick
      /\ lastInspected - runningSince[c] < Guard
  BY <1>6 DEF WatcherInv, TimersInv, UpTimers
<1> QED
  BY <1>2, <1>3, <1>5, <1>7

\* The clock does not outrun the ticker.
LEMMA ClockStep ==
    ASSUME WatcherInv, ClockTick
    PROVE  WatcherInv'
<1>1. TypeOK
  BY DEF WatcherInv, TimersInv
<1>2. /\ now \in Nat
      /\ now' = now + 1
      /\ now' \in Nat
      /\ \A i \in 0..now : i \in 0..now'
      /\ lastInspected \in 0..now
      /\ lastInspected' = lastInspected
      /\ now - lastInspected < Tick
  BY <1>1 DEF TypeOK, ClockTick
<1>3. /\ UNCHANGED <<sandbox, stopping, notRunningSince, runningSince, failedAt, connection,
                     container, since, dieEvents, readySince>>
      /\ stableAt' = [c \in Containers |->
             IF sandbox = "READY" /\ container[c] \in Up /\ Lasting(c, now') >= LongRun
             THEN now' ELSE stableAt[c]]
  BY DEF ClockTick, timers, docker
<1>4. stableAt' \in [Containers -> {Nil} \cup 0..now']
  BY <1>1, <1>2, <1>3 DEF TypeOK
<1>5. /\ notRunningSince' \in [Containers -> {Nil} \cup 0..now']
      /\ runningSince' \in [Containers -> {Nil} \cup 0..now']
      /\ failedAt' \in [Containers -> {Nil} \cup 0..now']
      /\ since' \in [Containers -> 0..now']
      /\ readySince' \in 0..now'
      /\ lastInspected' \in 0..now'
  BY <1>1, <1>2, <1>3 DEF TypeOK
<1>6. TypeOK'
  BY <1>1, <1>2, <1>3, <1>4, <1>5 DEF TypeOK
<1>7. InspectedLately'
  BY <1>2 DEF InspectedLately
<1>8. ASSUME NEW c \in Containers, sandbox = "READY"
      PROVE  DownTimers(c)' /\ UpTimers(c)'
  BY <1>2, <1>3, <1>8, SameTimers DEF WatcherInv, TimersInv, timers
<1>9. ASSUME NEW c \in Containers
      PROVE  StableFirst(c)'
  <2>1. CASE sandbox = "READY" /\ container[c] \in Up /\ Lasting(c, now') >= LongRun
    <3>1. notRunningSince[c] = Nil
      BY <1>2, <2>1, LongRunHasNoWindow
    <3> QED
      BY <1>3, <3>1 DEF StableFirst
  <2>2. CASE ~(sandbox = "READY" /\ container[c] \in Up /\ Lasting(c, now') >= LongRun)
    <3>1. stableAt'[c] = stableAt[c]
      BY <1>3, <2>2
    <3> QED
      BY <1>3, <3>1 DEF StableFirst, WatcherInv, TimersInv
  <2> QED
    BY <2>1, <2>2
<1> QED
  BY <1>3, <1>6, <1>7, <1>8, <1>9 DEF WatcherInv, TimersInv

\* Every step keeps the invariant.
LEMMA NextWatcherInv == WatcherInv /\ [Next]_vars => WatcherInv'
<1> SUFFICES ASSUME WatcherInv, [Next]_vars PROVE WatcherInv'
  OBVIOUS
<1>1. TypeOK
  BY DEF WatcherInv, TimersInv
<1>2. CASE Connect \/ TickFires
  BY <1>2, ReconcileStep
<1>3. CASE \E c \in Containers : handleEvent(c)
  BY <1>3, EventStep
<1>4. CASE StreamEnds
  <2>1. TypeOK'
    BY <1>1, <1>4 DEF TypeOK, StreamEnds, timers, history
  <2> QED
    BY <1>4, <2>1, TimelessStep DEF StreamEnds
<1>5. CASE BackoffElapses
  <2>1. TypeOK'
    BY <1>1, <1>5 DEF TypeOK, BackoffElapses, timers, docker, history
  <2> QED
    BY <1>5, <2>1, TimelessStep DEF BackoffElapses, docker
<1>6. CASE StopSandbox
  <2>1. TypeOK'
    BY <1>1, <1>6 DEF TypeOK, StopSandbox, timers, docker, history
  <2> QED
    BY <1>6, <2>1, TimelessStep DEF StopSandbox, docker
<1>7. CASE StopFinish
  <2>1. TypeOK'
    BY <1>1, <1>7 DEF TypeOK, StopFinish, timers, docker, history
  <2> QED
    BY <1>7, <2>1, TimelessStep DEF StopFinish, docker
<1>8. CASE ResumeSandbox
  BY <1>8, ResumeStep
<1>9. CASE RestartDaemon
  BY <1>9, RestartStep
<1>10. CASE DockerStep
  <2>1. PICK c \in Containers :
            \/ ContainerExits(c) \/ ContainerRestarts(c) \/ ContainerPaused(c)
            \/ ContainerUnpaused(c) \/ ContainerRemoved(c) \/ ContainerStopped(c)
    BY <1>10 DEF DockerStep
  <2>2. \E from, to : to \in ContainerState /\ Becomes(c, from, to)
    <3>1. {"running", "paused", "exited", "stopped", "absent"} = ContainerState
      BY DEF ContainerState
    <3>2. CASE ContainerExits(c)
      BY <3>1, <3>2 DEF ContainerExits
    <3>3. CASE ContainerRestarts(c)
      BY <3>1, <3>3 DEF ContainerRestarts
    <3>4. CASE ContainerPaused(c)
      BY <3>1, <3>4 DEF ContainerPaused
    <3>5. CASE ContainerUnpaused(c)
      BY <3>1, <3>5 DEF ContainerUnpaused
    <3>6. CASE ContainerRemoved(c)
      BY <3>1, <3>6 DEF ContainerRemoved
    <3>7. CASE ContainerStopped(c)
      BY <3>1, <3>7 DEF ContainerStopped
    <3> QED
      BY <2>1, <3>2, <3>3, <3>4, <3>5, <3>6, <3>7
  <2> QED
    BY <2>2, BecomesStep
<1>11. CASE ClockTick
  BY <1>11, ClockStep
<1>12. CASE UNCHANGED vars
  <2>1. TypeOK'
    BY <1>1, <1>12 DEF TypeOK, vars, timers, docker, history
  <2> QED
    BY <1>12, <2>1, TimelessStep DEF vars, docker
<1> QED
  BY <1>2, <1>3, <1>4, <1>5, <1>6, <1>7, <1>8, <1>9, <1>10, <1>11, <1>12
     DEF Next, WatcherStep, DaemonStep

-----------------------------------------------------------------------------
(***************************************************************************)
(* Theorems                                                                *)
(***************************************************************************)
\* The timers of the watcher keep to what Docker did: an open window began at
\* most a Tick after its container went down, and after its last long run.
THEOREM WatcherInvariant == Spec => []WatcherInv
BY InitWatcherInv, NextWatcherInv, PTL DEF Spec

\* docker_event_watcher: a container that is down for longer than the window
\* and a Tick has been reported by the first whole inspection after that.
THEOREM DownIsReportedCorrect == Spec => []DownIsReported
<1>1. WatcherInv => DownIsReported
  <2> SUFFICES ASSUME WatcherInv, sandbox = "READY", NEW c \in Containers,
                      container[c] \in {"exited", "stopped"},
                      Lasting(c, now) > Window + Tick,
                      lastInspected = now
               PROVE  failedAt[c] >= since[c]
    BY DEF DownIsReported
  <2>1. TypeOK
    BY DEF WatcherInv, TimersInv
  <2>2. /\ now \in Nat
        /\ since[c] \in 0..now
        /\ readySince \in 0..now
        /\ notRunningSince[c] \in {Nil} \cup 0..now
    BY <2>1 DEF TypeOK
  <2>3. From(c) \in 0..now /\ now - From(c) > Window + Tick
    BY <2>2 DEF From, Lasting
  <2>4. lastInspected > From(c)
    BY <2>2, <2>3
  <2>5. DownTimers(c) /\ container[c] \in Down
    BY DEF WatcherInv, TimersInv, Down
  <2>6. notRunningSince[c] # Nil /\ notRunningSince[c] <= From(c) + Tick
    BY <2>4, <2>5 DEF DownTimers
  <2>7. lastInspected - notRunningSince[c] > Window
    BY <2>2, <2>3, <2>6
  <2> QED
    BY <2>4, <2>5, <2>7 DEF DownTimers
<1> QED
  BY <1>1, WatcherInvariant, PTL

\* docker_event_watcher: a container that was up for Guard + 2 Tick is not
\* failed by the window before a whole Window has passed since.
THEOREM HealthyNotFailedCorrect == Spec => HealthyNotFailed
<1> DEFINE Kept == \A c \in Containers :
                (FailsByWindow(c) /\ stableAt[c] # Nil) => now - stableAt[c] > Window
<1>1. WatcherInv /\ [Next]_vars => [Kept]_vars
  <2> SUFFICES ASSUME WatcherInv, Next, NEW c \in Containers,
                      FailsByWindow(c), stableAt[c] # Nil
               PROVE  now - stableAt[c] > Window
    OBVIOUS
  <2>1. TypeOK
    BY DEF WatcherInv, TimersInv
  <2>2. /\ now \in Nat
        /\ stableAt[c] \in 0..now
        /\ notRunningSince[c] \in {Nil} \cup 0..now
        /\ container[c] \in ContainerState \ {"absent"}
        /\ failedAt'[c] # failedAt[c]
    BY <2>1 DEF TypeOK, FailsByWindow
  <2>3. \E C \in SUBSET Containers : sandbox = "READY" /\ EvaluateAll(C)
    <3>1. failedAt' # failedAt
      BY <2>2
    <3>2. reconcileAll \/ \E x \in Containers : handleEvent(x)
      BY <3>1 DEF Next, WatcherStep, DaemonStep, DockerStep, Connect, TickFires,
          StreamEnds, BackoffElapses, StopSandbox, StopFinish, ResumeSandbox,
          RestartDaemon, ContainerExits, ContainerRestarts, ContainerPaused,
          ContainerUnpaused, ContainerRemoved, ContainerStopped, Becomes, ClockTick
    <3>3. CASE reconcileAll
      <4>1. sandbox = "READY"
        BY <3>1, <3>3 DEF reconcileAll
      <4> QED
        BY <2>1, <3>3, <4>1, ReconcileLooks
    <3>4. CASE \E x \in Containers : handleEvent(x)
      <4>1. PICK x \in Containers : handleEvent(x)
        BY <3>4
      <4>2. sandbox = "READY"
        BY <3>1, <4>1 DEF handleEvent
      <4>3. PICK errs \in SUBSET {x} : EvaluateAll({x} \ errs)
        BY <4>1, <4>2 DEF handleEvent
      <4>4. {x} \ errs \in SUBSET Containers
        OBVIOUS
      <4> QED
        BY <4>2, <4>3, <4>4
    <3> QED
      BY <3>2, <3>3, <3>4
  <2>4. Decision(c).fail
    BY <2>2, <2>3 DEF EvaluateAll
  <2>5. container[c] \in Down
    BY <2>1, <2>2, <2>4, DecisionMade DEF ContainerState, Down
  <2>6. /\ Decision(c).nrs = IF notRunningSince[c] = Nil THEN now ELSE notRunningSince[c]
        /\ now - Decision(c).nrs > Window
    BY <2>1, <2>4, <2>5, DecisionMade
  <2>7. notRunningSince[c] # Nil /\ now - notRunningSince[c] > Window
    BY <2>2, <2>6
  <2>8. stableAt[c] <= notRunningSince[c]
    BY <2>7 DEF WatcherInv, TimersInv, StableFirst
  <2> QED
    BY <2>2, <2>7, <2>8
<1> QED
  BY <1>1, WatcherInvariant, PTL DEF Spec, HealthyNotFailed

=============================================================================
