------------------------ MODULE RuntimeBackend_proofs ------------------------
(***************************************************************************)
(* Proofs about RuntimeBackend and HostIsolation, for any number of        *)
(* sandboxes, companions, goroutines, calls and mishaps.                   *)
(***************************************************************************)
EXTENDS RuntimeBackend, TLAPS

\* Where a goroutine can be, by the call it makes.
IsolatePoints == {"isolate", "isolateInput", "isolateFlush"}
Building == {"companions", "primary", "start", "wait"}
Ensuring == {"ensurePrimary", "ensureCompanions"}
Clearing == {"rmPrimary", "rmCompanions", "unrule", "unruleFlush", "rmNetwork"}
Stopping == {"stopPrimary", "stopCompanions"}
AllPoints == {"idle", "begin", "network", "mustExist", "cancel", "await", "return"}
                 \cup IsolatePoints \cup Building \cup Ensuring \cup Clearing \cup Stopping

AllCalls == {"none", "create", "resume", "stop", "exec", "halt", "reapply",
             "delete", "cleanup", "deleteNothing"}

Route(q) ==
    /\ q.call = "none" <=> q.at = "idle"
    /\ q.call = "create" => q.at \in {"begin", "network", "cancel", "await", "return"}
                                         \cup IsolatePoints \cup Building \cup Clearing
    /\ q.call = "resume" => q.at \in {"begin", "mustExist", "return"}
                                         \cup IsolatePoints \cup Ensuring
    /\ q.call = "exec" => q.at \in {"mustExist", "ensurePrimary", "return"}
    /\ q.call = "stop" => q.at \in {"begin", "cancel", "await", "return"} \cup Stopping
    /\ q.call = "halt" => q.at \in {"cancel", "await", "return"} \cup Stopping
    /\ q.call = "reapply" => q.at \in {"return"} \cup IsolatePoints
    /\ q.call = "delete" => q.at \in {"begin", "cancel", "await", "return"} \cup Clearing
    /\ q.call = "cleanup" => q.at \in {"cancel", "await", "return"} \cup Clearing
    /\ q.call = "deleteNothing" => q.at = "return"

\* The call removes what there is of the sandbox.
Removes(q) == q.call \in {"delete", "cleanup"} \/ (q.call = "create" /\ q.err)

Settled(s) == \A c \in Companions[s] : starts[s][c] \notin {"create", "start"}
NoContainers(s) == \A x \in Names(s) : containers[s][x] = "none"
Occupied(s) == ~(NoContainers(s) /\ Settled(s))
Has(c, r) == c \in DOMAIN chains /\ r \in DOMAIN chains[c]

\* The container is down, or was started again while its sandbox was stopped.
DownOrWoken(s, x) == Running(s, x) => <<s, x>> \in woken

\* The rules each chain can hold.
Fits(c, r) ==
    /\ c \in ChainNames
    /\ r \in Rules
    /\ c = "DOCKER-USER" => r.tail \in {"local", "dnat"}
    /\ c # "DOCKER-USER" => r.tail = "input"

-----------------------------------------------------------------------------
(***************************************************************************)
(* The inductive invariant                                                 *)
(***************************************************************************)
Records == [call : AllCalls, at : AllPoints, err : BOOLEAN, dirty : BOOLEAN,
            left : SUBSET UNION {Companions[s] : s \in Networks}]

ProcType == proc \in [Processes -> Records]

ContainerType ==
    /\ DOMAIN containers = Networks
    /\ \A s \in Networks : containers[s] \in [Names(s) -> {"none", "stopped", "running"}]

StartType ==
    /\ DOMAIN starts = Networks
    /\ \A s \in Networks :
           starts[s] \in [Companions[s] -> {"none", "create", "start", "ready", "failed"}]

PhaseType ==
    /\ phase \in [Networks -> {"absent", "pending", "ready", "stopped", "failed",
                           "deleting", "deleted"}]
    /\ daemon \in {"down", "restoring", "serving"}

RuleType ==
    /\ batch \in [Processes -> SUBSET [chain : ChainNames, rule : Rules]]
    /\ \A c \in DOMAIN chains : \A r \in DOMAIN chains[c] : Fits(c, r)

\* What a call under way says about the service that made it.
Role(s, p) ==
    LET q == proc[p]
    IN  /\ Route(q)
        /\ q.call = "create" =>
               /\ s \notin runtime /\ s \notin gone
               /\ phase[s] \in {"pending", "deleting", "deleted"}
               /\ q.at \in {"cancel", "await"} \cup Clearing => q.err
               /\ q.at \in {"begin", "network"} \cup IsolatePoints \cup Building => ~q.err
        /\ q.at = "begin" \/ q.call = "deleteNothing" => ~q.err
        /\ q.call = "reapply" => daemon = "restoring" /\ phase[s] = "ready" /\ Exists(s)
        /\ daemon = "restoring" => q.call \in {"none", "reapply", "cleanup"}
        /\ daemon = "down" \/ phase[s] = "absent" => q.call = "none"

\* What a removal has done to the containers when it is at some point.
Removal(s, q) ==
    /\ q.at \in Clearing \cup Stopping => Settled(s)
    /\ (q.at = "return" /\ Removes(q)) => Settled(s)
    /\ (Removes(q) /\ (~q.dirty \/ s \notin kept)) =>
           /\ q.at = "rmCompanions" =>
                  \A x \in Names(s) \ q.left : containers[s][x] = "none"
           /\ q.at \in {"unrule", "unruleFlush", "rmNetwork", "return"} => NoContainers(s)
    /\ (Removes(q) /\ ~q.dirty /\ q.at = "return") => s \notin networks

\* The same of a stop, and what a creation starts from.
Work(s, p) ==
    LET q == proc[p]
    IN  /\ Removal(s, q)
        /\ (q.call = "stop" /\ ~q.err) =>
               /\ q.at = "stopCompanions" => \A x \in Names(s) \ q.left : DownOrWoken(s, x)
               /\ q.at = "return" => Settled(s) /\ \A x \in Names(s) : DownOrWoken(s, x)
        /\ (q.call = "create" /\ q.at \in {"begin", "network", "companions"} \cup IsolatePoints)
               => Settled(s) /\ NoContainers(s)

\* The removal is past the point where it has selected the rules.
Selected(q) ==
    Removes(q) /\ ~q.dirty /\ q.at \in {"unruleFlush", "rmNetwork", "return"}

\* The rules a removal has selected and left.
Unruled(s, q, queue) ==
    Selected(q) =>
        /\ q.at = "unruleFlush" =>
               \A c \in ChainNames, r \in Rules :
                   (Has(c, r) /\ r.bridge = s) => [chain |-> c, rule |-> r] \in queue
        /\ q.at \in {"rmNetwork", "return"} => NoRules(s)

\* What a goroutine has queued: rules that are not there, or all that are.
Queues(s, p) ==
    /\ proc[p].at \notin {"isolateInput", "isolateFlush", "unruleFlush"} => batch[p] = {}
    /\ \A b \in batch[p] : b.rule.bridge = s /\ Fits(b.chain, b.rule)
    /\ (~listFailed /\ s \notin raced /\ Isolating(p)) => \A b \in batch[p] : ~Has(b.chain, b.rule)
    /\ s \notin leaky =>
           /\ Unruled(s, proc[p], batch[p])
           /\ s \in gone => proc[p].at \notin IsolatePoints

\* The rule is in the chain, or will be with what p has queued.
Coming(p, c, r) == Has(c, r) \/ [chain |-> c, rule |-> r] \in batch[p]

\* How far the rules are that p puts in place.
Cover(s, p) ==
    LET q == proc[p]
    IN  /\ (Isolating(p) /\ q.call \in {"create", "reapply"}) => p \in fresh \/ s \in lost
        /\ (Isolating(p) /\ p \in fresh /\ s \notin kept /\ (Occupied(s) \/ q.call = "create")) =>
               /\ "DOCKER-USER" \in DOMAIN chains
               /\ Coming(p, "DOCKER-USER", Rule(s, "local"))
               /\ Coming(p, "DOCKER-USER", Rule(s, "dnat"))
               /\ q.at = "isolateFlush" => \E c \in InputChains : Coming(p, c, Rule(s, "input"))
        /\ (q.call = "create" /\ q.at \in Building /\ s \notin lost \cup kept) => Isolated(s)

Fine(s, p) == Role(s, p) /\ Work(s, p) /\ Queues(s, p) /\ Cover(s, p)

\* Calls that do nothing to the sandbox.
Bystander(q) ==
    q.call \in {"none", "deleteNothing"} \/ (q.call = "delete" /\ q.at = "begin")

\* What two goroutines of a sandbox cannot do at once.
Apart(s, p, q) ==
    /\ proc[p].call = "create" => Bystander(proc[q])
    /\ proc[p].call = "reapply" => proc[q].call = "none"
    /\ s \notin raced => ~(Isolating(p) /\ Isolating(q))
    /\ (s \notin leaky /\ Selected(proc[p])) => proc[q].at \notin IsolatePoints

\* The rules of the sandbox are about to be applied by the start of the daemon.
Reapplying(s) ==
    \/ \E p \in Goroutines(s) :
           proc[p].call = "reapply" /\ (proc[p].at \in IsolatePoints \/ proc[p].err)
    \/ daemon = "down" /\ phase[s] = "ready" /\ Exists(s)

\* What the service relies on while no call is under way.
Ground(s) ==
    /\ daemon \in {"down", "restoring"} => Settled(s)
    /\ phase[s] = "absent" =>
           s \notin runtime /\ s \notin gone /\ s \notin networks /\ Settled(s) /\ NoContainers(s)
    /\ phase[s] = "stopped" => Settled(s) /\ \A x \in Names(s) : DownOrWoken(s, x)
    /\ s \in gone => Settled(s) /\ NoContainers(s) /\ s \notin networks
    /\ s \in gone \ leaky => NoRules(s)
    /\ (s \notin lost \cup kept /\ Occupied(s)) => Isolated(s) \/ Reapplying(s)

BackendInv ==
    /\ ProcType /\ ContainerType /\ StartType /\ PhaseType /\ RuleType
    /\ NoDuplicateRules
    /\ \A s \in Networks : Ground(s)
    /\ \A s \in Networks : \A p \in Goroutines(s) : Fine(s, p)
    /\ \A s \in Networks : \A p, q \in Goroutines(s) : p # q => Apart(s, p, q)

-----------------------------------------------------------------------------
(***************************************************************************)
(* What an update does to the state of a goroutine or of a container       *)
(***************************************************************************)
\* The goroutines of a sandbox, and no two sandboxes share one.
LEMMA ProcessNames ==
    /\ \A s \in Networks : Goroutines(s) \subseteq Processes
    /\ \A s, t \in Networks : s # t => Goroutines(s) \cap Goroutines(t) = {}
    /\ \A p \in Processes : \E s \in Networks : p \in Goroutines(s)
  BY BackendAssumption DEF Goroutines

\* The goroutine p has gone to a point, with these fields, and no other moved.
Moves(p, call, at, err, dirty, left) ==
    /\ proc'[p].call = call /\ proc'[p].at = at
    /\ (proc'[p].err <=> err) /\ (proc'[p].dirty <=> dirty)
    /\ proc'[p].left = left
    /\ \A q \in Processes \ {p} : proc'[q] = proc[q]

\* Goto changes the point and nothing else.
LEMMA GotoMoves ==
    ASSUME ProcType, NEW p \in Processes, NEW pt \in AllPoints, Goto(p, pt)
    PROVE  ProcType' /\ Moves(p, proc[p].call, pt, proc[p].err, proc[p].dirty, proc[p].left)
  BY DEF ProcType, Goto, Moves, Records

\* The companions of a sandbox are companions.
LEMMA CompanionsOf ==
    \A s \in Networks : Companions[s] \in SUBSET UNION {Companions[t] : t \in Networks}
  OBVIOUS

\* Goto with the containers that a loop has to pass.
LEMMA LoopMoves ==
    ASSUME ProcType, NEW p \in Processes, NEW pt \in AllPoints,
           NEW left \in SUBSET UNION {Companions[s] : s \in Networks},
           proc' = [proc EXCEPT ![p].at = pt, ![p].left = left]
    PROVE  ProcType' /\ Moves(p, proc[p].call, pt, proc[p].err, proc[p].dirty, left)
  BY DEF ProcType, Moves, Records

\* A step of such a loop.
LEMMA TurnMoves ==
    ASSUME ProcType, NEW p \in Processes, NEW c,
           proc' = [proc EXCEPT ![p].left = @ \ {c}]
    PROVE  /\ ProcType'
           /\ Moves(p, proc[p].call, proc[p].at, proc[p].err, proc[p].dirty, proc[p].left \ {c})
  BY DEF ProcType, Moves, Records

\* An error: a creation goes on to clean up, the other calls return.
LEMMA FailMoves ==
    ASSUME ProcType, NEW p \in Processes, Fail(p)
    PROVE  /\ ProcType'
           /\ proc[p].call = "create" =>
                  Moves(p, "create", "cancel", TRUE, proc[p].dirty, proc[p].left)
           /\ proc[p].call # "create" =>
                  Moves(p, proc[p].call, "return", TRUE, proc[p].dirty, proc[p].left)
<1>1. CASE proc[p].call = "create"
  <2>1. proc' = [proc EXCEPT ![p].err = TRUE, ![p].at = "cancel"]
    BY <1>1 DEF Fail
  <2> QED
    BY ZenonT(60), <1>1, <2>1 DEF ProcType, Moves, Records, AllPoints
<1>2. CASE proc[p].call # "create"
  BY <1>2 DEF ProcType, Fail, Moves, Records, AllPoints
<1> QED
  BY <1>1, <1>2

\* A removal's first step, and its next ones, note what could not be removed.
LEMMA ClearMoves ==
    ASSUME ProcType, NEW p \in Processes,
           NEW left \in SUBSET UNION {Companions[s] : s \in Networks}, NEW bad \in BOOLEAN,
           proc' = [proc EXCEPT ![p].at = "rmCompanions", ![p].left = left, ![p].dirty = bad]
    PROVE  ProcType' /\ Moves(p, proc[p].call, "rmCompanions", proc[p].err, bad, left)
  BY ZenonT(60) DEF ProcType, Moves, Records, AllPoints, Clearing

\* The next turns of the loop of a removal, with what could not be removed.
LEMMA ClearTurnMoves ==
    ASSUME ProcType, NEW p \in Processes, NEW c, NEW bad \in BOOLEAN,
           proc' = [proc EXCEPT ![p].left = @ \ {c}, ![p].dirty = @ \/ bad]
    PROVE  /\ ProcType'
           /\ Moves(p, proc[p].call, proc[p].at, proc[p].err, proc[p].dirty \/ bad,
                    proc[p].left \ {c})
  BY DEF ProcType, Moves, Records

\* The network could not be removed: the removal returns with an error.
LEMMA DirtyMoves ==
    ASSUME ProcType, NEW p \in Processes,
           proc' = [proc EXCEPT ![p].at = "return", ![p].dirty = TRUE]
    PROVE  ProcType' /\ Moves(p, proc[p].call, "return", proc[p].err, TRUE, proc[p].left)
  BY DEF ProcType, Moves, Records, AllPoints

\* A goroutine that was idle begins a call.
LEMMA BeginMoves ==
    ASSUME ProcType, NEW s \in Networks, NEW call \in AllCalls, NEW pt \in AllPoints,
           Begin(s, call, pt)
    PROVE  \E p \in Goroutines(s) : ~Busy(p) /\ ProcType' /\ Moves(p, call, pt, FALSE, FALSE, {})
<1>1. PICK p \in Goroutines(s) :
          /\ ~Busy(p)
          /\ proc' = [proc EXCEPT ![p] = [Idle EXCEPT !.call = call, !.at = pt]]
  BY DEF Begin
<1>2. p \in Processes
  BY <1>1, ProcessNames
<1>3. ProcType' /\ Moves(p, call, pt, FALSE, FALSE, {})
  BY <1>1, <1>2 DEF ProcType, Idle, Moves, Records
<1> QED
  BY <1>1, <1>3

\* A deletion finds that there is nothing to remove.
LEMMA NothingMoves ==
    ASSUME ProcType, NEW p \in Processes,
           proc' = [proc EXCEPT ![p].call = "deleteNothing", ![p].at = "return"]
    PROVE  /\ ProcType'
           /\ Moves(p, "deleteNothing", "return", proc[p].err, proc[p].dirty, proc[p].left)
  BY DEF ProcType, Moves, Records, AllPoints, AllCalls

\* A call has returned: its goroutine is gone.
LEMMA IdleMoves ==
    ASSUME ProcType, NEW p \in Processes, proc' = [proc EXCEPT ![p] = Idle]
    PROVE  ProcType' /\ Moves(p, "none", "idle", FALSE, FALSE, {})
  BY DEF ProcType, Idle, Moves, Records, AllPoints, AllCalls

\* One container has a new state, and no other has.
Becomes(s, x, st) ==
    /\ x \in Names(s) => containers'[s][x] = st
    /\ \A t \in Networks : \A y \in Names(t) :
           containers'[t][y] = containers[t][y] \/ (t = s /\ y = x)

\* An effect of Docker on one container changes that container.
LEMMA ContainerBecomes ==
    ASSUME ContainerType, NEW s \in Networks, NEW x, NEW st \in {"none", "stopped", "running"},
           containers' = [containers EXCEPT ![s][x] = st]
    PROVE  ContainerType' /\ Becomes(s, x, st)
<1>1. DOMAIN containers' = Networks
  BY DEF ContainerType
<1>2. containers'[s] = [containers[s] EXCEPT ![x] = st]
  BY DEF ContainerType
<1>3. \A t \in Networks \ {s} : containers'[t] = containers[t]
  BY DEF ContainerType
<1>4. containers[s] \in [Names(s) -> {"none", "stopped", "running"}]
  BY DEF ContainerType
<1>5. /\ containers'[s] \in [Names(s) -> {"none", "stopped", "running"}]
      /\ x \in Names(s) => containers'[s][x] = st
      /\ \A y \in Names(s) \ {x} : containers'[s][y] = containers[s][y]
  BY <1>2, <1>4
<1>6. ContainerType'
  <2>1. \A t \in Networks : containers'[t] \in [Names(t) -> {"none", "stopped", "running"}]
    <3> SUFFICES ASSUME NEW t \in Networks
                 PROVE  containers'[t] \in [Names(t) -> {"none", "stopped", "running"}]
      OBVIOUS
    <3>1. CASE t = s
      BY <1>5, <3>1
    <3>2. CASE t # s
      BY <1>3, <3>2 DEF ContainerType
    <3> QED
      BY <3>1, <3>2
  <2> QED
    BY <1>1, <2>1 DEF ContainerType, Names
<1> QED
  BY <1>3, <1>5, <1>6 DEF Becomes

\* Docker is not asked for anything under a name the sandbox does not have.
LEMMA ContainerOutside ==
    ASSUME ContainerType, NEW s \in Networks, NEW x, x \notin Names(s), NEW v,
           containers' = [containers EXCEPT ![s][x] = v]
    PROVE  ContainerType' /\ \A w : Becomes(s, x, w)
<1>1. containers[s] \in [Names(s) -> {"none", "stopped", "running"}] /\ DOMAIN containers = Networks
  BY DEF ContainerType
<1>2. [containers[s] EXCEPT ![x] = v] = containers[s]
  BY <1>1
<1>3. containers'[s] = containers[s] /\ DOMAIN containers' = Networks
  BY <1>1, <1>2
<1>4. \A t \in Networks \ {s} : containers'[t] = containers[t]
  BY <1>1
<1>5. \A t \in Networks : containers'[t] = containers[t]
  BY <1>3, <1>4
<1> QED
  BY <1>3, <1>5 DEF ContainerType, Becomes

\* One companion's start is at a new point, and no other is.
Starts(s, c, st) ==
    /\ starts'[s][c] = st
    /\ \A t \in Networks : \A d \in Companions[t] :
           starts'[t][d] = starts[t][d] \/ (t = s /\ d = c)

\* A step of startCompanionContainersAsync changes one companion's start.
LEMMA StartBecomes ==
    ASSUME StartType, NEW s \in Networks, NEW c \in Companions[s],
           NEW st \in {"none", "create", "start", "ready", "failed"},
           starts' = [starts EXCEPT ![s][c] = st]
    PROVE  StartType' /\ Starts(s, c, st)
<1>1. DOMAIN starts' = Networks
  BY DEF StartType
<1>2. starts'[s] = [starts[s] EXCEPT ![c] = st]
  BY DEF StartType
<1>3. \A t \in Networks \ {s} : starts'[t] = starts[t]
  BY DEF StartType
<1>4. starts[s] \in [Companions[s] -> {"none", "create", "start", "ready", "failed"}]
  BY DEF StartType
<1>5. /\ starts'[s] \in [Companions[s] -> {"none", "create", "start", "ready", "failed"}]
      /\ starts'[s][c] = st
      /\ \A d \in Companions[s] \ {c} : starts'[s][d] = starts[s][d]
  BY <1>2, <1>4
<1>6. StartType'
  BY <1>1, <1>3, <1>5 DEF StartType
<1> QED
  BY <1>3, <1>5, <1>6 DEF Starts

-----------------------------------------------------------------------------
(***************************************************************************)
(* What a step leaves alone                                                *)
(***************************************************************************)
\* No container of the sandbox changes, nor a start of a companion.
Still(s) ==
    /\ \A x \in Names(s) : containers'[s][x] = containers[s][x]
    /\ \A c \in Companions[s] : starts'[s][c] = starts[s][c]

\* What is then said of the containers stays true or false.
StillSays(s) ==
    /\ Settled(s)' <=> Settled(s)
    /\ NoContainers(s)' <=> NoContainers(s)
    /\ Exists(s)' <=> Exists(s)

\* What the invariant says of the containers is decided by their states.
LEMMA StillSame ==
    ASSUME NEW s \in Networks, Still(s)
    PROVE  StillSays(s)
<1>1. Settled(s)' <=> Settled(s)
  BY DEF Still, Settled
<1>2. NoContainers(s)' <=> NoContainers(s)
  BY DEF Still, NoContainers
<1>3. Exists(s)' <=> Exists(s)
  BY DEF Still, Exists, Names
<1> QED
  BY <1>1, <1>2, <1>3 DEF StillSays

\* The chains hold the same rules of the sandbox.
SameRules(s) ==
    /\ \A c \in ChainNames, r \in Rules : r.bridge = s => (Has(c, r)' <=> Has(c, r))
    /\ "DOCKER-USER" \in DOMAIN chains => "DOCKER-USER" \in DOMAIN chains'

\* The rules of a sandbox, and which chains are theirs.
LEMMA RulesOf ==
    ASSUME NEW s \in Networks
    PROVE  \A tail \in {"local", "dnat", "input"} :
               Rule(s, tail) \in Rules /\ Rule(s, tail).bridge = s /\ Rule(s, tail).tail = tail
  BY DEF Rule, Rules

\* Isolated, by what the chains hold.
LEMMA IsolatedHas ==
    ASSUME NEW s \in Networks
    PROVE  Isolated(s) <=> /\ Has("DOCKER-USER", Rule(s, "local"))
                           /\ Has("DOCKER-USER", Rule(s, "dnat"))
                           /\ \E c \in InputChains : Has(c, Rule(s, "input"))
  BY DEF Isolated, Has, expectedDockerUserIsolationRules, expectedInputIsolationRules,
     BagToSet, InputChains

\* NoRules, by what the chains hold.
LEMMA NoRulesHas ==
    ASSUME NEW s \in Networks, RuleType
    PROVE  NoRules(s) <=> \A c \in ChainNames, r \in Rules : Has(c, r) => r.bridge # s
<1>1. ASSUME NoRules(s), NEW c \in ChainNames, NEW r \in Rules, Has(c, r)
      PROVE  r.bridge # s
  BY <1>1 DEF NoRules, Has, BagToSet
<1>2. ASSUME \A c \in ChainNames, r \in Rules : Has(c, r) => r.bridge # s
      PROVE  NoRules(s)
  BY <1>2 DEF NoRules, Has, BagToSet, RuleType, Fits
<1> QED
  BY <1>1, <1>2

\* The same rules isolate a sandbox as before, or as little.
RulesSay(s) ==
    /\ Isolated(s)' <=> Isolated(s)
    /\ NoRules(s)' <=> NoRules(s)

\* Isolated and NoRules are decided by the rules of the sandbox alone.
LEMMA SameRulesSay ==
    ASSUME NEW s \in Networks, RuleType, RuleType', SameRules(s)
    PROVE  RulesSay(s)
<1>1. \A tail \in {"local", "dnat", "input"}, c \in ChainNames :
          Has(c, Rule(s, tail))' <=> Has(c, Rule(s, tail))
  BY RulesOf DEF SameRules
<1>2. Isolated(s)' <=> /\ Has("DOCKER-USER", Rule(s, "local"))'
                       /\ Has("DOCKER-USER", Rule(s, "dnat"))'
                       /\ \E c \in InputChains : Has(c, Rule(s, "input"))'
  BY DEF Isolated, Has, expectedDockerUserIsolationRules, expectedInputIsolationRules,
     BagToSet, InputChains
<1>3. Isolated(s)' <=> Isolated(s)
  BY <1>1, <1>2, IsolatedHas DEF ChainNames, InputChains
<1>4. NoRules(s)' <=> \A c \in ChainNames, r \in Rules : Has(c, r)' => r.bridge # s
  <2>1. ASSUME NoRules(s)', NEW c \in ChainNames, NEW r \in Rules, Has(c, r)'
        PROVE  r.bridge # s
    BY <2>1 DEF NoRules, Has, BagToSet
  <2>2. ASSUME \A c \in ChainNames, r \in Rules : Has(c, r)' => r.bridge # s
        PROVE  NoRules(s)'
    BY <2>2 DEF NoRules, Has, BagToSet, RuleType, Fits
  <2> QED
    BY <2>1, <2>2
<1>5. NoRules(s)' <=> NoRules(s)
  BY <1>4, NoRulesHas DEF SameRules
<1> QED
  BY <1>3, <1>5 DEF RulesSay

-----------------------------------------------------------------------------
(***************************************************************************)
(* What the steps on the rule set read and write                           *)
(***************************************************************************)
\* The queue of p has become queue, and no other has changed.
Queue(p, queue) ==
    /\ batch'[p] = queue
    /\ \A q \in Processes \ {p} : batch'[q] = batch[q]

\* The transaction of applyHostIsolation adds what was queued, and nothing else.
LEMMA InsertHas ==
    ASSUME RuleType, NoDuplicateRules, NEW p \in Processes, FlushInserts(p),
           \A q \in batch[p] : Fits(q.chain, q.rule), UNCHANGED raced,
           ~listFailed => \A q \in batch[p] : q.rule.bridge \notin raced => ~Has(q.chain, q.rule)
    PROVE  /\ RuleType' /\ NoDuplicateRules' /\ Queue(p, {})
           /\ DOMAIN chains \subseteq DOMAIN chains'
           /\ \A c \in ChainNames, r \in Rules :
                  Has(c, r)' <=> Has(c, r) \/ [chain |-> c, rule |-> r] \in batch[p]
<1> DEFINE new(c) == {q.rule : q \in {x \in batch[p] : x.chain = c}}
           touched == QueuedChains(p)
<1>1. batch[p] \subseteq [chain : ChainNames, rule : Rules]
  BY DEF RuleType
<1>2. \A c, r : r \in new(c) <=> (\E q \in batch[p] : q.chain = c /\ q.rule = r)
  OBVIOUS
<1>3. \A c \in ChainNames, r \in Rules : r \in new(c) <=> [chain |-> c, rule |-> r] \in batch[p]
  BY <1>1, <1>2
<1>4. \A c : c \in touched <=> \E q \in batch[p] : q.chain = c
  BY DEF QueuedChains
<1>5. chains' = [c \in DOMAIN chains \cup touched |->
                    SetToBag(new(c)) (+) (IF c \in DOMAIN chains THEN chains[c] ELSE EmptyBag)]
  BY DEF FlushInserts
<1>6. DOMAIN chains' = DOMAIN chains \cup touched
  BY <1>5
<1>7. \A c \in DOMAIN chains \cup touched :
          DOMAIN chains'[c] = new(c) \cup (IF c \in DOMAIN chains THEN DOMAIN chains[c] ELSE {})
  BY <1>5 DEF SetToBag, EmptyBag, (+)
<1>8. \A c, r : Has(c, r)' <=> Has(c, r) \/ r \in new(c)
  BY <1>2, <1>4, <1>6, <1>7 DEF Has
<1>9. \A q \in batch[p] : Fits(q.chain, q.rule)
  OBVIOUS
<1>10. \A c, r : r \in new(c) => Fits(c, r)
  BY <1>2, <1>9
<1>11. Queue(p, {}) /\ batch' \in [Processes -> SUBSET [chain : ChainNames, rule : Rules]]
  BY DEF FlushInserts, Queue, RuleType
<1>12. \A c \in DOMAIN chains' : \A r \in DOMAIN chains'[c] : Fits(c, r)
  BY <1>8, <1>10 DEF Has, RuleType
<1>13. RuleType'
  BY <1>11, <1>12 DEF RuleType, Fits
<1>14. NoDuplicateRules'
  <2> SUFFICES ASSUME ~listFailed', NEW c \in DOMAIN chains', NEW r \in DOMAIN chains'[c],
                      r.bridge \notin raced
               PROVE  chains'[c][r] = 1
    BY DEF NoDuplicateRules, BagToSet
  <2>1. ~listFailed
    BY DEF FlushInserts
  <2>2. \A d \in DOMAIN chains : \A x \in DOMAIN chains[d] :
            x.bridge \notin raced => chains[d][x] = 1
    BY <2>1 DEF NoDuplicateRules, BagToSet
  <2>3. r \in new(c) => ~Has(c, r)
    BY <1>2, <2>1
  <2>4. CASE c \in DOMAIN chains
    <3>1. chains'[c] = SetToBag(new(c)) (+) chains[c]
      BY <1>5, <2>4
    <3>2. chains'[c][r] = (IF r \in new(c) THEN 1 ELSE 0)
                            + (IF r \in DOMAIN chains[c] THEN chains[c][r] ELSE 0)
      BY <3>1 DEF SetToBag, (+)
    <3>3. r \in new(c) \/ r \in DOMAIN chains[c]
      BY <1>6, <1>7, <2>4
    <3> QED
      BY <2>2, <2>3, <2>4, <3>2, <3>3 DEF Has
  <2>5. CASE c \notin DOMAIN chains
    <3>1. chains'[c] = SetToBag(new(c)) (+) EmptyBag
      BY <1>5, <1>6, <2>5
    <3> QED
      BY <3>1 DEF SetToBag, EmptyBag, (+)
  <2> QED
    BY <2>4, <2>5
<1> QED
  BY <1>3, <1>6, <1>8, <1>11, <1>13, <1>14

\* The transaction of removeHostIsolation takes what was selected, and nothing
\* else.
LEMMA DeleteHas ==
    ASSUME RuleType, NoDuplicateRules, NEW p \in Processes, FlushDeletes(p), UNCHANGED raced
    PROVE  /\ RuleType' /\ NoDuplicateRules' /\ Queue(p, {})
           /\ DOMAIN chains' = DOMAIN chains
           /\ \A c \in ChainNames, r \in Rules :
                  Has(c, r)' <=> Has(c, r) /\ [chain |-> c, rule |-> r] \notin batch[p]
<1> DEFINE dropped(c) == {q.rule : q \in {x \in batch[p] : x.chain = c}}
<1>1. batch[p] \subseteq [chain : ChainNames, rule : Rules]
  BY DEF RuleType
<1>2. \A c, r : r \in dropped(c) <=> (\E q \in batch[p] : q.chain = c /\ q.rule = r)
  OBVIOUS
<1>3. \A c \in ChainNames, r \in Rules : r \in dropped(c) <=> [chain |-> c, rule |-> r] \in batch[p]
  BY <1>1, <1>2
<1>4. chains' = [c \in DOMAIN chains |-> [r \in DOMAIN chains[c] \ dropped(c) |-> chains[c][r]]]
  BY DEF FlushDeletes, BagToSet
<1>5. /\ DOMAIN chains' = DOMAIN chains
      /\ \A c \in DOMAIN chains : DOMAIN chains'[c] = DOMAIN chains[c] \ dropped(c)
      /\ \A c \in DOMAIN chains : \A r \in DOMAIN chains'[c] : chains'[c][r] = chains[c][r]
  BY <1>4
<1>6. \A c, r : Has(c, r)' <=> Has(c, r) /\ r \notin dropped(c)
  BY <1>5 DEF Has
<1>7. Queue(p, {}) /\ batch' \in [Processes -> SUBSET [chain : ChainNames, rule : Rules]]
  BY DEF FlushDeletes, Queue, RuleType
<1>8. RuleType'
  BY <1>5, <1>7 DEF RuleType, Fits
<1>9. NoDuplicateRules'
  BY <1>5 DEF NoDuplicateRules, BagToSet, FlushDeletes
<1> QED
  BY <1>3, <1>5, <1>6, <1>7, <1>8, <1>9

\* A lost rule set has none of the daemon's rules.
LEMMA LostHas ==
    ASSUME RuleSetLost
    PROVE  /\ \A c, r : ~Has(c, r)'
           /\ \A c \in DOMAIN chains' : DOMAIN chains'[c] = {}
  BY DEF RuleSetLost, Has, EmptyBag, SetToBag

\* removeHostIsolation selects every rule of the network that is in a chain.
LEMMA SelectHas ==
    ASSUME RuleType, NEW s \in Networks, NEW p \in Processes, SelectRules(p, s)
    PROVE  /\ RuleType'
           /\ \A q \in Processes \ {p} : batch'[q] = batch[q]
           /\ \A c \in ChainNames, r \in Rules :
                  (Has(c, r) /\ r.bridge = s) => [chain |-> c, rule |-> r] \in batch'[p]
           /\ \A q \in batch'[p] : q.rule.bridge = s /\ Fits(q.chain, q.rule)
<1> DEFINE expected(c) == IF c = "DOCKER-USER" THEN expectedDockerUserIsolationRules(s)
                          ELSE expectedInputIsolationRules(s)
           chosen(c) == selectIsolationRulesToRemove(chains[c], expected(c))
           all == UNION {Queued(c, chosen(c)) : c \in DOMAIN chains}
<1>1. batch' = [batch EXCEPT ![p] = all] /\ UNCHANGED chains
  BY DEF SelectRules
<1>2. \A c \in DOMAIN chains : \A r : r \in chosen(c) <=>
          r \in DOMAIN chains[c] /\ \E x \in expected(c) : matchesIsolationRule(r, x)
  BY DEF selectIsolationRulesToRemove, BagToSet
<1>3. \A q : q \in all <=>
          \E c \in DOMAIN chains : \E r \in chosen(c) : q = [chain |-> c, rule |-> r]
  BY DEF Queued
<1>4. ASSUME NEW c \in DOMAIN chains, NEW r \in DOMAIN chains[c], r.bridge = s
      PROVE  r \in chosen(c)
  <2>1. Fits(c, r)
    BY DEF RuleType
  <2>2. r = Rule(s, r.tail) /\ r.subnet = s
    BY <1>4, <2>1 DEF Fits, Rules, Rule
  <2>3. Rule(s, r.tail) \in expected(c)
    BY <2>1 DEF Fits, expectedDockerUserIsolationRules, expectedInputIsolationRules
  <2> QED
    BY <1>2, <2>2, <2>3 DEF matchesIsolationRule
<1>5. ASSUME NEW c \in DOMAIN chains, NEW r \in chosen(c)
      PROVE  r.bridge = s /\ Fits(c, r)
  <2>1. r \in DOMAIN chains[c]
    BY <1>2
  <2>2. PICK x \in expected(c) : matchesIsolationRule(r, x)
    BY <1>2
  <2>3. x.bridge = s
    BY DEF expectedDockerUserIsolationRules, expectedInputIsolationRules, Rule
  <2> QED
    BY <2>1, <2>2, <2>3 DEF matchesIsolationRule, RuleType
<1>6. all \subseteq [chain : ChainNames, rule : Rules]
  BY <1>3, <1>5 DEF Fits
<1> HIDE DEF all, chosen, expected
<1>7. /\ batch'[p] = all
      /\ \A q \in Processes \ {p} : batch'[q] = batch[q]
      /\ batch' \in [Processes -> SUBSET [chain : ChainNames, rule : Rules]]
  BY <1>1, <1>6 DEF RuleType
<1>8. RuleType'
  BY <1>1, <1>7 DEF RuleType, Fits
<1>9. \A c \in ChainNames, r \in Rules :
          (Has(c, r) /\ r.bridge = s) => [chain |-> c, rule |-> r] \in batch'[p]
  BY <1>3, <1>4, <1>7 DEF Has
<1>10. \A q \in batch'[p] : q.rule.bridge = s /\ Fits(q.chain, q.rule)
  BY <1>3, <1>5, <1>7
<1> QED
  BY <1>7, <1>8, <1>9, <1>10

\* applyHostIsolation queues the rules of the network that DOCKER-USER lacks.
LEMMA DockerUserQueue ==
    ASSUME RuleType, NEW s \in Networks, NEW p \in Processes, ReadDockerUser(p, s)
    PROVE  /\ RuleType'
           /\ \A q \in Processes \ {p} : batch'[q] = batch[q]
           /\ \A q \in batch'[p] : /\ q.rule.bridge = s /\ Fits(q.chain, q.rule)
                                   /\ ~Has(q.chain, q.rule)
           /\ \A tail \in {"local", "dnat"} :
                  \/ Has("DOCKER-USER", Rule(s, tail))
                  \/ [chain |-> "DOCKER-USER", rule |-> Rule(s, tail)] \in batch'[p]
           /\ "DOCKER-USER" \in DOMAIN chains
<1> DEFINE missing == selectMissingIsolationRules(chains["DOCKER-USER"],
                                                  expectedDockerUserIsolationRules(s))
           all == Queued("DOCKER-USER", missing)
<1>1. batch' = [batch EXCEPT ![p] = all] /\ UNCHANGED chains /\ "DOCKER-USER" \in DOMAIN chains
  BY DEF ReadDockerUser
<1>2. \A x : x \in missing <=>
          /\ x \in expectedDockerUserIsolationRules(s)
          /\ \A r \in DOMAIN chains["DOCKER-USER"] : ~matchesIsolationRule(r, x)
  BY DEF selectMissingIsolationRules, BagToSet
<1>3. \A q : q \in all <=> \E x \in missing : q = [chain |-> "DOCKER-USER", rule |-> x]
  BY DEF Queued
<1>4. ASSUME NEW x \in missing
      PROVE  x.bridge = s /\ Fits("DOCKER-USER", x) /\ ~Has("DOCKER-USER", x)
  <2>1. x \in expectedDockerUserIsolationRules(s)
    BY <1>2
  <2>2. x \in {Rule(s, "local"), Rule(s, "dnat")}
    BY <2>1 DEF expectedDockerUserIsolationRules
  <2>3. x.bridge = s /\ Fits("DOCKER-USER", x)
    BY <2>2, RulesOf DEF Fits, ChainNames
  <2>4. matchesIsolationRule(x, x)
    BY DEF matchesIsolationRule
  <2> QED
    BY <1>2, <2>3, <2>4 DEF Has
<1>5. ASSUME NEW tail \in {"local", "dnat"}, ~Has("DOCKER-USER", Rule(s, tail))
      PROVE  Rule(s, tail) \in missing
  <2>1. Rule(s, tail) \in expectedDockerUserIsolationRules(s)
    BY DEF expectedDockerUserIsolationRules
  <2>2. ASSUME NEW r \in DOMAIN chains["DOCKER-USER"], matchesIsolationRule(r, Rule(s, tail))
        PROVE  FALSE
    <3>1. r \in Rules
      BY <1>1 DEF RuleType, Fits
    <3>2. r = Rule(s, tail)
      BY <2>2, <3>1 DEF matchesIsolationRule, Rules, Rule
    <3> QED
      BY <1>1, <1>5, <3>2 DEF Has
  <2> QED
    BY <1>2, <2>1, <2>2
<1>6. all \subseteq [chain : ChainNames, rule : Rules]
  BY <1>3, <1>4 DEF Fits
<1> HIDE DEF all, missing
<1>7. /\ batch'[p] = all
      /\ \A q \in Processes \ {p} : batch'[q] = batch[q]
      /\ batch' \in [Processes -> SUBSET [chain : ChainNames, rule : Rules]]
  BY <1>1, <1>6 DEF RuleType
<1>8. RuleType'
  BY <1>1, <1>7 DEF RuleType, Fits
<1>9. \A q \in batch'[p] : /\ q.rule.bridge = s /\ Fits(q.chain, q.rule)
                           /\ ~Has(q.chain, q.rule)
  BY <1>3, <1>4, <1>7
<1>10. \A tail \in {"local", "dnat"} :
           \/ Has("DOCKER-USER", Rule(s, tail))
           \/ [chain |-> "DOCKER-USER", rule |-> Rule(s, tail)] \in batch'[p]
  BY <1>3, <1>5, <1>7
<1> QED
  BY <1>1, <1>7, <1>8, <1>9, <1>10

\* A rule is queued for an input chain: it is the input rule of the network and
\* the chain lacks it, or it is in the chain.
InputQueue(s, p) ==
    /\ RuleType'
    /\ \A q \in Processes \ {p} : batch'[q] = batch[q]
    /\ batch[p] \subseteq batch'[p]
    /\ \A q \in batch'[p] \ batch[p] :
           /\ q.rule.bridge = s /\ Fits(q.chain, q.rule)
           /\ listFailed' \/ ~Has(q.chain, q.rule)
    /\ \E c \in InputChains : \/ Has(c, Rule(s, "input"))
                              \/ [chain |-> c, rule |-> Rule(s, "input")] \in batch'[p]
    /\ UNCHANGED chains
    /\ listFailed => listFailed'

\* Queueing what an input chain lacks, or the rule whatever the chain has.
LEMMA QueueInput ==
    ASSUME RuleType, NEW s \in Networks, NEW p \in Processes, NEW c \in InputChains,
           NEW add \in SUBSET {Rule(s, "input")},
           batch' = [batch EXCEPT ![p] = @ \cup Queued(c, add)],
           UNCHANGED chains, listFailed => listFailed',
           add = {} => Has(c, Rule(s, "input")),
           listFailed' \/ (\A r \in add : ~Has(c, r))
    PROVE  InputQueue(s, p)
<1>1. \A q : q \in Queued(c, add) <=> \E x \in add : q = [chain |-> c, rule |-> x]
  BY DEF Queued
<1>2. \A x \in add : x.bridge = s /\ Fits(c, x)
  BY RulesOf DEF Fits, ChainNames, InputChains
<1>3. Queued(c, add) \subseteq [chain : ChainNames, rule : Rules]
  BY <1>1, <1>2 DEF Fits
<1>4. /\ batch'[p] = batch[p] \cup Queued(c, add)
      /\ \A q \in Processes \ {p} : batch'[q] = batch[q]
      /\ batch' \in [Processes -> SUBSET [chain : ChainNames, rule : Rules]]
  BY <1>3 DEF RuleType
<1>5. RuleType'
  BY <1>4 DEF RuleType, Fits
<1>6. \A q \in batch'[p] \ batch[p] :
          /\ q.rule.bridge = s /\ Fits(q.chain, q.rule)
          /\ listFailed' \/ ~Has(q.chain, q.rule)
  BY <1>1, <1>2, <1>4
<1>7. \/ Has(c, Rule(s, "input"))
      \/ [chain |-> c, rule |-> Rule(s, "input")] \in batch'[p]
  <2>1. CASE add = {}
    BY <2>1
  <2>2. CASE Rule(s, "input") \in add
    BY <1>1, <1>4, <2>2
  <2> QED
    BY <2>1, <2>2
<1> QED
  BY <1>4, <1>5, <1>6, <1>7 DEF InputQueue

\* selectMissingIsolationRules, of an input chain: the rule if it is not there.
LEMMA MissingInput ==
    ASSUME RuleType, NEW s \in Networks, NEW c \in DOMAIN chains
    PROVE  LET add == selectMissingIsolationRules(chains[c], expectedInputIsolationRules(s))
           IN  /\ add \in SUBSET {Rule(s, "input")}
               /\ add = {} => Has(c, Rule(s, "input"))
               /\ \A r \in add : ~Has(c, r)
<1> DEFINE x == Rule(s, "input")
           add == selectMissingIsolationRules(chains[c], expectedInputIsolationRules(s))
<1>1. \A y : y \in add <=> y = x /\ \A r \in DOMAIN chains[c] : ~matchesIsolationRule(r, y)
  BY DEF selectMissingIsolationRules, expectedInputIsolationRules, BagToSet
<1>2. \A r \in DOMAIN chains[c] : matchesIsolationRule(r, x) <=> r = x
  <2> SUFFICES ASSUME NEW r \in DOMAIN chains[c]
               PROVE  matchesIsolationRule(r, x) <=> r = x
    OBVIOUS
  <2>1. r \in Rules
    BY DEF RuleType, Fits
  <2> QED
    BY <2>1 DEF matchesIsolationRule, Rules, Rule
<1> HIDE DEF x, add
<1>3. add \in SUBSET {x} /\ (add = {} => Has(c, x)) /\ \A r \in add : ~Has(c, r)
  BY <1>1, <1>2 DEF Has
<1> QED
  BY <1>3 DEF add, x

\* applyInputIsolation, with the chains listed or not.
LEMMA ReadInputQueue ==
    ASSUME RuleType, NEW s \in Networks, NEW p \in Processes,
           ReadInput(p, s) \/ ReadInputListFails(p, s)
    PROVE  InputQueue(s, p)
<1> DEFINE missing(c) == selectMissingIsolationRules(chains[c], expectedInputIsolationRules(s))
<1>1. \A c \in DOMAIN chains : /\ missing(c) \in SUBSET {Rule(s, "input")}
                               /\ missing(c) = {} => Has(c, Rule(s, "input"))
                               /\ \A r \in missing(c) : ~Has(c, r)
  BY MissingInput
<1>2. CASE ReadInput(p, s) /\ "INPUT" \in DOMAIN chains
  <2>1. /\ batch' = [batch EXCEPT ![p] = @ \cup Queued("INPUT", missing("INPUT"))]
        /\ UNCHANGED <<chains, listFailed>>
    BY <1>2 DEF ReadInput
  <2> HIDE DEF missing
  <2> QED
    BY <1>1, <1>2, <2>1, QueueInput DEF InputChains
<1>3. CASE ReadInput(p, s) /\ "INPUT" \notin DOMAIN chains /\ "AGBOX-INPUT" \in DOMAIN chains
  <2>1. /\ batch' = [batch EXCEPT ![p] = @ \cup Queued("AGBOX-INPUT", missing("AGBOX-INPUT"))]
        /\ UNCHANGED <<chains, listFailed>>
    BY <1>3 DEF ReadInput
  <2> HIDE DEF missing
  <2> QED
    BY <1>1, <1>3, <2>1, QueueInput DEF InputChains
<1>4. CASE ReadInput(p, s) /\ "INPUT" \notin DOMAIN chains /\ "AGBOX-INPUT" \notin DOMAIN chains
  <2>1. /\ batch' = [batch EXCEPT ![p] = @ \cup Queued("AGBOX-INPUT", {Rule(s, "input")})]
        /\ UNCHANGED <<chains, listFailed>>
    BY <1>4 DEF ReadInput, expectedInputIsolationRules
  <2>2. \A r \in {Rule(s, "input")} : ~Has("AGBOX-INPUT", r)
    BY <1>4 DEF Has
  <2>3. "AGBOX-INPUT" \in InputChains
    BY DEF InputChains
  <2>4. {Rule(s, "input")} \in SUBSET {Rule(s, "input")} /\ {Rule(s, "input")} # {}
    OBVIOUS
  <2> QED
    BY <2>1, <2>2, <2>3, <2>4, QueueInput
<1>5. CASE ReadInputListFails(p, s)
  <2>1. /\ batch' = [batch EXCEPT ![p] = @ \cup Queued("AGBOX-INPUT", {Rule(s, "input")})]
        /\ listFailed' /\ UNCHANGED chains
    BY <1>5 DEF ReadInputListFails, expectedInputIsolationRules
  <2>2. "AGBOX-INPUT" \in InputChains
    BY DEF InputChains
  <2>3. {Rule(s, "input")} \in SUBSET {Rule(s, "input")} /\ {Rule(s, "input")} # {}
    OBVIOUS
  <2> QED
    BY <2>1, <2>2, <2>3, QueueInput
<1> QED
  BY <1>2, <1>3, <1>4, <1>5

-----------------------------------------------------------------------------
\* NoRulesHas, of the next state.
LEMMA NoRulesHasNext ==
    ASSUME NEW s \in Networks, RuleType'
    PROVE  NoRules(s)' <=> \A c \in ChainNames, r \in Rules : Has(c, r)' => r.bridge # s
<1>1. ASSUME NoRules(s)', NEW c \in ChainNames, NEW r \in Rules, Has(c, r)'
      PROVE  r.bridge # s
  BY <1>1 DEF NoRules, Has, BagToSet
<1>2. ASSUME \A c \in ChainNames, r \in Rules : Has(c, r)' => r.bridge # s
      PROVE  NoRules(s)'
  BY <1>2 DEF NoRules, Has, BagToSet, RuleType, Fits
<1> QED
  BY <1>1, <1>2

\* IsolatedHas, of the next state.
LEMMA IsolatedHasNext ==
    ASSUME NEW s \in Networks
    PROVE  Isolated(s)' <=> /\ Has("DOCKER-USER", Rule(s, "local"))'
                            /\ Has("DOCKER-USER", Rule(s, "dnat"))'
                            /\ \E c \in InputChains : Has(c, Rule(s, "input"))'
  BY DEF Isolated, Has, expectedDockerUserIsolationRules, expectedInputIsolationRules,
     BagToSet, InputChains

-----------------------------------------------------------------------------
(***************************************************************************)
(* What a goroutine relies on while another one moves                      *)
(***************************************************************************)
\* The goroutine p of the sandbox s has not moved, nor has its queue.
Stays(p) ==
    /\ proc'[p] = proc[p] /\ batch'[p] = batch[p]
    /\ p \in fresh' => p \in fresh

\* The service has not taken from p what its call relies on.
MildService(s, p) ==
    /\ daemon' = daemon
    /\ phase'[s] = "absent" => phase[s] = "absent"
    /\ proc[p].call = "create" =>
           /\ s \in runtime' => s \in runtime
           /\ s \in gone' => s \in gone
           /\ phase'[s] \in {"pending", "deleting", "deleted"}
    /\ proc[p].call = "reapply" =>
           phase'[s] = phase[s] /\ (Exists(s) => Exists(s)')

\* Nor has Docker: what was settled and removed stays so.
MildDocker(s, p) ==
    /\ Settled(s) => Settled(s)'
    /\ Settled(s) => \A x \in Names(s) : containers[s][x] = "none" => containers'[s][x] = "none"
    /\ (Settled(s) /\ proc[p].call = "stop") =>
           \A x \in Names(s) : DownOrWoken(s, x) => DownOrWoken(s, x)'
    /\ s \in kept => s \in kept'
    /\ (s \in networks' /\ s \notin networks) => ~(Removes(proc[p]) /\ proc[p].at = "return")

\* No rule of the sandbox came, and none went.
NoRuleCame(s) == \A c \in ChainNames, r \in Rules : r.bridge = s => (Has(c, r)' => Has(c, r))

NoRuleWent(s) ==
    /\ \A c \in ChainNames, r \in Rules : r.bridge = s => (Has(c, r) => Has(c, r)')
    /\ "DOCKER-USER" \in DOMAIN chains => "DOCKER-USER" \in DOMAIN chains'

\* The rules have not changed where p relies on them.
MildRules(s, p) ==
    /\ listFailed => listFailed'
    /\ s \in raced => s \in raced'
    /\ s \in leaky => s \in leaky'
    /\ (s \in gone' /\ s \notin leaky') => s \in gone \/ proc[p].at \notin IsolatePoints
    /\ (~listFailed' /\ s \notin raced' /\ Isolating(p)) => NoRuleCame(s)
    /\ (s \notin leaky' /\ Selected(proc[p])) => NoRuleCame(s)

MildCover(s, p) ==
    /\ s \in kept => s \in kept'
    /\ (proc[p].call \in {"create", "reapply"} /\ s \in lost) => s \in lost'
    /\ (p \in fresh /\ p \notin fresh') => s \in lost'
    /\ Occupied(s)' => Occupied(s) \/ ~Isolating(p)
    /\ (Isolating(p) /\ p \in fresh' /\ s \notin kept' /\ (Occupied(s)' \/ proc[p].call = "create"))
           => NoRuleWent(s)
    /\ (proc[p].call = "create" /\ s \notin lost' \cup kept') => (Isolated(s) => Isolated(s)')

Mild(s, p) ==
    /\ Stays(p) /\ MildService(s, p) /\ MildRules(s, p) /\ MildCover(s, p)
    /\ Bystander(proc[p]) \/ MildDocker(s, p)

\* What p says about the service stays true.
LEMMA RoleStays ==
    ASSUME NEW s \in Networks, NEW p \in Goroutines(s), Role(s, p), Stays(p), MildService(s, p)
    PROVE  Role(s, p)'
  BY DEF Role, Route, Stays, MildService

\* What p has done to the containers stays done.
LEMMA WorkStays ==
    ASSUME NEW s \in Networks, NEW p \in Goroutines(s), Role(s, p), Work(s, p), Stays(p),
           Bystander(proc[p]) \/ MildDocker(s, p)
    PROVE  Work(s, p)'
<1>0. CASE Bystander(proc[p])
  BY <1>0 DEF Bystander, Role, Route, Stays, Work, Removal, Removes, Clearing, Stopping
<1> SUFFICES ASSUME MildDocker(s, p)
             PROVE  Work(s, p)'
  BY <1>0
<1>1. (Settled(s) /\ NoContainers(s)) => (Settled(s)' /\ NoContainers(s)')
  BY DEF MildDocker, NoContainers
<1>2. /\ Removal(s, proc[p]) /\ proc'[p] = proc[p]
      /\ Settled(s) => Settled(s)'
      /\ Settled(s) => \A x \in Names(s) : containers[s][x] = "none" => containers'[s][x] = "none"
      /\ s \in kept => s \in kept'
      /\ (s \in networks' /\ s \notin networks) => ~(Removes(proc[p]) /\ proc[p].at = "return")
      /\ Removes(proc[p])' <=> Removes(proc[p])
  BY DEF Work, Stays, MildDocker, Removes
<1>3. Removal(s, proc[p])'
  BY <1>1, <1>2 DEF Removal, Clearing
<1>4. ((proc[p].call = "stop" /\ ~proc[p].err) =>
               /\ proc[p].at = "stopCompanions" =>
                      \A x \in Names(s) \ proc[p].left : DownOrWoken(s, x)
               /\ proc[p].at = "return" => Settled(s) /\ \A x \in Names(s) : DownOrWoken(s, x))'
  <2>1. (proc[p].call = "stop" /\ proc[p].at = "stopCompanions") => Settled(s)
    BY <1>2 DEF Removal, Stopping
  <2>2. (Settled(s) /\ proc[p].call = "stop") =>
            \A x \in Names(s) : DownOrWoken(s, x) => DownOrWoken(s, x)'
    BY DEF MildDocker
  <2> QED
    BY <1>2, <2>1, <2>2 DEF Work
<1>5. ((proc[p].call = "create"
            /\ proc[p].at \in {"begin", "network", "companions"} \cup IsolatePoints)
               => Settled(s) /\ NoContainers(s))'
  BY <1>1, <1>2 DEF Work
<1> QED
  BY <1>3, <1>4, <1>5 DEF Work

\* NoRules stays true when no rule came.
LEMMA NoRulesStay ==
    ASSUME NEW s \in Networks, RuleType, RuleType', NoRuleCame(s), NoRules(s)
    PROVE  NoRules(s)'
  BY NoRulesHas, NoRulesHasNext DEF NoRuleCame

\* What p has queued stays what the chains lack, or hold.
LEMMA QueuesStay ==
    ASSUME NEW s \in Networks, NEW p \in Goroutines(s), Queues(s, p), RuleType, RuleType',
           Stays(p), MildRules(s, p)
    PROVE  Queues(s, p)'
<1>1. proc'[p] = proc[p] /\ batch'[p] = batch[p] /\ (Isolating(p)' <=> Isolating(p))
      /\ (Selected(proc[p])' <=> Selected(proc[p]))
  BY DEF Stays, Isolating, Selected, Removes
<1>2. (~listFailed /\ s \notin raced /\ Isolating(p) => \A b \in batch[p] : ~Has(b.chain, b.rule))'
  <2> SUFFICES ASSUME ~listFailed', s \notin raced', Isolating(p), NEW b \in batch[p]
               PROVE  ~Has(b.chain, b.rule)'
    BY <1>1
  <2>1. ~Has(b.chain, b.rule) /\ NoRuleCame(s)
    BY DEF Queues, MildRules
  <2>2. b.chain \in ChainNames /\ b.rule \in Rules /\ b.rule.bridge = s
    BY DEF Queues, Fits
  <2> QED
    BY <2>1, <2>2 DEF NoRuleCame
<1>3. ASSUME s \notin leaky'
      PROVE  Unruled(s, proc[p], batch[p])'
  <2>1. s \notin leaky /\ Unruled(s, proc[p], batch[p])
    BY <1>3 DEF Queues, MildRules
  <2>2. Selected(proc[p]) => NoRuleCame(s)
    BY <1>3 DEF MildRules
  <2>3. Selected(proc[p]) /\ proc[p].at = "unruleFlush" =>
            \A c \in ChainNames, r \in Rules :
                (Has(c, r)' /\ r.bridge = s) => [chain |-> c, rule |-> r] \in batch[p]
    BY <2>1, <2>2 DEF Unruled, NoRuleCame
  <2>4. Selected(proc[p]) /\ proc[p].at \in {"rmNetwork", "return"} => NoRules(s)'
    BY <2>1, <2>2, NoRulesStay DEF Unruled
  <2> QED
    BY <1>1, <2>3, <2>4 DEF Unruled
<1>4. (s \notin leaky /\ s \in gone => proc[p].at \notin IsolatePoints)'
  BY <1>1 DEF Queues, MildRules
<1>5. (\A b \in batch[p] : b.rule.bridge = s /\ Fits(b.chain, b.rule))'
  BY <1>1 DEF Queues, Fits
<1> QED
  BY <1>1, <1>2, <1>3, <1>4, <1>5 DEF Queues

\* What p has put in place stays in place.
LEMMA CoverStays ==
    ASSUME NEW s \in Networks, NEW p \in Goroutines(s), Cover(s, p), Stays(p), MildCover(s, p)
    PROVE  Cover(s, p)'
<1>1. /\ proc'[p] = proc[p] /\ batch'[p] = batch[p] /\ (Isolating(p)' <=> Isolating(p))
      /\ p \in fresh' => p \in fresh
  BY DEF Stays, Isolating
<1>2. (Isolating(p) /\ proc[p].call \in {"create", "reapply"} => p \in fresh \/ s \in lost)'
  BY <1>1 DEF Cover, MildCover
<1>3. ASSUME Isolating(p), p \in fresh', s \notin kept', Occupied(s)' \/ proc[p].call = "create"
      PROVE  /\ "DOCKER-USER" \in DOMAIN chains'
             /\ Coming(p, "DOCKER-USER", Rule(s, "local"))'
             /\ Coming(p, "DOCKER-USER", Rule(s, "dnat"))'
             /\ proc[p].at = "isolateFlush" =>
                    \E c \in InputChains : Coming(p, c, Rule(s, "input"))'
  <2>1. NoRuleWent(s) /\ s \notin kept /\ p \in fresh /\ (Occupied(s) \/ proc[p].call = "create")
    BY <1>1, <1>3 DEF MildCover
  <2>2. \A c \in ChainNames, tail \in {"local", "dnat", "input"} :
            Coming(p, c, Rule(s, tail)) => Coming(p, c, Rule(s, tail))'
    BY <1>1, <2>1, RulesOf DEF NoRuleWent, Coming
  <2> QED
    BY <1>3, <2>1, <2>2 DEF Cover, NoRuleWent, ChainNames, InputChains
<1>4. (proc[p].call = "create" /\ proc[p].at \in Building /\ s \notin lost \cup kept =>
          Isolated(s))'
  BY <1>1 DEF Cover, MildCover
<1> QED
  BY <1>1, <1>2, <1>3, <1>4 DEF Cover

\* A goroutine that does not move keeps its part of the invariant.
LEMMA FineStays ==
    ASSUME NEW s \in Networks, NEW p \in Goroutines(s), Fine(s, p), RuleType, RuleType', Mild(s, p)
    PROVE  Fine(s, p)'
  BY RoleStays, WorkStays, QueuesStay, CoverStays DEF Fine, Mild

\* Two that do not move stay apart.
LEMMA ApartStays ==
    ASSUME NEW s \in Networks, NEW p \in Goroutines(s), NEW q \in Goroutines(s), Apart(s, p, q),
           Stays(p), Stays(q), s \in raced => s \in raced', s \in leaky => s \in leaky'
    PROVE  Apart(s, p, q)'
  BY DEF Apart, Stays, Bystander, Isolating, Selected, Removes

-----------------------------------------------------------------------------
(***************************************************************************)
(* The other sandboxes                                                     *)
(***************************************************************************)
\* Neither the sandbox nor its rules change.
SameCalls(s) ==
    \A p \in Goroutines(s) :
        proc'[p] = proc[p] /\ batch'[p] = batch[p] /\ (p \in fresh' <=> p \in fresh)

SameRecord(s) ==
    /\ phase'[s] = phase[s] /\ daemon' = daemon
    /\ s \in runtime' <=> s \in runtime
    /\ s \in networks' <=> s \in networks

SameMarks(s) ==
    /\ s \in gone' <=> s \in gone
    /\ s \in lost' <=> s \in lost
    /\ s \in kept' <=> s \in kept
    /\ s \in leaky' <=> s \in leaky
    /\ s \in raced' <=> s \in raced
    /\ \A x \in Names(s) : <<s, x>> \in woken' <=> <<s, x>> \in woken

Same(s) == SameCalls(s) /\ SameRecord(s) /\ SameMarks(s) /\ Still(s) /\ SameRules(s)

\* A sandbox that stays the same is mild to its goroutines.
LEMMA SameMild ==
    ASSUME NEW s \in Networks, RuleType, RuleType', Same(s), listFailed => listFailed',
           NEW p \in Goroutines(s), Fine(s, p)
    PROVE  Mild(s, p)
<1>1. StillSays(s) /\ RulesSay(s)
  BY StillSame, SameRulesSay DEF Same
<1>2. Stays(p)
  BY DEF Stays, Same, SameCalls
<1>3. MildService(s, p)
  BY <1>1 DEF MildService, Same, SameRecord, SameMarks, StillSays, Fine, Role
<1>4. \A x \in Names(s) : DownOrWoken(s, x)' <=> DownOrWoken(s, x)
  BY DEF DownOrWoken, Running, Same, SameMarks, Still
<1>5. MildDocker(s, p)
  BY <1>1, <1>4 DEF MildDocker, Same, SameMarks, SameRecord, Still, StillSays
<1>6. NoRuleCame(s) /\ NoRuleWent(s)
  BY DEF NoRuleCame, NoRuleWent, Same, SameRules
<1>7. MildRules(s, p)
  BY <1>6 DEF MildRules, Same, SameMarks
<1>8. MildCover(s, p)
  BY <1>1, <1>6 DEF MildCover, Same, SameMarks, SameCalls, Occupied, StillSays, RulesSay
<1> QED
  BY <1>2, <1>3, <1>5, <1>7, <1>8 DEF Mild

\* What the service relies on stays true of a sandbox that stays the same.
LEMMA SameGround ==
    ASSUME NEW s \in Networks, RuleType, RuleType', Same(s), Ground(s)
    PROVE  Ground(s)'
<1>1. StillSays(s) /\ RulesSay(s)
  BY StillSame, SameRulesSay DEF Same
<1>2. \A x \in Names(s) : DownOrWoken(s, x)' <=> DownOrWoken(s, x)
  BY DEF DownOrWoken, Running, Same, SameMarks, Still
<1>3. Reapplying(s)' <=> Reapplying(s)
  BY <1>1 DEF Reapplying, Same, SameCalls, SameRecord, StillSays
<1>4. Occupied(s)' <=> Occupied(s)
  BY <1>1 DEF Occupied, StillSays
<1> QED
  BY <1>1, <1>2, <1>3, <1>4 DEF Ground, Same, SameMarks, SameRecord, StillSays, RulesSay

\* The part of the invariant about one sandbox.
Good(s) ==
    /\ Ground(s)
    /\ \A p \in Goroutines(s) : Fine(s, p)
    /\ \A p, q \in Goroutines(s) : p # q => Apart(s, p, q)

\* A sandbox that stays the same keeps its part of the invariant.
LEMMA Frame ==
    ASSUME NEW s \in Networks, RuleType, RuleType', Same(s), listFailed => listFailed', Good(s)
    PROVE  Good(s)'
<1>1. ASSUME NEW p \in Goroutines(s)
      PROVE  Fine(s, p)'
  BY <1>1, SameMild, FineStays DEF Good
<1>2. ASSUME NEW p \in Goroutines(s), NEW q \in Goroutines(s), p # q
      PROVE  Apart(s, p, q)'
  <2>1. Apart(s, p, q) /\ Stays(p) /\ Stays(q)
    BY <1>2 DEF Good, Stays, Same, SameCalls
  <2> QED
    BY <2>1, ApartStays DEF Same, SameMarks
<1>3. Ground(s)'
  BY SameGround DEF Good
<1>4. Goroutines(s)' = Goroutines(s)
  BY DEF Goroutines
<1> QED
  BY <1>1, <1>2, <1>3, <1>4 DEF Good

\* The step is one of the sandbox s, and the others do not notice it.
Elsewhere(s) == (listFailed => listFailed') /\ \A t \in Networks \ {s} : Same(t)

TypesNext ==
    ProcType' /\ ContainerType' /\ StartType' /\ PhaseType' /\ RuleType' /\ NoDuplicateRules'

\* BackendInv, by sandboxes.
LEMMA InvGood ==
    /\ BackendInv <=> /\ ProcType /\ ContainerType /\ StartType /\ PhaseType /\ RuleType
                      /\ NoDuplicateRules
                      /\ \A s \in Networks : Good(s)
    /\ BackendInv' <=> TypesNext /\ \A s \in Networks : Good(s)'
  BY DEF BackendInv, Good, TypesNext

\* A step of one sandbox keeps the invariant when it keeps that sandbox's part.
LEMMA SandboxKeeps ==
    ASSUME BackendInv, NEW s \in Networks, TypesNext, Elsewhere(s), Good(s)'
    PROVE  BackendInv'
<1>1. RuleType /\ \A t \in Networks : Good(t)
  BY InvGood
<1>2. ASSUME NEW t \in Networks \ {s}
      PROVE  Good(t)'
  BY <1>1, <1>2, Frame DEF Elsewhere, TypesNext
<1> QED
  BY <1>2, InvGood

\* The goroutine p is the only one that moves, and the others find what they
\* rely on.
Steady(s, p) ==
    /\ \A q \in Goroutines(s) \ {p} : Mild(s, q)
    /\ \A q \in Goroutines(s) \ {p} : Apart(s, p, q)' /\ Apart(s, q, p)'

\* A step of one goroutine keeps the invariant when it keeps what is said of that
\* goroutine and the others find what they rely on.
LEMMA StepKeeps ==
    ASSUME BackendInv, NEW s \in Networks, NEW p \in Goroutines(s), TypesNext, Elsewhere(s),
           Ground(s)', Fine(s, p)', Steady(s, p), s \in raced => s \in raced',
           s \in leaky => s \in leaky'
    PROVE  BackendInv'
<1>1. Good(s) /\ RuleType
  BY InvGood
<1>2. \A q \in Goroutines(s) : Fine(s, q)'
  <2> SUFFICES ASSUME NEW q \in Goroutines(s), q # p
               PROVE  Fine(s, q)'
    OBVIOUS
  <2> QED
    BY <1>1, FineStays DEF Good, Steady, TypesNext
<1>3. ASSUME NEW q \in Goroutines(s), NEW r \in Goroutines(s), q # r
      PROVE  Apart(s, q, r)'
  <2>1. CASE q = p
    BY <1>3, <2>1 DEF Steady
  <2>2. CASE r = p
    BY <1>3, <2>2 DEF Steady
  <2>3. CASE q # p /\ r # p
    <3>1. Apart(s, q, r) /\ Stays(q) /\ Stays(r)
      BY <1>1, <1>3, <2>3 DEF Good, Steady, Mild
    <3> QED
      BY <3>1, ApartStays
  <2> QED
    BY <2>1, <2>2, <2>3
<1>4. Goroutines(s)' = Goroutines(s)
  BY DEF Goroutines
<1>5. Good(s)'
  BY <1>2, <1>3, <1>4 DEF Good
<1> QED
  BY <1>5, SandboxKeeps

-----------------------------------------------------------------------------
(***************************************************************************)
(* What most steps leave alone                                             *)
(***************************************************************************)
USE DEF IsolatePoints, Building, Ensuring, Clearing, Stopping

\* A step that touches no rule leaves all of them alone.
NoRuleTouched ==
    /\ RuleType' /\ NoDuplicateRules' /\ (listFailed' <=> listFailed)
    /\ \A p \in Processes : batch'[p] = batch[p]
    /\ \A t \in Networks : SameRules(t) /\ RulesSay(t) /\ NoRuleCame(t) /\ NoRuleWent(t)
    /\ \A c \in ChainNames, r \in Rules : Has(c, r)' <=> Has(c, r)

\* A step that leaves the variables of nftables alone touches no rule.
LEMMA NftSame ==
    ASSUME BackendInv, UNCHANGED nftVars, UNCHANGED raced
    PROVE  NoRuleTouched
<1>1. UNCHANGED <<chains, batch, listFailed>>
  BY DEF nftVars
<1>2. RuleType' /\ NoDuplicateRules'
  BY <1>1 DEF BackendInv, RuleType, Fits, NoDuplicateRules
<1>3. \A c, r : Has(c, r)' <=> Has(c, r)
  BY <1>1 DEF Has
<1>4. \A t \in Networks : SameRules(t)
  BY <1>1, <1>3 DEF SameRules
<1>5. \A t \in Networks : RulesSay(t)
  BY <1>2, <1>4, SameRulesSay DEF BackendInv
<1>6. \A t \in Networks : NoRuleCame(t) /\ NoRuleWent(t)
  BY <1>4 DEF SameRules, NoRuleCame, NoRuleWent
<1> QED
  BY <1>1, <1>2, <1>3, <1>4, <1>5, <1>6 DEF NoRuleTouched

\* A step that touches no container leaves them alone.
NoContainerTouched ==
    ContainerType' /\ StartType' /\ \A t \in Networks : Still(t) /\ StillSays(t)

\* A step that leaves the containers and the starts alone touches none of them.
LEMMA DockerSame ==
    ASSUME BackendInv, UNCHANGED <<containers, starts>>
    PROVE  NoContainerTouched
<1>1. \A t \in Networks : Still(t)
  BY DEF Still
<1> QED
  BY <1>1, StillSame DEF NoContainerTouched, BackendInv, ContainerType, StartType

\* The step is one of the goroutine p.
OnlyMoves(p) == \A q \in Processes \ {p} : proc'[q] = proc[q]

\* What the step leaves alone of every sandbox, its own too.
Unmarked == UNCHANGED <<lost, kept, leaky, gone, raced>>

\* The other sandboxes stay the same in a step of p that changes at most the
\* containers and the record of its own sandbox s.
LEMMA ElsewhereSame ==
    ASSUME NEW s \in Networks, NEW p \in Goroutines(s), OnlyMoves(p), UNCHANGED daemon,
           listFailed => listFailed',
           \A q \in Processes \ {p} : batch'[q] = batch[q] /\ (q \in fresh' <=> q \in fresh),
           \A t \in Networks \ {s} :
               /\ phase'[t] = phase[t]
               /\ t \in runtime' <=> t \in runtime
               /\ t \in networks' <=> t \in networks
               /\ SameMarks(t) /\ Still(t) /\ SameRules(t)
    PROVE  Elsewhere(s)
<1> SUFFICES ASSUME NEW t \in Networks \ {s}
             PROVE  Same(t)
  BY DEF Elsewhere
<1>1. \A q \in Goroutines(t) : q \in Processes \ {p}
  BY ProcessNames
<1>2. SameCalls(t)
  BY <1>1 DEF SameCalls, OnlyMoves
<1> QED
  BY <1>2 DEF Same, SameRecord

\* The step of p keeps it apart from q when it starts nothing that q excludes.
LEMMA ApartMoves ==
    ASSUME NEW s \in Networks, NEW p \in Goroutines(s), NEW q \in Goroutines(s),
           Apart(s, p, q), Apart(s, q, p), proc'[q] = proc[q],
           proc'[p].call \in {"create", "reapply"} => proc[p].call = proc'[p].call,
           (proc[q].call = "create" /\ Bystander(proc[p])) => Bystander(proc'[p]),
           proc[p].call = "none" => proc'[p].call = "none",
           s \notin raced' => s \notin raced,
           (s \notin raced' /\ Isolating(p)' /\ Isolating(q)) => Isolating(p),
           s \notin leaky' => s \notin leaky,
           (s \notin leaky' /\ Selected(proc'[p]) /\ proc[q].at \in IsolatePoints)
               => Selected(proc[p]),
           (s \notin leaky' /\ proc'[p].at \in IsolatePoints /\ Selected(proc[q]))
               => proc[p].at \in IsolatePoints
    PROVE  Apart(s, p, q)' /\ Apart(s, q, p)'
<1>1. (Isolating(q)' <=> Isolating(q)) /\ (Selected(proc[q])' <=> Selected(proc[q]))
      /\ (Bystander(proc[q])' <=> Bystander(proc[q]))
      /\ (Selected(proc[p])' <=> Selected(proc'[p])) /\ (Bystander(proc[p])' <=> Bystander(proc'[p]))
  BY DEF Isolating, Selected, Removes, Bystander
<1>2. Apart(s, p, q)'
  BY <1>1 DEF Apart
<1>3. Apart(s, q, p)'
  BY <1>1 DEF Apart
<1> QED
  BY <1>2, <1>3

\* A goroutine that has queued nothing and queues nothing.
LEMMA QueuesMove ==
    ASSUME NEW s \in Networks, NEW p \in Goroutines(s), Queues(s, p), NoRuleTouched,
           s \in leaky => s \in leaky',
           proc[p].at \notin {"isolateInput", "isolateFlush", "unruleFlush"},
           proc'[p].at \notin {"isolateInput", "isolateFlush", "unruleFlush"},
           (s \notin leaky' /\ Selected(proc'[p])) => Selected(proc[p]),
           (s \notin leaky' /\ s \in gone') => proc'[p].at \notin IsolatePoints
    PROVE  Queues(s, p)'
<1>1. p \in Processes
  BY ProcessNames
<1>2. batch'[p] = {} /\ (NoRules(s)' <=> NoRules(s)) /\ ~Isolating(p)'
  BY <1>1 DEF Queues, NoRuleTouched, RulesSay, Isolating
<1>3. ASSUME s \notin leaky'
      PROVE  Unruled(s, proc[p], batch[p])'
  <2>1. Unruled(s, proc[p], batch[p])
    BY <1>3 DEF Queues
  <2>2. (Selected(proc[p])' <=> Selected(proc'[p]))
    BY DEF Selected, Removes
  <2> QED
    BY <1>2, <1>3, <2>1, <2>2 DEF Unruled, Selected
<1> QED
  BY <1>2, <1>3 DEF Queues

\* A step of p that leaves the rules, the containers and the history alone keeps
\* the invariant when it keeps what is said of p.
LEMMA ControlKeeps ==
    ASSUME BackendInv, NEW s \in Networks, NEW p \in Goroutines(s), ProcType', OnlyMoves(p),
           UNCHANGED nftVars, UNCHANGED <<daemon, phase, runtime, containers, starts>>,
           UNCHANGED history,
           networks' = networks \/ (networks' = networks \cup {s} /\ proc[p].call = "create"),
           proc[p].call # "reapply", Fine(s, p)',
           \A q \in Goroutines(s) \ {p} : Apart(s, p, q)' /\ Apart(s, q, p)'
    PROVE  BackendInv'
<1>1. Unmarked /\ UNCHANGED <<fresh, woken>>
  BY DEF history, marks, Unmarked
<1>2. NoRuleTouched /\ NoContainerTouched /\ PhaseType'
  BY <1>1, NftSame, DockerSame DEF BackendInv, PhaseType, Unmarked
<1>3. Good(s) /\ p \in Processes
  BY InvGood, ProcessNames
<1>4. /\ \A q \in Goroutines(s) \ {p} : Stays(q)
      /\ \A t \in Networks : SameMarks(t)
  BY <1>1, <1>2, ProcessNames DEF Stays, OnlyMoves, NoRuleTouched, SameMarks, Unmarked
<1>5. Elsewhere(s)
  BY <1>1, <1>2, <1>4, ElsewhereSame DEF NoRuleTouched, NoContainerTouched
<1>6. \A x \in Names(s) : DownOrWoken(s, x)' <=> DownOrWoken(s, x)
  BY <1>1, <1>2 DEF DownOrWoken, Running, NoContainerTouched, Still
<1>7. ASSUME NEW q \in Goroutines(s) \ {p}
      PROVE  Mild(s, q)
  <2>1. Fine(s, q) /\ Apart(s, p, q)
    BY <1>3, <1>7 DEF Good
  <2>2. MildService(s, q)
    BY <1>1, <1>2, <2>1 DEF MildService, Unmarked, NoContainerTouched, StillSays, Fine, Role
  <2>3. MildDocker(s, q)
    BY <1>1, <1>2, <1>6, <2>1 DEF MildDocker, Unmarked, NoContainerTouched, StillSays, Still,
       Apart, Bystander, Removes
  <2>4. MildRules(s, q)
    BY <1>1, <1>2 DEF MildRules, Unmarked, NoRuleTouched
  <2>5. MildCover(s, q)
    BY <1>1, <1>2 DEF MildCover, Unmarked, NoRuleTouched, RulesSay, Occupied,
       NoContainerTouched, StillSays
  <2> QED
    BY <1>4, <2>2, <2>3, <2>4, <2>5 DEF Mild
<1>8. Ground(s)'
  <2>1. Reapplying(s) => Reapplying(s)'
    BY <1>2, <1>3, <1>4 DEF Reapplying, NoContainerTouched, StillSays, Goroutines, Stays
  <2>2. networks' # networks => s \notin gone /\ phase[s] # "absent"
    BY <1>3 DEF Good, Fine, Role
  <2> QED
    BY <1>1, <1>2, <1>3, <1>6, <2>1, <2>2 DEF Good, Ground, Unmarked, NoContainerTouched,
       StillSays, NoRuleTouched, RulesSay, Occupied
<1> QED
  BY <1>1, <1>2, <1>5, <1>7, <1>8, StepKeeps DEF Steady, TypesNext, NoRuleTouched,
     NoContainerTouched, Unmarked

-----------------------------------------------------------------------------
(***************************************************************************)
(* The steps                                                               *)
(***************************************************************************)
\* A goroutine makes one of the calls.
LEMMA KnownCall ==
    ASSUME ProcType, NEW p \in Processes
    PROVE  proc[p].call \in AllCalls /\ proc[p].at \in AllPoints
  BY DEF ProcType, Records

\* A goroutine that takes up its call, or drops it, keeps the invariant.
LEMMA EnterKeeps ==
    ASSUME BackendInv, NEW s \in Networks, NEW p \in Goroutines(s), Enter(s, p)
    PROVE  BackendInv'
<1>1. /\ Good(s) /\ Fine(s, p) /\ p \in Processes /\ ProcType
      /\ UNCHANGED nftVars /\ UNCHANGED <<daemon, phase, runtime, networks, containers, starts>>
      /\ UNCHANGED history /\ proc[p].at = "begin"
  BY InvGood, ProcessNames DEF Good, Enter, At, serviceVars, dockerVars, goVars
<1>2. /\ ProcType'
      /\ \/ Moves(p, "none", "idle", FALSE, FALSE, {})
         \/ /\ proc[p].call = "create"
            /\ Moves(p, "create", "network", proc[p].err, proc[p].dirty, proc[p].left)
         \/ /\ proc[p].call = "resume"
            /\ Moves(p, "resume", "mustExist", proc[p].err, proc[p].dirty, proc[p].left)
         \/ /\ proc[p].call = "stop"
            /\ Moves(p, "stop", "cancel", proc[p].err, proc[p].dirty, proc[p].left)
         \/ /\ proc[p].call = "delete" /\ s \in runtime
            /\ Moves(p, "delete", "cancel", proc[p].err, proc[p].dirty, proc[p].left)
         \/ /\ proc[p].call = "delete"
            /\ Moves(p, "deleteNothing", "return", proc[p].err, proc[p].dirty, proc[p].left)
  <2>1. CASE At(p, "create", "begin")
    BY <1>1, <2>1, GotoMoves, IdleMoves DEF Enter, At, AllPoints
  <2>2. CASE At(p, "resume", "begin")
    BY <1>1, <2>2, GotoMoves, IdleMoves DEF Enter, At, AllPoints
  <2>3. CASE At(p, "stop", "begin")
    BY <1>1, <2>3, GotoMoves, IdleMoves DEF Enter, At, AllPoints
  <2>4. CASE At(p, "delete", "begin")
    BY <1>1, <2>4, GotoMoves, NothingMoves DEF Enter, At, AllPoints
  <2> QED
    BY <2>1, <2>2, <2>3, <2>4 DEF Enter
<1>3. proc[p].call \in {"create", "resume", "stop", "delete"}
  BY <1>1, KnownCall DEF Fine, Role, Route, AllCalls
<1>4. NoRuleTouched /\ NoContainerTouched
  BY <1>1, NftSame, DockerSame DEF history, marks
<1>5. UNCHANGED <<gone, lost, kept, leaky, raced, fresh, woken>>
  BY <1>1 DEF history, marks
<1>6. Role(s, p)'
  BY <1>1, <1>2, <1>3, <1>5 DEF Fine, Role, Route, Moves
<1>7. Work(s, p)'
  BY <1>1, <1>2, <1>3, <1>4 DEF Fine, Work, Removal, Removes, Moves, NoContainerTouched, StillSays
<1>8. Queues(s, p)'
  BY <1>1, <1>2, <1>4, <1>5, QueuesMove DEF Fine, Moves, Selected, Removes
<1>9. Cover(s, p)'
  BY <1>2 DEF Cover, Moves, Isolating
<1>10. ASSUME NEW q \in Goroutines(s) \ {p}
       PROVE  Apart(s, p, q)' /\ Apart(s, q, p)'
  <2>1. Apart(s, p, q) /\ Apart(s, q, p) /\ proc'[q] = proc[q]
    BY <1>1, <1>2, <1>10, ProcessNames DEF Good, Moves
  <2>2. proc[q].call = "create" => s \notin runtime
    BY <1>1, <1>10 DEF Good, Fine, Role
  <2> QED
    BY <1>1, <1>2, <1>3, <1>5, <2>1, <2>2, ApartMoves
       DEF Moves, Bystander, Selected, Isolating, Removes
<1> QED
  BY <1>1, <1>2, <1>3, <1>6, <1>7, <1>8, <1>9, <1>10, ControlKeeps DEF Fine, OnlyMoves, Moves

\* CreateSandbox's network keeps the invariant.
LEMMA NetworkCreateKeeps ==
    ASSUME BackendInv, NEW s \in Networks, NEW p \in Goroutines(s), NetworkCreate(s, p)
    PROVE  BackendInv'
<1>1. /\ Good(s) /\ Fine(s, p) /\ p \in Processes /\ ProcType
      /\ UNCHANGED nftVars /\ UNCHANGED <<daemon, phase, runtime, containers, starts>>
      /\ UNCHANGED history /\ proc[p].at = "network" /\ proc[p].call = "create"
      /\ networks' = networks \cup {s} \/ networks' = networks
  BY InvGood, ProcessNames DEF Good, NetworkCreate, At, serviceVars, goVars
<1>2. /\ ProcType'
      /\ \/ Moves(p, "create", "isolate", proc[p].err, proc[p].dirty, proc[p].left)
         \/ Moves(p, "create", "cancel", TRUE, proc[p].dirty, proc[p].left)
  BY <1>1, GotoMoves, FailMoves DEF NetworkCreate, At, AllPoints
<1>3. NoRuleTouched /\ NoContainerTouched
  BY <1>1, NftSame, DockerSame DEF history, marks
<1>4. UNCHANGED <<gone, lost, kept, leaky, raced, fresh, woken>>
  BY <1>1 DEF history, marks
<1>5. Role(s, p)'
  BY <1>1, <1>2, <1>4 DEF Fine, Role, Route, Moves
<1>6. Work(s, p)'
  BY <1>1, <1>2, <1>3 DEF Fine, Work, Removal, Removes, Moves, NoContainerTouched, StillSays
<1>7. Queues(s, p)'
  BY <1>1, <1>2, <1>3, <1>4, QueuesMove DEF Fine, Role, Moves, Selected
<1>8. Cover(s, p)'
  BY <1>2 DEF Cover, Moves, Isolating
<1>9. ASSUME NEW q \in Goroutines(s) \ {p}
      PROVE  Apart(s, p, q)' /\ Apart(s, q, p)'
  <2>1. Apart(s, p, q) /\ Apart(s, q, p) /\ proc'[q] = proc[q]
    BY <1>1, <1>2, <1>9, ProcessNames DEF Good, Moves
  <2>2. ~Selected(proc[q]) /\ ~Isolating(q)
    BY <1>1, <1>9, <2>1 DEF Good, Fine, Role, Route, Apart, Bystander, Selected,
       Isolating, Removes
  <2> QED
    BY <1>1, <1>2, <1>4, <2>1, <2>2, ApartMoves
       DEF Moves, Bystander, Selected, Isolating, Removes
<1> QED
  BY <1>1, <1>2, <1>5, <1>6, <1>7, <1>8, <1>9, ControlKeeps DEF Fine, OnlyMoves, Moves

\* The look for the containers of a sandbox keeps the invariant.
LEMMA MustExistKeeps ==
    ASSUME BackendInv, NEW s \in Networks, NEW p \in Goroutines(s), MustExist(s, p)
    PROVE  BackendInv'
<1>1. /\ Good(s) /\ Fine(s, p) /\ p \in Processes /\ ProcType
      /\ UNCHANGED nftVars /\ UNCHANGED <<daemon, phase, runtime, networks, containers, starts>>
      /\ UNCHANGED history /\ proc[p].at = "mustExist"
  BY InvGood, ProcessNames DEF Good, MustExist, At, serviceVars, dockerVars, goVars
<1>2. proc[p].call \in {"resume", "exec"}
  BY <1>1, KnownCall DEF Fine, Role, Route, AllCalls
<1>3. /\ ProcType'
      /\ \/ /\ proc[p].call = "resume" /\ ~NoContainers(s)
            /\ Moves(p, "resume", "isolate", proc[p].err, proc[p].dirty, proc[p].left)
         \/ /\ proc[p].call = "exec"
            /\ Moves(p, "exec", "ensurePrimary", proc[p].err, proc[p].dirty, proc[p].left)
         \/ Moves(p, proc[p].call, "return", TRUE, proc[p].dirty, proc[p].left)
  BY <1>1, <1>2, GotoMoves, FailMoves DEF MustExist, At, AllPoints, NoContainers, Names
<1>4. NoRuleTouched /\ NoContainerTouched
  BY <1>1, NftSame, DockerSame DEF history, marks
<1>5. UNCHANGED <<gone, lost, kept, leaky, raced, fresh, woken>>
  BY <1>1 DEF history, marks
<1>6. Role(s, p)'
  BY <1>1, <1>2, <1>3, <1>5 DEF Fine, Role, Route, Moves
<1>7. Work(s, p)'
  BY <1>1, <1>2, <1>3, <1>4 DEF Fine, Work, Removal, Removes, Moves, NoContainerTouched, StillSays
<1>8. Queues(s, p)'
  BY <1>1, <1>2, <1>3, <1>4, <1>5, QueuesMove DEF Good, Ground, Fine, Moves, Selected, Removes
<1>9. Cover(s, p)'
  BY <1>2, <1>3 DEF Cover, Moves, Isolating
<1>10. ASSUME NEW q \in Goroutines(s) \ {p}
       PROVE  Apart(s, p, q)' /\ Apart(s, q, p)'
  <2>1. Apart(s, p, q) /\ Apart(s, q, p) /\ proc'[q] = proc[q]
    BY <1>1, <1>3, <1>10, ProcessNames DEF Good, Moves
  <2>2. ~NoContainers(s) => ~Selected(proc[q])
    BY <1>1, <1>10 DEF Good, Fine, Work, Removal, Selected
  <2> QED
    BY <1>1, <1>2, <1>3, <1>5, <2>1, <2>2, ApartMoves
       DEF Moves, Bystander, Selected, Isolating, Removes
<1> QED
  BY <1>1, <1>2, <1>3, <1>6, <1>7, <1>8, <1>9, <1>10, ControlKeeps DEF Fine, OnlyMoves, Moves

\* CancelAndWait keeps the invariant.
LEMMA CancelAndWaitKeeps ==
    ASSUME BackendInv, NEW s \in Networks, NEW p \in Goroutines(s), CancelAndWait(s, p)
    PROVE  BackendInv'
<1>1. /\ Good(s) /\ Fine(s, p) /\ p \in Processes /\ ProcType
      /\ UNCHANGED nftVars /\ UNCHANGED <<daemon, phase, runtime, networks, containers, starts>>
      /\ UNCHANGED history /\ proc[p].at \in {"cancel", "await"}
  BY InvGood, ProcessNames DEF Good, CancelAndWait, At, serviceVars, dockerVars, goVars
<1>2. proc[p].call \in {"create", "delete", "cleanup", "stop", "halt"}
  BY <1>1, KnownCall DEF Fine, Role, Route, AllCalls
<1>3. /\ ProcType'
      /\ \/ Moves(p, proc[p].call, "await", proc[p].err, proc[p].dirty, proc[p].left)
         \/ /\ Settled(s) /\ proc[p].call \in {"stop", "halt"}
            /\ Moves(p, proc[p].call, "stopPrimary", proc[p].err, proc[p].dirty, proc[p].left)
         \/ /\ Settled(s) /\ proc[p].call \in {"create", "delete", "cleanup"}
            /\ Moves(p, proc[p].call, "rmPrimary", proc[p].err, proc[p].dirty, proc[p].left)
  BY <1>1, <1>2, GotoMoves DEF CancelAndWait, At, AllPoints, Settled, Stops
<1>4. NoRuleTouched /\ NoContainerTouched
  BY <1>1, NftSame, DockerSame DEF history, marks
<1>5. UNCHANGED <<gone, lost, kept, leaky, raced, fresh, woken>>
  BY <1>1 DEF history, marks
<1>6. Role(s, p)'
  BY <1>1, <1>2, <1>3, <1>5 DEF Fine, Role, Route, Moves
<1>7. Work(s, p)'
  BY <1>1, <1>2, <1>3, <1>4 DEF Fine, Work, Removal, Removes, Moves, NoContainerTouched, StillSays
<1>8. Queues(s, p)'
  BY <1>1, <1>2, <1>3, <1>4, <1>5, QueuesMove DEF Good, Ground, Fine, Moves, Selected, Removes
<1>9. Cover(s, p)'
  BY <1>2, <1>3 DEF Cover, Moves, Isolating
<1>10. ASSUME NEW q \in Goroutines(s) \ {p}
       PROVE  Apart(s, p, q)' /\ Apart(s, q, p)'
  <2>1. Apart(s, p, q) /\ Apart(s, q, p) /\ proc'[q] = proc[q]
    BY <1>1, <1>3, <1>10, ProcessNames DEF Good, Moves
  <2> QED
    BY <1>1, <1>2, <1>3, <1>5, <2>1, ApartMoves
       DEF Moves, Bystander, Selected, Isolating, Removes
<1> QED
  BY <1>1, <1>2, <1>3, <1>6, <1>7, <1>8, <1>9, <1>10, ControlKeeps DEF Fine, OnlyMoves, Moves

\* A step of p leaves the rules and the other sandboxes alone, but not the
\* containers of its own sandbox.
ContainersMove(s, p) ==
    /\ ProcType' /\ ContainerType' /\ StartType' /\ OnlyMoves(p)
    /\ UNCHANGED nftVars /\ UNCHANGED <<daemon, phase, runtime>>
    /\ UNCHANGED <<fresh, lost, leaky, gone, raced>>
    /\ \A t \in Networks \ {s} :
           /\ Still(t)
           /\ t \in networks' <=> t \in networks
           /\ t \in kept' <=> t \in kept
           /\ \A x \in Names(t) : <<t, x>> \in woken' <=> <<t, x>> \in woken

\* What is left to show of a step that touches the containers.
LEMMA ContainersKeep ==
    ASSUME BackendInv, NEW s \in Networks, NEW p \in Goroutines(s), ContainersMove(s, p),
           proc[p].call # "none", s \in kept => s \in kept',
           \A q \in Goroutines(s) \ {p} :
               /\ Bystander(proc[q]) \/ MildDocker(s, q)
               /\ Occupied(s)' => Occupied(s) \/ ~Isolating(q)
               /\ Apart(s, p, q)' /\ Apart(s, q, p)',
           Ground(s)', Fine(s, p)'
    PROVE  BackendInv'
<1>1. NoRuleTouched /\ PhaseType'
  BY NftSame DEF BackendInv, PhaseType, ContainersMove
<1>2. Good(s) /\ p \in Processes
  BY InvGood, ProcessNames
<1>3. \A q \in Goroutines(s) \ {p} : Stays(q)
  BY <1>1, ProcessNames DEF Stays, OnlyMoves, NoRuleTouched, ContainersMove
<1>4. Elsewhere(s)
  BY <1>1, ElsewhereSame DEF NoRuleTouched, ContainersMove, SameMarks
<1>5. ASSUME NEW q \in Goroutines(s) \ {p}
      PROVE  Mild(s, q)
  <2>1. Fine(s, q) /\ Apart(s, q, p)
    BY <1>2, <1>5 DEF Good
  <2>2. MildService(s, q)
    BY <2>1 DEF MildService, ContainersMove, Fine, Role, Apart
  <2>3. MildRules(s, q)
    BY <1>1 DEF MildRules, NoRuleTouched, ContainersMove
  <2>4. MildCover(s, q)
    BY <1>1, <1>5 DEF MildCover, NoRuleTouched, RulesSay, ContainersMove
  <2> QED
    BY <1>3, <1>5, <2>2, <2>3, <2>4 DEF Mild
<1> QED
  BY <1>1, <1>4, <1>5, StepKeeps DEF Steady, TypesNext, NoRuleTouched, ContainersMove

\* A step that brings no container to the sandbox, starts none where a stop
\* relies on it without a mark, and settles nothing anew.
LEMMA LessKeeps ==
    ASSUME BackendInv, NEW s \in Networks, NEW p \in Goroutines(s), ContainersMove(s, p),
           proc[p].call \notin {"none", "reapply"}, s \in kept => s \in kept',
           Settled(s)' <=> Settled(s),
           \A x \in Names(s) : containers[s][x] = "none" => containers'[s][x] = "none",
           (phase[s] = "stopped" \/ \E q \in Goroutines(s) \ {p} : proc[q].call = "stop") =>
               \A x \in Names(s) : DownOrWoken(s, x) => DownOrWoken(s, x)',
           s \in networks' => s \in networks,
           \A q \in Goroutines(s) \ {p} : Apart(s, p, q)' /\ Apart(s, q, p)',
           Fine(s, p)'
    PROVE  BackendInv'
<1>1. NoRuleTouched
  BY NftSame DEF ContainersMove
<1>2. Good(s)
  BY InvGood
<1>3. NoContainers(s) => NoContainers(s)'
  BY DEF NoContainers
<1>4. Occupied(s)' => Occupied(s)
  BY <1>3 DEF Occupied
<1>5. ~Reapplying(s)
  BY <1>2 DEF Reapplying, Good, Fine, Role, Apart
<1>6. Ground(s)'
  BY <1>1, <1>2, <1>3, <1>4, <1>5 DEF Good, Ground, Fine, Role, NoRuleTouched, RulesSay, ContainersMove
<1>7. \A q \in Goroutines(s) \ {p} : MildDocker(s, q)
  BY DEF MildDocker
<1> QED
  BY <1>4, <1>6, <1>7, ContainersKeep

\* A step of a creation that builds the sandbox.
LEMMA BuildKeeps ==
    ASSUME BackendInv, NEW s \in Networks, NEW p \in Goroutines(s), ContainersMove(s, p),
           proc[p].call = "create", proc[p].at \in Building,
           UNCHANGED <<networks, kept>>, Role(s, p)', Work(s, p)',
           proc'[p].call = "create", proc'[p].at \in Building \cup {"cancel", "return"},
           proc'[p].at = "return" => ~proc'[p].err
    PROVE  BackendInv'
<1>1. NoRuleTouched
  BY NftSame DEF ContainersMove
<1>2. Good(s) /\ Fine(s, p)
  BY InvGood DEF Good
<1>3. (s \notin lost \cup kept) => Isolated(s)
  BY <1>2 DEF Fine, Cover
<1>4. Ground(s)'
  BY <1>1, <1>2, <1>3 DEF Ground, Fine, Role, NoRuleTouched, RulesSay, ContainersMove
<1>5. Role(s, p) /\ Queues(s, p)
  BY <1>2 DEF Fine
<1>6. Queues(s, p)'
  BY <1>1, <1>5, QueuesMove DEF Role, Selected, Removes, ContainersMove
<1>7. Cover(s, p)'
  BY <1>1, <1>3 DEF Cover, Isolating, NoRuleTouched, RulesSay, ContainersMove
<1>8. ASSUME NEW q \in Goroutines(s) \ {p}
      PROVE  /\ Bystander(proc[q]) /\ ~Isolating(q) /\ Apart(s, p, q)' /\ Apart(s, q, p)'
  <2>1. Apart(s, p, q) /\ Apart(s, q, p) /\ Role(s, q) /\ proc'[q] = proc[q]
    BY <1>2, <1>8, ProcessNames DEF Good, Fine, ContainersMove, OnlyMoves
  <2>2. Bystander(proc[q])
    BY <2>1 DEF Apart
  <2>3. ~Isolating(q) /\ ~Selected(proc[q]) /\ proc[q].at \notin IsolatePoints
    BY <2>1, <2>2 DEF Bystander, Role, Route, Isolating, Selected, Removes
  <2> QED
    BY <1>5, <2>1, <2>2, <2>3, ApartMoves DEF Bystander, Isolating, ContainersMove
<1> QED
  BY <1>4, <1>6, <1>7, <1>8, ContainersKeep DEF Fine

\* startCompanionContainersAsync keeps the invariant.
LEMMA StartCompanionsKeeps ==
    ASSUME BackendInv, NEW s \in Networks, NEW p \in Goroutines(s), StartCompanions(s, p)
    PROVE  BackendInv'
<1>1. /\ Fine(s, p) /\ p \in Processes /\ ProcType /\ StartType /\ ContainerType
      /\ UNCHANGED nftVars /\ UNCHANGED <<daemon, phase, runtime, networks, containers>>
      /\ UNCHANGED <<fresh, lost, kept, leaky, gone, raced, woken>>
      /\ proc[p].at = "companions" /\ proc[p].call = "create"
      /\ starts' = [starts EXCEPT ![s] = [c \in Companions[s] |-> "create"]]
  BY InvGood, ProcessNames DEF Good, StartCompanions, At, serviceVars, dockerVars, history, marks
<1>2. ProcType' /\ Moves(p, "create", "primary", proc[p].err, proc[p].dirty, proc[p].left)
  BY <1>1, GotoMoves DEF StartCompanions, AllPoints
<1>3. StartType' /\ \A t \in Networks \ {s} : starts'[t] = starts[t]
  BY <1>1 DEF StartType
<1>4. ContainersMove(s, p)
  BY <1>1, <1>2, <1>3 DEF ContainersMove, OnlyMoves, Moves, Still, ContainerType
<1>5. Role(s, p)' /\ Work(s, p)'
  BY <1>1, <1>2 DEF Fine, Role, Route, Work, Removal, Removes, Moves
<1> QED
  BY <1>1, <1>2, <1>4, <1>5, BuildKeeps DEF Moves

\* CreateSandbox's primary keeps the invariant.
LEMMA CreatePrimaryKeeps ==
    ASSUME BackendInv, NEW s \in Networks, NEW p \in Goroutines(s), CreatePrimary(s, p)
    PROVE  BackendInv'
<1>1. /\ Fine(s, p) /\ p \in Processes /\ ProcType /\ StartType /\ ContainerType
      /\ UNCHANGED nftVars /\ UNCHANGED <<daemon, phase, runtime, networks, starts>>
      /\ UNCHANGED <<fresh, lost, kept, leaky, gone, raced, woken>>
      /\ proc[p].at \in {"primary", "start", "wait"} /\ proc[p].call = "create"
      /\ \/ containers' = containers
         \/ \E st \in {"stopped", "running"} :
                containers' = [containers EXCEPT ![s]["primary"] = st]
  BY InvGood, ProcessNames DEF Good, CreatePrimary, serviceVars, goVars, history, marks
<1>2. /\ ProcType'
      /\ \/ \E pt \in {"start", "wait", "return"} :
                Moves(p, "create", pt, proc[p].err, proc[p].dirty, proc[p].left)
         \/ Moves(p, "create", "cancel", TRUE, proc[p].dirty, proc[p].left)
  BY <1>1, GotoMoves, FailMoves DEF CreatePrimary, AllPoints
<1>3. ~proc[p].err
  BY <1>1 DEF Fine, Role
<1>4. ContainerType' /\ \A t \in Networks \ {s} : \A x \in Names(t) :
          containers'[t][x] = containers[t][x]
  BY <1>1, ContainerBecomes DEF Becomes, ContainerType
<1>5. ContainersMove(s, p)
  BY <1>1, <1>2, <1>4 DEF ContainersMove, OnlyMoves, Moves, Still, StartType
<1>6. Role(s, p)' /\ Work(s, p)'
  BY <1>1, <1>2, <1>3 DEF Fine, Role, Route, Work, Removal, Removes, Moves
<1> QED
  BY <1>1, <1>2, <1>3, <1>5, <1>6, BuildKeeps DEF Moves

\* What an ordinary step of p shares: its queue is empty and stays so.
LEMMA PlainQueues ==
    ASSUME NEW s \in Networks, NEW p \in Goroutines(s), Queues(s, p), NoRuleTouched,
           UNCHANGED <<leaky, gone>>,
           proc[p].at \in Ensuring \cup Stopping \cup {"rmPrimary", "rmCompanions", "rmNetwork"},
           proc'[p].at \in Ensuring \cup Stopping
                             \cup {"rmPrimary", "rmCompanions", "unrule", "rmNetwork", "return"},
           Selected(proc'[p]) => Selected(proc[p])
    PROVE  Queues(s, p)' /\ Cover(s, p)'
<1>1. Queues(s, p)'
  BY QueuesMove
<1>2. Cover(s, p)'
  BY DEF Cover, Isolating
<1> QED
  BY <1>1, <1>2

\* And what it shares with the other goroutines: it is no creation, and goes
\* to no point that excludes another.
LEMMA PlainApart ==
    ASSUME BackendInv, NEW s \in Networks, NEW p \in Goroutines(s),
           OnlyMoves(p), proc'[p].call = proc[p].call, UNCHANGED <<leaky, raced>>,
           proc[p].at \in Ensuring \cup Stopping \cup {"rmPrimary", "rmCompanions", "rmNetwork"},
           proc'[p].at \in Ensuring \cup Stopping
                             \cup {"rmPrimary", "rmCompanions", "unrule", "rmNetwork", "return"},
           Selected(proc'[p]) => Selected(proc[p])
    PROVE  \A q \in Goroutines(s) \ {p} : Apart(s, p, q)' /\ Apart(s, q, p)'
<1> SUFFICES ASSUME NEW q \in Goroutines(s) \ {p}
             PROVE  Apart(s, p, q)' /\ Apart(s, q, p)'
  OBVIOUS
<1>1. Apart(s, p, q) /\ Apart(s, q, p) /\ Role(s, p) /\ proc'[q] = proc[q]
  BY InvGood, ProcessNames DEF Good, Fine, OnlyMoves
<1>2. ~Bystander(proc[p])
  BY <1>1 DEF Bystander, Role, Route
<1>3. ~Isolating(p)' /\ proc'[p].at \notin IsolatePoints
  BY DEF Isolating
<1> QED
  BY <1>1, <1>2, <1>3, ApartMoves

\* Starting a container that is there brings none, and is marked when a stop
\* of the sandbox relies on it.
LEMMA EnsureSays ==
    ASSUME ContainerType, NEW s \in Networks, NEW x, Ensure(s, x) \/ NotEnsured
    PROVE  /\ ContainerType'
           /\ \A t \in Networks \ {s} : \A y \in Names(t) :
                  /\ containers'[t][y] = containers[t][y]
                  /\ <<t, y>> \in woken' <=> <<t, y>> \in woken
           /\ \A y \in Names(s) : containers[s][y] = "none" => containers'[s][y] = "none"
           /\ (phase[s] = "stopped" \/ Calling(s, "stop")) =>
                  \A y \in Names(s) : DownOrWoken(s, y) => DownOrWoken(s, y)'
<1>1. CASE NotEnsured
  BY <1>1 DEF NotEnsured, ContainerType, DownOrWoken, Running
<1>2. CASE Ensure(s, x)
  <2>1. /\ containers[s][x] # "none"
        /\ containers' = [containers EXCEPT ![s][x] = "running"]
        /\ woken' = woken \/ woken' = woken \cup {<<s, x>>}
    BY <1>2 DEF Ensure, CanStart
  <2>2. ContainerType' /\ Becomes(s, x, "running")
    BY <2>1, ContainerBecomes
  <2>3. ASSUME phase[s] = "stopped" \/ Calling(s, "stop"), NEW y \in Names(s), DownOrWoken(s, y)
        PROVE  DownOrWoken(s, y)'
    <3>1. CASE y = x
      BY <1>2, <2>3, <3>1 DEF Ensure, DownOrWoken
    <3>2. CASE y # x
      BY <2>1, <2>2, <2>3, <3>2 DEF Becomes, DownOrWoken, Running
    <3> QED
      BY <3>1, <3>2
  <2> QED
    BY <2>1, <2>2, <2>3 DEF Becomes
<1> QED
  BY <1>1, <1>2

\* dockerContainerEnsureRunning keeps the invariant.
LEMMA EnsureRunningKeeps ==
    ASSUME BackendInv, NEW s \in Networks, NEW p \in Goroutines(s), EnsureRunning(s, p)
    PROVE  BackendInv'
<1>1. /\ Fine(s, p) /\ p \in Processes /\ ProcType /\ StartType /\ ContainerType /\ Good(s)
      /\ UNCHANGED nftVars /\ UNCHANGED <<daemon, phase, runtime, networks, starts>>
      /\ UNCHANGED <<fresh, lost, kept, leaky, gone, raced>>
      /\ proc[p].at \in Ensuring
      /\ \E x : Ensure(s, x) \/ NotEnsured
  BY InvGood, ProcessNames DEF Good, EnsureRunning, At, serviceVars, goVars
<1>2. proc[p].call \in {"resume", "exec"}
  BY <1>1, KnownCall DEF Fine, Role, Route, AllCalls
<1>3. /\ ProcType' /\ OnlyMoves(p) /\ proc'[p].call = proc[p].call
      /\ \/ proc'[p].at = "return"
         \/ proc[p].call = "resume" /\ proc'[p].at = "ensureCompanions"
  <2>1. CASE At(p, "any", "ensurePrimary")
    <3>1. \/ proc[p].call = "exec" /\ Goto(p, "return")
          \/ /\ proc[p].call # "exec"
             /\ proc' = [proc EXCEPT ![p].at = "ensureCompanions", ![p].left = Companions[s]]
          \/ Fail(p)
      BY <2>1 DEF EnsureRunning, At
    <3>2. CASE proc[p].call = "exec" /\ Goto(p, "return")
      BY <1>1, <3>2, GotoMoves DEF AllPoints, Moves, OnlyMoves
    <3>3. CASE /\ proc[p].call # "exec"
               /\ proc' = [proc EXCEPT ![p].at = "ensureCompanions", ![p].left = Companions[s]]
      BY <1>1, <1>2, <3>3, CompanionsOf, LoopMoves DEF AllPoints, Moves, OnlyMoves
    <3>4. CASE Fail(p)
      BY <1>1, <1>2, <3>4, FailMoves DEF Moves, OnlyMoves
    <3> QED
      BY <3>1, <3>2, <3>3, <3>4
  <2>2. CASE At(p, "resume", "ensureCompanions")
    BY <1>1, <1>2, <2>2, GotoMoves, TurnMoves DEF EnsureRunning, At, AllPoints, Moves, OnlyMoves
  <2> QED
    BY <2>1, <2>2 DEF EnsureRunning, At
<1>4. /\ ContainerType'
      /\ \A t \in Networks \ {s} : \A y \in Names(t) :
             /\ containers'[t][y] = containers[t][y]
             /\ <<t, y>> \in woken' <=> <<t, y>> \in woken
      /\ \A y \in Names(s) : containers[s][y] = "none" => containers'[s][y] = "none"
      /\ (phase[s] = "stopped" \/ Calling(s, "stop")) =>
             \A y \in Names(s) : DownOrWoken(s, y) => DownOrWoken(s, y)'
  BY <1>1, EnsureSays
<1>5. ContainersMove(s, p) /\ (Settled(s)' <=> Settled(s))
  BY <1>1, <1>3, <1>4 DEF ContainersMove, Still, Settled, StartType
<1>6. NoRuleTouched /\ ~Removes(proc'[p])
  BY <1>1, <1>2, <1>3, NftSame DEF Removes
<1>7. Role(s, p)' /\ Work(s, p)'
  BY <1>1, <1>2, <1>3, <1>6 DEF Fine, Role, Route, Work, Removal, Removes
<1>8. Queues(s, p)' /\ Cover(s, p)'
  BY <1>1, <1>3, <1>6, PlainQueues DEF Fine, Selected
<1>9. \A q \in Goroutines(s) \ {p} : Apart(s, p, q)' /\ Apart(s, q, p)'
  BY <1>1, <1>3, <1>6, PlainApart DEF Selected
<1>10. (phase[s] = "stopped" \/ \E q \in Goroutines(s) \ {p} : proc[q].call = "stop") =>
           \A x \in Names(s) : DownOrWoken(s, x) => DownOrWoken(s, x)'
  BY <1>4 DEF Calling
<1> QED
  BY <1>1, <1>2, <1>4, <1>5, <1>7, <1>8, <1>9, <1>10, LessKeeps DEF Fine

\* Stopping a container brings none, starts none, and leaves that one down.
LEMMA StoppedSays ==
    ASSUME ContainerType, NEW s \in Networks, NEW x, Stopped(s, x)
    PROVE  /\ ContainerType'
           /\ \A t \in Networks \ {s} : \A y \in Names(t) :
                  /\ containers'[t][y] = containers[t][y]
                  /\ <<t, y>> \in woken' <=> <<t, y>> \in woken
           /\ \A y \in Names(s) : containers[s][y] = "none" => containers'[s][y] = "none"
           /\ \A y \in Names(s) : DownOrWoken(s, y) => DownOrWoken(s, y)'
           /\ x \in Names(s) => DownOrWoken(s, x)'
<1> DEFINE st == IF containers[s][x] = "running" THEN "stopped" ELSE containers[s][x]
<1>1. containers' = [containers EXCEPT ![s][x] = st] /\ woken' = woken \ {<<s, x>>}
  BY DEF Stopped, ContainerType
<1>2. CASE x \in Names(s)
  <2>1. st \in {"none", "stopped"} /\ (containers[s][x] = "none" => st = "none")
    BY <1>2 DEF ContainerType
  <2> HIDE DEF st
  <2>2. ContainerType' /\ Becomes(s, x, st)
    BY <1>1, <2>1, ContainerBecomes
  <2> QED
    BY <1>1, <2>1, <2>2 DEF Becomes, DownOrWoken, Running
<1>3. CASE x \notin Names(s)
  <2> HIDE DEF st
  <2>1. ContainerType' /\ Becomes(s, x, st)
    BY <1>1, <1>3, ContainerOutside
  <2> QED
    BY <1>1, <1>3, <2>1 DEF Becomes, DownOrWoken, Running
<1> QED
  BY <1>2, <1>3

\* StopSandbox's containers keep the invariant.
LEMMA StopContainersKeeps ==
    ASSUME BackendInv, NEW s \in Networks, NEW p \in Goroutines(s), StopContainers(s, p)
    PROVE  BackendInv'
<1>1. /\ Fine(s, p) /\ p \in Processes /\ ProcType /\ StartType /\ ContainerType /\ Good(s)
      /\ UNCHANGED nftVars /\ UNCHANGED <<daemon, phase, runtime, networks, starts>>
      /\ UNCHANGED <<fresh, lost, kept, leaky, gone, raced>>
      /\ proc[p].at \in Stopping
  BY InvGood, ProcessNames DEF Good, StopContainers, At, serviceVars, goVars
<1>2. proc[p].call \in {"stop", "halt"}
  BY <1>1, KnownCall DEF Fine, Role, Route, AllCalls
<1>3. /\ ProcType'
      /\ \/ /\ Stopped(s, "primary")
            /\ Moves(p, proc[p].call, "stopCompanions", proc[p].err, proc[p].dirty, Companions[s])
         \/ \E c : /\ proc[p].at = "stopCompanions" /\ Stopped(s, c)
                   /\ Moves(p, proc[p].call, "stopCompanions", proc[p].err, proc[p].dirty,
                            proc[p].left \ {c})
         \/ /\ UNCHANGED <<containers, woken>>
            /\ proc[p].at = "stopCompanions" /\ proc[p].left = {}
            /\ Moves(p, proc[p].call, "return", proc[p].err, proc[p].dirty, proc[p].left)
         \/ /\ UNCHANGED <<containers, woken>>
            /\ Moves(p, proc[p].call, "return", TRUE, proc[p].dirty, proc[p].left)
  <2>1. CASE /\ Stopped(s, "primary")
             /\ proc' = [proc EXCEPT ![p].at = "stopCompanions", ![p].left = Companions[s]]
    BY <1>1, <2>1, CompanionsOf, LoopMoves DEF AllPoints
  <2>2. CASE \E c : /\ proc[p].at = "stopCompanions" /\ Stopped(s, c)
                    /\ proc' = [proc EXCEPT ![p].left = @ \ {c}]
    <3>1. PICK c : /\ proc[p].at = "stopCompanions" /\ Stopped(s, c)
                   /\ proc' = [proc EXCEPT ![p].left = @ \ {c}]
      BY <2>2
    <3> QED
      BY <1>1, <3>1, TurnMoves
  <2>3. CASE /\ UNCHANGED <<containers, woken>> /\ proc[p].at = "stopCompanions"
             /\ proc[p].left = {} /\ Goto(p, "return")
    BY <1>1, <2>3, GotoMoves DEF AllPoints
  <2>4. CASE UNCHANGED <<containers, woken>> /\ Fail(p)
    BY <1>1, <1>2, <2>4, FailMoves
  <2> QED
    BY <2>1, <2>2, <2>3, <2>4 DEF StopContainers, At
<1>4. /\ ContainerType'
      /\ \A t \in Networks \ {s} : \A y \in Names(t) :
             /\ containers'[t][y] = containers[t][y]
             /\ <<t, y>> \in woken' <=> <<t, y>> \in woken
      /\ \A y \in Names(s) : containers[s][y] = "none" => containers'[s][y] = "none"
      /\ \A y \in Names(s) : DownOrWoken(s, y) => DownOrWoken(s, y)'
  <2>1. CASE \E x : Stopped(s, x)
    BY <1>1, <2>1, StoppedSays
  <2>2. CASE UNCHANGED <<containers, woken>>
    BY <1>1, <2>2 DEF ContainerType, DownOrWoken, Running
  <2> QED
    BY <1>3, <2>1, <2>2
<1>5. /\ OnlyMoves(p) /\ proc'[p].call = proc[p].call /\ ~Removes(proc'[p])
      /\ proc'[p].at \in {"stopCompanions", "return"}
  BY <1>2, <1>3 DEF Moves, OnlyMoves, Removes
<1>6. ContainersMove(s, p) /\ (Settled(s)' <=> Settled(s)) /\ NoRuleTouched /\ Settled(s)
  BY <1>1, <1>3, <1>4, <1>5, NftSame DEF ContainersMove, Still, Settled, StartType,
     Fine, Work, Removal
<1>7. Role(s, p)'
  BY <1>1, <1>2, <1>5 DEF Fine, Role, Route
<1>8. Work(s, p)'
  <2>1. Removal(s, proc[p])'
    BY <1>5, <1>6 DEF Removal, Removes
  <2>2. ASSUME ~proc'[p].err, proc'[p].at = "stopCompanions", NEW x \in Names(s) \ proc'[p].left,
               proc[p].call = "stop"
        PROVE  DownOrWoken(s, x)'
    <3>1. CASE /\ Stopped(s, "primary")
               /\ Moves(p, proc[p].call, "stopCompanions", proc[p].err, proc[p].dirty, Companions[s])
      BY <1>1, <2>2, <3>1, StoppedSays DEF Moves, Names
    <3>2. CASE \E c : /\ proc[p].at = "stopCompanions" /\ Stopped(s, c)
                      /\ Moves(p, proc[p].call, "stopCompanions", proc[p].err, proc[p].dirty,
                               proc[p].left \ {c})
      <4>1. PICK c : /\ proc[p].at = "stopCompanions" /\ Stopped(s, c)
                     /\ Moves(p, proc[p].call, "stopCompanions", proc[p].err, proc[p].dirty,
                              proc[p].left \ {c})
        BY <3>2
      <4>2. CASE x = c
        BY <1>1, <2>2, <4>1, <4>2, StoppedSays
      <4>3. CASE x # c
        <5>1. ~proc[p].err /\ x \in Names(s) \ proc[p].left
          BY <2>2, <4>1, <4>3 DEF Moves
        <5>2. DownOrWoken(s, x)
          BY <1>1, <2>2, <4>1, <5>1 DEF Fine, Work
        <5> QED
          BY <1>4, <5>2
      <4> QED
        BY <4>2, <4>3
    <3> QED
      BY <1>3, <2>2, <3>1, <3>2 DEF Moves
  <2>3. ASSUME ~proc'[p].err, proc'[p].at = "return", proc[p].call = "stop", NEW x \in Names(s)
        PROVE  DownOrWoken(s, x)'
    <3>1. proc[p].at = "stopCompanions" /\ proc[p].left = {} /\ ~proc[p].err
      BY <1>3, <2>3 DEF Moves
    <3>2. DownOrWoken(s, x)
      BY <1>1, <2>3, <3>1 DEF Fine, Work
    <3> QED
      BY <1>4, <3>2
  <2> QED
    BY <1>2, <1>5, <1>6, <2>1, <2>2, <2>3 DEF Work
<1>9. Queues(s, p)' /\ Cover(s, p)'
  BY <1>1, <1>5, <1>6, PlainQueues DEF Fine, Selected
<1>10. \A q \in Goroutines(s) \ {p} : Apart(s, p, q)' /\ Apart(s, q, p)'
  BY <1>1, <1>5, PlainApart DEF Selected
<1> QED
  BY <1>1, <1>2, <1>4, <1>6, <1>7, <1>8, <1>9, <1>10, LessKeeps DEF Fine

\* The network's removal keeps the invariant.
LEMMA RemoveNetworkKeeps ==
    ASSUME BackendInv, NEW s \in Networks, NEW p \in Goroutines(s), RemoveNetwork(s, p)
    PROVE  BackendInv'
<1>1. /\ Fine(s, p) /\ p \in Processes /\ ProcType /\ StartType /\ ContainerType /\ Good(s)
      /\ UNCHANGED nftVars /\ UNCHANGED <<daemon, phase, runtime, containers, starts>>
      /\ UNCHANGED <<fresh, lost, kept, leaky, gone, raced, woken>>
      /\ proc[p].at = "rmNetwork" /\ (networks' = networks \/ networks' = networks \ {s})
  BY InvGood, ProcessNames DEF Good, RemoveNetwork, At, serviceVars, goVars, history, marks
<1>2. proc[p].call \in {"create", "delete", "cleanup"}
  BY <1>1, KnownCall DEF Fine, Role, Route, AllCalls
<1>3. /\ ProcType'
      /\ \/ /\ s \notin networks'
            /\ Moves(p, proc[p].call, "return", proc[p].err, proc[p].dirty, proc[p].left)
         \/ Moves(p, proc[p].call, "return", proc[p].err, TRUE, proc[p].left)
  BY <1>1, GotoMoves, DirtyMoves DEF RemoveNetwork, AllPoints
<1>4. /\ OnlyMoves(p) /\ proc'[p].call = proc[p].call /\ proc'[p].at = "return"
      /\ Selected(proc'[p]) => Selected(proc[p])
  BY <1>1, <1>3 DEF Moves, OnlyMoves, Selected, Removes
<1>5. NoRuleTouched /\ NoContainerTouched
  BY <1>1, NftSame, DockerSame
<1>6. ContainersMove(s, p)
  BY <1>1, <1>3, <1>4, <1>5 DEF ContainersMove, NoContainerTouched
<1>7. Role(s, p)'
  BY <1>1, <1>2, <1>3 DEF Fine, Role, Route, Moves
<1>8. Work(s, p)'
  BY <1>1, <1>2, <1>3, <1>5 DEF Fine, Work, Removal, Removes, Moves, NoContainerTouched, StillSays
<1>9. Queues(s, p)' /\ Cover(s, p)'
  BY <1>1, <1>4, <1>5, PlainQueues DEF Fine
<1>10. \A q \in Goroutines(s) \ {p} : Apart(s, p, q)' /\ Apart(s, q, p)'
  BY <1>1, <1>4, PlainApart
<1>11. \A x \in Names(s) : DownOrWoken(s, x) => DownOrWoken(s, x)'
  BY <1>1 DEF DownOrWoken, Running
<1> QED
  BY <1>1, <1>2, <1>5, <1>6, <1>7, <1>8, <1>9, <1>10, <1>11, LessKeeps
     DEF Fine, NoContainerTouched, StillSays

\* mishaps is a number: it changes exactly when something goes wrong.
CountType == mishaps \in Nat

\* A step counts at most one mishap.
LEMMA CountKeeps ==
    ASSUME CountType, [Next]_vars
    PROVE  CountType'
<1> USE DEF CountType, Fault, NoFault
<1>1. ASSUME NEW s \in Networks, NEW p, Step(s, p)
      PROVE  CountType'
  <2>1. CASE NetworkCreate(s, p) \/ ApplyIsolation(s, p) \/ CreatePrimary(s, p)
    BY <2>1 DEF NetworkCreate, ApplyIsolation, CreatePrimary
  <2>2. CASE Enter(s, p) \/ StartCompanions(s, p) \/ CancelAndWait(s, p) \/ Return(s, p)
    BY <2>2 DEF Enter, StartCompanions, CancelAndWait, Return, bounds
  <2>3. CASE MustExist(s, p) \/ EnsureRunning(s, p) \/ StopContainers(s, p)
    BY <2>3 DEF MustExist, EnsureRunning, StopContainers
  <2>4. CASE RemoveIsolation(s, p) \/ RemoveNetwork(s, p)
    BY <2>4 DEF RemoveIsolation, RemoveNetwork
  <2>5. CASE RemoveContainers(s, p)
    <3>1. Fault \/ NoFault
      BY <2>5, Zenon DEF RemoveContainers
    <3> QED
      BY <3>1
  <2> QED
    BY <1>1, <2>1, <2>2, <2>3, <2>4, <2>5 DEF Step
<1>2. ASSUME NEW s \in Networks, NEW c, CompanionStep(s, c) \/ HookStep(s, c) \/ RestoreAborts(c)
      PROVE  CountType'
  BY <1>2 DEF CompanionStep, HookStep, RestoreAborts, bounds
<1>3. CASE Restore \/ Serve \/ (\E s \in Networks : Request(s) \/ PrimaryFails(s))
  BY <1>3 DEF Restore, Serve, Request, PrimaryFails, bounds
<1>4. CASE Crash \/ FlushRuleSet \/ Reboot \/ UNCHANGED vars
  BY <1>4 DEF Crash, FlushRuleSet, Reboot, vars, bounds
<1> QED
  BY <1>1, <1>2, <1>3, <1>4 DEF Next, DaemonNext, Sandboxes

\* One container is removed, or its removal fails and it is kept.
RemovesOne(s, x) ==
    \/ /\ containers' = [containers EXCEPT ![s][x] = "none"]
       /\ woken' = woken \ {<<s, x>>}
       /\ mishaps' = mishaps /\ UNCHANGED kept
    \/ /\ UNCHANGED <<containers, woken>> /\ mishaps' = mishaps + 1
       /\ kept' = kept \cup {s}

\* The containers of the other sandboxes stay, and none of s appears.
LEMMA RemovesOneSays ==
    ASSUME ContainerType, CountType, NEW s \in Networks, NEW x, RemovesOne(s, x)
    PROVE  /\ ContainerType'
           /\ \A t \in Networks \ {s} : \A y \in Names(t) :
                  /\ containers'[t][y] = containers[t][y]
                  /\ <<t, y>> \in woken' <=> <<t, y>> \in woken
           /\ \A y \in Names(s) : containers[s][y] = "none" => containers'[s][y] = "none"
           /\ \A y \in Names(s) : DownOrWoken(s, y) => DownOrWoken(s, y)'
           /\ kept' \in {kept, kept \cup {s}}
           /\ mishaps' # mishaps => s \in kept'
           /\ (mishaps' = mishaps /\ x \in Names(s)) => containers'[s][x] = "none"
<1>1. CASE /\ containers' = [containers EXCEPT ![s][x] = "none"]
           /\ woken' = woken \ {<<s, x>>}
           /\ mishaps' = mishaps /\ UNCHANGED kept
  <2>1. ContainerType' /\ Becomes(s, x, "none")
    BY <1>1, ContainerBecomes
  <2> QED
    BY <1>1, <2>1 DEF Becomes, DownOrWoken, Running
<1>2. CASE UNCHANGED <<containers, woken>> /\ mishaps' = mishaps + 1 /\ kept' = kept \cup {s}
  <2>1. mishaps' # mishaps
    BY <1>2 DEF CountType
  <2> QED
    BY <1>2, <2>1 DEF ContainerType, DownOrWoken, Running
<1> QED
  BY <1>1, <1>2 DEF RemovesOne

\* dockerContainerRemove for the primary and each companion.
LEMMA RemoveContainersKeeps ==
    ASSUME BackendInv, CountType, NEW s \in Networks, NEW p \in Goroutines(s),
           RemoveContainers(s, p)
    PROVE  BackendInv'
<1>1. /\ Fine(s, p) /\ p \in Processes /\ ProcType /\ StartType /\ ContainerType /\ Good(s)
      /\ UNCHANGED nftVars /\ UNCHANGED <<daemon, phase, runtime, networks, starts>>
      /\ UNCHANGED <<fresh, lost, leaky, gone, raced>>
      /\ proc[p].at \in {"rmPrimary", "rmCompanions"}
  BY InvGood, ProcessNames DEF Good, RemoveContainers, At, serviceVars, goVars
<1>2. proc[p].call \in {"create", "delete", "cleanup"}
  BY <1>1, KnownCall DEF Fine, Role, Route, AllCalls
<1>3. Removes(proc[p])
  BY <1>1, <1>2 DEF Fine, Role, Removes
<1>4. (\E x : RemovesOne(s, x)) \/ UNCHANGED <<containers, woken, kept>>
  BY Zenon DEF RemoveContainers, RemovesOne, Fault, NoFault
<1>5. /\ ContainerType'
      /\ \A t \in Networks \ {s} : \A y \in Names(t) :
             /\ containers'[t][y] = containers[t][y]
             /\ <<t, y>> \in woken' <=> <<t, y>> \in woken
      /\ \A y \in Names(s) : containers[s][y] = "none" => containers'[s][y] = "none"
      /\ \A y \in Names(s) : DownOrWoken(s, y) => DownOrWoken(s, y)'
      /\ kept' \in {kept, kept \cup {s}}
  BY <1>1, <1>4, RemovesOneSays DEF ContainerType, DownOrWoken, Running
<1>6. /\ ProcType'
      /\ \/ \E bad \in BOOLEAN :
                /\ Moves(p, proc[p].call, "rmCompanions", proc[p].err, bad, Companions[s])
                /\ IF bad THEN s \in kept' ELSE containers'[s]["primary"] = "none"
         \/ \E c : \E bad \in BOOLEAN :
                /\ proc[p].at = "rmCompanions"
                /\ Moves(p, proc[p].call, "rmCompanions", proc[p].err, proc[p].dirty \/ bad,
                         proc[p].left \ {c})
                /\ IF bad THEN s \in kept' ELSE c \in Names(s) => containers'[s][c] = "none"
         \/ /\ Moves(p, proc[p].call, "unrule", proc[p].err, proc[p].dirty, proc[p].left)
            /\ proc[p].at = "rmCompanions" /\ proc[p].left = {}
  <2> DEFINE bad == mishaps' # mishaps
  <2>1. CASE /\ RemovesOne(s, "primary")
             /\ proc' = [proc EXCEPT ![p].at = "rmCompanions", ![p].left = Companions[s],
                                     ![p].dirty = bad]
    <3>1. bad \in BOOLEAN
      OBVIOUS
    <3>2. IF bad THEN s \in kept' ELSE containers'[s]["primary"] = "none"
      BY <1>1, <2>1, RemovesOneSays DEF Names
    <3>3. proc' = [proc EXCEPT ![p].at = "rmCompanions", ![p].left = Companions[s],
                               ![p].dirty = bad]
      BY <2>1
    <3> HIDE DEF bad
    <3>4. ProcType' /\ Moves(p, proc[p].call, "rmCompanions", proc[p].err, bad, Companions[s])
      BY <1>1, <3>1, <3>3, CompanionsOf, ClearMoves
    <3> QED
      BY <3>1, <3>2, <3>4
  <2>2. CASE \E c : /\ proc[p].at = "rmCompanions" /\ RemovesOne(s, c)
                    /\ proc' = [proc EXCEPT ![p].left = @ \ {c}, ![p].dirty = @ \/ bad]
    <3>1. PICK c : /\ proc[p].at = "rmCompanions" /\ RemovesOne(s, c)
                   /\ proc' = [proc EXCEPT ![p].left = @ \ {c}, ![p].dirty = @ \/ bad]
      BY <2>2
    <3>2. bad \in BOOLEAN
      OBVIOUS
    <3>3. IF bad THEN s \in kept' ELSE c \in Names(s) => containers'[s][c] = "none"
      BY <1>1, <3>1, RemovesOneSays
    <3> HIDE DEF bad
    <3>4. /\ ProcType'
          /\ Moves(p, proc[p].call, proc[p].at, proc[p].err, proc[p].dirty \/ bad,
                   proc[p].left \ {c})
      BY <1>1, <3>1, <3>2, ClearTurnMoves
    <3> QED
      BY <3>1, <3>2, <3>3, <3>4
  <2>3. CASE proc[p].at = "rmCompanions" /\ proc[p].left = {} /\ Goto(p, "unrule")
    BY <1>1, <2>3, GotoMoves DEF AllPoints
  <2> QED
    BY <2>1, <2>2, <2>3, Zenon DEF RemoveContainers, RemovesOne, Fault, NoFault, At
<1>7. /\ OnlyMoves(p) /\ proc'[p].call = proc[p].call /\ (proc'[p].err <=> proc[p].err)
      /\ proc'[p].at \in {"rmCompanions", "unrule"}
  BY <1>6 DEF Moves, OnlyMoves
<1>8. /\ ContainersMove(s, p) /\ (Settled(s)' <=> Settled(s)) /\ NoRuleTouched /\ Settled(s)
      /\ s \in kept => s \in kept'
  <2>1. NoRuleTouched /\ (Settled(s)' <=> Settled(s)) /\ Settled(s)
    BY <1>1, NftSame DEF Settled, Fine, Work, Removal
  <2>2. StartType' /\ \A t \in Networks \ {s} : Still(t)
    <3>1. starts' = starts /\ StartType
      BY <1>1
    <3>2. \A t \in Networks \ {s} : \A y \in Names(t) : containers'[t][y] = containers[t][y]
      BY <1>5
    <3> QED
      BY <3>1, <3>2 DEF StartType, Still
  <2>3. \A t : (t \in kept' => t \in kept \/ t = s) /\ (t \in kept => t \in kept')
    BY <1>5
  <2> QED
    BY <1>1, <1>5, <1>6, <1>7, <2>1, <2>2, <2>3 DEF ContainersMove
<1>9. Role(s, p)'
  BY <1>1, <1>2, <1>7 DEF Fine, Role, Route
<1>10. Work(s, p)'
  <2>1. ASSUME ~proc'[p].dirty \/ s \notin kept', proc'[p].at = "rmCompanions",
               NEW x \in Names(s) \ proc'[p].left
        PROVE  containers'[s][x] = "none"
    <3>1. CASE \E bad \in BOOLEAN :
                   /\ Moves(p, proc[p].call, "rmCompanions", proc[p].err, bad, Companions[s])
                   /\ IF bad THEN s \in kept' ELSE containers'[s]["primary"] = "none"
      BY <2>1, <3>1 DEF Moves, Names
    <3>2. CASE \E c : \E bad \in BOOLEAN :
                   /\ proc[p].at = "rmCompanions"
                   /\ Moves(p, proc[p].call, "rmCompanions", proc[p].err, proc[p].dirty \/ bad,
                            proc[p].left \ {c})
                   /\ IF bad THEN s \in kept' ELSE c \in Names(s) => containers'[s][c] = "none"
      <4>0. PICK c : \E bad \in BOOLEAN :
                   /\ proc[p].at = "rmCompanions"
                   /\ Moves(p, proc[p].call, "rmCompanions", proc[p].err, proc[p].dirty \/ bad,
                            proc[p].left \ {c})
                   /\ IF bad THEN s \in kept' ELSE c \in Names(s) => containers'[s][c] = "none"
        BY <3>2
      <4>1. PICK bad \in BOOLEAN :
                   /\ proc[p].at = "rmCompanions"
                   /\ Moves(p, proc[p].call, "rmCompanions", proc[p].err, proc[p].dirty \/ bad,
                            proc[p].left \ {c})
                   /\ IF bad THEN s \in kept' ELSE c \in Names(s) => containers'[s][c] = "none"
        BY <4>0
      <4>2. (~proc[p].dirty \/ s \notin kept) /\ ~bad
        BY <1>8, <2>1, <4>1 DEF Moves
      <4>3. CASE x = c
        BY <2>1, <4>1, <4>2, <4>3
      <4>4. CASE x # c
        <5>1. x \in Names(s) \ proc[p].left
          BY <2>1, <4>1, <4>4 DEF Moves
        <5>2. containers[s][x] = "none"
          BY <1>1, <1>3, <4>1, <4>2, <5>1 DEF Fine, Work, Removal
        <5> QED
          BY <1>5, <5>2
      <4> QED
        BY <4>3, <4>4
    <3> QED
      BY <1>6, <2>1, <3>1, <3>2 DEF Moves
  <2>2. ASSUME ~proc'[p].dirty \/ s \notin kept', proc'[p].at = "unrule"
        PROVE  NoContainers(s)'
    <3>1. /\ proc[p].at = "rmCompanions" /\ proc[p].left = {}
          /\ ~proc[p].dirty \/ s \notin kept
      BY <1>6, <1>8, <2>2 DEF Moves
    <3>2. \A x \in Names(s) : containers[s][x] = "none"
      BY <1>1, <1>3, <3>1 DEF Fine, Work, Removal
    <3> QED
      BY <1>5, <3>2 DEF NoContainers
  <2>3. Removal(s, proc[p])'
    BY <1>7, <1>8, <2>1, <2>2 DEF Removal, NoContainers
  <2> QED
    BY <1>2, <1>7, <1>8, <2>3 DEF Work
<1>11. Queues(s, p)' /\ Cover(s, p)'
  BY <1>1, <1>7, <1>8, PlainQueues DEF Fine, Selected
<1>12. \A q \in Goroutines(s) \ {p} : Apart(s, p, q)' /\ Apart(s, q, p)'
  BY <1>1, <1>7, PlainApart DEF Selected
<1> QED
  BY <1>1, <1>2, <1>5, <1>8, <1>9, <1>10, <1>11, <1>12, LessKeeps DEF Fine

-----------------------------------------------------------------------------
(***************************************************************************)
(* The steps on the rule set                                               *)
(***************************************************************************)
\* A step of p leaves the containers and the record of the service alone, and
\* the rules of the other sandboxes.
RulesMove(s, p) ==
    /\ ProcType' /\ RuleType' /\ NoDuplicateRules' /\ OnlyMoves(p)
    /\ UNCHANGED <<daemon, phase, runtime, networks, containers, starts>>
    /\ UNCHANGED <<kept, gone, woken>>
    /\ listFailed => listFailed'
    /\ \A q \in Processes \ {p} : batch'[q] = batch[q] /\ (q \in fresh' <=> q \in fresh)
    /\ \A t \in Networks \ {s} :
           /\ SameRules(t)
           /\ t \in lost' <=> t \in lost
           /\ t \in leaky' <=> t \in leaky
           /\ t \in raced' <=> t \in raced
    /\ s \in raced => s \in raced'
    /\ s \in leaky => s \in leaky'

\* What is left to show of a step that touches the rules.
LEMMA RulesKeep ==
    ASSUME BackendInv, NEW s \in Networks, NEW p \in Goroutines(s), RulesMove(s, p),
           proc[p].call # "none",
           \A q \in Goroutines(s) \ {p} : /\ MildRules(s, q) /\ MildCover(s, q)
                                          /\ Apart(s, p, q)' /\ Apart(s, q, p)',
           Ground(s)', Fine(s, p)'
    PROVE  BackendInv'
<1>1. NoContainerTouched /\ PhaseType'
  BY DockerSame DEF BackendInv, PhaseType, RulesMove
<1>2. Good(s) /\ p \in Processes
  BY InvGood, ProcessNames
<1>3. \A q \in Goroutines(s) \ {p} : Stays(q)
  BY ProcessNames DEF Stays, OnlyMoves, RulesMove
<1>4. Elsewhere(s)
  BY <1>1, ElsewhereSame DEF NoContainerTouched, RulesMove, SameMarks
<1>5. \A x \in Names(s) : DownOrWoken(s, x)' <=> DownOrWoken(s, x)
  BY <1>1 DEF DownOrWoken, Running, NoContainerTouched, Still, RulesMove
<1>6. ASSUME NEW q \in Goroutines(s) \ {p}
      PROVE  Mild(s, q)
  <2>1. Fine(s, q)
    BY <1>2, <1>6 DEF Good
  <2>2. MildService(s, q)
    BY <1>1, <2>1 DEF MildService, RulesMove, Fine, Role, NoContainerTouched, StillSays
  <2>3. MildDocker(s, q)
    BY <1>1, <1>5 DEF MildDocker, RulesMove, NoContainerTouched, StillSays, Still
  <2> QED
    BY <1>3, <1>6, <2>2, <2>3 DEF Mild
<1> QED
  BY <1>1, <1>4, <1>6, StepKeeps DEF Steady, TypesNext, NoContainerTouched, RulesMove

\* What the service relies on, when the rules it relies on are there.
LEMMA RulesGround ==
    ASSUME BackendInv, NEW s \in Networks, NEW p \in Goroutines(s), RulesMove(s, p),
           (s \in gone /\ s \notin leaky' /\ NoRules(s)) => NoRules(s)',
           (s \notin lost' \cup kept /\ Occupied(s)) => Isolated(s)' \/ Reapplying(s)'
    PROVE  Ground(s)'
<1>1. NoContainerTouched /\ Good(s)
  BY DockerSame, InvGood DEF RulesMove
<1>2. \A x \in Names(s) : DownOrWoken(s, x)' <=> DownOrWoken(s, x)
  BY <1>1 DEF DownOrWoken, Running, NoContainerTouched, Still, RulesMove
<1>3. Occupied(s)' <=> Occupied(s)
  BY <1>1 DEF Occupied, NoContainerTouched, StillSays
<1> QED
  BY <1>1, <1>2, <1>3 DEF Ground, Good, RulesMove, NoContainerTouched, StillSays

\* A step that leaves the chains alone and only queues, or gives up its queue.
QueueMove(s, p) ==
    /\ RulesMove(s, p)
    /\ UNCHANGED <<chains, lost>>

\* Such a step leaves the rules as they are.
LEMMA QueueSays ==
    ASSUME BackendInv, NEW s \in Networks, NEW p \in Goroutines(s), QueueMove(s, p)
    PROVE  /\ \A c, r : Has(c, r)' <=> Has(c, r)
           /\ NoRuleCame(s) /\ NoRuleWent(s) /\ RulesSay(s)
           /\ \A q \in Goroutines(s) \ {p} : MildRules(s, q) /\ MildCover(s, q)
<1>1. \A c, r : Has(c, r)' <=> Has(c, r)
  BY DEF Has, QueueMove
<1>2. NoRuleCame(s) /\ NoRuleWent(s) /\ SameRules(s)
  BY <1>1 DEF NoRuleCame, NoRuleWent, SameRules, QueueMove
<1>3. RulesSay(s)
  BY <1>2, SameRulesSay DEF BackendInv, QueueMove, RulesMove
<1>4. NoContainerTouched
  BY DockerSame DEF QueueMove, RulesMove
<1>5. \A q \in Goroutines(s) \ {p} : MildRules(s, q)
  BY <1>2 DEF MildRules, QueueMove, RulesMove
<1>6. \A q \in Goroutines(s) \ {p} : q \in Processes \ {p}
  BY ProcessNames
<1>7. \A q \in Goroutines(s) \ {p} : MildCover(s, q)
  BY <1>2, <1>3, <1>4, <1>6 DEF MildCover, QueueMove, RulesMove, RulesSay, Occupied,
     NoContainerTouched, StillSays
<1> QED
  BY <1>1, <1>2, <1>3, <1>5, <1>7

\* A step that queues keeps the invariant.
LEMMA QueueKeeps ==
    ASSUME BackendInv, NEW s \in Networks, NEW p \in Goroutines(s), QueueMove(s, p),
           proc[p].call # "none", Reapplying(s) => Reapplying(s)',
           \A q \in Goroutines(s) \ {p} : Apart(s, p, q)' /\ Apart(s, q, p)',
           Fine(s, p)'
    PROVE  BackendInv'
<1>1. Good(s)
  BY InvGood
<1>2. RulesSay(s) /\ \A q \in Goroutines(s) \ {p} : MildRules(s, q) /\ MildCover(s, q)
  BY QueueSays DEF QueueMove, RulesMove
<1>3. Ground(s)'
  BY <1>1, <1>2, RulesGround DEF Good, Ground, RulesSay, QueueMove, RulesMove
<1> QED
  BY <1>2, <1>3, RulesKeep DEF QueueMove

\* A goroutine whose call is the same applies rules for the same reason.
LEMMA SameCallFine ==
    ASSUME BackendInv, NEW s \in Networks, NEW p \in Goroutines(s), RulesMove(s, p),
           proc[p].at \in IsolatePoints, proc'[p].at \in IsolatePoints,
           proc'[p].call = proc[p].call, proc'[p].err <=> proc[p].err
    PROVE  Role(s, p)' /\ Work(s, p)' /\ ~Selected(proc'[p]) /\ ~Selected(proc[p])
<1>1. Role(s, p) /\ Work(s, p) /\ NoContainerTouched
  BY InvGood, DockerSame DEF Good, Fine, RulesMove
<1>2. Role(s, p)'
  BY <1>1 DEF Role, Route, RulesMove, NoContainerTouched, StillSays
<1>3. Work(s, p)'
  BY <1>1 DEF Role, Route, Work, Removal, Removes, NoContainerTouched, StillSays
<1> QED
  BY <1>2, <1>3 DEF Selected

\* applyHostIsolation's first listing keeps the invariant.
LEMMA ReadDockerUserKeeps ==
    ASSUME BackendInv, NEW s \in Networks, NEW p \in Goroutines(s),
           proc[p].at = "isolate", ReadDockerUser(p, s), Goto(p, "isolateInput"),
           fresh' = fresh \cup {p}, UNCHANGED lost,
           raced' = IF \E q \in Goroutines(s) : Isolating(q) THEN raced \cup {s} ELSE raced,
           UNCHANGED <<serviceVars, dockerVars, goVars, kept, leaky, gone, woken>>
    PROVE  BackendInv'
<1>1. /\ Fine(s, p) /\ p \in Processes /\ ProcType /\ RuleType /\ Good(s)
      /\ UNCHANGED <<daemon, phase, runtime, networks, containers, starts>>
      /\ NoDuplicateRules
  BY InvGood, ProcessNames DEF Good, serviceVars, dockerVars, goVars
<1>2. ProcType' /\ Moves(p, proc[p].call, "isolateInput", proc[p].err, proc[p].dirty, proc[p].left)
  BY <1>1, GotoMoves DEF AllPoints
<1>3. /\ RuleType' /\ UNCHANGED <<chains, listFailed>>
      /\ \A q \in Processes \ {p} : batch'[q] = batch[q]
      /\ \A q \in batch'[p] : /\ q.rule.bridge = s /\ Fits(q.chain, q.rule)
                              /\ ~Has(q.chain, q.rule)
      /\ \A tail \in {"local", "dnat"} :
             \/ Has("DOCKER-USER", Rule(s, tail))
             \/ [chain |-> "DOCKER-USER", rule |-> Rule(s, tail)] \in batch'[p]
      /\ "DOCKER-USER" \in DOMAIN chains
  BY <1>1, DockerUserQueue DEF ReadDockerUser
<1>4. NoDuplicateRules'
  BY <1>1, <1>3 DEF NoDuplicateRules
<1>5. \A t \in Networks : SameRules(t)
  BY <1>3 DEF SameRules, Has
<1>6. QueueMove(s, p)
  BY <1>1, <1>2, <1>3, <1>4, <1>5 DEF QueueMove, RulesMove, OnlyMoves, Moves
<1>7. proc[p].call \notin {"none", "delete", "deleteNothing"} /\ proc[p].at \in IsolatePoints
  BY <1>1 DEF Fine, Role, Route
<1>8. Role(s, p)' /\ Work(s, p)' /\ ~Selected(proc'[p]) /\ ~Selected(proc[p])
  BY <1>2, <1>6, <1>7, SameCallFine DEF Moves, QueueMove
<1>9. \A c, r : Has(c, r)' <=> Has(c, r)
  BY <1>6, QueueSays
<1>10. Queues(s, p)'
  <2>1. \A b \in batch'[p] : b.rule.bridge = s /\ Fits(b.chain, b.rule) /\ ~Has(b.chain, b.rule)'
    BY <1>3, <1>9
  <2>2. (s \notin leaky' /\ s \in gone') => proc'[p].at \notin IsolatePoints
    BY <1>1, <1>7 DEF Fine, Queues
  <2>3. (\A b \in batch[p] : b.rule.bridge = s /\ Fits(b.chain, b.rule))'
    BY <2>1 DEF Fits
  <2>4. Unruled(s, proc[p], batch[p])'
    BY <1>8 DEF Unruled, Selected, Removes
  <2> QED
    BY <1>2, <2>1, <2>2, <2>3, <2>4 DEF Queues, Moves
<1>11. Cover(s, p)'
  BY <1>2, <1>3, <1>9 DEF Cover, Moves, Coming, Isolating
<1>12. ASSUME NEW q \in Goroutines(s) \ {p}
       PROVE  Apart(s, p, q)' /\ Apart(s, q, p)'
  <2>1. Apart(s, p, q) /\ Apart(s, q, p) /\ proc'[q] = proc[q]
    BY <1>1, <1>2, <1>12, ProcessNames DEF Good, Moves
  <2> QED
    BY <1>2, <1>7, <1>8, <2>1, ApartMoves DEF Moves, Bystander, Isolating
<1>13. Reapplying(s) => Reapplying(s)'
  <2>1. NoContainerTouched
    BY <1>1, DockerSame
  <2> QED
    BY <1>1, <1>2, <1>7, <2>1, ProcessNames DEF Reapplying, Moves, Goroutines, NoContainerTouched, StillSays
<1> QED
  BY <1>6, <1>7, <1>8, <1>10, <1>11, <1>12, <1>13, QueueKeeps DEF Fine

\* applyInputIsolation keeps the invariant.
LEMMA ReadInputKeeps ==
    ASSUME BackendInv, NEW s \in Networks, NEW p \in Goroutines(s),
           proc[p].at = "isolateInput", ReadInput(p, s) \/ ReadInputListFails(p, s),
           Goto(p, "isolateFlush"), UNCHANGED <<fresh, lost, raced>>,
           UNCHANGED <<serviceVars, dockerVars, goVars, kept, leaky, gone, woken>>
    PROVE  BackendInv'
<1>1. /\ Fine(s, p) /\ p \in Processes /\ ProcType /\ RuleType /\ Good(s)
      /\ UNCHANGED <<daemon, phase, runtime, networks, containers, starts>>
      /\ NoDuplicateRules
  BY InvGood, ProcessNames DEF Good, serviceVars, dockerVars, goVars
<1>2. ProcType' /\ Moves(p, proc[p].call, "isolateFlush", proc[p].err, proc[p].dirty, proc[p].left)
  BY <1>1, GotoMoves DEF AllPoints
<1>3. InputQueue(s, p)
  BY <1>1, ReadInputQueue
<1>4. NoDuplicateRules'
  BY <1>1, <1>3 DEF NoDuplicateRules, InputQueue
<1>5. \A t \in Networks : SameRules(t)
  BY <1>3 DEF SameRules, Has, InputQueue
<1>6. QueueMove(s, p)
  BY <1>1, <1>2, <1>3, <1>4, <1>5 DEF QueueMove, RulesMove, OnlyMoves, Moves, InputQueue
<1>7. proc[p].call \notin {"none", "delete", "deleteNothing"} /\ proc[p].at \in IsolatePoints
  BY <1>1 DEF Fine, Role, Route
<1>8. Role(s, p)' /\ Work(s, p)' /\ ~Selected(proc'[p]) /\ ~Selected(proc[p])
  BY <1>2, <1>6, <1>7, SameCallFine DEF Moves, QueueMove
<1>9. \A c, r : Has(c, r)' <=> Has(c, r)
  BY <1>6, QueueSays
<1>10. Queues(s, p)'
  <2>1. ASSUME NEW b \in batch'[p]
        PROVE  /\ b.rule.bridge = s /\ Fits(b.chain, b.rule)
               /\ (~listFailed' /\ s \notin raced') => ~Has(b.chain, b.rule)'
    <3>1. CASE b \in batch[p]
      BY <1>1, <1>3, <1>9, <3>1 DEF Fine, Queues, InputQueue, Isolating
    <3>2. CASE b \notin batch[p]
      BY <1>3, <1>9, <3>2 DEF InputQueue
    <3> QED
      BY <3>1, <3>2
  <2>2. (s \notin leaky' /\ s \in gone') => proc'[p].at \notin IsolatePoints
    BY <1>1, <1>7 DEF Fine, Queues
  <2>3. (\A b \in batch[p] : b.rule.bridge = s /\ Fits(b.chain, b.rule))'
    BY <2>1 DEF Fits
  <2>4. Unruled(s, proc[p], batch[p])'
    BY <1>8 DEF Unruled, Selected, Removes
  <2> QED
    BY <1>2, <2>1, <2>2, <2>3, <2>4 DEF Queues, Moves
<1>11. Cover(s, p)'
  <2>1. \A c, r : Coming(p, c, r) => Coming(p, c, r)'
    BY <1>3, <1>9 DEF Coming, InputQueue
  <2>2. \E c \in InputChains : Coming(p, c, Rule(s, "input"))'
    BY <1>3, <1>9 DEF Coming, InputQueue
  <2>3. NoContainerTouched
    BY <1>1, DockerSame
  <2> QED
    BY <1>1, <1>2, <1>3, <2>1, <2>2, <2>3 DEF Fine, Cover, Moves, Isolating, InputQueue, Occupied,
       NoContainerTouched, StillSays
<1>12. ASSUME NEW q \in Goroutines(s) \ {p}
       PROVE  Apart(s, p, q)' /\ Apart(s, q, p)'
  <2>1. Apart(s, p, q) /\ Apart(s, q, p) /\ proc'[q] = proc[q]
    BY <1>1, <1>2, <1>12, ProcessNames DEF Good, Moves
  <2> QED
    BY <1>1, <1>2, <1>7, <1>8, <2>1, ApartMoves DEF Moves, Bystander, Isolating
<1>13. Reapplying(s) => Reapplying(s)'
  <2>1. NoContainerTouched
    BY <1>1, DockerSame
  <2> QED
    BY <1>1, <1>2, <1>7, <2>1, ProcessNames DEF Reapplying, Moves, Goroutines, NoContainerTouched, StillSays
<1> QED
  BY <1>6, <1>7, <1>8, <1>10, <1>11, <1>12, <1>13, QueueKeeps DEF Fine

\* An error of applyHostIsolation keeps the invariant.
LEMMA ApplyFailsKeeps ==
    ASSUME BackendInv, NEW s \in Networks, NEW p \in Goroutines(s),
           proc[p].at \in IsolatePoints, NftablesFails(p), Fail(p),
           fresh' = fresh \ {p}, UNCHANGED <<lost, raced>>,
           UNCHANGED <<serviceVars, dockerVars, goVars, kept, leaky, gone, woken>>
    PROVE  BackendInv'
<1>1. /\ Fine(s, p) /\ p \in Processes /\ ProcType /\ RuleType /\ Good(s)
      /\ UNCHANGED <<daemon, phase, runtime, networks, containers, starts>>
      /\ NoDuplicateRules
  BY InvGood, ProcessNames DEF Good, serviceVars, dockerVars, goVars
<1>2. /\ ProcType'
      /\ \/ /\ proc[p].call = "create"
            /\ Moves(p, "create", "cancel", TRUE, proc[p].dirty, proc[p].left)
         \/ /\ proc[p].call # "create"
            /\ Moves(p, proc[p].call, "return", TRUE, proc[p].dirty, proc[p].left)
  BY <1>1, FailMoves
<1>3. /\ RuleType' /\ UNCHANGED <<chains, listFailed>> /\ batch'[p] = {}
      /\ \A q \in Processes \ {p} : batch'[q] = batch[q]
  BY <1>1 DEF NftablesFails, RuleType, Fits
<1>4. NoDuplicateRules'
  BY <1>1, <1>3 DEF NoDuplicateRules
<1>5. \A t \in Networks : SameRules(t)
  BY <1>3 DEF SameRules, Has
<1>6. QueueMove(s, p)
  BY <1>1, <1>2, <1>3, <1>4, <1>5 DEF QueueMove, RulesMove, OnlyMoves, Moves
<1>7. proc[p].call \in {"create", "resume", "reapply"}
  BY <1>1, KnownCall DEF Fine, Role, Route, AllCalls
<1>8. NoContainerTouched
  BY <1>1, DockerSame
<1>9. Role(s, p)'
  BY <1>1, <1>2, <1>7, <1>8 DEF Fine, Role, Route, Moves, NoContainerTouched, StillSays
<1>10. Work(s, p)'
  BY <1>2, <1>7 DEF Work, Removal, Removes, Moves
<1>11. Queues(s, p)' /\ Cover(s, p)' /\ ~Selected(proc'[p])
  BY <1>2, <1>3, <1>7 DEF Queues, Unruled, Selected, Removes, Cover, Isolating, Moves
<1>12. ASSUME NEW q \in Goroutines(s) \ {p}
       PROVE  Apart(s, p, q)' /\ Apart(s, q, p)'
  <2>1. Apart(s, p, q) /\ Apart(s, q, p) /\ proc'[q] = proc[q]
    BY <1>1, <1>2, <1>12, ProcessNames DEF Good, Moves
  <2> QED
    BY <1>2, <1>7, <1>11, <2>1, ApartMoves DEF Moves, Bystander, Isolating
<1>13. Reapplying(s) => Reapplying(s)'
  BY <1>1, <1>2, <1>7, <1>8, ProcessNames
     DEF Reapplying, Moves, Goroutines, NoContainerTouched, StillSays
<1> QED
  BY <1>6, <1>7, <1>9, <1>10, <1>11, <1>12, <1>13, QueueKeeps DEF Fine

\* The transaction of applyHostIsolation keeps the invariant.
LEMMA FlushInsertsKeeps ==
    ASSUME BackendInv, NEW s \in Networks, NEW p \in Goroutines(s),
           proc[p].at = "isolateFlush", FlushInserts(p), Goto(p, IsolateNext(p)),
           lost' = IF p \in fresh THEN lost \ {s} ELSE lost,
           fresh' = fresh \ {p}, UNCHANGED raced,
           UNCHANGED <<serviceVars, dockerVars, goVars, kept, leaky, gone, woken>>
    PROVE  BackendInv'
<1>1. /\ Fine(s, p) /\ p \in Processes /\ ProcType /\ RuleType /\ Good(s)
      /\ UNCHANGED <<daemon, phase, runtime, networks, containers, starts>>
      /\ NoDuplicateRules
  BY InvGood, ProcessNames DEF Good, serviceVars, dockerVars, goVars
<1>2. proc[p].call \in {"create", "resume", "reapply"}
  BY <1>1, KnownCall DEF Fine, Role, Route, AllCalls
<1>3. /\ ProcType'
      /\ \/ /\ proc[p].call = "create"
            /\ Moves(p, "create", "companions", proc[p].err, proc[p].dirty, proc[p].left)
         \/ /\ proc[p].call = "resume"
            /\ Moves(p, "resume", "ensurePrimary", proc[p].err, proc[p].dirty, proc[p].left)
         \/ /\ proc[p].call = "reapply"
            /\ Moves(p, "reapply", "return", proc[p].err, proc[p].dirty, proc[p].left)
  BY <1>1, <1>2, GotoMoves DEF IsolateNext, AllPoints
<1>4. \A b \in batch[p] : b.rule.bridge = s /\ Fits(b.chain, b.rule)
  BY <1>1 DEF Fine, Queues
<1>5. ~listFailed => \A b \in batch[p] : b.rule.bridge \notin raced => ~Has(b.chain, b.rule)
  BY <1>1, <1>4 DEF Fine, Queues, Isolating
<1>6. /\ RuleType' /\ NoDuplicateRules' /\ Queue(p, {})
      /\ DOMAIN chains \subseteq DOMAIN chains'
      /\ \A c \in ChainNames, r \in Rules :
             Has(c, r)' <=> Has(c, r) \/ [chain |-> c, rule |-> r] \in batch[p]
  BY <1>1, <1>4, <1>5, InsertHas
<1>7. \A t \in Networks \ {s} : SameRules(t)
  BY <1>4, <1>6 DEF SameRules
<1>8. RulesMove(s, p)
  BY <1>1, <1>3, <1>6, <1>7 DEF RulesMove, OnlyMoves, Moves, Queue, FlushInserts
<1>9. NoRuleWent(s)
  BY <1>6 DEF NoRuleWent
<1>10. Isolated(s) => Isolated(s)'
  <2> SUFFICES ASSUME Isolated(s)
               PROVE  Isolated(s)'
    OBVIOUS
  <2>1. \A tail \in {"local", "dnat", "input"} : Rule(s, tail) \in Rules
    BY RulesOf
  <2>2. Has("DOCKER-USER", Rule(s, "local"))' /\ Has("DOCKER-USER", Rule(s, "dnat"))'
    BY <1>6, <2>1, IsolatedHas DEF ChainNames
  <2>3. \E c \in InputChains : Has(c, Rule(s, "input"))'
    BY <1>6, <2>1, IsolatedHas DEF ChainNames, InputChains
  <2> QED
    BY <2>2, <2>3, IsolatedHasNext
<1>11. (p \in fresh /\ s \notin kept /\ (Occupied(s) \/ proc[p].call = "create")) => Isolated(s)'
  <2> SUFFICES ASSUME p \in fresh, s \notin kept, Occupied(s) \/ proc[p].call = "create"
               PROVE  Isolated(s)'
    OBVIOUS
  <2>1. \A c \in ChainNames, tail \in {"local", "dnat", "input"} :
            Coming(p, c, Rule(s, tail)) => Has(c, Rule(s, tail))'
    BY <1>6, RulesOf DEF Coming
  <2>2. /\ Coming(p, "DOCKER-USER", Rule(s, "local")) /\ Coming(p, "DOCKER-USER", Rule(s, "dnat"))
        /\ \E c \in InputChains : Coming(p, c, Rule(s, "input"))
    BY <1>1 DEF Fine, Cover, Isolating
  <2> QED
    BY <2>1, <2>2, IsolatedHasNext DEF ChainNames, InputChains
<1>12. Role(s, p)'
  <2>1. NoContainerTouched
    BY <1>1, DockerSame
  <2> QED
    BY <1>1, <1>3, <2>1 DEF Fine, Role, Route, Moves, NoContainerTouched, StillSays
<1>13. Work(s, p)'
  <2>1. NoContainerTouched
    BY <1>1, DockerSame
  <2> QED
    BY <1>1, <1>3, <2>1 DEF Fine, Work, Role, Removal, Removes, Moves, NoContainerTouched, StillSays
<1>14. Queues(s, p)' /\ ~Selected(proc'[p])
  BY <1>1, <1>3, <1>6 DEF Fine, Role, Queues, Queue, Unruled, Selected, Removes, Isolating, Moves
<1>15. Cover(s, p)'
  <2>1. ~Isolating(p)' /\ (proc[p].call = "create" => p \in fresh \/ s \in lost)
    BY <1>1, <1>3 DEF Fine, Cover, Isolating, Moves
  <2>2. (proc'[p].call = "create" /\ s \notin lost' \cup kept') => Isolated(s)'
    BY <1>3, <1>8, <1>11, <2>1 DEF Moves, RulesMove
  <2> QED
    BY <2>1, <2>2 DEF Cover
<1>16. ASSUME NEW q \in Goroutines(s) \ {p}
       PROVE  /\ MildRules(s, q) /\ MildCover(s, q) /\ Apart(s, p, q)' /\ Apart(s, q, p)'
  <2>1. Apart(s, p, q) /\ Apart(s, q, p) /\ proc'[q] = proc[q] /\ q \in Processes \ {p}
    BY <1>1, <1>3, <1>16, ProcessNames DEF Good, Moves
  <2>2. MildRules(s, q)
    BY <1>1, <1>8, <2>1 DEF MildRules, RulesMove, Apart, Isolating
  <2>3. proc[q].call \notin {"create", "reapply"}
    BY <1>2, <2>1 DEF Apart, Bystander
  <2>4. NoContainerTouched
    BY <1>1, DockerSame
  <2>5. MildCover(s, q)
    BY <1>8, <1>9, <2>1, <2>3, <2>4 DEF MildCover, RulesMove, NoContainerTouched, StillSays, Occupied
  <2>6. Apart(s, p, q)' /\ Apart(s, q, p)'
    BY <1>2, <1>3, <1>8, <1>14, <2>1, ApartMoves DEF Moves, Bystander, Isolating, RulesMove
  <2> QED
    BY <2>2, <2>5, <2>6
<1>17. Ground(s)'
  <2>1. ASSUME s \notin lost' \cup kept, Occupied(s)
        PROVE  Isolated(s)'
    <3>1. CASE p \in fresh
      BY <1>11, <2>1, <3>1
    <3>2. CASE p \notin fresh
      <4>1. s \notin lost /\ proc[p].call = "resume"
        BY <1>1, <1>2, <2>1, <3>2 DEF Fine, Cover, Isolating
      <4>2. ~Reapplying(s)
        BY <1>1, <4>1 DEF Reapplying, Good, Fine, Role, Apart
      <4>3. Isolated(s)
        BY <1>1, <2>1, <4>1, <4>2 DEF Good, Ground
      <4> QED
        BY <1>10, <4>3
    <3> QED
      BY <3>1, <3>2
  <2>2. s \notin gone \/ s \in leaky
    BY <1>1 DEF Fine, Queues
  <2> QED
    BY <1>8, <2>1, <2>2, RulesGround DEF RulesMove
<1> QED
  BY <1>2, <1>8, <1>12, <1>13, <1>14, <1>15, <1>16, <1>17, RulesKeep DEF Fine

\* applyHostIsolation keeps the invariant.
LEMMA ApplyIsolationKeeps ==
    ASSUME BackendInv, NEW s \in Networks, NEW p \in Goroutines(s), ApplyIsolation(s, p)
    PROVE  BackendInv'
  BY ReadDockerUserKeeps, ReadInputKeeps, FlushInsertsKeeps, ApplyFailsKeeps
     DEF ApplyIsolation, At, Isolating

\* removeHostIsolation's listing keeps the invariant.
LEMMA SelectRulesKeeps ==
    ASSUME BackendInv, NEW s \in Networks, NEW p \in Goroutines(s),
           proc[p].at = "unrule", SelectRules(p, s), Goto(p, "unruleFlush"),
           leaky' = IF Calling(s, "resume") THEN leaky \cup {s} ELSE leaky,
           UNCHANGED <<fresh, lost, raced>>,
           UNCHANGED <<serviceVars, dockerVars, goVars, kept, gone, woken>>
    PROVE  BackendInv'
<1>1. /\ Fine(s, p) /\ p \in Processes /\ ProcType /\ RuleType /\ Good(s)
      /\ UNCHANGED <<daemon, phase, runtime, networks, containers, starts>>
      /\ NoDuplicateRules
  BY InvGood, ProcessNames DEF Good, serviceVars, dockerVars, goVars
<1>2. ProcType' /\ Moves(p, proc[p].call, "unruleFlush", proc[p].err, proc[p].dirty, proc[p].left)
  BY <1>1, GotoMoves DEF AllPoints
<1>3. proc[p].call \in {"create", "delete", "cleanup"}
  BY <1>1, KnownCall DEF Fine, Role, Route, AllCalls
<1>4. /\ RuleType' /\ UNCHANGED <<chains, listFailed>>
      /\ \A q \in Processes \ {p} : batch'[q] = batch[q]
      /\ \A c \in ChainNames, r \in Rules :
             (Has(c, r) /\ r.bridge = s) => [chain |-> c, rule |-> r] \in batch'[p]
      /\ \A q \in batch'[p] : q.rule.bridge = s /\ Fits(q.chain, q.rule)
  BY <1>1, SelectHas DEF SelectRules
<1>5. NoDuplicateRules'
  BY <1>1, <1>4 DEF NoDuplicateRules
<1>6. \A t \in Networks : SameRules(t)
  BY <1>4 DEF SameRules, Has
<1>7. QueueMove(s, p)
  BY <1>1, <1>2, <1>4, <1>5, <1>6 DEF QueueMove, RulesMove, OnlyMoves, Moves
<1>8. NoContainerTouched
  BY <1>1, DockerSame
<1>9. \A c, r : Has(c, r)' <=> Has(c, r)
  BY <1>7, QueueSays
<1>10. Role(s, p)'
  BY <1>1, <1>2, <1>3 DEF Fine, Role, Route, Moves
<1>11. Work(s, p)'
  BY <1>1, <1>2, <1>3, <1>8 DEF Fine, Work, Role, Removal, Removes, Moves, NoContainerTouched, StillSays
<1>12. Queues(s, p)'
  <2>1. Unruled(s, proc[p], batch[p])'
    BY <1>2, <1>4, <1>9 DEF Unruled, Moves
  <2>2. (\A b \in batch[p] : b.rule.bridge = s /\ Fits(b.chain, b.rule))'
    BY <1>4 DEF Fits
  <2> QED
    BY <1>2, <2>1, <2>2 DEF Queues, Moves, Isolating
<1>13. Cover(s, p)'
  BY <1>2 DEF Cover, Isolating, Moves
<1>14. ASSUME NEW q \in Goroutines(s) \ {p}
       PROVE  Apart(s, p, q)' /\ Apart(s, q, p)'
  <2>1. Apart(s, p, q) /\ Apart(s, q, p) /\ proc'[q] = proc[q] /\ Role(s, q)
    BY <1>1, <1>2, <1>14, ProcessNames DEF Good, Moves, Fine
  <2>2. s \notin leaky' => proc[q].at \notin IsolatePoints
    <3> SUFFICES ASSUME proc[q].at \in IsolatePoints
                 PROVE  s \in leaky'
      OBVIOUS
    <3>1. proc[q].call \in {"create", "resume", "reapply"}
      BY <1>1, <1>14, <2>1, KnownCall, ProcessNames DEF Role, Route, AllCalls
    <3>2. proc[q].call = "resume"
      BY <1>1, <1>3, <2>1, <3>1 DEF Apart, Bystander
    <3> QED
      BY <3>2 DEF Calling
  <2> QED
    BY <1>1, <1>2, <1>3, <2>1, <2>2, ApartMoves DEF Moves, Bystander, Isolating
<1>15. Reapplying(s) => Reapplying(s)'
  BY <1>1, <1>2, <1>3, <1>8, ProcessNames
     DEF Reapplying, Moves, Goroutines, NoContainerTouched, StillSays
<1> QED
  BY <1>3, <1>7, <1>10, <1>11, <1>12, <1>13, <1>14, <1>15, QueueKeeps DEF Fine

\* An error of removeHostIsolation keeps the invariant.
LEMMA RemoveFailsKeeps ==
    ASSUME BackendInv, NEW s \in Networks, NEW p \in Goroutines(s),
           proc[p].at \in {"unrule", "unruleFlush"}, NftablesFails(p), Goto(p, "rmNetwork"),
           leaky' = leaky \cup {s}, UNCHANGED <<fresh, lost, raced>>,
           UNCHANGED <<serviceVars, dockerVars, goVars, kept, gone, woken>>
    PROVE  BackendInv'
<1>1. /\ Fine(s, p) /\ p \in Processes /\ ProcType /\ RuleType /\ Good(s)
      /\ UNCHANGED <<daemon, phase, runtime, networks, containers, starts>>
      /\ NoDuplicateRules
  BY InvGood, ProcessNames DEF Good, serviceVars, dockerVars, goVars
<1>2. ProcType' /\ Moves(p, proc[p].call, "rmNetwork", proc[p].err, proc[p].dirty, proc[p].left)
  BY <1>1, GotoMoves DEF AllPoints
<1>3. proc[p].call \in {"create", "delete", "cleanup"}
  BY <1>1, KnownCall DEF Fine, Role, Route, AllCalls
<1>4. /\ RuleType' /\ UNCHANGED <<chains, listFailed>> /\ batch'[p] = {}
      /\ \A q \in Processes \ {p} : batch'[q] = batch[q]
  BY <1>1 DEF NftablesFails, RuleType, Fits
<1>5. NoDuplicateRules'
  BY <1>1, <1>4 DEF NoDuplicateRules
<1>6. \A t \in Networks : SameRules(t)
  BY <1>4 DEF SameRules, Has
<1>7. QueueMove(s, p)
  BY <1>1, <1>2, <1>4, <1>5, <1>6 DEF QueueMove, RulesMove, OnlyMoves, Moves
<1>8. NoContainerTouched
  BY <1>1, DockerSame
<1>9. Role(s, p)'
  BY <1>1, <1>2, <1>3 DEF Fine, Role, Route, Moves
<1>10. Work(s, p)'
  BY <1>1, <1>2, <1>3, <1>8 DEF Fine, Work, Role, Removal, Removes, Moves, NoContainerTouched, StillSays
<1>11. Queues(s, p)' /\ Cover(s, p)'
  BY <1>2, <1>4 DEF Queues, Cover, Isolating, Moves
<1>12. ASSUME NEW q \in Goroutines(s) \ {p}
       PROVE  Apart(s, p, q)' /\ Apart(s, q, p)'
  <2>1. Apart(s, p, q) /\ Apart(s, q, p) /\ proc'[q] = proc[q]
    BY <1>1, <1>2, <1>12, ProcessNames DEF Good, Moves
  <2> QED
    BY <1>1, <1>2, <1>3, <2>1, ApartMoves DEF Moves, Bystander, Isolating
<1>13. Reapplying(s) => Reapplying(s)'
  BY <1>1, <1>2, <1>3, <1>8, ProcessNames
     DEF Reapplying, Moves, Goroutines, NoContainerTouched, StillSays
<1> QED
  BY <1>3, <1>7, <1>9, <1>10, <1>11, <1>12, <1>13, QueueKeeps DEF Fine

\* The transaction of removeHostIsolation keeps the invariant.
LEMMA FlushDeletesKeeps ==
    ASSUME BackendInv, NEW s \in Networks, NEW p \in Goroutines(s),
           proc[p].at = "unruleFlush", FlushDeletes(p), Goto(p, "rmNetwork"),
           UNCHANGED <<fresh, lost, leaky, raced>>,
           UNCHANGED <<serviceVars, dockerVars, goVars, kept, gone, woken>>
    PROVE  BackendInv'
<1>1. /\ Fine(s, p) /\ p \in Processes /\ ProcType /\ RuleType /\ Good(s)
      /\ UNCHANGED <<daemon, phase, runtime, networks, containers, starts>>
      /\ NoDuplicateRules
  BY InvGood, ProcessNames DEF Good, serviceVars, dockerVars, goVars
<1>2. ProcType' /\ Moves(p, proc[p].call, "rmNetwork", proc[p].err, proc[p].dirty, proc[p].left)
  BY <1>1, GotoMoves DEF AllPoints
<1>3. proc[p].call \in {"create", "delete", "cleanup"} /\ Removes(proc[p])
  BY <1>1, KnownCall DEF Fine, Role, Route, AllCalls, Removes
<1>4. \A b \in batch[p] : b.rule.bridge = s /\ Fits(b.chain, b.rule)
  BY <1>1 DEF Fine, Queues
<1>5. /\ RuleType' /\ NoDuplicateRules' /\ Queue(p, {})
      /\ DOMAIN chains' = DOMAIN chains
      /\ \A c \in ChainNames, r \in Rules :
             Has(c, r)' <=> Has(c, r) /\ [chain |-> c, rule |-> r] \notin batch[p]
  BY <1>1, DeleteHas
<1>6. \A t \in Networks \ {s} : SameRules(t)
  BY <1>4, <1>5 DEF SameRules
<1>7. RulesMove(s, p)
  BY <1>1, <1>2, <1>5, <1>6 DEF RulesMove, OnlyMoves, Moves, Queue, FlushDeletes
<1>8. NoContainerTouched
  BY <1>1, DockerSame
<1>9. NoRuleCame(s)
  BY <1>5 DEF NoRuleCame
<1>10. s \notin kept => ~Occupied(s)
  BY <1>1, <1>3 DEF Fine, Work, Removal, Occupied
<1>11. Role(s, p)'
  BY <1>1, <1>2, <1>3 DEF Fine, Role, Route, Moves
<1>12. Work(s, p)'
  BY <1>1, <1>2, <1>3, <1>8 DEF Fine, Work, Role, Removal, Removes, Moves, NoContainerTouched, StillSays
<1>13. Queues(s, p)'
  <2>1. ASSUME s \notin leaky, Selected(proc[p])
        PROVE  NoRules(s)'
    <3>1. \A c \in ChainNames, r \in Rules :
              (Has(c, r) /\ r.bridge = s) => [chain |-> c, rule |-> r] \in batch[p]
      BY <1>1, <2>1 DEF Fine, Queues, Unruled
    <3> QED
      BY <1>5, <3>1, NoRulesHasNext
  <2>2. s \notin leaky => Unruled(s, proc[p], batch[p])'
    BY <1>1, <1>2, <2>1 DEF Unruled, Selected, Removes, Moves
  <2> QED
    BY <1>2, <1>5, <1>7, <2>2 DEF Queues, Queue, Isolating, Moves, RulesMove
<1>14. Cover(s, p)'
  BY <1>2 DEF Cover, Isolating, Moves
<1>15. ASSUME NEW q \in Goroutines(s) \ {p}
       PROVE  /\ MildRules(s, q) /\ MildCover(s, q) /\ Apart(s, p, q)' /\ Apart(s, q, p)'
  <2>1. Apart(s, p, q) /\ Apart(s, q, p) /\ proc'[q] = proc[q] /\ q \in Processes \ {p}
    BY <1>1, <1>2, <1>15, ProcessNames DEF Good, Moves
  <2>2. MildRules(s, q)
    BY <1>7, <1>9 DEF MildRules, RulesMove
  <2>3. proc[q].call # "create"
    BY <1>1, <1>3, <2>1 DEF Apart, Bystander
  <2>4. MildCover(s, q)
    BY <1>7, <1>8, <1>10, <2>1, <2>3 DEF MildCover, RulesMove, NoContainerTouched, StillSays, Occupied
  <2>5. Apart(s, p, q)' /\ Apart(s, q, p)'
    BY <1>1, <1>2, <1>3, <2>1, ApartMoves DEF Moves, Bystander, Isolating, Selected, Removes
  <2> QED
    BY <2>2, <2>4, <2>5
<1>16. Ground(s)'
  <2>1. NoRules(s) => NoRules(s)'
    BY <1>1, <1>5, <1>9, NoRulesStay
  <2> QED
    BY <1>7, <1>10, <2>1, RulesGround DEF RulesMove
<1> QED
  BY <1>3, <1>7, <1>11, <1>12, <1>13, <1>14, <1>15, <1>16, RulesKeep DEF Fine

\* removeNetworkHostIsolation keeps the invariant.
LEMMA RemoveIsolationKeeps ==
    ASSUME BackendInv, NEW s \in Networks, NEW p \in Goroutines(s), RemoveIsolation(s, p)
    PROVE  BackendInv'
  BY SelectRulesKeeps, FlushDeletesKeeps, RemoveFailsKeeps DEF RemoveIsolation, At

-----------------------------------------------------------------------------
(***************************************************************************)
(* The companions, and the calls of the service                            *)
(***************************************************************************)
\* A companion's start keeps the invariant: no call relies on the containers of a
\* sandbox whose companions are being started.
LEMMA CompanionStepKeeps ==
    ASSUME BackendInv, NEW s \in Networks, NEW c \in Companions[s], CompanionStep(s, c)
    PROVE  BackendInv'
<1>1. /\ Good(s) /\ ProcType /\ StartType /\ ContainerType /\ RuleType
      /\ UNCHANGED nftVars /\ UNCHANGED <<daemon, phase, runtime, proc, networks>>
      /\ UNCHANGED <<fresh, lost, kept, leaky, gone, raced, woken>>
      /\ starts[s][c] \in {"create", "start"}
  BY InvGood DEF CompanionStep, serviceVars, history, marks
<1>2. ~Settled(s) /\ Occupied(s)
  BY <1>1 DEF Settled, Occupied
<1>3. NoRuleTouched
  BY <1>1, NftSame
<1>4. PICK st \in {"ready", "failed", "start"} : starts' = [starts EXCEPT ![s][c] = st]
  BY DEF CompanionStep
<1>5. StartType' /\ Starts(s, c, st)
  BY <1>1, <1>4, StartBecomes
<1>6. containers' = containers
          \/ \E w \in {"stopped", "running"} : containers' = [containers EXCEPT ![s][c] = w]
  BY DEF CompanionStep
<1>7. /\ ContainerType'
      /\ \A t \in Networks \ {s} : \A y \in Names(t) : containers'[t][y] = containers[t][y]
      /\ Exists(s) => Exists(s)'
  <2>1. CASE containers' = containers
    BY <1>1, <2>1 DEF ContainerType, Exists
  <2>2. CASE \E w \in {"stopped", "running"} : containers' = [containers EXCEPT ![s][c] = w]
    <3>1. PICK w \in {"stopped", "running"} : containers' = [containers EXCEPT ![s][c] = w]
      BY <2>2
    <3>2. ContainerType' /\ Becomes(s, c, w)
      BY <1>1, <3>1, ContainerBecomes
    <3> QED
      BY <3>2 DEF Becomes, Exists, Names
  <2> QED
    BY <1>6, <2>1, <2>2
<1>8. ASSUME NEW t \in Networks \ {s}
      PROVE  Same(t)
  <2>1. Still(t)
    BY <1>5, <1>7, <1>8 DEF Still, Starts
  <2>2. SameCalls(t)
    BY <1>1, <1>3, ProcessNames DEF SameCalls, NoRuleTouched
  <2> QED
    BY <1>1, <1>3, <2>1, <2>2 DEF Same, SameRecord, SameMarks, NoRuleTouched
<1>9. ASSUME NEW p \in Goroutines(s)
      PROVE  Mild(s, p)
  <2>1. Fine(s, p)
    BY <1>1 DEF Good
  <2>2. Stays(p)
    BY <1>1, <1>3, ProcessNames DEF Stays, NoRuleTouched
  <2>3. MildService(s, p)
    BY <1>1, <1>7, <2>1 DEF MildService, Fine, Role
  <2>4. MildDocker(s, p)
    BY <1>1, <1>2 DEF MildDocker
  <2>5. MildRules(s, p) /\ MildCover(s, p)
    BY <1>1, <1>2, <1>3 DEF MildRules, MildCover, NoRuleTouched, RulesSay
  <2> QED
    BY <2>2, <2>3, <2>4, <2>5 DEF Mild
<1>10. Ground(s)'
  <2>1. Reapplying(s) => Reapplying(s)'
    BY <1>1, <1>7 DEF Reapplying, Goroutines
  <2> QED
    BY <1>1, <1>2, <1>3, <2>1 DEF Good, Ground, NoRuleTouched, RulesSay
<1>11. Good(s)'
  <2>1. \A p \in Goroutines(s) : Fine(s, p)'
    BY <1>1, <1>3, <1>9, FineStays DEF Good, NoRuleTouched
  <2>2. ASSUME NEW p \in Goroutines(s), NEW q \in Goroutines(s), p # q
        PROVE  Apart(s, p, q)'
    BY <1>1, <1>9, <2>2, ApartStays DEF Good, Mild
  <2>3. Goroutines(s)' = Goroutines(s)
    BY DEF Goroutines
  <2> QED
    BY <1>10, <2>1, <2>2, <2>3 DEF Good
<1>12. PhaseType' /\ ProcType'
  BY <1>1 DEF BackendInv, PhaseType, ProcType
<1> QED
  BY <1>1, <1>3, <1>5, <1>7, <1>8, <1>11, <1>12, SandboxKeeps
     DEF TypesNext, NoRuleTouched, Elsewhere

\* A step that changes nothing the invariant speaks of keeps it.
LEMMA NothingKeeps ==
    ASSUME BackendInv, UNCHANGED <<nftVars, serviceVars, proc, dockerVars, starts, history>>
    PROVE  BackendInv'
<1>1. /\ UNCHANGED nftVars /\ UNCHANGED <<daemon, phase, runtime, proc, networks, containers, starts>>
      /\ UNCHANGED <<fresh, lost, kept, leaky, gone, raced, woken>>
  BY DEF serviceVars, dockerVars, history, marks
<1>2. NoRuleTouched /\ NoContainerTouched
  BY <1>1, NftSame, DockerSame
<1>3. ASSUME NEW t \in Networks
      PROVE  Same(t)
  BY <1>1, <1>2, ProcessNames DEF Same, SameCalls, SameRecord, SameMarks, NoRuleTouched,
     NoContainerTouched
<1>4. ASSUME NEW t \in Networks
      PROVE  Good(t)'
  BY <1>2, <1>3, Frame, InvGood DEF NoRuleTouched
<1>5. PhaseType' /\ ProcType'
  BY <1>1 DEF BackendInv, PhaseType, ProcType
<1> QED
  BY <1>2, <1>4, <1>5, InvGood DEF TypesNext, NoRuleTouched, NoContainerTouched

\* A hook keeps the invariant.
LEMMA HookStepKeeps ==
    ASSUME BackendInv, NEW s \in Networks, NEW c \in Companions[s], HookStep(s, c)
    PROVE  BackendInv'
  BY NothingKeeps DEF HookStep

\* A goroutine that is idle has nothing to keep.
LEMMA IdleFine ==
    ASSUME NEW s, NEW p, proc'[p].call = "none", proc'[p].at = "idle", batch'[p] = {}
    PROVE  Fine(s, p)' /\ \A q : Apart(s, p, q)' /\ Apart(s, q, p)'
<1>1. Role(s, p)'
  BY DEF Role, Route
<1>2. Work(s, p)'
  BY DEF Work, Removal, Removes
<1>3. Queues(s, p)'
  BY DEF Queues, Unruled, Selected, Removes, Isolating
<1>4. Cover(s, p)'
  BY DEF Cover, Isolating
<1>5. \A q : Apart(s, p, q)' /\ Apart(s, q, p)'
  BY DEF Apart, Bystander, Isolating, Selected, Removes
<1> QED
  BY <1>1, <1>2, <1>3, <1>4, <1>5 DEF Fine

\* A goroutine that was idle is one that has nothing queued.
LEMMA WasIdle ==
    ASSUME BackendInv, NEW s \in Networks, NEW p \in Goroutines(s),
           proc[p].call = "none" \/ ~Busy(p)
    PROVE  proc[p].call = "none" /\ proc[p].at = "idle" /\ batch[p] = {}
  BY InvGood DEF Good, Fine, Role, Route, Queues, Busy

\* The calls of the service and the point each begins at.
Beginnings == {<<"create", "begin">>, <<"resume", "begin">>, <<"stop", "begin">>,
               <<"exec", "mustExist">>, <<"delete", "begin">>, <<"halt", "cancel">>}

\* A call that begins keeps the invariant.
LEMMA BeginKeeps ==
    ASSUME BackendInv, NEW s \in Networks, NEW call, NEW pt, <<call, pt>> \in Beginnings,
           Begin(s, call, pt), daemon = "serving",
           PhaseType', \A t \in Networks \ {s} : phase'[t] = phase[t],
           phase'[s] \in {"pending", "ready", "deleting", "failed"},
           call = "create" => phase[s] = "absent" /\ phase'[s] = "pending",
           call = "delete" => phase'[s] = "deleting",
           call \notin {"create", "delete"} => phase[s] \in {"ready", "stopped"},
           UNCHANGED <<nftVars, daemon, runtime, dockerVars, goVars, history>>
    PROVE  BackendInv'
<1>1. /\ Good(s) /\ ProcType
      /\ UNCHANGED nftVars /\ UNCHANGED <<daemon, runtime, networks, containers, starts>>
      /\ UNCHANGED <<fresh, lost, kept, leaky, gone, raced, woken>>
  BY InvGood DEF BackendInv, dockerVars, goVars, history, marks
<1>2. call \in AllCalls /\ pt \in AllPoints
  BY DEF Beginnings, AllCalls, AllPoints
<1>3. PICK p \in Goroutines(s) : ~Busy(p) /\ ProcType' /\ Moves(p, call, pt, FALSE, FALSE, {})
  BY <1>1, <1>2, BeginMoves
<1>4. p \in Processes /\ proc[p].call = "none" /\ proc[p].at = "idle" /\ batch[p] = {}
  BY <1>3, WasIdle, ProcessNames
<1>5. NoRuleTouched /\ NoContainerTouched
  BY <1>1, NftSame, DockerSame
<1>6. \A x \in Names(s) : DownOrWoken(s, x)' <=> DownOrWoken(s, x)
  BY <1>1 DEF DownOrWoken, Running
<1>7. ASSUME NEW q \in Goroutines(s) \ {p}
      PROVE  /\ Stays(q) /\ Role(s, q) /\ proc[q].call # "reapply"
             /\ proc[q].call = "create" => call = "delete"
             /\ call = "create" => proc[q].call = "none"
  <2>1. Stays(q)
    BY <1>1, <1>3, <1>4, <1>5, <1>7, ProcessNames DEF Moves, Stays, NoRuleTouched
  <2>2. Role(s, q)
    BY <1>1, <1>7 DEF Good, Fine
  <2> QED
    BY <2>1, <2>2 DEF Role
<1>8. ASSUME NEW q \in Goroutines(s) \ {p}
      PROVE  Mild(s, q)
  <2>1. MildService(s, q)
    BY <1>1, <1>7, <1>8 DEF MildService
  <2>2. MildDocker(s, q)
    BY <1>1, <1>5, <1>6 DEF MildDocker, NoContainerTouched, StillSays, Still
  <2>3. MildRules(s, q) /\ MildCover(s, q)
    BY <1>1, <1>5 DEF MildRules, MildCover, NoRuleTouched, RulesSay, NoContainerTouched,
       StillSays, Occupied
  <2> QED
    BY <1>7, <1>8, <2>1, <2>2, <2>3 DEF Mild
<1>9. ASSUME NEW q \in Goroutines(s) \ {p}
      PROVE  Apart(s, p, q)' /\ Apart(s, q, p)'
  <2>1. Stays(q) /\ proc[q].call # "reapply" /\ (proc[q].call = "create" => call = "delete")
        /\ (call = "create" => proc[q].call = "none")
    BY <1>7, <1>9
  <2>2. /\ proc'[p].call = call /\ proc'[p].at = pt
        /\ ~Isolating(p)' /\ pt \notin IsolatePoints /\ ~Selected(proc[p])' /\ call # "reapply"
        /\ call = "delete" => Bystander(proc[p])'
    BY <1>3 DEF Moves, Beginnings, Isolating, Selected, Bystander
  <2>3. call = "create" => Bystander(proc[q])'
    BY <2>1 DEF Stays, Bystander
  <2> QED
    BY <2>1, <2>2, <2>3 DEF Apart, Stays
<1>10. Fine(s, p)'
  <2>1. Role(s, p)'
    BY <1>1, <1>3 DEF Role, Route, Moves, Beginnings, Good, Ground
  <2>2. Work(s, p)'
    BY <1>1, <1>3, <1>5 DEF Work, Removal, Removes, Moves, Beginnings, Good, Ground,
       NoContainerTouched, StillSays
  <2>3. Queues(s, p)'
    BY <1>3, <1>4, <1>5 DEF Queues, Unruled, Selected, Isolating, Moves, Beginnings, NoRuleTouched
  <2>4. Cover(s, p)'
    BY <1>3 DEF Cover, Isolating, Moves, Beginnings
  <2> QED
    BY <2>1, <2>2, <2>3, <2>4 DEF Fine
<1>11. Ground(s)'
  <2>1. ~Reapplying(s)
    BY <1>1 DEF Reapplying, Good, Fine, Role
  <2> QED
    BY <1>1, <1>5, <2>1 DEF Good, Ground, NoRuleTouched, RulesSay, NoContainerTouched,
       StillSays, Occupied
<1>12. Elsewhere(s)
  BY <1>1, <1>3, <1>4, <1>5, ElsewhereSame, ProcessNames
     DEF OnlyMoves, Moves, NoRuleTouched, NoContainerTouched, SameMarks
<1> QED
  BY <1>1, <1>3, <1>5, <1>8, <1>9, <1>10, <1>11, <1>12, StepKeeps
     DEF Steady, TypesNext, NoRuleTouched, NoContainerTouched

\* A call of the service, and the watcher's, keep the invariant.
LEMMA RequestKeeps ==
    ASSUME BackendInv, NEW s \in Networks, Request(s) \/ PrimaryFails(s)
    PROVE  BackendInv'
<1>1. PhaseType /\ UNCHANGED <<nftVars, daemon, runtime, dockerVars, goVars, history>>
      /\ daemon = "serving"
  BY DEF BackendInv, Request, PrimaryFails
<1>2. CASE /\ phase[s] = "absent" /\ phase' = [phase EXCEPT ![s] = "pending"]
           /\ Begin(s, "create", "begin")
  BY <1>1, <1>2, BeginKeeps DEF PhaseType, Beginnings
<1>3. CASE /\ phase[s] = "stopped" /\ phase' = [phase EXCEPT ![s] = "pending"]
           /\ Begin(s, "resume", "begin")
  BY <1>1, <1>3, BeginKeeps DEF PhaseType, Beginnings
<1>4. CASE phase[s] = "ready" /\ UNCHANGED phase /\ Begin(s, "stop", "begin")
  BY <1>1, <1>4, BeginKeeps DEF PhaseType, Beginnings
<1>5. CASE phase[s] = "ready" /\ UNCHANGED phase /\ Begin(s, "exec", "mustExist")
  BY <1>1, <1>5, BeginKeeps DEF PhaseType, Beginnings
<1>6. CASE phase' = [phase EXCEPT ![s] = "deleting"] /\ Begin(s, "delete", "begin")
  BY <1>1, <1>6, BeginKeeps DEF PhaseType, Beginnings
<1>7. CASE /\ phase[s] = "ready" /\ phase' = [phase EXCEPT ![s] = "failed"]
           /\ Begin(s, "halt", "cancel")
  BY <1>1, <1>7, BeginKeeps DEF PhaseType, Beginnings
<1> QED
  BY <1>2, <1>3, <1>4, <1>5, <1>6, <1>7 DEF Request, PrimaryFails

\* A call that returns keeps the invariant.
LEMMA ReturnKeeps ==
    ASSUME BackendInv, NEW s \in Networks, NEW p \in Goroutines(s), Return(s, p)
    PROVE  BackendInv'
<1>1. /\ Good(s) /\ Fine(s, p) /\ ProcType /\ PhaseType /\ p \in Processes
      /\ UNCHANGED nftVars /\ UNCHANGED <<daemon, networks, containers, starts>>
      /\ UNCHANGED <<fresh, lost, kept, leaky, raced, woken>>
      /\ proc[p].at = "return" /\ ~(proc[p].call = "reapply" /\ proc[p].err)
  BY InvGood, ProcessNames DEF BackendInv, Good, Return, dockerVars, goVars
<1>2. ProcType' /\ Moves(p, "none", "idle", FALSE, FALSE, {})
  BY <1>1, IdleMoves DEF Return
<1>3. proc[p].call \in AllCalls \ {"none"} /\ phase[s] # "absent" /\ daemon # "down"
      /\ batch[p] = {}
  BY <1>1, KnownCall DEF Fine, Role, Route, Queues
<1>4. /\ PhaseType' /\ \A t \in Networks \ {s} : phase'[t] = phase[t]
      /\ phase'[s] \in {"ready", "stopped", "deleted", "failed", phase[s]}
      /\ phase'[s] = "stopped" => phase[s] = "stopped" \/ (proc[p].call = "stop" /\ ~proc[p].err)
      /\ proc[p].call = "deleteNothing" => phase'[s] = "deleted"
  <2>1. proc[p].call = "deleteNothing" => ~proc[p].err
    BY <1>1 DEF Fine, Role
  <2> QED
    BY <1>1, <1>3, <2>1 DEF PhaseType, Return, AllCalls
<1>5. /\ proc[p].call # "create" => (s \in runtime' => s \in runtime)
      /\ \A t \in Networks \ {s} : (t \in runtime' <=> t \in runtime) /\ (t \in gone' <=> t \in gone)
      /\ s \in gone => s \in gone'
      /\ (s \in gone' /\ s \notin gone) => Removes(proc[p]) /\ ~proc[p].dirty
  BY DEF Return, Removes
<1>6. NoRuleTouched /\ NoContainerTouched
  BY <1>1, NftSame, DockerSame
<1>7. \A x \in Names(s) : DownOrWoken(s, x)' <=> DownOrWoken(s, x)
  BY <1>1 DEF DownOrWoken, Running
<1>8. Fine(s, p)' /\ \A q : Apart(s, p, q)' /\ Apart(s, q, p)'
  BY <1>1, <1>2, <1>3, <1>6, IdleFine DEF Moves, NoRuleTouched
<1>9. ASSUME NEW q \in Goroutines(s) \ {p}
      PROVE  Mild(s, q)
  <2>1. Stays(q) /\ Role(s, q) /\ Apart(s, p, q) /\ Apart(s, q, p)
    BY <1>1, <1>2, <1>6, <1>9, ProcessNames DEF Good, Fine, Moves, Stays, NoRuleTouched
  <2>2. proc[q].call # "reapply" /\ (proc[q].call = "create" => proc[p].call = "deleteNothing")
    BY <1>1, <1>3, <2>1 DEF Apart, Bystander
  <2>3. MildService(s, q)
    BY <1>1, <1>3, <1>4, <1>5, <2>1, <2>2 DEF MildService, Role, Removes
  <2>4. MildDocker(s, q)
    BY <1>1, <1>6, <1>7 DEF MildDocker, NoContainerTouched, StillSays, Still
  <2>5. (s \in gone' /\ s \notin leaky) => s \in gone \/ proc[q].at \notin IsolatePoints
    BY <1>1, <1>5, <2>1 DEF Apart, Selected
  <2>6. MildRules(s, q) /\ MildCover(s, q)
    BY <1>1, <1>6, <2>5 DEF MildRules, MildCover, NoRuleTouched, RulesSay, NoContainerTouched,
       StillSays, Occupied
  <2> QED
    BY <2>1, <2>3, <2>4, <2>6 DEF Mild
<1>10. Ground(s)'
  <2>1. ~Reapplying(s)
    BY <1>1, <1>3 DEF Reapplying, Good, Apart
  <2>2. phase'[s] = "stopped" => Settled(s) /\ \A x \in Names(s) : DownOrWoken(s, x)
    BY <1>1, <1>4 DEF Good, Ground, Fine, Work
  <2>3. s \in gone' => Settled(s) /\ NoContainers(s) /\ s \notin networks
    BY <1>1, <1>5 DEF Good, Ground, Fine, Work, Removal
  <2>4. (s \in gone' /\ s \notin leaky) => NoRules(s)
    BY <1>1, <1>5 DEF Good, Ground, Fine, Queues, Unruled, Selected
  <2> QED
    BY <1>1, <1>3, <1>4, <1>6, <1>7, <2>1, <2>2, <2>3, <2>4 DEF Good, Ground, NoRuleTouched, RulesSay,
       NoContainerTouched, StillSays, Occupied
<1>11. Elsewhere(s)
  BY <1>1, <1>2, <1>4, <1>5, <1>6, ElsewhereSame, ProcessNames
     DEF OnlyMoves, Moves, NoRuleTouched, NoContainerTouched, SameMarks
<1> QED
  BY <1>1, <1>2, <1>4, <1>6, <1>8, <1>9, <1>10, <1>11, StepKeeps
     DEF Steady, TypesNext, NoRuleTouched, NoContainerTouched

-----------------------------------------------------------------------------
(***************************************************************************)
(* The daemon, the host and the theorems                                   *)
(***************************************************************************)
\* What a daemon that died leaves behind: nobody is at work, and the containers
\* are as they were.
LEMMA DieSays ==
    ASSUME BackendInv, Die
    PROVE  /\ ProcType' /\ ContainerType' /\ StartType' /\ PhaseType'
           /\ batch' \in [Processes -> SUBSET [chain : ChainNames, rule : Rules]]
           /\ daemon' = "down" /\ UNCHANGED <<listFailed, phase, runtime, networks, containers>>
           /\ \A s \in Networks : Settled(s)'
           /\ \A s \in Networks : \A p \in Goroutines(s) : Fine(s, p)'
           /\ \A s \in Networks : \A p, q \in Goroutines(s) : Apart(s, p, q)'
<1>1. /\ \A p \in Processes : proc'[p] = Idle /\ batch'[p] = {}
      /\ proc' = [p \in Processes |-> Idle] /\ batch' = [p \in Processes |-> {}]
      /\ starts' = [x \in Networks |-> [c \in Companions[x] |-> "none"]]
      /\ daemon' = "down" /\ UNCHANGED <<listFailed, phase, runtime, networks, containers>>
  BY DEF Die, dockerVars, Sandboxes
<1>2. ProcType'
  BY <1>1 DEF ProcType, Records, Idle, AllCalls, AllPoints
<1>3. ContainerType' /\ StartType' /\ PhaseType'
  BY <1>1 DEF BackendInv, ContainerType, StartType, PhaseType
<1>4. \A s \in Networks : Settled(s)'
  BY <1>1 DEF Settled
<1>5. ASSUME NEW s \in Networks, NEW p \in Goroutines(s)
      PROVE  Fine(s, p)' /\ \A q : Apart(s, p, q)'
  <2>1. proc'[p].call = "none" /\ proc'[p].at = "idle" /\ batch'[p] = {}
    BY <1>1, ProcessNames DEF Idle
  <2> QED
    BY <2>1, IdleFine
<1>6. batch' \in [Processes -> SUBSET [chain : ChainNames, rule : Rules]]
  BY <1>1
<1>7. \A s \in Networks : Goroutines(s)' = Goroutines(s)
  BY DEF Goroutines
<1> QED
  BY <1>1, <1>2, <1>3, <1>4, <1>5, <1>6, <1>7

\* A daemon that dies, its host going on, keeps the invariant.
LEMMA DieKeeps ==
    ASSUME BackendInv, Die, UNCHANGED <<chains, marks>>
    PROVE  BackendInv'
<1>1. /\ ProcType' /\ ContainerType' /\ StartType' /\ PhaseType'
      /\ batch' \in [Processes -> SUBSET [chain : ChainNames, rule : Rules]]
      /\ daemon' = "down" /\ UNCHANGED <<listFailed, phase, runtime, networks, containers>>
      /\ \A s \in Networks : Settled(s)'
      /\ \A s \in Networks : \A p \in Goroutines(s) : Fine(s, p)'
      /\ \A s \in Networks : \A p, q \in Goroutines(s) : Apart(s, p, q)'
  BY DieSays
<1>2. UNCHANGED <<chains, lost, kept, leaky, gone, raced, woken>>
  BY DEF marks
<1>3. RuleType' /\ NoDuplicateRules'
  BY <1>1, <1>2 DEF BackendInv, RuleType, Fits, NoDuplicateRules
<1>4. ASSUME NEW s \in Networks
      PROVE  Ground(s)'
  <2>1. Ground(s) /\ \A p \in Goroutines(s) : Role(s, p)
    BY <1>4, InvGood DEF Good, Fine
  <2>2. /\ NoContainers(s)' <=> NoContainers(s)
        /\ Exists(s)' <=> Exists(s)
        /\ Isolated(s)' <=> Isolated(s)
        /\ NoRules(s)' <=> NoRules(s)
        /\ \A x \in Names(s) : DownOrWoken(s, x)' <=> DownOrWoken(s, x)
    BY <1>1, <1>2 DEF NoContainers, Exists, Isolated, NoRules, DownOrWoken, Running
  <2>3. Reapplying(s) => phase[s] = "ready" /\ Exists(s)
    BY <2>1 DEF Reapplying, Role
  <2>4. Reapplying(s) => Reapplying(s)'
    BY <1>1, <2>2, <2>3 DEF Reapplying
  <2>5. Settled(s)'
    BY <1>1
  <2>6. Occupied(s)' => Occupied(s)
    BY <2>2, <2>5 DEF Occupied
  <2> QED
    BY <1>1, <1>2, <2>1, <2>2, <2>4, <2>5, <2>6 DEF Ground
<1>5. \A s \in Networks : Good(s)'
  BY <1>1, <1>4 DEF Good
<1> QED
  BY <1>1, <1>3, <1>5, InvGood DEF TypesNext

\* A lost rule set has no rules, of the right kind and none twice.
LEMMA LostSays ==
    ASSUME RuleSetLost, RuleType,
           batch' \in [Processes -> SUBSET [chain : ChainNames, rule : Rules]]
    PROVE  /\ RuleType' /\ NoDuplicateRules' /\ \A c, r : ~Has(c, r)'
           /\ \A s \in Networks : NoRules(s)' /\ NoRuleCame(s)
<1>1. (\A c, r : ~Has(c, r)') /\ \A c \in DOMAIN chains' : DOMAIN chains'[c] = {}
  BY LostHas
<1>2. RuleType'
  BY <1>1 DEF RuleType, Fits
<1>3. NoDuplicateRules'
  BY <1>1 DEF NoDuplicateRules, BagToSet
<1>4. \A s \in Networks : NoRules(s)'
  BY <1>1 DEF NoRules, BagToSet
<1> QED
  BY <1>1, <1>2, <1>3, <1>4 DEF NoRuleCame

\* The death of the host, or of its rule set with the daemon, keeps it.
LEMMA RebootKeeps ==
    ASSUME BackendInv, Reboot
    PROVE  BackendInv'
<1>1. /\ ProcType' /\ ContainerType' /\ StartType' /\ PhaseType'
      /\ batch' \in [Processes -> SUBSET [chain : ChainNames, rule : Rules]]
      /\ daemon' = "down" /\ UNCHANGED <<listFailed, phase, runtime, networks, containers>>
      /\ \A s \in Networks : Settled(s)'
      /\ \A s \in Networks : \A p \in Goroutines(s) : Fine(s, p)'
      /\ \A s \in Networks : \A p, q \in Goroutines(s) : Apart(s, p, q)'
  BY DieSays DEF Reboot
<1>2. lost' = Networks /\ UNCHANGED <<kept, leaky, gone, raced, woken>>
  BY DEF Reboot, Sandboxes
<1>3. RuleType' /\ NoDuplicateRules' /\ \A s \in Networks : NoRules(s)'
  BY <1>1, LostSays DEF Reboot, BackendInv
<1>4. ASSUME NEW s \in Networks
      PROVE  Ground(s)'
  <2>1. Ground(s)
    BY <1>4, InvGood DEF Good
  <2>2. /\ NoContainers(s)' <=> NoContainers(s)
        /\ \A x \in Names(s) : DownOrWoken(s, x)' <=> DownOrWoken(s, x)
    BY <1>1, <1>2 DEF NoContainers, DownOrWoken, Running
  <2> QED
    BY <1>1, <1>2, <1>3, <2>1, <2>2 DEF Ground
<1>5. \A s \in Networks : Good(s)'
  BY <1>1, <1>4 DEF Good
<1> QED
  BY <1>1, <1>3, <1>5, InvGood DEF TypesNext

\* Somebody's flush of the rule set keeps it, whatever is under way.
LEMMA FlushRuleSetKeeps ==
    ASSUME BackendInv, FlushRuleSet
    PROVE  BackendInv'
<1>1. /\ UNCHANGED <<batch, listFailed, daemon, phase, runtime, proc, networks, containers, starts>>
      /\ UNCHANGED <<kept, leaky, gone, raced, woken>> /\ fresh' = {} /\ lost' = Networks
  BY DEF FlushRuleSet, serviceVars, dockerVars, goVars, Sandboxes
<1>2. /\ RuleType' /\ NoDuplicateRules' /\ \A c, r : ~Has(c, r)'
      /\ \A s \in Networks : NoRules(s)' /\ NoRuleCame(s)
  BY <1>1, LostSays DEF FlushRuleSet, BackendInv, RuleType
<1>3. NoContainerTouched
  BY <1>1, DockerSame
<1>4. ASSUME NEW s \in Networks
      PROVE  Good(s)'
  <2>1. Good(s)
    BY <1>4, InvGood
  <2>2. \A x \in Names(s) : DownOrWoken(s, x)' <=> DownOrWoken(s, x)
    BY <1>1 DEF DownOrWoken, Running
  <2>3. ASSUME NEW p \in Goroutines(s)
        PROVE  Mild(s, p)
    <3>1. Stays(p)
      BY <1>1 DEF Stays
    <3>2. MildService(s, p)
      BY <1>1, <1>3, <2>1, <2>3 DEF MildService, NoContainerTouched, StillSays, Good, Fine, Role
    <3>3. MildDocker(s, p)
      BY <1>1, <1>3, <2>2 DEF MildDocker, NoContainerTouched, StillSays, Still
    <3>4. MildRules(s, p) /\ MildCover(s, p)
      BY <1>1, <1>2, <1>3 DEF MildRules, MildCover, NoContainerTouched, StillSays, Occupied
    <3> QED
      BY <3>1, <3>2, <3>3, <3>4 DEF Mild
  <2>4. \A p \in Goroutines(s) : Fine(s, p)'
    BY <1>2, <2>1, <2>3, FineStays DEF Good, BackendInv
  <2>5. ASSUME NEW p \in Goroutines(s), NEW q \in Goroutines(s), p # q
        PROVE  Apart(s, p, q)'
    BY <1>1, <2>1, <2>3, <2>5, ApartStays DEF Good, Mild
  <2>6. Ground(s)'
    BY <1>1, <1>2, <1>3, <2>1, <2>2 DEF Good, Ground, NoContainerTouched, StillSays
  <2>7. Goroutines(s)' = Goroutines(s)
    BY DEF Goroutines
  <2> QED
    BY <2>4, <2>5, <2>6, <2>7 DEF Good
<1>5. PhaseType' /\ ProcType'
  BY <1>1 DEF BackendInv, PhaseType, ProcType
<1> QED
  BY <1>2, <1>3, <1>4, <1>5, InvGood DEF TypesNext, NoContainerTouched

\* A daemon that starts to serve keeps it.
LEMMA ServeKeeps ==
    ASSUME BackendInv, Serve
    PROVE  BackendInv'
<1>1. /\ UNCHANGED nftVars /\ UNCHANGED <<phase, runtime, proc, networks, containers, starts>>
      /\ UNCHANGED <<fresh, lost, kept, leaky, gone, raced, woken>>
      /\ daemon = "restoring" /\ daemon' = "serving" /\ \A p \in Processes : ~Busy(p)
  BY DEF Serve, dockerVars, goVars, history, marks
<1>2. NoRuleTouched /\ NoContainerTouched
  BY <1>1, NftSame, DockerSame
<1>3. ASSUME NEW s \in Networks
      PROVE  Good(s)'
  <2>1. Good(s) /\ Goroutines(s)' = Goroutines(s)
    BY <1>3, InvGood DEF Goroutines
  <2>2. ASSUME NEW p \in Goroutines(s)
        PROVE  /\ proc[p].call = "none"
               /\ Fine(s, p)' /\ \A q : Apart(s, p, q)'
    <3>1. proc[p].call = "none" /\ proc[p].at = "idle" /\ batch[p] = {} /\ p \in Processes
      BY <1>1, WasIdle, ProcessNames
    <3>2. proc'[p].call = "none" /\ proc'[p].at = "idle" /\ batch'[p] = {}
      BY <1>1, <1>2, <3>1 DEF NoRuleTouched
    <3> QED
      BY <3>1, <3>2, IdleFine
  <2>3. ~Reapplying(s)
    BY <1>1, <2>2 DEF Reapplying
  <2>4. \A x \in Names(s) : DownOrWoken(s, x)' <=> DownOrWoken(s, x)
    BY <1>1 DEF DownOrWoken, Running
  <2>5. Ground(s)'
    BY <1>1, <1>2, <2>1, <2>3, <2>4 DEF Good, Ground, NoRuleTouched, RulesSay, NoContainerTouched,
       StillSays, Occupied
  <2> QED
    BY <2>1, <2>2, <2>5 DEF Good
<1>4. PhaseType' /\ ProcType'
  BY <1>1 DEF BackendInv, PhaseType, ProcType
<1> QED
  BY <1>2, <1>3, <1>4, InvGood DEF TypesNext, NoRuleTouched, NoContainerTouched

\* restorePersistedSandboxes keeps it: what it is about to re-apply excuses what
\* was lost meanwhile.
LEMMA RestoreKeeps ==
    ASSUME BackendInv, Restore
    PROVE  BackendInv'
<1>1. /\ UNCHANGED nftVars /\ UNCHANGED <<networks, containers, starts>>
      /\ UNCHANGED <<fresh, kept, leaky, gone, raced, woken>>
      /\ daemon = "down" /\ daemon' = "restoring"
      /\ lost' = lost \ {s \in Networks : phase[s] = "ready" /\ Exists(s)}
  BY DEF Restore, dockerVars, goVars, Sandboxes
<1>2. NoRuleTouched /\ NoContainerTouched
  BY <1>1, NftSame, DockerSame
<1>3. PICK g \in Slots :
          proc' = [p \in Processes |->
              CASE phase[p[1]] = "ready" /\ Exists(p[1]) /\ p[2] = g ->
                       [Idle EXCEPT !.call = "reapply", !.at = "isolate"]
                [] phase[p[1]] = "deleting" /\ p[2] = g ->
                       [Idle EXCEPT !.call = "cleanup", !.at = "cancel"]
                [] OTHER -> Idle]
  BY DEF Restore
<1>4. ProcType'
  BY <1>3 DEF ProcType, Records, Idle, AllCalls, AllPoints
<1>5. PhaseType'
  BY <1>1 DEF BackendInv, PhaseType, Restore, Sandboxes
<1>6. ASSUME NEW s \in Networks
      PROVE  Good(s)'
  <2>1. Good(s) /\ Goroutines(s)' = Goroutines(s)
    BY <1>6, InvGood DEF Goroutines
  <2>2. /\ phase'[s] = "absent" => phase[s] = "absent" /\ s \notin runtime'
        /\ phase'[s] = "stopped" => phase[s] = "stopped"
        /\ phase[s] = "ready" /\ Exists(s) => phase'[s] = "ready"
        /\ phase[s] = "deleting" => phase'[s] = "deleted"
    BY DEF Restore, Sandboxes
  <2>3. ASSUME NEW p \in Goroutines(s)
        PROVE  /\ batch'[p] = {} /\ p \in Processes /\ p[1] = s /\ proc[p].call = "none"
               /\ \/ /\ phase[s] = "ready" /\ Exists(s) /\ p[2] = g
                     /\ proc'[p].call = "reapply" /\ proc'[p].at = "isolate" /\ ~proc'[p].err
                  \/ /\ phase[s] = "deleting" /\ p[2] = g
                     /\ proc'[p].call = "cleanup" /\ proc'[p].at = "cancel" /\ ~proc'[p].err
                  \/ /\ proc'[p].call = "none" /\ proc'[p].at = "idle"
                     /\ p[2] = g => ~(phase[s] = "ready" /\ Exists(s))
    <3>1. p[1] = s /\ p \in Processes
      BY <2>3, ProcessNames DEF Goroutines
    <3>2. proc[p].call = "none"
      BY <1>1, <2>1, <2>3 DEF Good, Fine, Role
    <3>3. batch'[p] = {}
      BY <1>2, <3>1, <3>2, WasIdle DEF NoRuleTouched
    <3> QED
      BY <1>3, <3>1, <3>2, <3>3 DEF Idle
  <2>4. ASSUME NEW p \in Goroutines(s)
        PROVE  Fine(s, p)'
    <3>1. Role(s, p)'
      BY <1>1, <1>2, <2>2, <2>3 DEF Role, Route, NoContainerTouched, StillSays
    <3>2. Work(s, p)'
      BY <2>3 DEF Work, Removal, Removes
    <3>3. (phase[s] = "ready" /\ Exists(s)) => s \notin gone
      BY <2>1 DEF Good, Ground, NoContainers, Exists, Names
    <3>4. Queues(s, p)'
      BY <1>1, <2>3, <3>3 DEF Queues, Unruled, Selected, Removes, Isolating
    <3>5. Cover(s, p)'
      BY <2>3 DEF Cover, Isolating
    <3> QED
      BY <3>1, <3>2, <3>4, <3>5 DEF Fine
  <2>5. ASSUME NEW p \in Goroutines(s), NEW q \in Goroutines(s), p # q
        PROVE  Apart(s, p, q)'
    <3>1. p[2] # q[2]
      BY <2>5 DEF Goroutines
    <3>2. ~Isolating(p)' /\ ~Selected(proc[p])' /\ proc'[p].call # "create"
      BY <2>3 DEF Isolating, Selected
    <3>3. proc'[p].call = "reapply" => proc'[q].call = "none"
      BY <2>3, <3>1
    <3> QED
      BY <3>2, <3>3 DEF Apart
  <2>6. (phase[s] = "ready" /\ Exists(s)) => Reapplying(s)'
    <3>1. <<s, g>> \in Goroutines(s) /\ <<s, g>>[2] = g
      BY DEF Goroutines
    <3> QED
      BY <2>1, <2>3, <3>1 DEF Reapplying
  <2>7. Reapplying(s) => phase[s] = "ready" /\ Exists(s)
    BY <2>3 DEF Reapplying
  <2>8. \A x \in Names(s) : DownOrWoken(s, x)' <=> DownOrWoken(s, x)
    BY <1>1 DEF DownOrWoken, Running
  <2>9. Ground(s)'
    BY <1>1, <1>2, <2>1, <2>2, <2>6, <2>7, <2>8 DEF Good, Ground, NoRuleTouched, RulesSay,
       NoContainerTouched, StillSays, Occupied
  <2> QED
    BY <2>1, <2>4, <2>5, <2>9 DEF Good
<1> QED
  BY <1>2, <1>4, <1>5, <1>6, InvGood DEF TypesNext, NoRuleTouched, NoContainerTouched

\* The invariant holds before any sandbox exists.
LEMMA InitBackend == Init => BackendInv /\ CountType
<1> SUFFICES ASSUME Init
             PROVE  BackendInv /\ CountType
  OBVIOUS
<1>1. /\ daemon = "serving" /\ phase = [s \in Networks |-> "absent"]
      /\ runtime = {} /\ proc = [p \in Processes |-> Idle] /\ networks = {}
      /\ containers = [s \in Networks |-> [x \in Names(s) |-> "none"]]
      /\ starts = [s \in Networks |-> [c \in Companions[s] |-> "none"]]
      /\ lost = {} /\ kept = {} /\ leaky = {} /\ gone = {} /\ mishaps = 0
      /\ batch = [p \in Processes |-> {}] /\ listFailed = FALSE
      /\ \A c \in DOMAIN chains : chains[c] = EmptyBag
  BY DEF Init, NftInit, Sandboxes
<1>2. ProcType /\ ContainerType /\ StartType /\ PhaseType /\ CountType
  BY <1>1 DEF ProcType, Records, Idle, AllCalls, AllPoints, ContainerType, StartType, PhaseType,
     CountType
<1>3. \A c \in DOMAIN chains : DOMAIN chains[c] = {}
  BY <1>1 DEF EmptyBag, SetToBag
<1>4. RuleType /\ NoDuplicateRules
  BY <1>1, <1>3 DEF RuleType, NoDuplicateRules, BagToSet
<1>5. ASSUME NEW s \in Networks
      PROVE  Ground(s)
  <2>1. Settled(s) /\ NoContainers(s)
    BY <1>1 DEF Settled, NoContainers
  <2> QED
    BY <1>1, <2>1 DEF Ground, Occupied
<1>6. ASSUME NEW s \in Networks, NEW p \in Goroutines(s)
      PROVE  Fine(s, p) /\ \A q \in Goroutines(s) : Apart(s, p, q)
  <2>1. \A q \in Goroutines(s) : proc[q].call = "none" /\ proc[q].at = "idle" /\ batch[q] = {}
    BY <1>1, ProcessNames DEF Idle
  <2>2. Role(s, p) /\ Work(s, p)
    BY <2>1 DEF Role, Route, Work, Removal, Removes
  <2>3. Queues(s, p) /\ Cover(s, p)
    BY <2>1 DEF Queues, Unruled, Selected, Cover, Isolating
  <2>4. \A q \in Goroutines(s) : Apart(s, p, q)
    BY <2>1 DEF Apart, Bystander, Isolating, Selected
  <2> QED
    BY <2>2, <2>3, <2>4 DEF Fine
<1> QED
  BY <1>2, <1>4, <1>5, <1>6 DEF BackendInv

\* Every step keeps the invariant.
LEMMA NextBackend ==
    ASSUME BackendInv, CountType, [Next]_vars
    PROVE  BackendInv'
<1>1. ASSUME NEW s \in Networks, NEW p \in Goroutines(s), Step(s, p)
      PROVE  BackendInv'
  BY <1>1, EnterKeeps, NetworkCreateKeeps, ApplyIsolationKeeps, StartCompanionsKeeps,
     CreatePrimaryKeeps, MustExistKeeps, EnsureRunningKeeps, CancelAndWaitKeeps,
     StopContainersKeeps, RemoveContainersKeeps, RemoveIsolationKeeps, RemoveNetworkKeeps,
     ReturnKeeps DEF Step
<1>2. ASSUME NEW p, RestoreAborts(p)
      PROVE  BackendInv'
  BY <1>2, DieKeeps DEF RestoreAborts
<1>3. ASSUME NEW s \in Networks, NEW c \in Companions[s], CompanionStep(s, c) \/ HookStep(s, c)
      PROVE  BackendInv'
  BY <1>3, CompanionStepKeeps, HookStepKeeps
<1>4. CASE Restore \/ Serve
  BY <1>4, RestoreKeeps, ServeKeeps
<1>5. ASSUME NEW s \in Networks, Request(s) \/ PrimaryFails(s)
      PROVE  BackendInv'
  BY <1>5, RequestKeeps
<1>6. CASE Crash
  BY <1>6, DieKeeps DEF Crash
<1>7. CASE FlushRuleSet \/ Reboot
  BY <1>7, FlushRuleSetKeeps, RebootKeeps
<1>8. CASE UNCHANGED vars
  BY <1>8, NothingKeeps DEF vars, goVars
<1> QED
  BY <1>1, <1>2, <1>3, <1>4, <1>5, <1>6, <1>7, <1>8 DEF Next, DaemonNext, Sandboxes

\* The invariant of the backend: what every goroutine of every sandbox has
\* done, queued and relies on, whatever other calls run beside it (docker_runtime.go,
\* docker_runtime_nftables.go).
THEOREM BackendInvariant == Spec => []BackendInv
<1>1. BackendInv /\ CountType /\ [Next]_vars => (BackendInv /\ CountType)'
  BY NextBackend, CountKeeps
<1> QED
  BY <1>1, InitBackend, PTL DEF Spec

\* A sandbox with a running container is isolated while the daemon serves, unless
\* the rule set was lost or a removal failed (docker_runtime.go:120-146).
THEOREM RunningIsolatedCorrect == Spec => []RunningIsolated
<1>1. BackendInv => RunningIsolated
  <2> SUFFICES ASSUME BackendInv, daemon = "serving", NEW s \in Networks, s \notin lost \cup kept,
                      NEW x \in Names(s), Running(s, x)
               PROVE  Isolated(s)
    BY DEF RunningIsolated, Sandboxes
  <2>1. Good(s)
    BY InvGood
  <2>2. Occupied(s)
    BY DEF Occupied, NoContainers, Running
  <2>3. ~Reapplying(s)
    BY <2>1 DEF Reapplying, Good, Fine, Role
  <2> QED
    BY <2>1, <2>2, <2>3 DEF Good, Ground
<1> QED
  BY <1>1, BackendInvariant, PTL

\* A removed sandbox has no containers, no network and, unless leaky, no rules
\* (deleteRuntimeArtifacts).
THEOREM NothingLeftCorrect == Spec => []NothingLeft
<1>1. BackendInv /\ gone \subseteq Networks => NothingLeft
  <2> SUFFICES ASSUME BackendInv, NEW s \in Networks, s \in gone
               PROVE  /\ s \notin networks /\ \A x \in Names(s) : containers[s][x] = "none"
                      /\ s \notin leaky => NoRules(s)
    BY DEF NothingLeft
  <2> QED
    BY DEF BackendInv, Ground, NoContainers
<1>2. Init => gone \subseteq Networks
  BY DEF Init
<1>3. gone \subseteq Networks /\ [Next]_vars => (gone \subseteq Networks)'
  <2> SUFFICES ASSUME gone \subseteq Networks, [Next]_vars
               PROVE  gone' \subseteq Networks
    OBVIOUS
  <2>1. ASSUME NEW s \in Networks, NEW p, Step(s, p)
        PROVE  gone' \subseteq Networks
    <3>1. CASE Return(s, p)
      BY <3>1 DEF Return
    <3>2. CASE Enter(s, p) \/ NetworkCreate(s, p) \/ ApplyIsolation(s, p) \/ StartCompanions(s, p)
      BY <3>2 DEF Enter, NetworkCreate, ApplyIsolation, StartCompanions, history, marks
    <3>3. CASE CreatePrimary(s, p) \/ MustExist(s, p) \/ EnsureRunning(s, p)
      BY <3>3 DEF CreatePrimary, MustExist, EnsureRunning, history, marks
    <3>4. CASE CancelAndWait(s, p) \/ StopContainers(s, p) \/ RemoveContainers(s, p)
      BY <3>4 DEF CancelAndWait, StopContainers, RemoveContainers, history, marks
    <3>5. CASE RemoveIsolation(s, p) \/ RemoveNetwork(s, p)
      BY <3>5 DEF RemoveIsolation, RemoveNetwork, history, marks
    <3> QED
      BY <2>1, <3>1, <3>2, <3>3, <3>4, <3>5 DEF Step
  <2>2. ASSUME NEW s \in Networks, NEW c, CompanionStep(s, c) \/ HookStep(s, c)
        PROVE  gone' \subseteq Networks
    BY <2>2 DEF CompanionStep, HookStep, history, marks
  <2>3. CASE Crash \/ (\E p : RestoreAborts(p)) \/ Reboot \/ FlushRuleSet
    BY <2>3 DEF Crash, RestoreAborts, Reboot, FlushRuleSet, marks
  <2>4. CASE \/ Restore \/ Serve
             \/ \E s \in Networks : Request(s) \/ PrimaryFails(s)
             \/ UNCHANGED vars
    BY <2>4 DEF Restore, Serve, Request, PrimaryFails, vars, history, marks
  <2> QED
    BY <2>1, <2>2, <2>3, <2>4 DEF Next, DaemonNext, Sandboxes
<1>4. Spec => [](gone \subseteq Networks)
  BY <1>2, <1>3, PTL DEF Spec
<1> QED
  BY <1>1, <1>4, BackendInvariant, PTL

\* No rule is in a chain twice, unless a listing failed or two resumes of its
\* sandbox overlapped (docker_runtime_nftables.go:52-57).
THEOREM NoDuplicateRulesCorrect == Spec => []NoDuplicateRules
<1>1. BackendInv => NoDuplicateRules
  BY DEF BackendInv
<1> QED
  BY <1>1, BackendInvariant, PTL

\* No container of a stopped sandbox runs, unless an exec or an overlapping resume
\* started that container beside the stop or after it (StopSandbox).
THEOREM StoppedIsDownCorrect == Spec => []StoppedIsDown
<1>1. BackendInv => StoppedIsDown
  BY DEF BackendInv, Ground, DownOrWoken, StoppedIsDown, Sandboxes
<1> QED
  BY <1>1, BackendInvariant, PTL
=============================================================================
