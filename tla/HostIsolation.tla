---------------------------- MODULE HostIsolation ----------------------------
(***************************************************************************)
(* The nftables rules that keep the containers of a sandbox away from the  *)
(* host (docker_runtime_nftables.go, docker_runtime_nftables_linux.go).    *)
(* The filter table is shared by all sandboxes and with the rest of the    *)
(* host; the daemon reads a chain in one netlink call and changes it in a  *)
(* later one, so that applying and removing take several steps, each a     *)
(* goroutine p on behalf of the network n.  A step that fails changes no   *)
(* chain: what was queued on the connection is only sent by Flush, as one  *)
(* transaction.                                                            *)
(***************************************************************************)
EXTENDS Naturals, Bags

CONSTANTS Networks,    \* the networks of the sandboxes
          Processes    \* the goroutines that apply or remove rules

VARIABLES
    chains,     \* the chains of the filter table that exist, each a bag of rules (their
                \* order does not matter: they all drop)
    batch,      \* per goroutine, what it has queued on its connection
    listFailed  \* whether a listing of the chains failed in applyInputIsolation

nftVars == <<chains, batch, listFailed>>

InputChains == {"INPUT", "AGBOX-INPUT"}
ChainNames == {"DOCKER-USER"} \cup InputChains

(***************************************************************************)
(* A rule matches the bridge of its network (named after the network's id, *)
(* hence never reused), the subnet and a tail: traffic to a local address, *)
(* traffic whose destination was translated, or all input.                 *)
(***************************************************************************)
Rule(n, tail) == [bridge |-> n, subnet |-> n, tail |-> tail]

Rules == {Rule(n, tail) : n \in Networks, tail \in {"local", "dnat", "input"}}

expectedDockerUserIsolationRules(n) == {Rule(n, "local"), Rule(n, "dnat")}

expectedInputIsolationRules(n) == {Rule(n, "input")}

matchesAnyBridge(rule, expected) == rule.tail = expected.tail

matchesIsolationRule(rule, expected) ==
    /\ rule.bridge = expected.bridge
    /\ rule.subnet = expected.subnet
    /\ rule.tail = expected.tail

selectAllRules(rules, expected) == expected

selectMissingIsolationRules(rules, expected) ==
    {x \in expected : \A r \in BagToSet(rules) : ~matchesIsolationRule(r, x)}

selectIsolationRulesToRemove(rules, expected) ==
    {r \in BagToSet(rules) : \E x \in expected : matchesIsolationRule(r, x)}

Queued(chain, rules) == {[chain |-> chain, rule |-> r] : r \in rules}

-----------------------------------------------------------------------------
(* applyHostIsolation *)

\* It opens the connection, finds DOCKER-USER and queues the rules it lacks.
ReadDockerUser(p, n) ==
    /\ "DOCKER-USER" \in DOMAIN chains
    /\ batch' = [batch EXCEPT ![p] =
           Queued("DOCKER-USER",
                  selectMissingIsolationRules(chains["DOCKER-USER"],
                                              expectedDockerUserIsolationRules(n)))]
    /\ UNCHANGED <<chains, listFailed>>

\* applyInputIsolation: the rules go to INPUT when the lookup finds it, else
\* to AGBOX-INPUT; a chain that the second lookup does not find is created
\* in the same transaction, with the rule, whether or not it is there.
ReadInput(p, n) ==
    \/ /\ "INPUT" \in DOMAIN chains
       /\ batch' = [batch EXCEPT ![p] = @ \cup
              Queued("INPUT", selectMissingIsolationRules(chains["INPUT"],
                                                          expectedInputIsolationRules(n)))]
       /\ UNCHANGED <<chains, listFailed>>
    \/ /\ "INPUT" \notin DOMAIN chains
       /\ batch' = [batch EXCEPT ![p] = @ \cup
              Queued("AGBOX-INPUT",
                     IF "AGBOX-INPUT" \in DOMAIN chains
                     THEN selectMissingIsolationRules(chains["AGBOX-INPUT"],
                                                      expectedInputIsolationRules(n))
                     ELSE expectedInputIsolationRules(n))]
       /\ UNCHANGED <<chains, listFailed>>

ReadInputListFails(p, n) ==
    /\ batch' = [batch EXCEPT ![p] = @ \cup
           Queued("AGBOX-INPUT", expectedInputIsolationRules(n))]
    /\ listFailed' = TRUE
    /\ UNCHANGED chains

\* Flush: the queued rules are inserted into their chains at once;
\* the transaction is refused when a chain other than the one it creates is gone.
QueuedChains(p) == {q.chain : q \in batch[p]}

InsertsFit(p) == QueuedChains(p) \ {"AGBOX-INPUT"} \subseteq DOMAIN chains

FlushInserts(p) ==
    LET touched == QueuedChains(p)
        new(c) == SetToBag({q.rule : q \in {x \in batch[p] : x.chain = c}})
    IN  /\ InsertsFit(p)
        /\ chains' = [c \in DOMAIN chains \cup touched |->
                         new(c) (+) (IF c \in DOMAIN chains THEN chains[c] ELSE EmptyBag)]
        /\ batch' = [batch EXCEPT ![p] = {}]
        /\ UNCHANGED listFailed

-----------------------------------------------------------------------------
(* removeHostIsolation *)

SelectRulesInput(p, n) ==
    /\ batch' = [batch EXCEPT ![p] =
           UNION {Queued(c, selectIsolationRulesToRemove(chains[c],
                                IF c = "DOCKER-USER"
                                THEN expectedDockerUserIsolationRules(n)
                                ELSE expectedInputIsolationRules(n))) :
                  c \in DOMAIN chains \ {"AGBOX-INPUT"}}]
    /\ UNCHANGED <<chains, listFailed>>

\* The rules of the network in DOCKER-USER and in both input chains are
\* selected; a chain that is not there is passed over.
SelectRules(p, n) ==
    /\ batch' = [batch EXCEPT ![p] =
           UNION {Queued(c, selectIsolationRulesToRemove(chains[c],
                                IF c = "DOCKER-USER"
                                THEN expectedDockerUserIsolationRules(n)
                                ELSE expectedInputIsolationRules(n))) :
                  c \in DOMAIN chains}]
    /\ UNCHANGED <<chains, listFailed>>

\* Flush: the transaction is refused when one of the rules is gone.
DeletesFit(p) ==
    \A q \in batch[p] : q.chain \in DOMAIN chains /\ BagIn(q.rule, chains[q.chain])

FlushDeletes(p) ==
    LET dropped(c) == {q.rule : q \in {x \in batch[p] : x.chain = c}}
    IN  /\ DeletesFit(p)
        /\ chains' = [c \in DOMAIN chains |->
                         [r \in BagToSet(chains[c]) \ dropped(c) |-> chains[c][r]]]
        /\ batch' = [batch EXCEPT ![p] = {}]
        /\ UNCHANGED listFailed

\* An error on the connection: nothing that was queued takes effect.
NftablesFails(p) ==
    /\ batch' = [batch EXCEPT ![p] = {}]
    /\ UNCHANGED <<chains, listFailed>>

-----------------------------------------------------------------------------

\* A reboot or a flush of the rule set: Docker puts its own chain back; the
\* host has an INPUT chain in the table or, with native nftables, none.
RuleSetLost ==
    chains' \in {[c \in cs |-> EmptyBag] : cs \in {{"DOCKER-USER"}, {"DOCKER-USER", "INPUT"}}}

NftInit ==
    /\ chains \in {[c \in cs |-> EmptyBag] : cs \in {{"DOCKER-USER"}, {"DOCKER-USER", "INPUT"}}}
    /\ batch = [p \in Processes |-> {}]
    /\ listFailed = FALSE

\* The chains hold rules of known bridges (a part of BackendTypeOK).
NftTypeOK ==
    /\ DOMAIN chains \subseteq ChainNames
    /\ \A c \in DOMAIN chains : IsABag(chains[c]) /\ BagToSet(chains[c]) \subseteq Rules
    /\ batch \in [Processes -> SUBSET [chain : ChainNames, rule : Rules]]
    /\ listFailed \in BOOLEAN

\* All rules of the network are in place.
Isolated(n) ==
    /\ "DOCKER-USER" \in DOMAIN chains
    /\ expectedDockerUserIsolationRules(n) \subseteq BagToSet(chains["DOCKER-USER"])
    /\ \E c \in InputChains \cap DOMAIN chains :
           expectedInputIsolationRules(n) \subseteq BagToSet(chains[c])

\* No rule of the network is left in any chain.
NoRules(n) == \A c \in DOMAIN chains : \A r \in BagToSet(chains[c]) : r.bridge # n
=============================================================================
