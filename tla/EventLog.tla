------------------------------ MODULE EventLog ------------------------------
(***************************************************************************)
(* What the daemon promises about the events of its sandboxes, whatever    *)
(* requests race and whenever it crashes: each sandbox has one history of  *)
(* consecutively numbered events that only grows, that is forgotten as a   *)
(* whole and only after the deletion is part of it, and whose id is never  *)
(* given to another history.                                               *)
(***************************************************************************)
EXTENDS Naturals, Sequences

CONSTANTS Sandboxes, Events

VARIABLES
    log,       \* the history of each sandbox id
    retired    \* ids that will never have a history again

logvars == <<log, retired>>

\* h continues g with consecutive sequences.
Continues(g, h) ==
    /\ h \in Seq(Events)
    /\ Len(g) <= Len(h)
    /\ \A i \in DOMAIN g : h[i] = g[i]
    /\ \A i \in DOMAIN h \ DOMAIN g : h[i].seq = i

LogInit ==
    /\ log = [s \in Sandboxes |-> << >>]
    /\ retired = {}

\* Events are added to the histories of ids that are not retired.
Publish ==
    /\ \A s \in Sandboxes : \/ log'[s] = log[s]
                            \/ s \notin retired /\ Continues(log[s], log'[s])
    /\ log' = [s \in Sandboxes |-> log'[s]]
    /\ UNCHANGED retired

\* Histories that never began, or that contain the deletion, are forgotten.
Forget(T) ==
    /\ \A s \in T : \/ log[s] = << >>
                    \/ \E i \in DOMAIN log[s] : log[s][i].type = "SANDBOX_DELETED"
    /\ log' = [s \in Sandboxes |-> IF s \in T THEN << >> ELSE log[s]]
    /\ retired' = retired \cup T

LogNext == Publish \/ \E T \in SUBSET Sandboxes : Forget(T)

LogSpec == LogInit /\ [][LogNext]_logvars

=============================================================================
