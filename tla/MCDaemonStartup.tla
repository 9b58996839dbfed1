--------------------------- MODULE MCDaemonStartup ---------------------------
(***************************************************************************)
(* Two agboxd processes of one user, in one runtime directory or in two.   *)
(***************************************************************************)
EXTENDS DaemonStartup

OneOrTwoDirectories ==
    {[one |-> "run", two |-> "run"], [one |-> "run", two |-> "other"]}

=============================================================================
