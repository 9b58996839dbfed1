--------------------------- MODULE MCRuntimeBackend ---------------------------
(* Values of the constants of RuntimeBackend for model checking. *)
EXTENDS RuntimeBackend, TLC

CONSTANTS s1, s2, c1, g1, g2

TwoSlots == {g1, g2}

\* A sandbox with a companion and one without, on the same host.
BothSandboxes == {s1, s2}
BothProcesses == BothSandboxes \X TwoSlots
OneCompanion == [s \in BothSandboxes |-> IF s = s1 THEN {c1} ELSE {}]

\* A single sandbox with a companion, for more of its calls.
OneSandbox == {s1}
OneSandboxProcesses == OneSandbox \X TwoSlots
ItsCompanion == [s \in OneSandbox |-> {c1}]

\* The goroutines of a sandbox are alike.
SlotSymmetry == Permutations(TwoSlots)
=============================================================================
