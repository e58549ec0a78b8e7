--------------------------- MODULE MCExecBridges ---------------------------
(* Two callers of each plugin; one container has a command, one has none. *)
EXTENDS ExecBridges, TLC

CONSTANTS d1, d2

MCLabel == (d1 :> "bash") @@ (d2 :> None)
Symm    == Permutations(Callers) \cup Permutations(Pipes)
=============================================================================
