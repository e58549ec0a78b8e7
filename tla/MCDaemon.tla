------------------------------ MODULE MCDaemon ------------------------------
(* Daemon on small instances: a chain of plugins of which the first speaks  *)
(* one method and the others all, and a --inject-env that plugins override. *)
EXTENDS Daemon

MCHas == [i \in 1..N |-> IF i = 1 THEN {CHOOSE m \in Methods : TRUE} ELSE Methods]
MCInjectEnv == [x \in Vars |-> CHOOSE v \in Vals : TRUE]
=============================================================================
