---------------------------- MODULE MCFailToBan ----------------------------
(* FailToBan on a small instance: one connection comes from an ignored    *)
(* address, the others share one that is not.                             *)
EXTENDS FailToBan

MCAddrTwo == [c \in Conns |-> IF c = CHOOSE x \in Conns : TRUE
                              THEN CHOOSE a \in Addrs : a \in Ignored \/ Ignored = {}
                              ELSE CHOOSE a \in Addrs : a \notin Ignored]
=============================================================================
