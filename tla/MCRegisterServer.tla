-------------------------- MODULE MCRegisterServer --------------------------
(* RegisterServer on a small instance: one registrar whose second tunnel     *)
(* meets the cap of its connection and the evictions of the sweeper.         *)
EXTENDS RegisterServer
=============================================================================
