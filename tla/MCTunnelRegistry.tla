-------------------------- MODULE MCTunnelRegistry --------------------------
(* TunnelRegistry on small instances: three tunnels under a global cap of   *)
(* two, on one registrar connection, with one connector channel.            *)
EXTENDS TunnelRegistry
=============================================================================
