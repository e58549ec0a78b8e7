------------------------- MODULE MCForwardingFilter -------------------------
(* ForwardingFilter on a small instance: five client packets with both     *)
(* forwarding directions blocked.                                          *)
EXTENDS ForwardingFilter
=============================================================================
