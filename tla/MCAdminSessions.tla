-------------------------- MODULE MCAdminSessions --------------------------
(* AdminSessions on small instances: a session with two channels, a viewer  *)
(* that may come at any time, and a kill.                                   *)
EXTENDS AdminSessions
=============================================================================
