----------------------------- MODULE AdminTools -----------------------------
(***************************************************************************)
(* The two tools over libadmin, each with the same instances behind it:    *)
(* sshpiperd-webadmin, whose handlers share one Aggregator, and a session  *)
(* of sshpiperd-admin serve.  Tool says which of them a behaviour has.     *)
(***************************************************************************)
EXTENDS WebAdmin, AdminShell

VARIABLE tool

vars == <<tool, avars, wvars, svars>>

Init ==
  /\ tool \in {"web", "shell"}
  /\ AInit /\ WInit /\ SInit
  /\ tool = "shell" => ~allowKill

World ==
  /\ \E a \in Addrs : InstanceChanges(a)
  /\ UNCHANGED <<wvars, svars>>

Next ==
  /\ UNCHANGED tool
  /\ \/ World
     \/ tool = "web" /\ WNext /\ UNCHANGED svars
     \/ tool = "shell" /\ SNext /\ UNCHANGED wvars

Spec == Init /\ [][Next]_vars

\* The goroutines of both tools run on: the loop's timer fires, a unary call
\* has a deadline.  Nothing obliges an operator, a browser, an instance or a
\* stream to do anything.
LiveSpec ==
  /\ Spec
  /\ WF_vars(tool = "web" /\ main # "closed" /\ LoopStep /\ UNCHANGED <<tool, svars>>)
  /\ WF_vars(tool = "shell" /\ Mux /\ UNCHANGED <<tool, wvars>>)
  /\ WF_vars(tool = "shell" /\ Shell /\ UNCHANGED <<tool, wvars>>)
============================================================================
