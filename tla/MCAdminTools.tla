---------------------------- MODULE MCAdminTools ----------------------------
(* Instances of AdminTools for TLC. *)
EXTENDS AdminTools

CONSTANTS a1, a2, a3, i1, i2, s1

\* a1 and a3 are configured alike, a2 may be or not; the shell knows two, one
\* of which its list may name twice.
MCReports == [a \in Addrs |-> IF a = a2 THEN {i1, i2} ELSE {i1}]
MCHosts == [s \in Sessions |-> a1]
MCEndpointLists == [p \in Procs |-> IF p = Cmd THEN {<<a1, a2>>, <<a2, a1, a2>>} ELSE {<<a1, a2, a3>>}]

\* One request of each kind that a handler acts on.
MCRequests ==
  { [method |-> "GET", path |-> <<>>],
    [method |-> "DELETE", path |-> <<i1, s1>>],
    [method |-> "GET", path |-> <<i1, s1, "stream">>],
    [method |-> "GET", path |-> <<i1, s1>>],
    [method |-> "DELETE", path |-> <<i1, "">>] }

\* Two SSH channels, one with output and one with input.
MCFrames == {[kind |-> "header", channel |-> 1], [kind |-> "header", channel |-> 2],
             [kind |-> "o", channel |-> 1], [kind |-> "i", channel |-> 2]}

MCLines ==
  { <<>>, <<"exit">>, <<"list">>,
    <<"kill", " ", s1>>,
    <<"kill">>,
    <<"stream", " ", "--instance", " ", i1, " ", "'", s1, "'">>,
    <<"stream", " ", "--format", " ", "\"", "asciicast", "\"", " ", s1>>,
    <<"list", " ", "\"">> }
============================================================================
