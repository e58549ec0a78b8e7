------------------------------- MODULE Texts --------------------------------
(***************************************************************************)
(* What a plugin loads: text, as a sequence of lines, each a key or Junk   *)
(* (a comment, an empty line); `err` says that loading failed.             *)
(***************************************************************************)
EXTENDS Integers, Sequences, Scans

Junk == "junk"

\* Text that a configuration names or holds.
Source == [state : STRING, lines : Seq(STRING), perUser : BOOLEAN]

Text(lines) == [err |-> FALSE, lines |-> lines]
LoadError   == [err |-> TRUE, lines |-> <<>>]

\* bytes.Join(chunks, "\n"): a line end goes between two chunks.
JoinLines(chunks) ==
    Flatten([i \in DOMAIN chunks |-> IF i = 1 THEN chunks[i] ELSE <<Junk>> \o chunks[i]])

\* SplitHostPortForSSH.
SplitHostPortForSSH(host) == host \notin {"", "badport"}
=============================================================================
