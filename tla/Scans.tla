------------------------------- MODULE Scans -------------------------------
(***************************************************************************)
(* Loops of the code over a slice, as functions of how far they have come, *)
(* in the form the proofs can reason about.                                *)
(***************************************************************************)
EXTENDS Integers, Sequences

\* `for _, x := range s { if x in S { kept = append(kept, x) } }`.
Filter(s, S) ==
    LET kept[n \in 0 .. Len(s)] ==
            IF n = 0 THEN <<>>
            ELSE IF s[n] \in S THEN Append(kept[n - 1], s[n]) ELSE kept[n - 1]
    IN kept[Len(s)]

\* `for _, s := range ss { all = append(all, s...) }`.
Flatten(ss) ==
    LET all[n \in 0 .. Len(ss)] == IF n = 0 THEN <<>> ELSE all[n - 1] \o ss[n]
    IN all[Len(ss)]

\* The first of a set of positions.
FirstOf(S) == CHOOSE n \in S : \A m \in S : n <= m
=============================================================================
