---------------------------- MODULE Scans_proofs ----------------------------
(***************************************************************************)
(* Induction, and what the loops over slices compute.                      *)
(*                                                                         *)
(* The induction theorems of the library are about a predicate, which the  *)
(* provers cannot instantiate; here induction is about a set of numbers,   *)
(* which follows from the well-foundedness of < on Nat.                    *)
(***************************************************************************)
EXTENDS Scans, Functions, TLAPS

LOCAL INSTANCE WellFoundedInduction

-----------------------------------------------------------------------------
(* Induction. *)

\* A set of numbers that is not empty has a least element.
LEMMA Least ==
    ASSUME NEW T \in SUBSET Nat, T # {}
    PROVE  \E n \in T : \A m \in T : n <= m
<1> DEFINE R == {ss \in Nat \X Nat : ss[1] < ss[2]}
<1>1. IsWellFoundedOn(R, Nat)
    BY NatLessThanWellFounded, Zenon DEF OpToRel
<1>2. \A x, y \in Nat : x < y => <<x, y>> \in R
    OBVIOUS
<1> HIDE DEF R
<1>3. PICK x \in T : \A y \in T : ~(<<y, x>> \in R)
    BY <1>1, WFMin, Zenon
<1>4. x \in Nat /\ \A y \in T : y \in Nat /\ ~(y < x)
    BY <1>2, <1>3
<1> QED BY <1>3, <1>4

\* A set with zero and with every successor holds all numbers.
LEMMA SetInduction ==
    ASSUME NEW S, 0 \in S, \A n \in Nat : n \in S => n + 1 \in S
    PROVE  Nat \subseteq S
<1> SUFFICES ASSUME Nat \ S # {} PROVE FALSE
    OBVIOUS
<1>1. PICK n \in Nat \ S : \A m \in Nat \ S : n <= m
    <2>1. Nat \ S \in SUBSET Nat OBVIOUS
    <2> QED BY <2>1, Least, Zenon
<1>2. n - 1 \in Nat /\ n - 1 \in S
    BY <1>1
<1>3. n - 1 + 1 \in S
    BY <1>2
<1> QED BY <1>1, <1>3

\* The same up to a bound: a loop over a slice of length N.
LEMMA BoundedInduction ==
    ASSUME NEW N \in Nat, NEW S, 0 \in S, \A n \in 1 .. N : n - 1 \in S => n \in S
    PROVE  0 .. N \subseteq S
<1> DEFINE T == {n \in Nat : n <= N => n \in S}
<1>1. 0 \in T
    OBVIOUS
<1>2. ASSUME NEW n \in Nat, n \in T PROVE n + 1 \in T
    <2>1. CASE n + 1 <= N
        <3>1. n + 1 \in 1 .. N /\ (n + 1) - 1 = n /\ n \in S BY <1>2, <2>1
        <3>2. n + 1 \in S BY <3>1
        <3> QED BY <3>2
    <2>2. CASE ~(n + 1 <= N) BY <2>2
    <2> QED BY <2>1, <2>2
<1> HIDE DEF T
<1>3. Nat \subseteq T
    BY <1>1, <1>2, SetInduction, Zenon
<1> QED BY <1>3 DEF T

-----------------------------------------------------------------------------
(* The filter loop. *)

Kept(s, S, k, g) ==
    g = [n \in 0 .. k |->
            IF n = 0 THEN <<>>
            ELSE IF s[n] \in S THEN Append(g[n - 1], s[n]) ELSE g[n - 1]]

\* The loop can be run for any number of rounds.
LEMMA KeptExists ==
    ASSUME NEW s, NEW S, NEW k \in Nat
    PROVE  \E g : Kept(s, S, k, g)
<1> DEFINE T == {n \in Nat : \E g : Kept(s, S, n, g)}
<1>1. 0 \in T
    <2>1. Kept(s, S, 0, [n \in 0 .. 0 |-> <<>>]) BY DEF Kept
    <2> QED BY <2>1
<1>2. ASSUME NEW n \in Nat, n \in T PROVE n + 1 \in T
    <2>1. PICK g : Kept(s, S, n, g) BY <1>2
    <2> DEFINE h == [m \in 0 .. (n + 1) |->
                        IF m <= n THEN g[m]
                        ELSE IF s[m] \in S THEN Append(g[m - 1], s[m]) ELSE g[m - 1]]
    <2>2. \A m \in 0 .. n : g[m] = IF m = 0 THEN <<>>
                              ELSE IF s[m] \in S THEN Append(g[m - 1], s[m]) ELSE g[m - 1]
        BY <2>1 DEF Kept
    <2>3. ASSUME NEW m \in 0 .. (n + 1)
          PROVE  h[m] = IF m = 0 THEN <<>>
                        ELSE IF s[m] \in S THEN Append(h[m - 1], s[m]) ELSE h[m - 1]
        <3>1. m # 0 => h[m - 1] = g[m - 1] BY <2>3
        <3> QED BY <2>2, <2>3, <3>1
    <2>4. Kept(s, S, n + 1, h)
        <3> HIDE DEF h
        <3>1. h = [m \in 0 .. (n + 1) |-> h[m]] BY DEF h
        <3> QED BY <2>3, <3>1 DEF Kept
    <2> QED BY <2>4
<1> HIDE DEF T
<1>3. Nat \subseteq T BY <1>1, <1>2, SetInduction, Zenon
<1> QED BY <1>3 DEF T

\* What the loop has after n rounds, for some function that is its run.
LEMMA FilterRun ==
    ASSUME NEW s, NEW S, Len(s) \in Nat
    PROVE  \E g : /\ Filter(s, S) = g[Len(s)]
                  /\ g[0] = <<>>
                  /\ \A n \in 1 .. Len(s) :
                        g[n] = IF s[n] \in S THEN Append(g[n - 1], s[n]) ELSE g[n - 1]
<1> DEFINE g == CHOOSE f : Kept(s, S, Len(s), f)
<1>1. Kept(s, S, Len(s), g) BY KeptExists
<1>2. Filter(s, S) = g[Len(s)] BY Zenon DEF Filter, Kept
<1> HIDE DEF g
<1>3. \A n \in 0 .. Len(s) :
        g[n] = IF n = 0 THEN <<>>
               ELSE IF s[n] \in S THEN Append(g[n - 1], s[n]) ELSE g[n - 1]
    BY <1>1 DEF Kept
<1> QED BY <1>2, <1>3

\* append adds one element to a slice ...
LEMMA AppendRange ==
    ASSUME NEW T, NEW s \in Seq(T), NEW x \in T
    PROVE  Range(Append(s, x)) = Range(s) \cup {x}
<1>1. /\ DOMAIN s = 1 .. Len(s) /\ Len(s) \in Nat
      /\ DOMAIN Append(s, x) = 1 .. (Len(s) + 1)
      /\ \A i \in 1 .. Len(s) : Append(s, x)[i] = s[i]
      /\ Append(s, x)[Len(s) + 1] = x
    OBVIOUS
<1>2. ASSUME NEW y \in Range(Append(s, x)) PROVE y \in Range(s) \cup {x}
    <2>1. PICK i \in 1 .. (Len(s) + 1) : y = Append(s, x)[i] BY <1>1, <1>2, Zenon DEF Range
    <2>2. i = Len(s) + 1 \/ i \in 1 .. Len(s) BY <1>1, <2>1
    <2>3. y = x \/ (i \in DOMAIN s /\ y = s[i]) BY <1>1, <2>1, <2>2, Zenon
    <2> QED BY <2>3, Zenon DEF Range
<1>3. ASSUME NEW y \in Range(s) PROVE y \in Range(Append(s, x))
    <2>1. PICK i \in 1 .. Len(s) : y = s[i] BY <1>1, <1>3, Zenon DEF Range
    <2>2. i \in 1 .. (Len(s) + 1) BY <1>1, <2>1
    <2> QED BY <1>1, <2>1, <2>2, Zenon DEF Range
<1>4. x \in Range(Append(s, x))
    <2>1. Len(s) + 1 \in 1 .. (Len(s) + 1) BY <1>1
    <2> QED BY <1>1, <2>1, Zenon DEF Range
<1> QED BY <1>2, <1>3, <1>4, Zenon

Increasing(s) == \A i, j \in DOMAIN s : i < j => s[i] < s[j]

\* ... and a number above the others keeps them increasing.
LEMMA AppendIncreasing ==
    ASSUME NEW s \in Seq(Nat), Increasing(s), NEW x \in Nat, \A y \in Range(s) : y < x
    PROVE  Increasing(Append(s, x))
<1>1. /\ DOMAIN s = 1 .. Len(s) /\ Len(s) \in Nat
      /\ DOMAIN Append(s, x) = 1 .. (Len(s) + 1)
      /\ \A i \in 1 .. Len(s) : Append(s, x)[i] = s[i]
      /\ Append(s, x)[Len(s) + 1] = x
    OBVIOUS
<1>2. \A i \in 1 .. Len(s) : s[i] < x BY <1>1, Zenon DEF Range
<1>3. ASSUME NEW i \in 1 .. (Len(s) + 1), NEW j \in 1 .. (Len(s) + 1), i < j
      PROVE  Append(s, x)[i] < Append(s, x)[j]
    <2>1. i \in 1 .. Len(s) /\ (j \in 1 .. Len(s) \/ j = Len(s) + 1) BY <1>1, <1>3
    <2> QED BY <1>1, <1>2, <1>3, <2>1 DEF Increasing
<1> QED BY <1>1, <1>3, Zenon DEF Increasing

\* The loop keeps the elements that are in S, and only those.
LEMMA FilterKeeps ==
    ASSUME NEW T, NEW s \in Seq(T), NEW S
    PROVE  /\ Filter(s, S) \in Seq(T)
           /\ Range(Filter(s, S)) = Range(s) \cap S
<1>1. PICK g : /\ Filter(s, S) = g[Len(s)]
               /\ g[0] = <<>>
               /\ \A n \in 1 .. Len(s) :
                     g[n] = IF s[n] \in S THEN Append(g[n - 1], s[n]) ELSE g[n - 1]
    BY FilterRun
<1> DEFINE U(n) == {s[i] : i \in 1 .. n}
           D == {n \in 0 .. Len(s) : g[n] \in Seq(T) /\ Range(g[n]) = U(n) \cap S}
<1>2. 0 \in D
    <2>1. U(0) = {} /\ Range(<<>>) = {} /\ <<>> \in Seq(T) BY DEF Range
    <2>2. 0 \in 0 .. Len(s) /\ g[0] = <<>> BY <1>1
    <2> HIDE DEF U
    <2> QED BY <2>1, <2>2, Zenon
<1>3. ASSUME NEW n \in 1 .. Len(s), n - 1 \in D PROVE n \in D
    <2>1. s[n] \in T OBVIOUS
    <2>2. U(n) = U(n - 1) \cup {s[n]} OBVIOUS
    <2>3. g[n - 1] \in Seq(T) /\ Range(g[n - 1]) = U(n - 1) \cap S BY <1>3
    <2> HIDE DEF U
    <2>4. CASE s[n] \in S
        <3>1. g[n] = Append(g[n - 1], s[n]) BY <1>1, <2>4
        <3>2. Range(g[n]) = Range(g[n - 1]) \cup {s[n]} BY <2>1, <2>3, <3>1, AppendRange
        <3>3. Range(g[n]) = U(n) \cap S BY <2>2, <2>3, <2>4, <3>2, Zenon
        <3>4. g[n] \in Seq(T) BY <2>1, <2>3, <3>1
        <3> QED BY <3>3, <3>4
    <2>5. CASE s[n] \notin S
        <3>1. g[n] = g[n - 1] BY <1>1, <2>5
        <3>2. Range(g[n]) = U(n) \cap S BY <2>2, <2>3, <2>5, <3>1, Zenon
        <3> QED BY <2>3, <3>1, <3>2
    <2> QED BY <2>4, <2>5
<1> HIDE DEF D
<1>4. 0 .. Len(s) \subseteq D
    <2>1. Len(s) \in Nat OBVIOUS
    <2> QED BY <1>2, <1>3, <2>1, BoundedInduction, Zenon
<1>5. Len(s) \in D BY <1>4
<1>6. Range(s) = U(Len(s)) BY DEF Range
<1> QED BY <1>1, <1>5, <1>6, Zenon DEF D

\* The loop keeps the order: of increasing numbers, increasing ones are left.
LEMMA FilterIncreasing ==
    ASSUME NEW s \in Seq(Nat), Increasing(s), NEW S
    PROVE  Increasing(Filter(s, S))
<1>1. PICK g : /\ Filter(s, S) = g[Len(s)]
               /\ g[0] = <<>>
               /\ \A n \in 1 .. Len(s) :
                     g[n] = IF s[n] \in S THEN Append(g[n - 1], s[n]) ELSE g[n - 1]
    BY FilterRun
<1> DEFINE U(n) == {s[i] : i \in 1 .. n}
           D == {n \in 0 .. Len(s) :
                   g[n] \in Seq(Nat) /\ Increasing(g[n]) /\ Range(g[n]) \subseteq U(n)}
<1>2. 0 \in D
    <2>1. <<>> \in Seq(Nat) /\ Range(<<>>) = {} BY DEF Range
    <2>2. Increasing(<<>>) BY DEF Increasing
    <2>3. 0 \in 0 .. Len(s) /\ g[0] = <<>> BY <1>1
    <2> QED BY <2>1, <2>2, <2>3, Zenon
<1>3. ASSUME NEW n \in 1 .. Len(s), n - 1 \in D PROVE n \in D
    <2>1. s[n] \in Nat OBVIOUS
    <2>2. U(n) = U(n - 1) \cup {s[n]} OBVIOUS
    <2>3. /\ g[n - 1] \in Seq(Nat) /\ Increasing(g[n - 1])
          /\ Range(g[n - 1]) \subseteq U(n - 1)
        BY <1>3
    <2>4. \A y \in U(n - 1) : y < s[n] BY DEF Increasing
    <2>5. \A y \in Range(g[n - 1]) : y < s[n] BY <2>3, <2>4, Zenon
    <2> HIDE DEF U
    <2>6. CASE s[n] \in S
        <3>1. g[n] = Append(g[n - 1], s[n]) BY <1>1, <2>6
        <3>2. g[n] \in Seq(Nat) BY <2>1, <2>3, <3>1
        <3>3. Increasing(g[n]) BY <2>1, <2>3, <2>5, <3>1, AppendIncreasing
        <3>4. Range(g[n]) = Range(g[n - 1]) \cup {s[n]} BY <2>1, <2>3, <3>1, AppendRange
        <3>5. Range(g[n]) \subseteq U(n) BY <2>2, <2>3, <3>4, Zenon
        <3> QED BY <3>2, <3>3, <3>5
    <2>7. CASE s[n] \notin S
        <3>1. g[n] = g[n - 1] BY <1>1, <2>7
        <3>2. Range(g[n]) \subseteq U(n) BY <2>2, <2>3, <3>1, Zenon
        <3> QED BY <2>3, <3>1, <3>2
    <2> QED BY <2>6, <2>7
<1> HIDE DEF D
<1>4. 0 .. Len(s) \subseteq D
    <2>1. Len(s) \in Nat OBVIOUS
    <2> QED BY <1>2, <1>3, <2>1, BoundedInduction, Zenon
<1>5. Len(s) \in D BY <1>4
<1> QED BY <1>1, <1>5, Zenon DEF D

\* One more round of the loop.
LEMMA FilterAppend ==
    ASSUME NEW T, NEW s \in Seq(T), NEW x \in T, NEW S
    PROVE  Filter(Append(s, x), S)
             = IF x \in S THEN Append(Filter(s, S), x) ELSE Filter(s, S)
<1> DEFINE t == Append(s, x)
<1>1. t \in Seq(T) /\ Len(t) = Len(s) + 1 /\ t[Len(s) + 1] = x
      /\ \A n \in 1 .. Len(s) : t[n] = s[n]
    OBVIOUS
<1> HIDE DEF t
<1>2. PICK g : /\ Filter(s, S) = g[Len(s)]
               /\ g[0] = <<>>
               /\ \A n \in 1 .. Len(s) :
                     g[n] = IF s[n] \in S THEN Append(g[n - 1], s[n]) ELSE g[n - 1]
    BY FilterRun
<1>3. PICK h : /\ Filter(t, S) = h[Len(t)]
               /\ h[0] = <<>>
               /\ \A n \in 1 .. Len(t) :
                     h[n] = IF t[n] \in S THEN Append(h[n - 1], t[n]) ELSE h[n - 1]
    BY FilterRun, <1>1, SMTT(30)
<1> DEFINE D == {n \in 0 .. Len(s) : g[n] = h[n]}
<1>4. 0 \in D BY <1>2, <1>3
<1>5. ASSUME NEW n \in 1 .. Len(s), n - 1 \in D PROVE n \in D
    BY <1>1, <1>2, <1>3, <1>5
<1> HIDE DEF D
<1>6. 0 .. Len(s) \subseteq D
    <2>1. Len(s) \in Nat OBVIOUS
    <2> QED BY <1>4, <1>5, <2>1, BoundedInduction, Zenon
<1>7. g[Len(s)] = h[Len(s)] BY <1>6 DEF D
<1>8. h[Len(t)] = IF x \in S THEN Append(h[Len(s)], x) ELSE h[Len(s)]
    BY <1>1, <1>3
<1> QED BY <1>2, <1>3, <1>7, <1>8 DEF t

\* Nothing of an empty slice is kept.
LEMMA FilterEmpty == ASSUME NEW S PROVE Filter(<<>>, S) = <<>>
<1>1. Len(<<>>) = 0 OBVIOUS
<1> QED BY FilterRun, <1>1

-----------------------------------------------------------------------------
(* The first of a set of positions. *)

\* A loop that stops at the first position that fits has found one that fits,
\* and none before it does (parseUpstreamFile, workingdir.go:84-95).
LEMMA FirstOfIs ==
    ASSUME NEW T, T \subseteq Nat, T # {}
    PROVE  FirstOf(T) \in T /\ \A m \in T : FirstOf(T) <= m
<1>1. \E n \in T : \A m \in T : n <= m BY Least, Zenon
<1> QED BY <1>1, Zenon DEF FirstOf

\* There is one such position.
LEMMA FirstOfUnique ==
    ASSUME NEW T, T \subseteq Nat, NEW k, k \in T, \A m \in T : k <= m
    PROVE  FirstOf(T) = k
<1>1. FirstOf(T) \in T /\ \A m \in T : FirstOf(T) <= m BY FirstOfIs, Zenon
<1>2. FirstOf(T) <= k /\ k <= FirstOf(T) /\ FirstOf(T) \in Nat /\ k \in Nat BY <1>1, Zenon
<1> QED BY <1>2

-----------------------------------------------------------------------------
(* The loop that puts slices together. *)

Joined(ss, k, g) == g = [n \in 0 .. k |-> IF n = 0 THEN <<>> ELSE g[n - 1] \o ss[n]]

\* It can be run for any number of rounds.
LEMMA JoinedExists ==
    ASSUME NEW ss, NEW k \in Nat
    PROVE  \E g : Joined(ss, k, g)
<1> DEFINE T == {n \in Nat : \E g : Joined(ss, n, g)}
<1>1. 0 \in T
    <2>1. Joined(ss, 0, [n \in 0 .. 0 |-> <<>>]) BY DEF Joined
    <2> QED BY <2>1
<1>2. ASSUME NEW n \in Nat, n \in T PROVE n + 1 \in T
    <2>1. PICK g : Joined(ss, n, g) BY <1>2
    <2> DEFINE h == [m \in 0 .. (n + 1) |-> IF m <= n THEN g[m] ELSE g[m - 1] \o ss[m]]
    <2>2. \A m \in 0 .. n : g[m] = IF m = 0 THEN <<>> ELSE g[m - 1] \o ss[m]
        BY <2>1 DEF Joined
    <2>3. ASSUME NEW m \in 0 .. (n + 1)
          PROVE  h[m] = IF m = 0 THEN <<>> ELSE h[m - 1] \o ss[m]
        <3>1. m # 0 => h[m - 1] = g[m - 1] BY <2>3
        <3> QED BY <2>2, <2>3, <3>1
    <2>4. Joined(ss, n + 1, h)
        <3> HIDE DEF h
        <3>1. h = [m \in 0 .. (n + 1) |-> h[m]] BY DEF h
        <3> QED BY <2>3, <3>1 DEF Joined
    <2> QED BY <2>4
<1> HIDE DEF T
<1>3. Nat \subseteq T BY <1>1, <1>2, SetInduction, Zenon
<1> QED BY <1>3 DEF T

\* Slices of elements of T make one of elements of T.
LEMMA FlattenKeeps ==
    ASSUME NEW T, NEW ss \in Seq(Seq(T))
    PROVE  Flatten(ss) \in Seq(T)
<1> DEFINE g == CHOOSE f : Joined(ss, Len(ss), f)
           S == {n \in 0 .. Len(ss) : g[n] \in Seq(T)}
<1>0. Len(ss) \in Nat OBVIOUS
<1>1. Joined(ss, Len(ss), g) BY <1>0, JoinedExists
<1>2. Flatten(ss) = g[Len(ss)] BY Zenon DEF Flatten, Joined
<1> HIDE DEF g
<1>3. \A n \in 0 .. Len(ss) : g[n] = IF n = 0 THEN <<>> ELSE g[n - 1] \o ss[n]
    BY <1>1 DEF Joined
<1>4. g[0] = <<>> BY <1>0, <1>3
<1>5. <<>> \in Seq(T) /\ 0 \in 0 .. Len(ss) BY <1>0
<1>6. 0 \in S BY <1>4, <1>5, Zenon
<1>7. ASSUME NEW n \in 1 .. Len(ss), n - 1 \in S PROVE n \in S
    <2>0. n \in 0 .. Len(ss) /\ n # 0 BY <1>0
    <2>1. g[n] = g[n - 1] \o ss[n] BY <1>3, <2>0, Zenon
    <2>2. ss[n] \in Seq(T) OBVIOUS
    <2>3. g[n - 1] \in Seq(T) BY <1>7, Zenon
    <2>4. g[n - 1] \o ss[n] \in Seq(T) BY <2>2, <2>3
    <2> QED BY <2>0, <2>1, <2>4, Zenon
<1> HIDE DEF S
<1>8. 0 .. Len(ss) \subseteq S BY <1>0, <1>6, <1>7, BoundedInduction, Zenon
<1>9. Len(ss) \in 0 .. Len(ss) BY <1>0
<1> QED BY <1>2, <1>8, <1>9, Zenon DEF S

\* A slice, whatever it holds.
IsSlice(s) == Len(s) \in Nat /\ s = [i \in 1 .. Len(s) |-> s[i]]

\* A slice holds what each of its places holds.
LEMMA SliceIn ==
    ASSUME NEW s, IsSlice(s), NEW T, \A i \in 1 .. Len(s) : s[i] \in T
    PROVE  s \in Seq(T)
<1>1. Len(s) \in Nat /\ s = [i \in 1 .. Len(s) |-> s[i]] BY DEF IsSlice
<1>2. s \in [1 .. Len(s) -> T] BY <1>1, Zenon
<1> QED BY <1>1, <1>2

\* `make([]S, n)`, filled: a slice of that length.
LEMMA MadeIn ==
    ASSUME NEW n \in Nat, NEW S, NEW s \in [1 .. n -> S]
    PROVE  s \in Seq(S) /\ Len(s) = n /\ IsSlice(s)
<1>1. s \in Seq(S) OBVIOUS
<1>2. Len(s) = n OBVIOUS
<1>3. s = [i \in 1 .. n |-> s[i]] BY Zenon
<1> QED BY <1>1, <1>2, <1>3, Zenon DEF IsSlice

\* What is in the slices put together is in one of them.
LEMMA FlattenOf ==
    ASSUME NEW ss, IsSlice(ss), \A k \in 1 .. Len(ss) : IsSlice(ss[k])
    PROVE  /\ Len(Flatten(ss)) \in Nat /\ DOMAIN Flatten(ss) = 1 .. Len(Flatten(ss))
           /\ \A i \in 1 .. Len(Flatten(ss)) :
                \E k \in 1 .. Len(ss) : \E j \in 1 .. Len(ss[k]) : Flatten(ss)[i] = ss[k][j]
<1> DEFINE Of(k) == {ss[k][j] : j \in 1 .. Len(ss[k])}
           T == UNION {Of(k) : k \in 1 .. Len(ss)}
<1>1. ASSUME NEW k \in 1 .. Len(ss) PROVE ss[k] \in Seq(T)
    <2>0. Of(k) \subseteq T
        <3> HIDE DEF Of
        <3> QED BY Zenon
    <2>1. \A j \in 1 .. Len(ss[k]) : ss[k][j] \in T BY <2>0, Zenon
    <2> HIDE DEF T
    <2> QED BY <2>1, SliceIn, Zenon
<1>2. \A x \in T : \E k \in 1 .. Len(ss) : \E j \in 1 .. Len(ss[k]) : x = ss[k][j] BY Zenon
<1> HIDE DEF T
<1>3. ss \in Seq(Seq(T)) BY <1>1, SliceIn, Zenon
<1>4. Flatten(ss) \in Seq(T) BY <1>3, FlattenKeeps
<1>5. /\ Len(Flatten(ss)) \in Nat /\ DOMAIN Flatten(ss) = 1 .. Len(Flatten(ss))
      /\ \A i \in 1 .. Len(Flatten(ss)) : Flatten(ss)[i] \in T
    BY <1>4
<1> QED BY <1>2, <1>5, Zenon

\* Slices are the same when they hold the same in every place.
LEMMA SameSlice ==
    ASSUME NEW S, NEW s \in Seq(S), NEW t \in Seq(S),
           Len(s) = Len(t), \A i \in 1 .. Len(s) : s[i] = t[i]
    PROVE  s = t
<1>1. /\ s = [i \in 1 .. Len(s) |-> s[i]] /\ t = [i \in 1 .. Len(t) |-> t[i]] OBVIOUS
<1> QED BY <1>1, Zenon

=============================================================================
