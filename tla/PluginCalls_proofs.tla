-------------------------- MODULE PluginCalls_proofs --------------------------
(***************************************************************************)
(* Proofs about PluginCalls: the inductive invariant of the tunnels of     *)
(* ConnTunnel, then that of the calls and of the keyboard-interactive      *)
(* stream, and what follows from them.                                     *)
(***************************************************************************)
EXTENDS PluginCalls, TLAPS

(* The invariant of a tunnel. *)

\* The bytes of s are the ones after the first a.
Run(s, a) == s \in Seq(Nat) /\ \A i \in 1 .. Len(s) : s[i] = a + i

\* A packet is a run that is not empty.
Packet(x) == x \in Seq(Nat) /\ Len(x) > 0 /\ x[1] > 0 /\ Run(x, x[1] - 1)

\* The packets of p carry the bytes after the first a up to the e-th, in
\* order.  It is stated packet by packet, each next to its neighbour, so that
\* no sum over the queue is needed.
Chain(p, a, e) ==
    /\ p \in Seq(Seq(Nat)) /\ a \in Nat /\ e \in Nat
    /\ \A i \in 1 .. Len(p) : Packet(p[i]) /\ p[i][1] + Len(p[i]) <= e + 1
    /\ \A i \in 1 .. Len(p) - 1 : p[i + 1][1] = p[i][1] + Len(p[i])
    /\ p = <<>> => a = e
    /\ p # <<>> => p[1][1] = a + 1 /\ p[Len(p)][1] + Len(p[Len(p)]) = e + 1

CopierPlaces == {"none", "read", "write", "eof", "error"}

TunnelTypeOK ==
    /\ client \in [Tunnels -> {"none", "open", "closed", "failed"}]
    /\ handler \in [Tunnels -> {"none", "recv", "creating", "copying", "returned"}]
    /\ status \in [Tunnels -> {"none", "ok", "error"}]
    /\ upconn \in [Tunnels -> {"none", "open", "eof", "closed"}]
    /\ copier \in [Tunnels -> [Ways -> CopierPlaces]]
    /\ held \in [Tunnels -> [Ways -> Seq(Nat)]]
    /\ readbuf \in [Tunnels -> [Ways -> Seq(Nat)]]
    /\ packets \in [Tunnels -> [Ways -> Seq(Seq(Nat))]]
    /\ wrote \in [Tunnels -> [Ways -> Nat]]
    /\ got \in [Tunnels -> [Ways -> Seq(Nat)]]
    /\ ended \in [Tunnels -> {"no", "eof", "error"}]

\* The daemon's bytes: what has arrived, what the copier holds, the rest of
\* the last packet and the packets are one run, as long as the upstream
\* takes what it is given.
OutAt(t) ==
    LET g == got[t]["out"]  h == held[t]["out"]  r == readbuf[t]["out"]  p == packets[t]["out"]
        e == wrote[t]["out"]
    IN /\ Run(g, 0) /\ Len(g) <= e
       /\ copier[t]["out"] # "write" => h = <<>>
       /\ upconn[t] \in {"none", "open"} =>
            /\ Run(h, Len(g)) /\ Run(r, Len(g) + Len(h))
            /\ Chain(p, Len(g) + Len(h) + Len(r), e)

\* The upstream's bytes: the last ones are held by the copier, or were when
\* it failed.
BackAt(t) ==
    LET g == got[t]["back"]  h == held[t]["back"]  r == readbuf[t]["back"]  p == packets[t]["back"]
        e == wrote[t]["back"]
    IN /\ Run(g, 0) /\ Run(r, Len(g))
       /\ copier[t]["back"] # "write" => h = <<>>
       /\ copier[t]["back"] = "write" => Len(h) > 0
       /\ \E n \in 0 .. e : /\ Chain(p, Len(g) + Len(r), n)
                            /\ copier[t]["back"] # "error" => n + Len(h) = e /\ Run(h, n)

\* A status without error is that of the copier which saw the upstream's end,
\* or nobody at the daemon reads any more.  A handler that returns has closed
\* its upstream.
EndAt(t) ==
    /\ client[t] = "none" => handler[t] = "none"
    /\ handler[t] # "returned" => status[t] = "none" /\ ended[t] = "no"
    /\ handler[t] \in {"none", "recv", "creating"} => upconn[t] = "none" /\ copier[t] = Both("none")
    /\ handler[t] = "returned" => upconn[t] \in {"none", "closed"}
    /\ copier[t]["out"] = "eof" => Cancelled(t)
    /\ status[t] = "ok" => handler[t] = "returned" /\ (copier[t]["back"] = "eof" \/ Cancelled(t))
    /\ ended[t] = "eof" => copier[t]["back"] = "eof" /\ readbuf[t]["back"] = <<>> /\ packets[t]["back"] = <<>>

TunnelAt(t) == OutAt(t) /\ BackAt(t) /\ EndAt(t)

TunnelInv == TunnelTypeOK /\ \A t \in Tunnels : TunnelAt(t)

-----------------------------------------------------------------------------
(* Runs and chains. *)

\* A message sent on the stream (messagestream.go:57-78) goes behind the
\* ones that are under way and leaves them as they are.
LEMMA AppendFacts ==
    ASSUME NEW S, NEW s \in Seq(S), NEW x \in S
    PROVE  /\ Append(s, x) \in Seq(S) /\ Len(Append(s, x)) = Len(s) + 1 /\ Append(s, x) # <<>>
           /\ Append(s, x)[Len(s) + 1] = x /\ \A i \in 1 .. Len(s) : Append(s, x)[i] = s[i]
OBVIOUS

\* A run followed by the run that comes next is a run.
LEMMA RunConcat ==
    ASSUME NEW s, NEW h, Run(s, 0), Run(h, Len(s))
    PROVE  Run(s \o h, 0) /\ Len(s \o h) = Len(s) + Len(h)
<1>1. s \in Seq(Nat) /\ h \in Seq(Nat) /\ Len(s) \in Nat /\ Len(h) \in Nat
    BY DEF Run
<1>2. PICK p : p = s \o h
    BY Zenon
<1>3. /\ p \in Seq(Nat) /\ Len(p) = Len(s) + Len(h) /\ \A i \in 1 .. Len(s) : p[i] = s[i]
      /\ \A i \in Len(s) + 1 .. Len(p) : p[i] = h[i - Len(s)]
    BY <1>1, <1>2
<1>4. ASSUME NEW i \in 1 .. Len(p)
      PROVE  p[i] = 0 + i
    <2>1. CASE i <= Len(s)
        <3>1. i \in 1 .. Len(s)
            BY <1>1, <2>1
        <3>2. QED
            BY <1>3, <3>1, Zenon DEF Run
    <2>2. CASE ~(i <= Len(s))
        <3>1. i - Len(s) \in 1 .. Len(h) /\ i \in Len(s) + 1 .. Len(p) /\ Len(s) + (i - Len(s)) = 0 + i
            BY <1>1, <1>3, <2>2, SMTT(30)
        <3>2. h[i - Len(s)] = Len(s) + (i - Len(s))
            BY <3>1, Zenon DEF Run
        <3>3. QED
            BY <1>3, <3>1, <3>2, Zenon
    <2>3. QED
        BY <2>1, <2>2, Zenon
<1>5. QED
    BY <1>2, <1>3, <1>4, Zenon DEF Run

\* Both parts of a run that is cut in two are runs.
LEMMA RunCut ==
    ASSUME NEW s, NEW a \in Nat, NEW n \in Nat, Run(s, a), n <= Len(s)
    PROVE  /\ Run(SubSeq(s, 1, n), a) /\ Len(SubSeq(s, 1, n)) = n
           /\ Run(SubSeq(s, n + 1, Len(s)), a + n) /\ Len(SubSeq(s, n + 1, Len(s))) = Len(s) - n
<1>1. s \in Seq(Nat) /\ Len(s) \in Nat
    BY DEF Run
<1>2. PICK p, q : p = SubSeq(s, 1, n) /\ q = SubSeq(s, n + 1, Len(s))
    BY Zenon
<1>3. p \in Seq(Nat) /\ Len(p) = n /\ \A i \in 1 .. n : p[i] = s[i]
    BY <1>1, <1>2, SMTT(30)
<1>4. q \in Seq(Nat) /\ Len(q) = Len(s) - n
    BY <1>1, <1>2, SMTT(30)
<1>5. \A i \in 1 .. Len(s) - n : q[i] = s[n + i]
    BY <1>1, <1>2, SMTT(30)
<1>6. /\ \A i \in 1 .. n : i \in 1 .. Len(s)
      /\ \A i \in 1 .. Len(s) - n : n + i \in 1 .. Len(s) /\ a + (n + i) = (a + n) + i
    BY <1>1
<1>7. Run(p, a)
    BY <1>3, <1>6, Zenon DEF Run
<1>8. Run(q, a + n)
    BY <1>4, <1>5, <1>6, Zenon DEF Run
<1>9. QED
    BY <1>2, <1>3, <1>4, <1>7, <1>8, Zenon

\* The bytes written next.
LEMMA RunNext ==
    ASSUME NEW a \in Nat, NEW n \in Nat
    PROVE  Run([i \in 1 .. n |-> a + i], a) /\ Len([i \in 1 .. n |-> a + i]) = n
BY DEF Run

\* No bytes are a run from anywhere: an empty buffer.
LEMMA RunEmpty == \A a : Run(<<>>, a)
BY DEF Run

\* A stream without packets carries nothing.
LEMMA ChainEmpty == \A a \in Nat : Chain(<<>>, a, a)
BY DEF Chain

\* The first byte and the length of a packet.
LEMMA PacketNumbers ==
    ASSUME NEW x, Packet(x)
    PROVE  Len(x) \in Nat \ {0} /\ x[1] \in Nat \ {0}
<1>1. x \in Seq(Nat) /\ Len(x) \in Nat /\ Len(x) > 0 /\ x[1] > 0
    BY DEF Packet
<1>2. x[1] \in Nat
    BY <1>1
<1>3. QED
    BY <1>1, <1>2

\* A run that is not empty is a packet.
LEMMA RunPacket ==
    ASSUME NEW x, NEW a \in Nat, Run(x, a), Len(x) > 0
    PROVE  Packet(x) /\ x[1] = a + 1 /\ x \in Seq(Nat)
<1>1. x \in Seq(Nat) /\ Len(x) \in Nat /\ x[1] = a + 1
    BY DEF Run
<1>2. (a + 1) - 1 = a
    OBVIOUS
<1>3. QED
    BY <1>1, <1>2 DEF Packet

\* The sums that the chains need.
LEMMA Sums ==
    /\ \A a, e \in Nat, l \in Nat \ {0} : (a + 1) + l <= e + 1 => a <= e
    /\ \A f, l, e, x \in Nat : f + l <= e + 1 => f + l <= (e + x) + 1
    /\ \A e, x \in Nat : (e + 1) + x = (e + x) + 1 /\ e + x \in Nat
OBVIOUS

\* What is in a chain begins before its end.
LEMMA ChainBounds ==
    ASSUME NEW p, NEW a, NEW e, Chain(p, a, e)
    PROVE  a \in Nat /\ e \in Nat /\ a <= e
<1>1. p \in Seq(Seq(Nat)) /\ a \in Nat /\ e \in Nat
    BY Zenon DEF Chain
<1>2. CASE p = <<>>
    BY <1>1, <1>2 DEF Chain
<1>3. CASE p # <<>>
    <2>1. 1 \in 1 .. Len(p)
        BY <1>1, <1>3
    <2>2. Packet(p[1]) /\ p[1][1] + Len(p[1]) <= e + 1 /\ p[1][1] = a + 1
        BY <1>3, <2>1, Zenon DEF Chain
    <2>3. Len(p[1]) \in Nat \ {0}
        BY <2>2, PacketNumbers, Zenon
    <2>4. (a + 1) + Len(p[1]) <= e + 1
        BY <2>2, Zenon
    <2>5. QED
        BY <1>1, <2>3, <2>4, Sums, Zenon
<1>4. QED
    BY <1>1, <1>2, <1>3, Zenon

\* A packet joins at the end.
LEMMA ChainAppend ==
    ASSUME NEW p, NEW a, NEW e, NEW x, Chain(p, a, e), Run(x, e), Len(x) > 0
    PROVE  Chain(Append(p, x), a, e + Len(x))
<1>1. p \in Seq(Seq(Nat)) /\ a \in Nat /\ e \in Nat /\ Len(p) \in Nat
    BY DEF Chain
<1>2. Packet(x) /\ x[1] = e + 1 /\ x \in Seq(Nat) /\ Len(x) \in Nat
    BY <1>1, RunPacket DEF Run
<1>3. PICK q : q = Append(p, x)
    BY Zenon
<1>4. /\ q \in Seq(Seq(Nat)) /\ Len(q) = Len(p) + 1 /\ q # <<>>
      /\ q[Len(p) + 1] = x /\ \A i \in 1 .. Len(p) : q[i] = p[i]
    <2>1. /\ Append(p, x) \in Seq(Seq(Nat)) /\ Len(Append(p, x)) = Len(p) + 1 /\ Append(p, x) # <<>>
          /\ Append(p, x)[Len(p) + 1] = x /\ \A i \in 1 .. Len(p) : Append(p, x)[i] = p[i]
        BY <1>1, <1>2, AppendFacts, SMTT(30)
    <2>2. QED
        BY <1>3, <2>1, Zenon
<1>5. ASSUME NEW i \in 1 .. Len(q)
      PROVE  Packet(q[i]) /\ q[i][1] + Len(q[i]) <= (e + Len(x)) + 1
    <2>1. CASE i = Len(p) + 1
        BY <1>1, <1>2, <1>4, <2>1, SMTT(30)
    <2>2. CASE i # Len(p) + 1
        <3>1. i \in 1 .. Len(p)
            BY <1>1, <1>4, <2>2
        <3>2. q[i] = p[i] /\ Packet(p[i]) /\ p[i][1] + Len(p[i]) <= e + 1
            BY <1>4, <3>1, Zenon DEF Chain
        <3>3. Len(p[i]) \in Nat /\ p[i][1] \in Nat
            BY <3>2, PacketNumbers, Zenon
        <3>4. p[i][1] + Len(p[i]) <= (e + Len(x)) + 1
            BY <1>1, <1>2, <3>2, <3>3, Sums, Zenon
        <3>5. QED
            BY <3>2, <3>4, Zenon
    <2>3. QED
        BY <2>1, <2>2, Zenon
<1>6. p # <<>> => p[1][1] = a + 1 /\ p[Len(p)][1] + Len(p[Len(p)]) = e + 1
    BY Zenon DEF Chain
<1>7. ASSUME NEW i \in 1 .. Len(q) - 1
      PROVE  q[i + 1][1] = q[i][1] + Len(q[i])
    <2>1. i \in 1 .. Len(p) /\ q[i] = p[i] /\ p # <<>>
        BY <1>1, <1>4
    <2>2. CASE i = Len(p)
        BY <1>2, <1>4, <1>6, <2>1, <2>2, Zenon
    <2>3. CASE i # Len(p)
        <3>1. i + 1 \in 1 .. Len(p) /\ i \in 1 .. Len(p) - 1
            BY <1>1, <2>1, <2>3
        <3>2. p[i + 1][1] = p[i][1] + Len(p[i])
            BY <3>1, Zenon DEF Chain
        <3>3. QED
            BY <1>4, <2>1, <3>1, <3>2, Zenon
    <2>4. QED
        BY <2>2, <2>3, Zenon
<1>8. q[1][1] = a + 1
    <2>1. CASE p = <<>>
        <3>1. a = e /\ Len(p) = 0
            BY <2>1, Zenon DEF Chain
        <3>2. QED
            BY <1>2, <1>4, <3>1
    <2>2. CASE p # <<>>
        <3>1. 1 \in 1 .. Len(p)
            BY <1>1, <2>2
        <3>2. QED
            BY <1>4, <1>6, <2>2, <3>1, Zenon
    <2>3. QED
        BY <2>1, <2>2, Zenon
<1>9. q[Len(q)][1] + Len(q[Len(q)]) = (e + Len(x)) + 1 /\ e + Len(x) \in Nat
    <2>1. q[Len(q)] = x /\ x[1] + Len(x) = (e + 1) + Len(x)
        BY <1>2, <1>4, Zenon
    <2>2. (e + 1) + Len(x) = (e + Len(x)) + 1 /\ e + Len(x) \in Nat
        BY <1>1, <1>2, Sums, Zenon
    <2>3. QED
        BY <2>1, <2>2, Zenon
<1>10. Chain(q, a, e + Len(x))
    BY <1>1, <1>4, <1>5, <1>7, <1>8, <1>9, Zenon DEF Chain
<1>11. QED
    BY <1>3, <1>10, Zenon

\* The first packet leaves.
LEMMA ChainTail ==
    ASSUME NEW p, NEW a, NEW e, Chain(p, a, e), p # <<>>
    PROVE  Run(Head(p), a) /\ Len(Head(p)) > 0 /\ Chain(Tail(p), a + Len(Head(p)), e)
<1>1. p \in Seq(Seq(Nat)) /\ a \in Nat /\ e \in Nat /\ Len(p) \in Nat \ {0} /\ Head(p) = p[1]
    BY DEF Chain
<1>2. 1 \in 1 .. Len(p) /\ Packet(p[1]) /\ p[1][1] = a + 1
    BY <1>1, SMTT(30) DEF Chain
<1>3. Len(p[1]) \in Nat \ {0} /\ (a + 1) - 1 = a
    BY <1>1, <1>2, PacketNumbers
<1>4. Run(p[1], a) /\ Len(p[1]) > 0
    BY <1>2, <1>3, Zenon DEF Packet
<1>5. PICK q : q = Tail(p)
    BY Zenon
<1>6. /\ q \in Seq(Seq(Nat)) /\ Len(q) = Len(p) - 1
      /\ \A i \in 1 .. Len(q) : q[i] = p[i + 1] /\ i + 1 \in 1 .. Len(p)
    BY <1>1, <1>5
<1>7. \A i \in 1 .. Len(q) : Packet(q[i]) /\ q[i][1] + Len(q[i]) <= e + 1
    BY <1>6, Zenon DEF Chain
<1>8. ASSUME NEW i \in 1 .. Len(q) - 1
      PROVE  q[i + 1][1] = q[i][1] + Len(q[i])
    <2>1. i \in 1 .. Len(q) /\ i + 1 \in 1 .. Len(q) /\ i + 1 \in 1 .. Len(p) - 1
        BY <1>1, <1>6
    <2>2. p[(i + 1) + 1][1] = p[i + 1][1] + Len(p[i + 1])
        BY <2>1, Zenon DEF Chain
    <2>3. QED
        BY <1>6, <2>1, <2>2, Zenon
<1>9. p[Len(p)][1] + Len(p[Len(p)]) = e + 1
    BY Zenon DEF Chain
<1>10. CASE q = <<>>
    <2>1. Len(p) = 1
        BY <1>1, <1>6, <1>10
    <2>2. a + Len(p[1]) = e
        <3>1. (a + 1) + Len(p[1]) = e + 1 /\ Len(p[1]) \in Nat
            BY <1>2, <1>3, <1>9, <2>1, Zenon
        <3>2. a \in Nat /\ e \in Nat
            BY <1>1, Zenon
        <3>3. \A l \in Nat : (a + 1) + l = e + 1 => a + l = e
            BY <3>2
        <3>4. QED
            BY <3>1, <3>3, Zenon
    <2>3. QED
        BY <1>1, <1>4, <1>5, <1>6, <1>7, <1>8, <1>10, <2>2, Zenon DEF Chain
<1>11. CASE q # <<>>
    <2>1. 1 \in 1 .. Len(q) /\ Len(q) \in 1 .. Len(q) /\ Len(q) + 1 = Len(p) /\ 1 \in 1 .. Len(p) - 1
        BY <1>1, <1>6, <1>11
    <2>2. p[1 + 1][1] = p[1][1] + Len(p[1])
        BY <2>1, Zenon DEF Chain
    <2>3. q[1][1] = (a + Len(p[1])) + 1 /\ a + Len(p[1]) \in Nat
        <3>1. q[1] = p[1 + 1]
            BY <1>6, <2>1, Zenon
        <3>2. (a + 1) + Len(p[1]) = (a + Len(p[1])) + 1 /\ a + Len(p[1]) \in Nat
            BY <1>1, <1>3, Sums, Zenon
        <3>3. QED
            BY <1>1, <1>2, <2>2, <3>1, <3>2, Zenon
    <2>4. q[Len(q)][1] + Len(q[Len(q)]) = e + 1
        BY <1>6, <1>9, <2>1, Zenon
    <2>5. QED
        BY <1>1, <1>4, <1>5, <1>6, <1>7, <1>8, <1>11, <2>3, <2>4, Zenon DEF Chain
<1>12. QED
    BY <1>10, <1>11, Zenon

-----------------------------------------------------------------------------
(* What all steps of a tunnel have in common. *)

\* One way of one tunnel is updated.
Sets(f, g, t, w, v) ==
    /\ g[t][w] = v /\ \A x \in Ways : x # w => g[t][x] = f[t][x]
    /\ \A u \in Tunnels : u # t => g[u] = f[u]

\* A step of one copier of one tunnel writes that entry and no other
\* (service.go:87-94).
LEMMA Update ==
    ASSUME NEW S, NEW f \in [Tunnels -> [Ways -> S]], NEW t \in Tunnels, NEW w \in Ways, NEW v \in S
    PROVE  /\ [f EXCEPT ![t][w] = v] \in [Tunnels -> [Ways -> S]]
           /\ Sets(f, [f EXCEPT ![t][w] = v], t, w, v)
BY Zenon DEF Sets

\* The two ways are different.
LEMMA TwoWays == /\ "out" \in Ways /\ "back" \in Ways /\ "out" # "back"
                 /\ \A w \in Ways : w = "out" \/ w = "back"
BY Zenon DEF Ways

\* A tunnel nothing happens to.
SameT(u) ==
    /\ client'[u] = client[u] /\ handler'[u] = handler[u] /\ status'[u] = status[u]
    /\ upconn'[u] = upconn[u] /\ copier'[u] = copier[u] /\ held'[u] = held[u]
    /\ readbuf'[u] = readbuf[u] /\ packets'[u] = packets[u] /\ wrote'[u] = wrote[u]
    /\ got'[u] = got[u] /\ ended'[u] = ended[u]

\* A tunnel that a step does not touch keeps its invariant: tunnels share
\* no state (service.go:39-97, one call of the handler each).
LEMMA SameTunnel ==
    ASSUME NEW u \in Tunnels, SameT(u), TunnelAt(u)
    PROVE  TunnelAt(u)'
<1>1. OutAt(u)'
    BY ZenonT(40) DEF SameT, TunnelAt, OutAt
<1>2. BackAt(u)'
    BY ZenonT(40) DEF SameT, TunnelAt, BackAt
<1>3. EndAt(u)'
    BY ZenonT(40) DEF SameT, TunnelAt, EndAt, Cancelled
<1>4. QED
    BY <1>1, <1>2, <1>3, Zenon DEF TunnelAt

\* A step of tunnel t alone.
LEMMA TunnelKeeps ==
    ASSUME TunnelInv, NEW t \in Tunnels, TunnelTypeOK', \A u \in Tunnels : u # t => SameT(u),
           OutAt(t)', BackAt(t)', EndAt(t)'
    PROVE  TunnelInv'
BY SameTunnel, Zenon DEF TunnelInv, TunnelAt

\* The way "out" of a tunnel stays as it is, its connection open or not.
LEMMA OutStays ==
    ASSUME NEW t \in Tunnels, OutAt(t), got'[t]["out"] = got[t]["out"], held'[t]["out"] = held[t]["out"],
           readbuf'[t]["out"] = readbuf[t]["out"], packets'[t]["out"] = packets[t]["out"], wrote'[t]["out"] = wrote[t]["out"],
           copier'[t]["out"] = copier[t]["out"] \/ held[t]["out"] = <<>>,
           upconn'[t] \in {"none", "open"} => upconn[t] \in {"none", "open"}
    PROVE  OutAt(t)'
BY ZenonT(40) DEF OutAt

\* The upstream's bytes stay a run when the copier leaves "read" or starts
\* (service.go:91-94): it holds nothing then.
LEMMA BackStays ==
    ASSUME NEW t \in Tunnels, BackAt(t), got'[t]["back"] = got[t]["back"], held'[t]["back"] = held[t]["back"],
           readbuf'[t]["back"] = readbuf[t]["back"],
           packets'[t]["back"] = packets[t]["back"], wrote'[t]["back"] = wrote[t]["back"],
           \/ copier'[t]["back"] = copier[t]["back"]
           \/ copier[t]["back"] \notin {"write", "error"} /\ copier'[t]["back"] # "write"
    PROVE  BackAt(t)'
BY ZenonT(40) DEF BackAt

-----------------------------------------------------------------------------
(* Steps that touch no byte. *)

\* Only places change: the ways of the tunnel stay as they are.
LEMMA PlacesMove ==
    ASSUME TunnelInv, NEW t \in Tunnels,
           client' \in [Tunnels -> {"none", "open", "closed", "failed"}],
           handler' \in [Tunnels -> {"none", "recv", "creating", "copying", "returned"}],
           status' \in [Tunnels -> {"none", "ok", "error"}],
           upconn' \in [Tunnels -> {"none", "open", "eof", "closed"}],
           ended' \in [Tunnels -> {"no", "eof", "error"}],
           \A u \in Tunnels : u # t => /\ client'[u] = client[u] /\ handler'[u] = handler[u] /\ status'[u] = status[u]
                                       /\ upconn'[u] = upconn[u] /\ ended'[u] = ended[u],
           UNCHANGED <<copier, held, readbuf, packets, wrote, got>>,
           upconn'[t] \in {"none", "open"} => upconn[t] \in {"none", "open"}, EndAt(t)'
    PROVE  TunnelInv'
<1>1. TunnelTypeOK'
    BY Zenon DEF TunnelInv, TunnelTypeOK
<1>2. \A u \in Tunnels : u # t => SameT(u)
    BY Zenon DEF SameT
<1>3. OutAt(t) /\ BackAt(t)
    BY Zenon DEF TunnelInv, TunnelAt
<1>4. OutAt(t)'
    BY <1>3, OutStays, Zenon
<1>5. BackAt(t)'
    BY <1>3, BackStays, Zenon
<1>6. QED
    BY <1>1, <1>2, <1>4, <1>5, TunnelKeeps, Zenon

\* The stream is opened, and cancelled again if its dial message cannot be
\* sent (service.go:107-118) ...
LEMMA DialContextKeeps ==
    ASSUME TunnelInv, NEW t \in Tunnels, DialContext(t) \/ DialContextFails(t)
    PROVE  TunnelInv'
<1>1. TunnelTypeOK /\ EndAt(t) /\ client[t] = "none"
    BY Zenon DEF TunnelInv, TunnelAt, DialContext, DialContextFails
<1>2. UNCHANGED <<status, upconn, copier, held, readbuf, packets, wrote, got, ended>>
    BY Zenon DEF DialContext, DialContextFails
<1>3. CASE UNCHANGED <<client, handler>>
    <2>1. EndAt(t)'
        BY <1>1, <1>2, <1>3, ZenonT(40) DEF EndAt, Cancelled
    <2>2. QED
        BY <1>1, <1>2, <1>3, <2>1, PlacesMove, Zenon DEF TunnelTypeOK
<1>4. ASSUME NEW v \in {"open", "failed"}, client' = [client EXCEPT ![t] = v], handler' = [handler EXCEPT ![t] = "recv"]
      PROVE  TunnelInv'
    <2>1. /\ client' \in [Tunnels -> {"none", "open", "closed", "failed"}] /\ client'[t] = v
          /\ handler' \in [Tunnels -> {"none", "recv", "creating", "copying", "returned"}] /\ handler'[t] = "recv"
          /\ \A u \in Tunnels : u # t => client'[u] = client[u] /\ handler'[u] = handler[u]
        BY <1>1, <1>4, Zenon DEF TunnelTypeOK
    <2>2. EndAt(t)'
        BY <1>1, <1>2, <1>4, <2>1, ZenonT(40) DEF EndAt, Cancelled
    <2>3. QED
        BY <1>1, <1>2, <2>1, <2>2, PlacesMove, ZenonT(40) DEF TunnelTypeOK
<1>5. QED
    BY <1>3, <1>4, Zenon DEF DialContext, DialContextFails

\* ... and closed.
LEMMA CloseKeeps ==
    ASSUME TunnelInv, NEW t \in Tunnels, Close(t)
    PROVE  TunnelInv'
<1>1. TunnelTypeOK /\ EndAt(t)
    BY Zenon DEF TunnelInv, TunnelAt
<1>2. /\ client' \in [Tunnels -> {"none", "open", "closed", "failed"}] /\ client'[t] = "closed"
      /\ \A u \in Tunnels : u # t => client'[u] = client[u]
    BY <1>1, Zenon DEF Close, Closes, TunnelTypeOK
<1>3. EndAt(t)'
    BY <1>1, <1>2, ZenonT(40) DEF EndAt, Cancelled, Close
<1>4. QED
    BY <1>1, <1>2, <1>3, PlacesMove, Zenon DEF Close, TunnelTypeOK

\* The daemon reads the end only after all packets, and io.EOF only when the
\* copier of the upstream saw the end.
LEMMA ReadEndsKeeps ==
    ASSUME TunnelInv, NEW t \in Tunnels, ReadEnds(t)
    PROVE  TunnelInv'
<1>1. TunnelTypeOK /\ EndAt(t)
    BY Zenon DEF TunnelInv, TunnelAt
<1>2. /\ ended' \in [Tunnels -> {"no", "eof", "error"}] /\ (ended'[t] = "eof" => status[t] = "ok")
      /\ \A u \in Tunnels : u # t => ended'[u] = ended[u]
    BY <1>1, Zenon DEF ReadEnds, TunnelTypeOK
<1>3. EndAt(t)'
    BY <1>1, <1>2, ZenonT(40) DEF EndAt, Cancelled, ReadEnds
<1>4. QED
    BY <1>1, <1>2, <1>3, PlacesMove, Zenon DEF ReadEnds, TunnelTypeOK

\* The handler returns.
LEMMA ReturnKeeps ==
    ASSUME TunnelInv, NEW t \in Tunnels, NEW s \in {"ok", "error"}, Return(t, s),
           handler[t] \notin {"none", "returned"}, s = "ok" => copier[t]["back"] = "eof" \/ Cancelled(t)
    PROVE  TunnelInv'
<1>1. TunnelTypeOK /\ EndAt(t)
    BY Zenon DEF TunnelInv, TunnelAt
<1>2. /\ handler' \in [Tunnels -> {"none", "recv", "creating", "copying", "returned"}] /\ handler'[t] = "returned"
      /\ status' \in [Tunnels -> {"none", "ok", "error"}] /\ status'[t] = s
      /\ upconn' \in [Tunnels -> {"none", "open", "eof", "closed"}]
      /\ (upconn'[t] \in {"none", "open"} => upconn[t] \in {"none", "open"})
      /\ upconn'[t] \in {"none", "closed"}
      /\ \A u \in Tunnels : u # t => /\ handler'[u] = handler[u] /\ status'[u] = status[u]
                                     /\ upconn'[u] = upconn[u]
    BY <1>1, ZenonT(40) DEF Return, TunnelTypeOK
<1>3. EndAt(t)'
    BY <1>1, <1>2, ZenonT(40) DEF EndAt, Cancelled, Return
<1>4. QED
    BY <1>1, <1>2, <1>3, PlacesMove, Zenon DEF Return, TunnelTypeOK

\* The handler receives the dial message (service.go:39-56).
LEMMA RecvDialKeeps ==
    ASSUME TunnelInv, NEW t \in Tunnels, RecvDial(t)
    PROVE  TunnelInv'
<1>1. TunnelTypeOK /\ EndAt(t)
    BY Zenon DEF TunnelInv, TunnelAt
<1>2. CASE Return(t, "error")
    BY <1>2, ReturnKeeps, Zenon DEF RecvDial
<1>3. CASE /\ handler' = [handler EXCEPT ![t] = "creating"]
           /\ UNCHANGED <<client, status, upconn, copier, held, readbuf, packets, wrote, got, ended>>
    <2>1. /\ handler' \in [Tunnels -> {"none", "recv", "creating", "copying", "returned"}] /\ handler'[t] = "creating"
          /\ \A u \in Tunnels : u # t => handler'[u] = handler[u]
        BY <1>1, <1>3, Zenon DEF TunnelTypeOK
    <2>2. EndAt(t)'
        BY <1>1, <1>3, <2>1, ZenonT(40) DEF EndAt, Cancelled, RecvDial
    <2>3. QED
        BY <1>1, <1>3, <2>1, <2>2, PlacesMove, Zenon DEF TunnelTypeOK
<1>4. QED
    BY <1>2, <1>3, Zenon DEF RecvDial

\* The handler fails to create a connection (service.go:57-64), or returns
\* what the first copier sent it (service.go:96-97).
LEMMA HandlerReturnsKeeps ==
    ASSUME TunnelInv, NEW t \in Tunnels, CreateFails(t) \/ HandlerReturns(t)
    PROVE  TunnelInv'
<1>1. EndAt(t)
    BY Zenon DEF TunnelInv, TunnelAt
<1>2. CASE CreateFails(t)
    BY <1>2, ReturnKeeps, Zenon DEF CreateFails
<1>3. CASE HandlerReturns(t)
    <2>1. PICK w \in Ways : Finished(t, w) /\ Return(t, IF copier[t][w] = "eof" THEN "ok" ELSE "error")
        BY <1>3, Zenon DEF HandlerReturns
    <2>2. copier[t][w] = "eof" => copier[t]["back"] = "eof" \/ Cancelled(t)
        BY <1>1, TwoWays, Zenon DEF EndAt
    <2>3. handler[t] = "copying"
        BY <1>3, Zenon DEF HandlerReturns
    <2>4. QED
        BY <2>1, <2>2, <2>3, ReturnKeeps, Zenon
<1>4. QED
    BY <1>2, <1>3, Zenon

\* The upstream ends its connection.
LEMMA UpstreamClosesKeeps ==
    ASSUME TunnelInv, NEW t \in Tunnels, UpstreamCloses(t)
    PROVE  TunnelInv'
<1>1. TunnelTypeOK /\ EndAt(t)
    BY Zenon DEF TunnelInv, TunnelAt
<1>2. /\ upconn' \in [Tunnels -> {"none", "open", "eof", "closed"}] /\ upconn'[t] = "eof"
      /\ \A u \in Tunnels : u # t => upconn'[u] = upconn[u]
    BY <1>1, Zenon DEF UpstreamCloses, TunnelTypeOK
<1>3. EndAt(t)'
    BY <1>1, <1>2, ZenonT(40) DEF EndAt, Cancelled, UpstreamCloses
<1>4. QED
    BY <1>1, <1>2, <1>3, PlacesMove, Zenon DEF UpstreamCloses, TunnelTypeOK

\* The copiers start.
LEMMA CreateKeeps ==
    ASSUME TunnelInv, NEW t \in Tunnels, Create(t)
    PROVE  TunnelInv'
<1>1. TunnelTypeOK /\ EndAt(t) /\ OutAt(t) /\ BackAt(t) /\ upconn[t] = "none" /\ copier[t] = Both("none")
    BY Zenon DEF TunnelInv, TunnelAt, EndAt, Create
<1>2. /\ handler' \in [Tunnels -> {"none", "recv", "creating", "copying", "returned"}] /\ handler'[t] = "copying"
      /\ upconn' \in [Tunnels -> {"none", "open", "eof", "closed"}] /\ upconn'[t] = "open"
      /\ copier' \in [Tunnels -> [Ways -> CopierPlaces]]
      /\ copier'[t]["out"] = "read" /\ copier'[t]["back"] = "read"
      /\ \A u \in Tunnels : u # t => /\ handler'[u] = handler[u] /\ upconn'[u] = upconn[u] /\ copier'[u] = copier[u]
    <2>1. /\ Both("read") \in [Ways -> CopierPlaces]
          /\ Both("read")["out"] = "read" /\ Both("read")["back"] = "read"
        BY TwoWays, Zenon DEF Both, CopierPlaces
    <2>2. /\ copier' \in [Tunnels -> [Ways -> CopierPlaces]] /\ copier'[t] = Both("read")
          /\ \A u \in Tunnels : u # t => copier'[u] = copier[u]
        BY <1>1, <2>1, Zenon DEF Create, TunnelTypeOK
    <2>3. QED
        BY <1>1, <2>1, <2>2, ZenonT(40) DEF Create, TunnelTypeOK
<1>3. copier[t]["out"] = "none" /\ copier[t]["back"] = "none"
    BY <1>1, TwoWays, Zenon DEF Both
<1>4. held[t]["out"] = <<>> /\ held[t]["back"] = <<>>
    BY <1>1, <1>3, Zenon DEF OutAt, BackAt
<1>5. TunnelTypeOK'
    BY <1>1, <1>2, Zenon DEF TunnelTypeOK, Create
<1>6. \A u \in Tunnels : u # t => SameT(u)
    BY <1>2, ZenonT(40) DEF SameT, Create
<1>7. EndAt(t)'
    BY <1>1, <1>2, <1>3, ZenonT(40) DEF EndAt, Cancelled, Create
<1>8. OutAt(t)'
    BY <1>1, <1>2, <1>3, <1>4, OutStays, Zenon DEF Create
<1>9. BackAt(t)'
    BY <1>1, <1>2, <1>3, <1>4, BackStays, Zenon DEF Create
<1>10. QED
    BY <1>5, <1>6, <1>7, <1>8, <1>9, TunnelKeeps, Zenon

\* A copier ends while it reads.
LEMMA CopierEndsKeeps ==
    ASSUME TunnelInv, NEW t \in Tunnels, StreamEnds(t) \/ UpstreamEnds(t)
    PROVE  TunnelInv'
<1>1. TunnelTypeOK /\ EndAt(t) /\ OutAt(t) /\ BackAt(t)
    BY Zenon DEF TunnelInv, TunnelAt
<1>2. PICK w \in Ways, v \in {"eof", "error"} :
        /\ copier[t][w] = "read" /\ copier' = [copier EXCEPT ![t][w] = v]
        /\ w = "out" /\ v = "eof" => Cancelled(t)
        /\ UNCHANGED <<client, handler, status, upconn, held, readbuf, packets, wrote, got, ended>>
    BY TwoWays, Zenon DEF StreamEnds, UpstreamEnds, Cancelled
<1>3. copier' \in [Tunnels -> [Ways -> CopierPlaces]] /\ Sets(copier, copier', t, w, v)
    <2>1. /\ copier \in [Tunnels -> [Ways -> CopierPlaces]]
          /\ v \in CopierPlaces
        BY <1>1, Zenon DEF TunnelTypeOK, CopierPlaces
    <2>2. QED
        BY <1>2, <2>1, Update, Zenon
<1>4. TunnelTypeOK'
    BY <1>1, <1>2, <1>3, Zenon DEF TunnelTypeOK
<1>5. \A u \in Tunnels : u # t => SameT(u)
    BY <1>2, <1>3, Zenon DEF SameT, Sets
<1>6. copier[t] # Both("none")
    BY <1>2, Zenon DEF Both
<1>7. EndAt(t)'
    BY <1>1, <1>2, <1>3, <1>6, TwoWays, ZenonT(40) DEF EndAt, Cancelled, Sets
<1>8. OutAt(t)'
    <2>1. copier'[t]["out"] = copier[t]["out"] \/ held[t]["out"] = <<>>
        BY <1>1, <1>2, <1>3, TwoWays, Zenon DEF Sets, OutAt
    <2>2. QED
        BY <1>1, <1>2, <2>1, OutStays, Zenon
<1>9. BackAt(t)'
    <2>1. \/ copier'[t]["back"] = copier[t]["back"]
          \/ copier[t]["back"] \notin {"write", "error"} /\ copier'[t]["back"] # "write"
        BY <1>2, <1>3, TwoWays, Zenon DEF Sets
    <2>2. QED
        BY <1>1, <1>2, <2>1, BackStays, Zenon
<1>10. QED
    BY <1>4, <1>5, <1>7, <1>8, <1>9, TunnelKeeps, Zenon

-----------------------------------------------------------------------------
(* Steps that move bytes. *)

\* The bytes written next are a packet.
LEMMA NextBytesRun ==
    ASSUME TunnelTypeOK, NEW t \in Tunnels, NEW w \in Ways, NEW n \in 1 .. 2
    PROVE  /\ wrote[t][w] \in Nat /\ n \in Nat /\ n > 0 /\ Run(NextBytes(t, w, n), wrote[t][w])
           /\ Len(NextBytes(t, w, n)) = n /\ NextBytes(t, w, n) \in Seq(Nat) /\ wrote[t][w] + n \in Nat
<1>1. wrote[t][w] \in Nat
    BY ZenonT(40) DEF TunnelTypeOK
<1>2. n \in Nat /\ n > 0 /\ wrote[t][w] + n \in Nat
    BY <1>1
<1>3. QED
    BY <1>1, <1>2, RunNext, Zenon DEF NextBytes, Run

\* The daemon writes a packet.
LEMMA WriteKeeps ==
    ASSUME TunnelInv, NEW t \in Tunnels, NEW n \in 1 .. 2, Write(t, n)
    PROVE  TunnelInv'
<1>1. TunnelTypeOK /\ EndAt(t) /\ OutAt(t) /\ BackAt(t)
    BY Zenon DEF TunnelInv, TunnelAt
<1>2. PICK x \in Seq(Nat) : x = NextBytes(t, "out", n)
    BY <1>1, NextBytesRun, TwoWays, Zenon
<1>3. /\ wrote[t]["out"] \in Nat /\ n \in Nat /\ Run(x, wrote[t]["out"]) /\ Len(x) = n /\ n > 0
      /\ wrote[t]["out"] + n \in Nat
    BY <1>1, <1>2, NextBytesRun, TwoWays, Zenon
<1>4. packets[t]["out"] \in Seq(Seq(Nat)) /\ Append(packets[t]["out"], x) \in Seq(Seq(Nat))
    <2>1. packets \in [Tunnels -> [Ways -> Seq(Seq(Nat))]]
        BY <1>1, Zenon DEF TunnelTypeOK
    <2>2. packets[t]["out"] \in Seq(Seq(Nat))
        BY <2>1, TwoWays, Zenon
    <2>3. QED
        BY <2>2, AppendFacts, Zenon
<1>5. /\ wrote' \in [Tunnels -> [Ways -> Nat]] /\ Sets(wrote, wrote', t, "out", wrote[t]["out"] + n)
    <2>1. wrote \in [Tunnels -> [Ways -> Nat]]
        BY <1>1, Zenon DEF TunnelTypeOK
    <2>2. QED
        BY <1>3, <2>1, Update, TwoWays, Zenon DEF Write
<1>6. /\ packets' \in [Tunnels -> [Ways -> Seq(Seq(Nat))]]
      /\ Sets(packets, packets', t, "out", Append(packets[t]["out"], x))
    <2>1. packets \in [Tunnels -> [Ways -> Seq(Seq(Nat))]]
        BY <1>1, Zenon DEF TunnelTypeOK
    <2>2. QED
        BY <1>2, <1>4, <2>1, Update, TwoWays, Zenon DEF Write
<1>7. TunnelTypeOK'
    BY <1>1, <1>5, <1>6, Zenon DEF TunnelTypeOK, Write
<1>8. \A u \in Tunnels : u # t => SameT(u)
    BY <1>5, <1>6, Zenon DEF SameT, Write, Sets
<1>9. EndAt(t)'
    BY <1>1, <1>6, TwoWays, ZenonT(40) DEF EndAt, Cancelled, Write, Sets
<1>10. BackAt(t)'
    BY <1>1, <1>5, <1>6, TwoWays, BackStays, ZenonT(40) DEF Write, Sets
<1>11. OutAt(t)'
    <2>1. Len(got[t]["out"]) <= wrote[t]["out"] + n
        <3>1. got[t]["out"] \in Seq(Nat) /\ Len(got[t]["out"]) <= wrote[t]["out"]
            BY <1>1, Zenon DEF OutAt, Run
        <3>2. Len(got[t]["out"]) \in Nat
            BY <3>1
        <3>3. QED
            BY <1>3, <3>1, <3>2, SMTT(30)
    <2>2. \A a : Chain(packets[t]["out"], a, wrote[t]["out"]) =>
                 Chain(Append(packets[t]["out"], x), a, wrote[t]["out"] + n)
        BY <1>3, ChainAppend, Zenon
    <2>3. /\ wrote'[t]["out"] = wrote[t]["out"] + n /\ packets'[t]["out"] = Append(packets[t]["out"], x)
          /\ UNCHANGED <<got, held, readbuf, copier, upconn>>
        BY <1>5, <1>6, Zenon DEF Sets, Write
    <2>4. QED
        BY <1>1, <2>1, <2>2, <2>3, ZenonT(40) DEF OutAt
<1>12. QED
    BY <1>7, <1>8, <1>9, <1>10, <1>11, TunnelKeeps, Zenon

\* The copier of the way back reads what the upstream has written.
LEMMA ReadUpstreamKeeps ==
    ASSUME TunnelInv, NEW t \in Tunnels, NEW n \in 1 .. 2, ReadUpstream(t, n)
    PROVE  TunnelInv'
<1>1. TunnelTypeOK /\ EndAt(t) /\ OutAt(t) /\ BackAt(t) /\ copier[t]["back"] = "read"
    BY Zenon DEF TunnelInv, TunnelAt, ReadUpstream
<1>2. PICK x \in Seq(Nat) : x = NextBytes(t, "back", n)
    BY <1>1, NextBytesRun, TwoWays, Zenon
<1>3. /\ wrote[t]["back"] \in Nat /\ n \in Nat /\ Run(x, wrote[t]["back"]) /\ Len(x) = n /\ n > 0
      /\ wrote[t]["back"] + n \in Nat
    BY <1>1, <1>2, NextBytesRun, TwoWays, Zenon
<1>4. wrote' \in [Tunnels -> [Ways -> Nat]] /\ Sets(wrote, wrote', t, "back", wrote[t]["back"] + n)
    <2>1. wrote \in [Tunnels -> [Ways -> Nat]]
        BY <1>1, Zenon DEF TunnelTypeOK
    <2>2. QED
        BY <1>3, <2>1, Update, TwoWays, Zenon DEF ReadUpstream
<1>5. held' \in [Tunnels -> [Ways -> Seq(Nat)]] /\ Sets(held, held', t, "back", x)
    <2>1. held \in [Tunnels -> [Ways -> Seq(Nat)]]
        BY <1>1, Zenon DEF TunnelTypeOK
    <2>2. QED
        BY <1>2, <2>1, Update, TwoWays, Zenon DEF ReadUpstream
<1>6. /\ copier' \in [Tunnels -> [Ways -> CopierPlaces]]
      /\ Sets(copier, copier', t, "back", "write")
    <2>1. copier \in [Tunnels -> [Ways -> CopierPlaces]] /\ "write" \in CopierPlaces
        BY <1>1, Zenon DEF TunnelTypeOK, CopierPlaces
    <2>2. QED
        BY <2>1, Update, TwoWays, Zenon DEF ReadUpstream
<1>7. TunnelTypeOK'
    BY <1>1, <1>4, <1>5, <1>6, Zenon DEF TunnelTypeOK, ReadUpstream
<1>8. \A u \in Tunnels : u # t => SameT(u)
    BY <1>4, <1>5, <1>6, Zenon DEF SameT, ReadUpstream, Sets
<1>9. EndAt(t)'
    <2>1. copier[t] # Both("none")
        BY <1>1, TwoWays, Zenon DEF Both
    <2>2. QED
        BY <1>1, <1>6, <2>1, TwoWays, ZenonT(40) DEF EndAt, Cancelled, ReadUpstream, Sets
<1>10. OutAt(t)'
    BY <1>1, <1>4, <1>5, <1>6, TwoWays, OutStays, ZenonT(40) DEF ReadUpstream, Sets
<1>11. BackAt(t)'
    <2>1. PICK m \in 0 .. wrote[t]["back"] : /\ Chain(packets[t]["back"], Len(got[t]["back"]) + Len(readbuf[t]["back"]), m)
                                           /\ m + Len(held[t]["back"]) = wrote[t]["back"]
        BY <1>1, Zenon DEF BackAt
    <2>2. held[t]["back"] = <<>>
        BY <1>1, Zenon DEF BackAt
    <2>3. m = wrote[t]["back"] /\ m \in 0 .. wrote[t]["back"] + n /\ Len(x) > 0
        BY <1>3, <2>1, <2>2
    <2>4. /\ wrote'[t]["back"] = wrote[t]["back"] + n /\ held'[t]["back"] = x /\ copier'[t]["back"] = "write"
          /\ UNCHANGED <<got, readbuf, packets>>
        BY <1>4, <1>5, <1>6, Zenon DEF Sets, ReadUpstream
    <2>5. m + Len(x) = wrote[t]["back"] + n /\ Run(x, m)
        BY <1>3, <2>3, Zenon
    <2>6. QED
        BY <1>1, <2>1, <2>3, <2>4, <2>5, ZenonT(40) DEF BackAt
<1>12. QED
    BY <1>7, <1>8, <1>9, <1>10, <1>11, TunnelKeeps, Zenon

\* Read gives its caller the bytes that come next and keeps the ones after
\* them (messagestream.go:81-97): of the rest of the last packet, or of the
\* next one.
LEMMA KeepFacts ==
    ASSUME TunnelTypeOK, NEW t \in Tunnels, NEW w \in Ways, Keep(t, w)
    PROVE  \E r1 \in Seq(Nat), p1 \in Seq(Seq(Nat)) :
             /\ Given(t, w) \in Seq(Nat)
             /\ readbuf' \in [Tunnels -> [Ways -> Seq(Nat)]] /\ Sets(readbuf, readbuf', t, w, r1)
             /\ packets' \in [Tunnels -> [Ways -> Seq(Seq(Nat))]] /\ Sets(packets, packets', t, w, p1)
             /\ \A a \in Nat : \A e :
                  Run(readbuf[t][w], a) /\ Chain(packets[t][w], a + Len(readbuf[t][w]), e)
                  => /\ Run(Given(t, w), a) /\ Run(r1, a + Len(Given(t, w)))
                     /\ Chain(p1, a + Len(Given(t, w)) + Len(r1), e)
<1>1. readbuf \in [Tunnels -> [Ways -> Seq(Nat)]] /\ packets \in [Tunnels -> [Ways -> Seq(Seq(Nat))]]
    BY Zenon DEF TunnelTypeOK
<1>2. PICK r \in Seq(Nat), p \in Seq(Seq(Nat)) : r = readbuf[t][w] /\ p = packets[t][w]
    BY <1>1, Zenon
<1>3. PICK q : q = Rest(t, w)
    BY Zenon
<1>4. PICK m : m = Fits(t, w)
    BY Zenon
<1>5. PICK p1 : p1 = IF r = <<>> THEN Tail(p) ELSE p
    BY Zenon
<1>6. q # <<>> /\ (r # <<>> => q = r) /\ (r = <<>> => p # <<>> /\ q = Head(p))
    BY <1>2, <1>3, Zenon DEF Keep, Rest
<1>7. q \in Seq(Nat) /\ p1 \in Seq(Seq(Nat))
    BY <1>2, <1>5, <1>6, SMTT(30)
<1>8. m \in Nat /\ m <= Len(q) /\ Len(q) \in Nat
    <2>1. m = IF Len(q) < BufSize THEN Len(q) ELSE BufSize
        BY <1>3, <1>4, Zenon DEF Fits
    <2>2. QED
        BY <1>7, <2>1, TunnelAssumption
<1>9. PICK h, r1 : h = SubSeq(q, 1, m) /\ r1 = SubSeq(q, m + 1, Len(q))
    BY Zenon
<1>10. h \in Seq(Nat) /\ r1 \in Seq(Nat)
    BY <1>7, <1>8, <1>9, SMTT(30)
<1>11. /\ Given(t, w) = h /\ readbuf' = [readbuf EXCEPT ![t][w] = r1]
       /\ packets' = [packets EXCEPT ![t][w] = p1]
    BY <1>2, <1>3, <1>4, <1>5, <1>9, Zenon DEF Keep, Given
<1>12. readbuf' \in [Tunnels -> [Ways -> Seq(Nat)]] /\ Sets(readbuf, readbuf', t, w, r1)
    BY <1>1, <1>10, <1>11, Update, Zenon
<1>13. packets' \in [Tunnels -> [Ways -> Seq(Seq(Nat))]] /\ Sets(packets, packets', t, w, p1)
    BY <1>1, <1>7, <1>11, Update, Zenon
<1>14. ASSUME NEW a \in Nat, NEW e, Run(r, a), Chain(p, a + Len(r), e)
       PROVE  Run(h, a) /\ Run(r1, a + Len(h)) /\ Chain(p1, a + Len(h) + Len(r1), e)
    <2>1. Run(q, a) /\ Chain(p1, a + Len(q), e)
        <3>1. CASE r # <<>>
            BY <1>5, <1>6, <1>14, <3>1, Zenon
        <3>2. CASE r = <<>>
            <4>1. a + Len(r) = a
                BY <3>2
            <4>2. Chain(p, a, e) /\ p # <<>> /\ q = Head(p) /\ p1 = Tail(p)
                BY <1>5, <1>6, <1>14, <3>2, <4>1, Zenon
            <4>3. QED
                BY <4>2, ChainTail, Zenon
        <3>3. QED
            BY <3>1, <3>2, Zenon
    <2>2. Run(h, a) /\ Len(h) = m /\ Run(r1, a + m) /\ Len(r1) = Len(q) - m
        BY <1>8, <1>9, <2>1, RunCut, Zenon
    <2>3. a + Len(h) + Len(r1) = a + Len(q)
        BY <1>8, <2>2
    <2>4. QED
        BY <2>1, <2>2, <2>3, Zenon
<1>15. QED
    BY <1>2, <1>7, <1>10, <1>11, <1>12, <1>13, <1>14, Zenon

\* The daemon reads.
LEMMA ReadKeeps ==
    ASSUME TunnelInv, NEW t \in Tunnels, Read(t)
    PROVE  TunnelInv'
<1>1. TunnelTypeOK /\ EndAt(t) /\ OutAt(t) /\ BackAt(t) /\ ended[t] = "no"
    BY Zenon DEF TunnelInv, TunnelAt, Read
<1>2. PICK m \in 0 .. wrote[t]["back"] :
        /\ Chain(packets[t]["back"], Len(got[t]["back"]) + Len(readbuf[t]["back"]), m)
        /\ copier[t]["back"] # "error" => m + Len(held[t]["back"]) = wrote[t]["back"] /\ Run(held[t]["back"], m)
    BY <1>1, Zenon DEF BackAt
<1>3. PICK h : h = Given(t, "back")
    BY Zenon
<1>4. PICK r1 \in Seq(Nat), p1 \in Seq(Seq(Nat)) :
        /\ h \in Seq(Nat)
        /\ readbuf' \in [Tunnels -> [Ways -> Seq(Nat)]] /\ Sets(readbuf, readbuf', t, "back", r1)
        /\ packets' \in [Tunnels -> [Ways -> Seq(Seq(Nat))]] /\ Sets(packets, packets', t, "back", p1)
        /\ \A a \in Nat : \A e :
             Run(readbuf[t]["back"], a) /\ Chain(packets[t]["back"], a + Len(readbuf[t]["back"]), e)
             => Run(h, a) /\ Run(r1, a + Len(h)) /\ Chain(p1, a + Len(h) + Len(r1), e)
    BY <1>1, <1>3, KeepFacts, TwoWays, Zenon DEF Read
<1>5. Run(got[t]["back"], 0) /\ Run(readbuf[t]["back"], Len(got[t]["back"])) /\ Len(got[t]["back"]) \in Nat
    <2>1. Run(got[t]["back"], 0) /\ Run(readbuf[t]["back"], Len(got[t]["back"]))
        BY <1>1, Zenon DEF BackAt
    <2>2. got[t]["back"] \in Seq(Nat)
        BY <2>1, Zenon DEF Run
    <2>3. Len(got[t]["back"]) \in Nat
        BY <2>2
    <2>4. QED
        BY <2>1, <2>3, Zenon
<1>6. /\ Run(h, Len(got[t]["back"])) /\ Run(r1, Len(got[t]["back"]) + Len(h))
      /\ Chain(p1, Len(got[t]["back"]) + Len(h) + Len(r1), m)
    BY <1>2, <1>4, <1>5, Zenon
<1>7. /\ Run(got[t]["back"] \o h, 0) /\ got[t]["back"] \o h \in Seq(Nat)
      /\ Len(got[t]["back"] \o h) = Len(got[t]["back"]) + Len(h)
    <2>1. Run(got[t]["back"] \o h, 0) /\ Len(got[t]["back"] \o h) = Len(got[t]["back"]) + Len(h)
        BY <1>5, <1>6, RunConcat, Zenon
    <2>2. QED
        BY <2>1, Zenon DEF Run
<1>8. got' \in [Tunnels -> [Ways -> Seq(Nat)]] /\ Sets(got, got', t, "back", got[t]["back"] \o h)
    <2>1. got \in [Tunnels -> [Ways -> Seq(Nat)]]
        BY <1>1, Zenon DEF TunnelTypeOK
    <2>2. QED
        BY <1>3, <1>7, <2>1, Update, TwoWays, Zenon DEF Read
<1>9. TunnelTypeOK'
    BY <1>1, <1>4, <1>8, Zenon DEF TunnelTypeOK, Read
<1>10. \A u \in Tunnels : u # t => SameT(u)
    BY <1>4, <1>8, Zenon DEF SameT, Read, Sets
<1>11. EndAt(t)'
    BY <1>1, ZenonT(40) DEF EndAt, Cancelled, Read
<1>12. OutAt(t)'
    BY <1>1, <1>4, <1>8, TwoWays, OutStays, Zenon DEF Read, Sets
<1>13. BackAt(t)'
    <2>1. /\ got'[t]["back"] = got[t]["back"] \o h /\ readbuf'[t]["back"] = r1 /\ packets'[t]["back"] = p1
          /\ UNCHANGED <<wrote, held, copier>>
        BY <1>4, <1>8, Zenon DEF Sets, Read
    <2>2. Run(r1, Len(got'[t]["back"])) /\ Chain(p1, Len(got'[t]["back"]) + Len(r1), m)
        BY <1>6, <1>7, <2>1, Zenon
    <2>3. QED
        BY <1>1, <1>2, <1>7, <2>1, <2>2, ZenonT(40) DEF BackAt
<1>14. QED
    BY <1>9, <1>10, <1>11, <1>12, <1>13, TunnelKeeps, Zenon

\* The copier of the way out takes what fits.
LEMMA ReadStreamKeeps ==
    ASSUME TunnelInv, NEW t \in Tunnels, ReadStream(t)
    PROVE  TunnelInv'
<1>1. TunnelTypeOK /\ EndAt(t) /\ OutAt(t) /\ BackAt(t) /\ copier[t]["out"] = "read" /\ held[t]["out"] = <<>>
    BY Zenon DEF TunnelInv, TunnelAt, ReadStream, OutAt
<1>2. PICK h : h = Given(t, "out")
    BY Zenon
<1>3. PICK r1 \in Seq(Nat), p1 \in Seq(Seq(Nat)) :
        /\ h \in Seq(Nat)
        /\ readbuf' \in [Tunnels -> [Ways -> Seq(Nat)]] /\ Sets(readbuf, readbuf', t, "out", r1)
        /\ packets' \in [Tunnels -> [Ways -> Seq(Seq(Nat))]] /\ Sets(packets, packets', t, "out", p1)
        /\ \A a \in Nat : \A e :
             Run(readbuf[t]["out"], a) /\ Chain(packets[t]["out"], a + Len(readbuf[t]["out"]), e)
             => Run(h, a) /\ Run(r1, a + Len(h)) /\ Chain(p1, a + Len(h) + Len(r1), e)
    BY <1>1, <1>2, KeepFacts, TwoWays, Zenon DEF ReadStream
<1>4. held' \in [Tunnels -> [Ways -> Seq(Nat)]] /\ Sets(held, held', t, "out", h)
    <2>1. held \in [Tunnels -> [Ways -> Seq(Nat)]]
        BY <1>1, Zenon DEF TunnelTypeOK
    <2>2. QED
        BY <1>2, <1>3, <2>1, Update, TwoWays, Zenon DEF ReadStream
<1>5. copier' \in [Tunnels -> [Ways -> CopierPlaces]] /\ Sets(copier, copier', t, "out", "write")
    <2>1. copier \in [Tunnels -> [Ways -> CopierPlaces]] /\ "write" \in CopierPlaces
        BY <1>1, Zenon DEF TunnelTypeOK, CopierPlaces
    <2>2. QED
        BY <2>1, Update, TwoWays, Zenon DEF ReadStream
<1>6. TunnelTypeOK'
    BY <1>1, <1>3, <1>4, <1>5, Zenon DEF TunnelTypeOK, ReadStream
<1>7. \A u \in Tunnels : u # t => SameT(u)
    BY <1>3, <1>4, <1>5, Zenon DEF SameT, Sets, ReadStream
<1>8. EndAt(t)'
    <2>1. copier[t] # Both("none")
        BY <1>1, TwoWays, Zenon DEF Both
    <2>2. /\ copier'[t]["out"] = "write" /\ copier'[t]["back"] = copier[t]["back"]
          /\ readbuf'[t]["back"] = readbuf[t]["back"] /\ packets'[t]["back"] = packets[t]["back"]
          /\ UNCHANGED <<client, handler, status, upconn, ended>>
        BY <1>3, <1>5, TwoWays, Zenon DEF Sets, ReadStream
    <2>3. QED
        BY <1>1, <2>1, <2>2, ZenonT(40) DEF EndAt, Cancelled
<1>9. BackAt(t)'
    BY <1>1, <1>3, <1>4, <1>5, TwoWays, BackStays, Zenon DEF Sets, ReadStream
<1>10. ASSUME upconn[t] \in {"none", "open"}
       PROVE  /\ Run(h, Len(got[t]["out"])) /\ Run(r1, Len(got[t]["out"]) + Len(h))
              /\ Chain(p1, Len(got[t]["out"]) + Len(h) + Len(r1), wrote[t]["out"])
    <2>1. PICK n, k : n = Len(got[t]["out"]) /\ k = Len(held[t]["out"])
        BY Zenon
    <2>2. /\ Run(readbuf[t]["out"], n + k) /\ Chain(packets[t]["out"], n + k + Len(readbuf[t]["out"]), wrote[t]["out"])
          /\ got[t]["out"] \in Seq(Nat)
        BY <1>1, <1>10, <2>1, Zenon DEF OutAt, Run
    <2>3. n \in Nat /\ n + k = n
        BY <1>1, <2>1, <2>2
    <2>4. QED
        BY <1>3, <2>1, <2>2, <2>3, Zenon
<1>11. OutAt(t)'
    <2>1. /\ held'[t]["out"] = h /\ readbuf'[t]["out"] = r1 /\ packets'[t]["out"] = p1
          /\ copier'[t]["out"] = "write" /\ UNCHANGED <<got, wrote, upconn>>
        BY <1>3, <1>4, <1>5, Zenon DEF Sets, ReadStream
    <2>2. Run(got[t]["out"], 0) /\ Len(got[t]["out"]) <= wrote[t]["out"]
        BY <1>1, Zenon DEF OutAt
    <2>3. QED
        BY <1>10, <2>1, <2>2, ZenonT(40) DEF OutAt
<1>12. QED
    BY <1>6, <1>7, <1>8, <1>9, <1>11, TunnelKeeps, Zenon

\* It writes what it holds to the upstream, if that is still there.
LEMMA WriteUpstreamKeeps ==
    ASSUME TunnelInv, NEW t \in Tunnels, WriteUpstream(t)
    PROVE  TunnelInv'
<1>1. TunnelTypeOK /\ EndAt(t) /\ OutAt(t) /\ BackAt(t) /\ copier[t]["out"] = "write"
    BY Zenon DEF TunnelInv, TunnelAt, WriteUpstream
<1>2. PICK v \in {"read", "error"} : copier' = [copier EXCEPT ![t]["out"] = v]
    BY Zenon DEF WriteUpstream
<1>3. PICK g, h : g = got[t]["out"] /\ h = held[t]["out"] /\ g \in Seq(Nat) /\ h \in Seq(Nat)
    <2>1. got \in [Tunnels -> [Ways -> Seq(Nat)]] /\ held \in [Tunnels -> [Ways -> Seq(Nat)]]
        BY <1>1, Zenon DEF TunnelTypeOK
    <2>2. QED
        BY <2>1, TwoWays, ZenonT(40)
<1>4. copier' \in [Tunnels -> [Ways -> CopierPlaces]] /\ Sets(copier, copier', t, "out", v)
    <2>1. copier \in [Tunnels -> [Ways -> CopierPlaces]] /\ v \in CopierPlaces
        BY <1>1, Zenon DEF TunnelTypeOK, CopierPlaces
    <2>2. QED
        BY <1>2, <2>1, Update, TwoWays, Zenon
<1>5. held' \in [Tunnels -> [Ways -> Seq(Nat)]] /\ Sets(held, held', t, "out", <<>>)
    <2>1. held \in [Tunnels -> [Ways -> Seq(Nat)]] /\ <<>> \in Seq(Nat)
        BY <1>1 DEF TunnelTypeOK
    <2>2. QED
        BY <2>1, Update, TwoWays, Zenon DEF WriteUpstream
<1>6. /\ got' \in [Tunnels -> [Ways -> Seq(Nat)]]
      /\ \/ Sets(got, got', t, "out", g) /\ upconn[t] \notin {"none", "open"}
         \/ Sets(got, got', t, "out", g \o h) /\ upconn[t] = "open"
    <2>1. got \in [Tunnels -> [Ways -> Seq(Nat)]]
        BY <1>1, Zenon DEF TunnelTypeOK
    <2>2. g \o h \in Seq(Nat)
        BY <1>3
    <2>3. CASE upconn[t] = "open"
        <3>1. got' = [got EXCEPT ![t]["out"] = g \o h]
            BY <1>3, <2>3, Zenon DEF WriteUpstream
        <3>2. QED
            BY <2>1, <2>2, <2>3, <3>1, Update, TwoWays, Zenon
    <2>4. CASE upconn[t] # "open"
        BY <1>3, <2>1, <2>4, Zenon DEF WriteUpstream, Sets
    <2>5. QED
        BY <2>3, <2>4, Zenon
<1>7. TunnelTypeOK'
    BY <1>1, <1>4, <1>5, <1>6, Zenon DEF TunnelTypeOK, WriteUpstream
<1>8. \A u \in Tunnels : u # t => SameT(u)
    BY <1>4, <1>5, <1>6, Zenon DEF SameT, Sets, WriteUpstream
<1>9. EndAt(t)'
    <2>1. copier[t] # Both("none")
        BY <1>1, TwoWays, Zenon DEF Both
    <2>2. QED
        BY <1>1, <1>4, <2>1, TwoWays, ZenonT(40) DEF EndAt, Cancelled, Sets, WriteUpstream
<1>10. BackAt(t)'
    BY <1>1, <1>4, <1>5, <1>6, TwoWays, BackStays, Zenon DEF Sets, WriteUpstream
<1>11. OutAt(t)'
    <2>1. /\ held'[t]["out"] = <<>> /\ UNCHANGED <<readbuf, packets, wrote, upconn>>
        BY <1>5, Zenon DEF Sets, WriteUpstream
    <2>2. CASE upconn[t] # "open"
        <3>1. got'[t]["out"] = got[t]["out"] /\ upconn[t] \notin {"none", "open"}
            BY <1>3, <1>6, <2>2, Zenon DEF Sets
        <3>2. QED
            BY <1>1, <2>1, <3>1, ZenonT(40) DEF OutAt
    <2>3. CASE upconn[t] = "open"
        <3>1. got'[t]["out"] = g \o h
            BY <1>6, <2>3, Zenon DEF Sets
        <3>2. /\ Run(g, 0) /\ Run(h, Len(g)) /\ Run(readbuf[t]["out"], Len(g) + Len(h))
              /\ Chain(packets[t]["out"], Len(g) + Len(h) + Len(readbuf[t]["out"]), wrote[t]["out"])
            BY <1>1, <1>3, <2>3, Zenon DEF OutAt
        <3>3. Run(g \o h, 0) /\ Len(g \o h) = Len(g) + Len(h)
            BY <3>2, RunConcat, Zenon
        <3>4. Len(g \o h) \in Nat /\ Len(readbuf[t]["out"]) \in Nat /\ Len(g \o h) + Len(<<>>) = Len(g) + Len(h)
            <4>1. readbuf[t]["out"] \in Seq(Nat)
                BY <3>2, Zenon DEF Run
            <4>2. Len(readbuf[t]["out"]) \in Nat
                BY <4>1
            <4>3. Len(g) \in Nat /\ Len(h) \in Nat /\ Len(<<>>) = 0
                BY <1>3
            <4>4. Len(g) + Len(h) \in Nat /\ (Len(g) + Len(h)) + Len(<<>>) = Len(g) + Len(h)
                BY <4>3
            <4>5. QED
                BY <3>3, <4>2, <4>4, Zenon
        <3>5. Len(g \o h) <= wrote[t]["out"]
            <4>1. Len(g) + Len(h) + Len(readbuf[t]["out"]) <= wrote[t]["out"] /\ wrote[t]["out"] \in Nat
                BY <3>2, ChainBounds, Zenon
            <4>2. \A a, c, w \in Nat : a + c <= w => a <= w
                OBVIOUS
            <4>3. Len(g \o h) + Len(readbuf[t]["out"]) <= wrote[t]["out"]
                BY <3>3, <4>1, Zenon
            <4>4. QED
                BY <3>4, <4>1, <4>2, <4>3, Zenon
        <3>6. Run(<<>>, Len(g \o h))
            BY RunEmpty, Zenon
        <3>7. QED
            BY <2>1, <3>1, <3>2, <3>3, <3>4, <3>5, <3>6, ZenonT(40) DEF OutAt
    <2>4. QED
        BY <2>2, <2>3, Zenon
<1>12. QED
    BY <1>7, <1>8, <1>9, <1>10, <1>11, TunnelKeeps, Zenon

\* The copier of the way back sends what it holds, or fails.
LEMMA WriteStreamKeeps ==
    ASSUME TunnelInv, NEW t \in Tunnels, WriteStream(t)
    PROVE  TunnelInv'
<1>1. TunnelTypeOK /\ EndAt(t) /\ OutAt(t) /\ BackAt(t) /\ copier[t]["back"] = "write"
    BY Zenon DEF TunnelInv, TunnelAt, WriteStream
<1>2. PICK p, h : p = packets[t]["back"] /\ h = held[t]["back"] /\ p \in Seq(Seq(Nat)) /\ h \in Seq(Nat)
    <2>1. packets \in [Tunnels -> [Ways -> Seq(Seq(Nat))]] /\ held \in [Tunnels -> [Ways -> Seq(Nat)]]
        BY <1>1, Zenon DEF TunnelTypeOK
    <2>2. QED
        BY <2>1, TwoWays, Zenon
<1>3. PICK v \in {"read", "error"} :
        /\ copier' = [copier EXCEPT ![t]["back"] = v]
        /\ packets' = IF v = "read" THEN [packets EXCEPT ![t]["back"] = Append(p, h)] ELSE packets
        /\ v = "read" => handler[t] = "copying"
    BY <1>2, Zenon DEF WriteStream
<1>4. copier' \in [Tunnels -> [Ways -> CopierPlaces]] /\ Sets(copier, copier', t, "back", v)
    <2>1. copier \in [Tunnels -> [Ways -> CopierPlaces]] /\ v \in CopierPlaces
        BY <1>1, Zenon DEF TunnelTypeOK, CopierPlaces
    <2>2. QED
        BY <1>3, <2>1, Update, TwoWays, Zenon
<1>5. held' \in [Tunnels -> [Ways -> Seq(Nat)]] /\ Sets(held, held', t, "back", <<>>)
    <2>1. held \in [Tunnels -> [Ways -> Seq(Nat)]] /\ <<>> \in Seq(Nat)
        BY <1>1 DEF TunnelTypeOK
    <2>2. QED
        BY <2>1, Update, TwoWays, Zenon DEF WriteStream
<1>6. /\ packets' \in [Tunnels -> [Ways -> Seq(Seq(Nat))]]
      /\ Sets(packets, packets', t, "back", IF v = "read" THEN Append(p, h) ELSE p)
    <2>1. packets \in [Tunnels -> [Ways -> Seq(Seq(Nat))]] /\ Append(p, h) \in Seq(Seq(Nat))
        BY <1>1, <1>2, AppendFacts, Zenon DEF TunnelTypeOK
    <2>2. CASE v = "read"
        BY <1>3, <2>1, <2>2, Update, TwoWays, Zenon
    <2>3. CASE v # "read"
        BY <1>2, <1>3, <2>1, <2>3, Zenon DEF Sets
    <2>4. QED
        BY <2>2, <2>3, Zenon
<1>7. TunnelTypeOK'
    BY <1>1, <1>4, <1>5, <1>6, Zenon DEF TunnelTypeOK, WriteStream
<1>8. \A u \in Tunnels : u # t => SameT(u)
    BY <1>4, <1>5, <1>6, Zenon DEF SameT, Sets, WriteStream
<1>9. EndAt(t)'
    <2>1. copier[t] # Both("none")
        BY <1>1, TwoWays, Zenon DEF Both
    <2>2. QED
        BY <1>1, <1>4, <2>1, TwoWays, ZenonT(40) DEF EndAt, Cancelled, Sets, WriteStream
<1>10. OutAt(t)'
    BY <1>1, <1>4, <1>5, <1>6, TwoWays, OutStays, Zenon DEF Sets, WriteStream
<1>11. BackAt(t)'
    <2>1. PICK m \in 0 .. wrote[t]["back"] : /\ Chain(p, Len(got[t]["back"]) + Len(readbuf[t]["back"]), m)
                                           /\ m + Len(h) = wrote[t]["back"] /\ Run(h, m)
        BY <1>1, <1>2, Zenon DEF BackAt
    <2>2. Len(h) > 0 /\ Run(got[t]["back"], 0) /\ Run(readbuf[t]["back"], Len(got[t]["back"]))
        BY <1>1, <1>2, Zenon DEF BackAt
    <2>3. /\ held'[t]["back"] = <<>> /\ copier'[t]["back"] = v /\ UNCHANGED <<got, readbuf, wrote>>
          /\ packets'[t]["back"] = IF v = "read" THEN Append(p, h) ELSE p
        BY <1>4, <1>5, <1>6, Zenon DEF Sets, WriteStream
    <2>4. CASE v = "read"
        <3>1. Chain(Append(p, h), Len(got[t]["back"]) + Len(readbuf[t]["back"]), wrote[t]["back"])
            BY <2>1, <2>2, ChainAppend, Zenon
        <3>2. wrote[t]["back"] \in Nat
            BY <3>1, ChainBounds, Zenon
        <3>3. wrote[t]["back"] \in 0 .. wrote[t]["back"] /\ wrote[t]["back"] + Len(<<>>) = wrote[t]["back"]
            BY <3>2
        <3>4. Run(<<>>, wrote[t]["back"])
            BY RunEmpty, Zenon
        <3>5. QED
            BY <2>2, <2>3, <2>4, <3>1, <3>3, <3>4, ZenonT(40) DEF BackAt
    <2>5. CASE v = "error"
        BY <2>1, <2>2, <2>3, <2>5, ZenonT(40) DEF BackAt
    <2>6. QED
        BY <2>4, <2>5, Zenon
<1>12. QED
    BY <1>7, <1>8, <1>9, <1>10, <1>11, TunnelKeeps, Zenon

-----------------------------------------------------------------------------
(* The tunnels deliver. *)

\* No tunnel is dialled at first (connovergrpc.go:22-45).
LEMMA TunnelInitHolds == TInit => TunnelInv
<1> SUFFICES ASSUME TInit PROVE TunnelInv
    BY Zenon
<1>1. <<>> \in Seq(Nat) /\ <<>> \in Seq(Seq(Nat)) /\ 0 \in Nat
    OBVIOUS
<1>2. /\ Both("none") \in [Ways -> CopierPlaces] /\ Both(0) \in [Ways -> Nat]
      /\ Both(<<>>) \in [Ways -> Seq(Nat)] /\ Both(<<>>) \in [Ways -> Seq(Seq(Nat))]
    BY <1>1, Zenon DEF Both, CopierPlaces
<1>3. TunnelTypeOK
    <2>1. client \in [Tunnels -> {"none", "open", "closed", "failed"}]
        BY <1>1, <1>2, SMTT(30) DEF TInit
    <2>2. handler \in [Tunnels -> {"none", "recv", "creating", "copying", "returned"}]
        BY <1>1, <1>2 DEF TInit
    <2>3. status \in [Tunnels -> {"none", "ok", "error"}]
        BY <1>1, <1>2 DEF TInit
    <2>4. upconn \in [Tunnels -> {"none", "open", "eof", "closed"}]
        BY <1>1, <1>2 DEF TInit
    <2>5. ended \in [Tunnels -> {"no", "eof", "error"}]
        BY <1>1, <1>2, SMTT(30) DEF TInit
    <2>6. copier \in [Tunnels -> [Ways -> CopierPlaces]]
        BY <1>1, <1>2 DEF TInit
    <2>7. held \in [Tunnels -> [Ways -> Seq(Nat)]]
        BY <1>1, <1>2 DEF TInit
    <2>8. readbuf \in [Tunnels -> [Ways -> Seq(Nat)]]
        BY <1>1, <1>2 DEF TInit
    <2>9. packets \in [Tunnels -> [Ways -> Seq(Seq(Nat))]]
        BY <1>1, <1>2 DEF TInit
    <2>10. wrote \in [Tunnels -> [Ways -> Nat]]
        BY <1>1, <1>2 DEF TInit
    <2>11. got \in [Tunnels -> [Ways -> Seq(Nat)]]
        BY <1>1, <1>2 DEF TInit
    <2>12. QED
        BY <2>1, <2>2, <2>3, <2>4, <2>5, <2>6, <2>7, <2>8, <2>9, <2>10, <2>11, ZenonT(40) DEF TunnelTypeOK
<1>4. ASSUME NEW t \in Tunnels
      PROVE  TunnelAt(t)
    <2>1. /\ \A w \in Ways : /\ copier[t][w] = "none" /\ held[t][w] = <<>> /\ readbuf[t][w] = <<>> /\ packets[t][w] = <<>>
                             /\ wrote[t][w] = 0 /\ got[t][w] = <<>>
          /\ client[t] = "none" /\ handler[t] = "none" /\ status[t] = "none"
          /\ upconn[t] = "none" /\ ended[t] = "no" /\ copier[t] = Both("none")
        <3>1. /\ client[t] = "none" /\ handler[t] = "none" /\ status[t] = "none"
              /\ upconn[t] = "none" /\ ended[t] = "no"
            BY Zenon DEF TInit
        <3>2. /\ copier[t] = Both("none") /\ held[t] = Both(<<>>) /\ readbuf[t] = Both(<<>>) /\ packets[t] = Both(<<>>)
              /\ wrote[t] = Both(0) /\ got[t] = Both(<<>>)
            BY Zenon DEF TInit
        <3>3. ASSUME NEW w \in Ways
              PROVE  /\ copier[t][w] = "none" /\ held[t][w] = <<>> /\ readbuf[t][w] = <<>> /\ packets[t][w] = <<>>
                     /\ wrote[t][w] = 0 /\ got[t][w] = <<>>
            BY <3>2 DEF Both
        <3>4. QED
            BY <3>1, <3>2, <3>3, Zenon
    <2>2. Len(<<>>) = 0 /\ 0 + 0 = 0 /\ 0 + 0 + 0 = 0 /\ 0 <= 0 /\ 0 \in 0 .. 0
        OBVIOUS
    <2>3. Run(<<>>, 0) /\ Chain(<<>>, 0, 0)
        BY RunEmpty, ChainEmpty, <1>1, Zenon
    <2>4. OutAt(t)
        BY <2>1, <2>2, <2>3, TwoWays, ZenonT(40) DEF OutAt
    <2>5. BackAt(t)
        BY <2>1, <2>2, <2>3, TwoWays, ZenonT(40) DEF BackAt
    <2>6. EndAt(t)
        BY <2>1, TwoWays, ZenonT(40) DEF EndAt
    <2>7. QED
        BY <2>4, <2>5, <2>6, Zenon DEF TunnelAt
<1>5. QED
    BY <1>3, <1>4, Zenon DEF TunnelInv

\* What may happen to the tunnels of a system that uses them.
TunnelStep == \E t \in Tunnels : DialContext(t) \/ DialContextFails(t) \/ Close(t) \/ Serve(t) \/ Traffic(t)

\* Every step of a handler or a copier keeps the invariant of the tunnels
\* (service.go:39-97, messagestream.go:57-95).
LEMMA TunnelStepHolds ==
    ASSUME TunnelInv, TunnelStep \/ UNCHANGED tvars
    PROVE  TunnelInv'
<1>1. ASSUME NEW t \in Tunnels, Serve(t)
      PROVE  TunnelInv'
    BY <1>1, RecvDialKeeps, HandlerReturnsKeeps, CreateKeeps, ReadStreamKeeps, CopierEndsKeeps,
       WriteUpstreamKeeps, WriteStreamKeeps, ZenonT(40) DEF Serve, ServeAlone
<1>2. ASSUME NEW t \in Tunnels, Traffic(t)
      PROVE  TunnelInv'
    BY <1>2, ReadKeeps, ReadEndsKeeps, UpstreamClosesKeeps, WriteKeeps, ReadUpstreamKeeps, Zenon DEF Traffic
<1>3. ASSUME UNCHANGED tvars
      PROVE  TunnelInv'
    <2>1. \A t \in Tunnels : SameT(t)
        BY <1>3, Zenon DEF tvars, SameT
    <2>2. TunnelTypeOK'
        BY <1>3, Zenon DEF tvars, TunnelInv, TunnelTypeOK
    <2>3. QED
        BY <2>1, <2>2, SameTunnel, Zenon DEF TunnelInv
<1>4. QED
    BY <1>1, <1>2, <1>3, DialContextKeeps, CloseKeeps, Zenon DEF TunnelStep

\* The invariant says what packetReadWriter promises (messagestream.go:57-95):
\* no byte is lost, reordered or read twice.
LEMMA TunnelInvDelivers == TunnelInv => TunnelDelivers
<1> SUFFICES ASSUME TunnelInv, NEW t \in Tunnels
             PROVE  /\ \A w \in Ways : /\ Len(got[t][w]) <= wrote[t][w]
                                       /\ \A i \in 1 .. Len(got[t][w]) : got[t][w][i] = i
                    /\ ended[t] = "eof" => Len(got[t]["back"]) = wrote[t]["back"]
    BY Zenon DEF TunnelDelivers
<1>1. OutAt(t) /\ BackAt(t) /\ EndAt(t) /\ wrote[t]["back"] \in Nat
    <2>1. wrote \in [Tunnels -> [Ways -> Nat]]
        BY Zenon DEF TunnelInv, TunnelTypeOK
    <2>2. QED
        BY <2>1, TwoWays, Zenon DEF TunnelInv, TunnelAt
<1>2. PICK m \in 0 .. wrote[t]["back"] :
        /\ Chain(packets[t]["back"], Len(got[t]["back"]) + Len(readbuf[t]["back"]), m)
        /\ copier[t]["back"] # "error" => m + Len(held[t]["back"]) = wrote[t]["back"]
    BY <1>1, Zenon DEF BackAt
<1>3. Len(got[t]["back"]) \in Nat /\ m \in Nat /\ Len(got[t]["back"]) <= m
    <2>1. got[t]["back"] \in Seq(Nat) /\ readbuf[t]["back"] \in Seq(Nat)
        BY <1>1, Zenon DEF BackAt, Run
    <2>2. m \in Nat /\ Len(got[t]["back"]) + Len(readbuf[t]["back"]) <= m
        BY <1>2, ChainBounds, Zenon
    <2>3. Len(got[t]["back"]) \in Nat /\ Len(readbuf[t]["back"]) \in Nat
        BY <2>1
    <2>4. \A a, c, w \in Nat : a + c <= w => a <= w
        OBVIOUS
    <2>5. QED
        BY <2>2, <2>3, <2>4, Zenon
<1>4. Len(got[t]["back"]) <= wrote[t]["back"] /\ Len(got[t]["out"]) <= wrote[t]["out"]
    <2>1. Len(got[t]["back"]) <= wrote[t]["back"]
        BY <1>1, <1>2, <1>3
    <2>2. QED
        BY <1>1, <2>1, Zenon DEF OutAt
<1>5. ASSUME NEW s, Run(s, 0), NEW i \in 1 .. Len(s)
      PROVE  s[i] = i
    <2>1. s[i] = 0 + i
        BY <1>5, Zenon DEF Run
    <2>2. QED
        BY <2>1
<1>6. \A w \in Ways : \A i \in 1 .. Len(got[t][w]) : got[t][w][i] = i
    BY <1>1, <1>5, TwoWays, ZenonT(40) DEF OutAt, BackAt
<1>7. ASSUME ended[t] = "eof"
      PROVE  Len(got[t]["back"]) = wrote[t]["back"]
    <2>1. copier[t]["back"] = "eof" /\ readbuf[t]["back"] = <<>> /\ packets[t]["back"] = <<>>
        BY <1>1, <1>7, Zenon DEF EndAt
    <2>2. held[t]["back"] = <<>> /\ Len(got[t]["back"]) + Len(readbuf[t]["back"]) = m
        BY <1>1, <1>2, <2>1, Zenon DEF BackAt, Chain
    <2>3. m + Len(held[t]["back"]) = wrote[t]["back"]
        BY <1>2, <2>1, ZenonT(40)
    <2>4. QED
        BY <1>1, <1>3, <2>1, <2>2, <2>3, SMTT(30)
<1>8. QED
    BY <1>4, <1>6, <1>7, TwoWays, Zenon

-----------------------------------------------------------------------------
(* The invariant of the calls. *)

Places == {"boot", "new", "banner", "methods", "choose", "auth", "ki", "kex", "verify", "login",
           "piped", "copy", "ended", "rejected", "failed", "done", "crashed"}

AuthRpcs == {"NoneAuth", "PasswordAuth", "PublicKeyAuth"}

CallShape == call = [rpc |-> call.rpc, meta |-> call.meta, st |-> call.st, ok |-> call.ok,
                     up |-> call.up, methods |-> call.methods]

\* The callbacks are those of the plugin, and a call is the one due at its
\* place.
CallAt ==
    /\ at \in Places /\ CallShape
    /\ installed \subseteq impl /\ (at # "boot" => installed = ListCallbacks)
    /\ call # Idle =>
         /\ call.st \in {"sent", "writing", "logged", "answered"} /\ call.rpc \in installed
         /\ \/ at \in DOMAIN Due /\ call.rpc = Due[at]
            \/ at = "auth" /\ call.rpc \in AuthRpcs

Keys(r) == IF r = NoReply THEN {} ELSE r.keys

\* What the plugin asked for is in the metadata, or in the answer on its way.
MetaAt ==
    /\ call.st = "sent" /\ call.rpc # "PipeCreateError" => call.meta = promised
    /\ at = "auth" /\ call.st = "answered" /\ call.ok =>
         call.up \in Replies \cup {NoReply} /\ promised = meta \cup Keys(call.up)
    /\ at \notin {"failed", "done", "ki"} /\ ~(at = "auth" /\ call.st = "answered" /\ call.ok) =>
         promised = meta

\* A verdict on the host key is the plugin's or that of the known_hosts data.
HostAt ==
    /\ HostKeyChecked
    /\ call.st = "answered" /\ call.ok /\ call.rpc = "VerifyHostKey" => attempt \in approved

\* A plugin that has CreateConn is the only one to dial.
ConnAt ==
    /\ client \in [Tunnels -> {"none", "open", "closed", "failed"}]
    /\ "CreateConn" \in installed => direct = {}
    /\ "CreateConn" \notin installed => \A t \in Tunnels : client[t] = "none"
    /\ at = "boot" => direct = {} /\ \A t \in Tunnels : client[t] = "none"
    /\ at \in {"auth", "ki"} /\ "CreateConn" \in installed => attempt \in Tunnels
    /\ DaemonConnsUsed

-----------------------------------------------------------------------------
(* The invariant of the keyboard-interactive stream. *)

Msgs == [m : {"meta", "prompt", "answer", "finish"}, q : Nat, n : Nat, up : Replies \cup {NoReply}]

KiShape == ki = [daemon |-> ki.daemon, plugin |-> ki.plugin, down |-> ki.down, up |-> ki.up,
                 question |-> ki.question, asked |-> ki.asked, answer |-> ki.answer,
                 status |-> ki.status, meta |-> ki.meta, closed |-> ki.closed, broken |-> ki.broken]

KiTypes ==
    /\ KiShape
    /\ ki.daemon \in {"off", "recv", "asking"}
    /\ ki.plugin \in {"off", "start", "meta", "callback", "await", "end"}
    /\ ki.down \in Seq(Msgs) /\ ki.up \in Seq(Msgs)
    /\ ki.question \in Nat /\ ki.asked \in Nat /\ ki.answer \in Nat
    /\ ki.closed \in BOOLEAN /\ ki.broken \in BOOLEAN

Instruction(msg) == msg.m = "prompt" /\ msg.q = 0

\* The handler has sent instructions, or instructions and then message x.
Instructions(s) == \A i \in 1 .. Len(s) : Instruction(s[i])

Then(s, x) == s # <<>> /\ s[Len(s)] = x /\ \A i \in 1 .. Len(s) - 1 : Instruction(s[i])

\* The daemon does not wait for the answer to a question.
NotAsking == ki.daemon = "asking" => ki.question = 0

\* Who has the turn, by the place of the handler.
Start == ki.daemon = "recv" /\ ki.down = <<>> /\ ki.up = <<>>

Metadata ==
    /\ ki.daemon = "recv"
    /\ \/ ki.down = <<Msg("meta", 0, 0, NoReply)>> /\ ki.up = <<>>
       \/ ki.down = <<>> /\ ki.up = <<Msg("meta", 0, 0, NoReply)>> /\ ki.meta = meta

Callback == ki.up = <<>> /\ NotAsking /\ Instructions(ki.down)

Await ==
    /\ ki.asked # 0
    /\ \/ ki.up = <<>> /\ NotAsking /\ Then(ki.down, Msg("prompt", ki.asked, 0, NoReply))
       \/ ki.down = <<>> /\ ki.up = <<>> /\ ki.daemon = "asking" /\ ki.question = ki.asked
       \/ ki.down = <<>> /\ ki.daemon = "recv" /\ ki.up = <<Msg("answer", ki.asked, 1, NoReply)>>

End ==
    /\ ki.up = <<>> /\ NotAsking
    /\ \/ ki.status = "error" /\ Instructions(ki.down)
       \/ /\ ki.status = "ok"
          /\ \E r \in Replies \cup {NoReply} :
               Then(ki.down, Msg("finish", 0, 0, r)) /\ promised = meta \cup Keys(r)

KiAt ==
    /\ KiTypes
    /\ ki.daemon # "off" <=> at = "ki"
    /\ ~ki.broken /\ ki.answer <= ki.asked
    /\ ki.plugin \in {"callback", "await"} => ki.meta = promised
    /\ ki.daemon # "off" =>
         /\ ~ki.closed /\ ki.plugin # "off"
         /\ ki.plugin = "start" => Start
         /\ ki.plugin = "meta" => Metadata
         /\ ki.plugin = "callback" => Callback
         /\ ki.plugin = "await" => Await
         /\ ki.plugin = "end" => End
         /\ ~(ki.plugin = "end" /\ ki.status = "ok") => promised = meta
    /\ ki.daemon = "off" /\ ki.plugin \notin {"off", "end"} =>
         at \in {"failed", "done"} /\ ki.plugin \in {"callback", "await"} /\ ki.up = <<>>

CallsInv == CallAt /\ MetaAt /\ HostAt /\ ConnAt /\ KiAt

-----------------------------------------------------------------------------
(* Places and records. *)

\* The callbacks of PiperConfig in the order the handshake makes them
\* (grpc.go:74-145): where each is due and what comes after it.
LEMMA PlaceFacts ==
    /\ DOMAIN Due = {"new", "banner", "methods", "verify", "rejected", "piped", "ended", "failed"}
    /\ \A p \in DOMAIN Due : /\ After[p] \in {"banner", "methods", "choose", "login", "copy", "done"}
                             /\ Due[p] \notin AuthRpcs
                             /\ p # "verify" => After[p] # "login" /\ Due[p] # "VerifyHostKey"
                             /\ p # "piped" => After[p] # "copy"
                             /\ p # "failed" => Due[p] # "PipeCreateError"
    /\ After["verify"] = "login" /\ After["piped"] = "copy" /\ After["failed"] = "done"
    /\ Due["verify"] = "VerifyHostKey" /\ Due["failed"] = "PipeCreateError"
BY DEF Due, After, AuthRpcs

\* The methods but the interactive one are unary calls.
LEMMA MethodFacts ==
    \A m \in DOMAIN AuthCallback : m # "keyboard-interactive" => AuthCallback[m] \in AuthRpcs
BY Zenon DEF AuthCallback, AuthRpcs

\* A call moves on without changing what it asks.
LEMMA CallStage ==
    ASSUME CallShape, NEW s, call' = [call EXCEPT !.st = s]
    PROVE  /\ CallShape' /\ call'.st = s /\ call'.rpc = call.rpc /\ call'.meta = call.meta
           /\ call'.ok = call.ok /\ call'.up = call.up
BY Zenon DEF CallShape

\* The plugin's answer ends a call and keeps its method
\* (pluginbase.go:314-392).
LEMMA CallAnswers ==
    ASSUME CallShape, NEW ok, NEW up, NEW ms, Answers(ok, up, ms)
    PROVE  /\ CallShape' /\ call'.st = "answered" /\ call'.rpc = call.rpc
           /\ call'.ok = ok /\ call'.up = up
BY Zenon DEF CallShape, Answers

\* A call is sent with the metadata of the connection (grpc.go:209-220,
\* 465-501).
LEMMA CallSends ==
    ASSUME NEW r, NEW ms, Send(r, ms)
    PROVE  CallShape' /\ call'.st = "sent" /\ call'.rpc = r /\ call'.meta = meta
BY Zenon DEF CallShape, Send, Idle, ToMeta

\* No call is under way once its answer has been used.
LEMMA CallIdles ==
    /\ Idle.st = "idle" /\ Idle.rpc = ""
    /\ call' = Idle => CallShape'
BY Zenon DEF CallShape, Idle

-----------------------------------------------------------------------------
(* What most steps leave alone. *)

InUse == {"kex", "verify", "login", "piped", "copy"}

\* Outside an exchange nothing depends on the stream but what is left of it.
LEMMA KiIdle ==
    ASSUME KiAt, at \notin {"ki", "failed", "done"}, at' # "ki", UNCHANGED ki
    PROVE  KiAt'
<1>1. KiTypes' /\ ki.daemon = "off" /\ ki.plugin \notin {"callback", "await"} /\ ki.plugin \in {"off", "end"}
    BY Zenon DEF KiAt, KiTypes, KiShape
<1>2. QED
    BY <1>1, Zenon DEF KiAt

\* A step outside the stream keeps its invariant.
LEMMA KiStays ==
    ASSUME KiAt, UNCHANGED <<ki, meta, promised>>, at' = "ki" <=> at = "ki",
           at \in {"failed", "done"} => at' \in {"failed", "done"}
    PROVE  KiAt'
<1>1. KiTypes'
    BY Zenon DEF KiAt, KiTypes, KiShape
<1>2. ki.daemon # "off" => /\ ki.plugin = "start" => Start'
                           /\ ki.plugin = "meta" => Metadata'
                           /\ ki.plugin = "callback" => Callback'
                           /\ ki.plugin = "await" => Await'
                           /\ ki.plugin = "end" => End'
    BY Zenon DEF KiAt, Start, Metadata, Callback, Await, End, NotAsking
<1>3. QED
    BY <1>1, <1>2, Zenon DEF KiAt

\* A step that neither dials nor closes keeps the connections
\* (grpc.go:384-426).
LEMMA ConnStays ==
    ASSUME ConnAt, UNCHANGED <<client, direct, installed, attempt>>, at' # "boot", at \in InUse => at' \in InUse,
           at' \in {"auth", "ki"} => at \in {"auth", "ki"}
    PROVE  ConnAt'
BY Zenon DEF ConnAt, DaemonConnsUsed, Opened, Tunnelled, InUse

\* The connection is closed with its attempt.
LEMMA ConnCloses ==
    ASSUME ConnAt, CloseUpstream, UNCHANGED <<installed, attempt>>, at' \notin {"boot", "auth", "ki"}
    PROVE  ConnAt'
<1>1. CASE Tunnelled(attempt)
    <2>1. /\ attempt \in Tunnels /\ client[attempt] = "open" /\ client' = [client EXCEPT ![attempt] = "closed"]
          /\ direct' = direct
        BY <1>1, Zenon DEF CloseUpstream, Close, Closes, Tunnelled
    <2>2. "CreateConn" \in installed /\ direct = {}
        BY <2>1, Zenon DEF ConnAt
    <2>3. client' \in [Tunnels -> {"none", "open", "closed", "failed"}] /\ \A t \in Tunnels : client'[t] # "open"
        <3>1. \A t \in Tunnels : client[t] = "open" => t = attempt
            BY CallsAssumption, ZenonT(40) DEF ConnAt, DaemonConnsUsed, Opened, Tunnelled
        <3>2. QED
            BY <2>1, <3>1, Zenon DEF ConnAt
    <2>4. QED
        BY <2>1, <2>2, <2>3, Zenon DEF ConnAt, DaemonConnsUsed, Opened, Tunnelled
<1>2. CASE ~Tunnelled(attempt)
    <2>1. direct' = direct \ {attempt} /\ UNCHANGED client
        BY <1>2, Zenon DEF CloseUpstream, tvars
    <2>2. \A t \in Attempts : ~Opened(t)'
        BY <1>2, <2>1, Zenon DEF ConnAt, DaemonConnsUsed, Opened, Tunnelled
    <2>3. "CreateConn" \in installed => direct' = {}
        BY <2>1, Zenon DEF ConnAt
    <2>4. QED
        BY <2>1, <2>2, <2>3, ZenonT(40) DEF ConnAt, DaemonConnsUsed
<1>3. QED
    BY <1>1, <1>2, Zenon

\* The connection is dialled for the attempt.
LEMMA ConnDials ==
    ASSUME ConnAt, at \in {"auth", "ki"}, NEW r, DialUpstream(r), UNCHANGED <<installed, attempt>>, at' = "kex"
    PROVE  ConnAt'
<1>1. \A t \in Attempts : ~Opened(t)
    BY Zenon DEF ConnAt, DaemonConnsUsed
<1>2. CASE "CreateConn" \in installed
    <2>1. attempt \in Tunnels /\ client' = [client EXCEPT ![attempt] = "open"] /\ direct' = direct /\ direct = {}
        BY <1>2, Zenon DEF DialUpstream, DialContext, ConnAt
    <2>2. client' \in [Tunnels -> {"none", "open", "closed", "failed"}] /\ \A t \in Tunnels : t # attempt => client'[t] = client[t]
        BY <2>1, Zenon DEF ConnAt
    <2>3. DaemonConnsUsed'
        BY <1>1, <2>1, <2>2, Zenon DEF DaemonConnsUsed, Opened, Tunnelled
    <2>4. QED
        BY <1>2, <2>1, <2>2, <2>3, Zenon DEF ConnAt
<1>3. CASE "CreateConn" \notin installed
    <2>1. direct' = direct \cup {attempt} /\ UNCHANGED client
        BY <1>3, Zenon DEF DialUpstream, tvars
    <2>2. DaemonConnsUsed'
        BY <1>1, <2>1, Zenon DEF DaemonConnsUsed, Opened, Tunnelled
    <2>3. QED
        BY <1>3, <2>1, <2>2, Zenon DEF ConnAt
<1>4. QED
    BY <1>2, <1>3, Zenon

\* A dial that fails opens nothing: the stream it may have made is cancelled
\* (grpc.go:392-396, service.go:107-118).
LEMMA ConnFails ==
    ASSUME ConnAt, at \in {"auth", "ki"}, DialFails, UNCHANGED <<installed, attempt>>
    PROVE  ConnAt'
<1>1. at' = "methods" /\ direct' = direct /\ \A t \in Attempts : ~Opened(t)
    BY Zenon DEF ConnAt, DaemonConnsUsed, DialFails
<1>2. CASE UNCHANGED client
    BY <1>1, <1>2, Zenon DEF ConnAt, DaemonConnsUsed, Opened, Tunnelled
<1>3. CASE ~UNCHANGED client
    <2>1. "CreateConn" \in installed /\ attempt \in Tunnels /\ client' = [client EXCEPT ![attempt] = "failed"]
        BY <1>3, Zenon DEF DialFails, DialContextFails, ConnAt, tvars
    <2>2. /\ client' \in [Tunnels -> {"none", "open", "closed", "failed"}] /\ client'[attempt] = "failed"
          /\ \A t \in Tunnels : t # attempt => client'[t] = client[t]
        BY <2>1, Zenon DEF ConnAt
    <2>3. DaemonConnsUsed'
        BY <1>1, <2>2, Zenon DEF DaemonConnsUsed, Opened, Tunnelled
    <2>4. QED
        BY <1>1, <2>1, <2>2, <2>3, Zenon DEF ConnAt
<1>4. QED
    BY <1>2, <1>3, Zenon

\* A verdict on the host key stands until the next attempt
\* (grpc.go:428-463).
LEMMA HostStays ==
    ASSUME HostAt, at' \in {"login", "piped", "copy"} => at \in {"login", "piped", "copy"} /\ UNCHANGED <<impl, attempt, approved, reply>>,
           call'.st = "answered" => UNCHANGED <<call, attempt, approved>>
    PROVE  HostAt'
BY Zenon DEF HostAt, HostKeyChecked

-----------------------------------------------------------------------------
(* The unary calls. *)

\* The daemon asks the plugin for its callbacks (grpc.go:60-148).
LEMMA InstallKeeps ==
    ASSUME CallsInv, InstallPiperConfig
    PROVE  CallsInv'
<1> USE DEF CallsInv
<1>1. /\ at = "boot" /\ at' = "new" /\ installed' = ListCallbacks /\ installed' \subseteq impl'
      /\ UNCHANGED <<impl, call, meta, promised, ki, reply, approved, direct, attempt, client>>
    BY Zenon DEF InstallPiperConfig, ListCallbacks, tvars
<1>2. call = Idle /\ call.st = "idle"
    BY <1>1, PlaceFacts, CallIdles, Zenon DEF CallAt
<1>3. CallAt'
    BY <1>1, <1>2, Zenon DEF CallAt, CallShape, Places, ListCallbacks
<1>4. MetaAt'
    BY <1>1, <1>2, Zenon DEF MetaAt
<1>5. HostAt'
    BY <1>1, <1>2, HostStays, Zenon
<1>6. ConnAt'
    BY <1>1, Zenon DEF ConnAt, DaemonConnsUsed, Opened, Tunnelled
<1>7. KiAt'
    BY <1>1, KiIdle, ZenonT(40)
<1>8. QED
    BY <1>3, <1>4, <1>5, <1>6, <1>7, Zenon

\* The daemon makes the call that is due (grpc.go:569-602).
LEMMA InvokeKeeps ==
    ASSUME CallsInv, Invoke
    PROVE  CallsInv'
<1> USE DEF CallsInv
<1>1. /\ at \in DOMAIN Due /\ Due[at] \in installed /\ call = Idle /\ call.st = "idle"
      /\ UNCHANGED <<impl, installed, at, attempt, meta, promised, ki, reply, approved, direct, client>>
    BY CallIdles, Zenon DEF Invoke, tvars
<1>2. CallShape' /\ call'.st = "sent" /\ call'.rpc = Due[at] /\ call'.meta = meta
    BY CallSends, Zenon DEF Invoke
<1>3. at \notin {"boot", "auth", "ki", "done"} /\ (call'.rpc # "PipeCreateError" => at # "failed")
    BY <1>1, <1>2, PlaceFacts, SMTT(30)
<1>4. CallAt'
    BY <1>1, <1>2, Zenon DEF CallAt, ListCallbacks
<1>5. MetaAt'
    BY <1>1, <1>2, <1>3, Zenon DEF MetaAt
<1>6. HostAt'
    BY <1>1, <1>2, HostStays, Zenon
<1>7. ConnAt'
    BY <1>1, <1>3, ConnStays, Zenon
<1>8. KiAt'
    BY <1>1, <1>3, KiStays, ZenonT(40)
<1>9. QED
    BY <1>4, <1>5, <1>6, <1>7, <1>8, Zenon

\* The plugin has no such callback, and the daemon goes on without it
\* (grpc.go:192-207).
LEMMA SkipKeeps ==
    ASSUME CallsInv, Skip
    PROVE  CallsInv'
<1> USE DEF CallsInv
<1>1. /\ at \in DOMAIN Due /\ at # "verify" /\ Due[at] \notin installed /\ at' = After[at]
      /\ UNCHANGED <<impl, installed, call, attempt, meta, promised, ki, reply, approved, direct, client>>
    BY Zenon DEF Skip, tvars
<1>2. call = Idle /\ call.st = "idle" /\ at \notin {"boot", "auth", "ki", "done"}
    BY <1>1, PlaceFacts, CallIdles, Zenon DEF CallAt
<1>3. /\ at' \in {"banner", "methods", "choose", "copy", "done"} /\ (at' = "copy" => at = "piped")
      /\ (at = "failed" => at' = "done") /\ (at \in InUse => at' \in InUse)
    BY <1>1, PlaceFacts, Zenon DEF InUse
<1>4. CallAt'
    BY <1>1, <1>2, <1>3, Zenon DEF CallAt, CallShape, ListCallbacks, Places
<1>5. MetaAt'
    BY <1>1, <1>2, <1>3, Zenon DEF MetaAt
<1>6. HostAt'
    BY <1>1, <1>2, <1>3, HostStays, ZenonT(40)
<1>7. ConnAt'
    BY <1>1, <1>3, ConnStays, Zenon
<1>8. KiAt'
    BY <1>1, <1>2, <1>3, KiStays, Zenon
<1>9. QED
    BY <1>4, <1>5, <1>6, <1>7, <1>8, Zenon

\* A handler that logs.
LEMMA HandlerLogsKeeps ==
    ASSUME CallsInv, HandlerLogs \/ HandlerWrites
    PROVE  CallsInv'
<1> USE DEF CallsInv
<1>1. PICK s \in {"writing", "logged"} : call' = [call EXCEPT !.st = s]
    BY Zenon DEF HandlerLogs, HandlerWrites
<1>2. /\ UNCHANGED <<impl, installed, at, attempt, meta, promised, ki, reply, approved, direct, client>>
      /\ call.st \in {"sent", "writing"}
    BY Zenon DEF HandlerLogs, HandlerWrites, tvars
<1>3. CallShape' /\ call'.st = s /\ call'.rpc = call.rpc
    BY <1>1, CallStage, Zenon DEF CallAt
<1>4. call # Idle /\ at # "boot"
    BY <1>2, CallIdles, PlaceFacts, Zenon DEF CallAt
<1>5. CallAt'
    BY <1>2, <1>3, <1>4, Zenon DEF CallAt, ListCallbacks
<1>6. MetaAt'
    BY <1>2, <1>3, Zenon DEF MetaAt
<1>7. HostAt'
    BY <1>2, <1>3, HostStays, Zenon
<1>8. ConnAt'
    BY <1>2, <1>4, ConnStays, Zenon
<1>9. KiAt'
    BY <1>2, KiStays, Zenon
<1>10. QED
    BY <1>5, <1>6, <1>7, <1>8, <1>9, Zenon

\* A handler that answers; only an authentication may ask for metadata, and
\* only the answer to VerifyHostKey says that the key was approved.
LEMMA AnswerKeeps ==
    ASSUME CallsInv, Answering, NEW ok, NEW up, NEW ms, Answers(ok, up, ms),
           UNCHANGED <<impl, installed, at, attempt, meta, ki, reply, direct, client>>,
           approved \subseteq approved', call.rpc = "VerifyHostKey" /\ ok => attempt \in approved',
           at = "auth" /\ ok => up \in Replies \cup {NoReply} /\ promised' = promised \cup Keys(up),
           ~(at = "auth" /\ ok) => promised' = promised
    PROVE  CallsInv'
<1> USE DEF CallsInv
<1>1. call.st \in {"sent", "logged"} /\ call # Idle /\ at \notin {"boot", "ki", "done"}
    BY CallIdles, PlaceFacts, Zenon DEF CallAt, Answering
<1>2. CallShape' /\ call'.st = "answered" /\ call'.rpc = call.rpc /\ call'.ok = ok /\ call'.up = up
    BY CallAnswers, Zenon DEF CallAt
<1>3. CallAt'
    BY <1>1, <1>2, Zenon DEF CallAt, ListCallbacks
<1>4. MetaAt'
    BY <1>1, <1>2, Zenon DEF MetaAt
<1>5. HostAt'
    BY <1>1, <1>2, Zenon DEF HostAt, HostKeyChecked
<1>6. ConnAt'
    BY <1>1, ConnStays, Zenon
<1>7. KiAt'
    BY <1>1, KiStays, KiIdle, Zenon
<1>8. QED
    BY <1>3, <1>4, <1>5, <1>6, <1>7, Zenon

\* The plugin handles a call (pluginbase.go:314-392).
LEMMA HandleKeeps ==
    ASSUME CallsInv, Handle
    PROVE  CallsInv'
<1> USE DEF CallsInv
<1>1. UNCHANGED <<impl, installed, at, attempt, meta, ki, reply, direct, client>>
    BY Zenon DEF Handle, tvars
<1>2. ASSUME Answering
      PROVE  /\ call.rpc \in impl
             /\ at = "auth" => call.rpc \in AuthRpcs
             /\ call.rpc \in AuthRpcs => at = "auth"
    BY <1>2, CallIdles, PlaceFacts, Zenon DEF CallAt, Answering
<1>3. CASE HandleVerdict
    <2>1. PICK ok \in BOOLEAN :
            /\ Answers(ok /\ call.rpc \in impl, NoReply, <<>>)
            /\ approved' = IF ok /\ call.rpc = "VerifyHostKey" THEN approved \cup {attempt} ELSE approved
        BY <1>3, Zenon DEF HandleVerdict
    <2>2. /\ Answering /\ promised' = promised /\ at # "auth" /\ approved \subseteq approved'
          /\ (call.rpc = "VerifyHostKey" /\ (ok /\ call.rpc \in impl) => attempt \in approved')
        BY <1>2, <1>3, <2>1, Zenon DEF HandleVerdict, AuthRpcs
    <2>3. QED
        BY <1>1, <2>1, <2>2, AnswerKeeps, Zenon
<1>4. CASE HandleNextAuthMethods \/ HandleNotice
    <2>1. PICK ok, ms : Answers(ok, NoReply, ms)
        BY <1>4, Zenon DEF HandleNextAuthMethods, HandleNotice
    <2>2. /\ Answering /\ UNCHANGED <<promised, approved>> /\ at # "auth" /\ call.rpc # "VerifyHostKey"
        BY <1>2, <1>4, Zenon DEF HandleNextAuthMethods, HandleNotice, AuthRpcs
    <2>3. QED
        BY <1>1, <2>1, <2>2, AnswerKeeps, Zenon
<1>5. CASE HandleAuth
    <2>1. Answering /\ UNCHANGED approved /\ call.rpc # "VerifyHostKey" /\ at = "auth" /\ call.rpc \in impl
        BY <1>2, <1>5, Zenon DEF HandleAuth, AuthRpcs
    <2>2. \/ Answers(FALSE, NoReply, <<>>) /\ UNCHANGED promised
          \/ \E r \in Replies \cup {NoReply} : Answers(TRUE, r, <<>>) /\ promised' = promised \cup Keys(r)
        BY <1>5, <2>1, ZenonT(40) DEF HandleAuth, Keys
    <2>3. QED
        BY <1>1, <2>1, <2>2, AnswerKeeps, ZenonT(40)
<1>6. QED
    BY <1>3, <1>4, <1>5, Zenon DEF Handle

-----------------------------------------------------------------------------
(* The attempt that succeeds or fails. *)

\* An attempt fails and the client may try another method: what the plugin
\* asked for is in the metadata by then (grpc.go:465-501).
LEMMA AttemptFailsKeeps ==
    ASSUME CallAt, HostAt, ConnAt, at \in {"auth", "ki"}, AttemptFails \/ DialFails, meta' = promised, call' = Idle,
           UNCHANGED <<impl, installed, attempt, promised, approved>>
    PROVE  CallAt' /\ MetaAt' /\ HostAt' /\ ConnAt' /\ at' = "methods"
<1>1. at' = "methods" /\ UNCHANGED <<direct, reply>> /\ call'.st = "idle"
    BY CallIdles, Zenon DEF AttemptFails, DialFails
<1>2. CallAt'
    BY <1>1, CallIdles, Zenon DEF CallAt, Places, ListCallbacks
<1>3. MetaAt' /\ HostAt'
    BY <1>1, HostStays, Zenon DEF MetaAt
<1>4. ConnAt'
    <2>1. CASE AttemptFails
        BY <1>1, <2>1, ConnStays, Zenon DEF InUse, AttemptFails, tvars
    <2>2. CASE DialFails
        BY <2>2, ConnFails, Zenon
    <2>3. QED
        BY <2>1, <2>2, Zenon
<1>5. QED
    BY <1>1, <1>2, <1>3, <1>4, ZenonT(40)

\* The answer to an authentication is turned into an upstream
\* (grpc.go:279-382): dialled, refused, or a retry of the authentication.
LEMMA CreateUpstreamKeeps ==
    ASSUME CallAt, HostAt, ConnAt, at \in {"auth", "ki"}, NEW r \in Replies, CreateUpstream(r), call' = Idle,
           promised = meta \cup r.keys, UNCHANGED <<impl, installed, attempt, promised, approved>>
    PROVE  CallAt' /\ MetaAt' /\ HostAt' /\ ConnAt' /\ at' \in {"methods", "kex"}
<1>1. r.kind = "upstream" => promised = meta
    <2>1. r.kind = "upstream" => r.keys = {}
        BY CallsAssumption, Zenon
    <2>2. QED
        BY <2>1, Zenon
<1>2. CASE (AttemptFails \/ DialFails) /\ meta' = promised
    BY <1>2, AttemptFailsKeeps, Zenon
<1>3. CASE DialUpstream(r) /\ at' = "kex" /\ meta' = promised
    <2>1. call'.st = "idle"
        BY CallIdles, Zenon
    <2>2. CallAt'
        BY <1>3, CallIdles, Zenon DEF CallAt, Places, ListCallbacks
    <2>3. MetaAt' /\ HostAt'
        BY <1>3, <2>1, HostStays, Zenon DEF MetaAt
    <2>4. ConnAt'
        BY <1>3, ConnDials, Zenon
    <2>5. QED
        BY <1>3, <2>2, <2>3, <2>4, Zenon
<1>4. QED
    BY <1>1, <1>2, <1>3, Zenon DEF CreateUpstream

\* The upstream is given up.
LEMMA GiveUpKeeps ==
    ASSUME CallsInv, at \notin {"boot", "ki", "failed", "done"}, CloseUpstream, at' \in {"methods", "rejected", "ended"},
           call' = Idle, promised = meta,
           UNCHANGED <<impl, installed, attempt, meta, promised, ki, approved>>
    PROVE  CallsInv'
<1> USE DEF CallsInv
<1>1. call'.st = "idle" /\ at' \in Places /\ at' \notin {"boot", "auth", "ki", "login", "piped", "copy"}
    BY CallIdles, Zenon DEF Places
<1>2. CallAt'
    <2>1. installed = ListCallbacks
        BY Zenon DEF CallAt
    <2>2. QED
        BY <1>1, <2>1, CallIdles, Zenon DEF CallAt, ListCallbacks
<1>3. MetaAt' /\ HostAt'
    BY <1>1, HostStays, Zenon DEF MetaAt
<1>4. ConnAt'
    BY <1>1, ConnCloses, Zenon
<1>5. KiAt'
    BY <1>1, KiIdle, Zenon
<1>6. QED
    BY <1>2, <1>3, <1>4, <1>5, Zenon

\* The daemon receives the answer to a call (grpc.go:465-501).
LEMMA ReceiveKeeps ==
    ASSUME CallsInv, Receive
    PROVE  CallsInv'
<1> USE DEF CallsInv
<1>1. /\ call.st = "answered" /\ call' = Idle /\ call'.st = "idle" /\ call # Idle
      /\ UNCHANGED <<impl, installed, attempt, promised, ki, approved>>
    BY CallIdles, Zenon DEF Receive
<1>2. at \in DOMAIN Due \cup {"auth"} /\ call.rpc \in installed /\ (at \in DOMAIN Due => call.rpc = Due[at])
    BY <1>1, PlaceFacts, Zenon DEF CallAt, AuthRpcs
<1>3. at \notin {"boot", "ki", "done"}
    BY <1>2, PlaceFacts, Zenon
<1>4. CASE at = "auth" /\ call.ok /\ call.up # NoReply /\ CreateUpstream(call.up)
    <2>1. call.up \in Replies /\ promised = meta \cup call.up.keys
        BY <1>1, <1>4, Zenon DEF MetaAt, Keys
    <2>2. CallAt' /\ MetaAt' /\ HostAt' /\ ConnAt' /\ at' \in {"methods", "kex"}
        BY <1>1, <1>4, <2>1, CreateUpstreamKeeps, Zenon
    <2>3. QED
        BY <1>1, <1>4, <2>2, KiIdle, Zenon
<1>5. CASE at = "auth" /\ ~call.ok /\ AttemptFails /\ UNCHANGED meta
    <2>1. promised = meta
        BY <1>5, Zenon DEF MetaAt
    <2>2. CallAt' /\ MetaAt' /\ HostAt' /\ ConnAt' /\ at' = "methods"
        BY <1>1, <1>5, <2>1, AttemptFailsKeeps, Zenon
    <2>3. QED
        BY <1>1, <1>5, <2>2, KiIdle, ZenonT(40)
<1>6. CASE at = "verify" /\ at' = "methods" /\ CloseUpstream /\ UNCHANGED meta
    <2>1. promised = meta
        BY <1>6, ZenonT(40) DEF MetaAt
    <2>2. QED
        BY <1>1, <1>6, <2>1, GiveUpKeeps, Zenon
<1>7. ASSUME at # "auth", at' # "boot", at' \in Places \ {"auth", "ki"}, UNCHANGED <<meta, direct, reply, client>>,
             at \in InUse => at' \in InUse, at = "failed" => at' = "done",
             at' \in {"login", "piped", "copy"} => at = "piped" \/ (at = "verify" /\ call.ok)
      PROVE  CallsInv'
    <2>1. CallAt'
        BY <1>1, <1>3, <1>7, CallIdles, Zenon DEF CallAt, ListCallbacks
    <2>2. MetaAt'
        BY <1>1, <1>3, <1>7, ZenonT(40) DEF MetaAt
    <2>3. HostAt'
        <3>1. CASE at = "verify" /\ call.ok
            <4>1. "VerifyHostKey" \in impl /\ call.rpc = "VerifyHostKey"
                BY <1>2, <3>1, PlaceFacts, ZenonT(40) DEF CallAt
            <4>2. attempt \in approved
                BY <1>1, <3>1, <4>1, Zenon DEF HostAt
            <4>3. QED
                BY <1>1, <4>1, <4>2, Zenon DEF HostAt, HostKeyChecked
        <3>2. CASE ~(at = "verify" /\ call.ok)
            BY <1>1, <1>7, <3>2, HostStays, ZenonT(40)
        <3>3. QED
            BY <3>1, <3>2, ZenonT(40)
    <2>4. ConnAt'
        BY <1>1, <1>7, ConnStays, ZenonT(40)
    <2>5. KiAt'
        BY <1>1, <1>3, <1>7, KiStays, Zenon
    <2>6. QED
        BY <2>1, <2>2, <2>3, <2>4, <2>5, Zenon
<1>8. CASE at \in {"new", "methods"} /\ at' = "failed" /\ UNCHANGED <<meta, direct, reply, tvars>>
    BY <1>7, <1>8, Zenon DEF Places, InUse, tvars
<1>9. CASE /\ at # "auth" /\ (call.ok \/ at \notin {"new", "methods", "verify"})
           /\ at' = After[at] /\ UNCHANGED <<meta, direct, reply, tvars>>
    <2>1. /\ at \in DOMAIN Due /\ at' \in {"banner", "methods", "choose", "login", "copy", "done"}
          /\ (at = "failed" => at' = "done") /\ (at = "piped" => at' = "copy") /\ (at = "verify" => at' = "login")
          /\ (at' = "login" => at = "verify") /\ (at' = "copy" => at = "piped")
        BY <1>2, <1>9, PlaceFacts, ZenonT(40)
    <2>2. at \in InUse => at' \in InUse
        BY <2>1, PlaceFacts, Zenon DEF InUse
    <2>3. at' \in Places \ {"auth", "ki"} /\ at' # "boot" /\ UNCHANGED client
        BY <1>9, <2>1, ZenonT(40) DEF Places, tvars
    <2>4. at' \in {"login", "piped", "copy"} => at = "piped" \/ (at = "verify" /\ call.ok)
        <3>1. at' \in {"login", "piped", "copy"} => at = "piped" \/ at = "verify"
            BY <2>1, Zenon
        <3>2. at = "verify" => call.ok
            BY <1>9, Zenon
        <3>3. QED
            BY <3>1, <3>2, Zenon
    <2>5. QED
        BY <1>7, <1>9, <2>1, <2>2, <2>3, <2>4, ZenonT(40)
<1>10. CASE /\ at = "auth" /\ call.ok /\ call.up = NoReply
            /\ at' = "crashed" /\ UNCHANGED <<meta, direct, reply, tvars>>
    <2>1. promised = meta /\ UNCHANGED client
        BY <1>1, <1>10, Zenon DEF MetaAt, Keys, tvars
    <2>2. CallAt'
        BY <1>1, <1>10, CallIdles, Zenon DEF CallAt, Places, ListCallbacks
    <2>3. MetaAt' /\ HostAt'
        BY <1>1, <1>10, <2>1, HostStays, Zenon DEF MetaAt
    <2>4. ConnAt'
        BY <1>1, <1>10, <2>1, ConnStays, Zenon DEF InUse
    <2>5. KiAt'
        BY <1>1, <1>10, KiIdle, Zenon
    <2>6. QED
        BY <2>2, <2>3, <2>4, <2>5, Zenon
<1>11. QED
    BY <1>4, <1>5, <1>6, <1>8, <1>9, <1>10, ZenonT(40) DEF Receive

-----------------------------------------------------------------------------
(* The upstream's host key, its login and its end. *)

\* The daemon waits for its plugin only at the places where a call is due.
LEMMA IdleOutsideCalls ==
    ASSUME CallsInv, (at \notin DOMAIN Due /\ at # "auth") \/ (at = "verify" /\ "VerifyHostKey" \notin installed)
    PROVE  call = Idle
<1>1. CASE at \notin DOMAIN Due /\ at # "auth"
    BY <1>1, Zenon DEF CallsInv, CallAt
<1>2. CASE at = "verify" /\ "VerifyHostKey" \notin installed
    <2>1. at # "auth" /\ Due[at] \notin installed
        BY <1>2, PlaceFacts, Zenon
    <2>2. QED
        BY <2>1, Zenon DEF CallsInv, CallAt
<1>3. QED
    BY <1>1, <1>2, Zenon

\* The daemon goes on to the next place with its upstream.
LEMMA GoOnKeeps ==
    ASSUME CallsInv, at \in InUse, at' \in InUse, call = Idle, HostKeyChecked',
           UNCHANGED <<impl, installed, attempt, meta, promised, call, ki, approved, direct, client>>
    PROVE  CallsInv'
<1> USE DEF CallsInv
<1>1. call'.st = "idle" /\ call'.st = "idle"
    BY CallIdles, Zenon
<1>2. at' \in Places \ {"boot", "auth", "ki", "failed", "done"} /\ at \notin {"boot", "auth", "ki", "failed", "done"}
    BY Zenon DEF Places, InUse
<1>3. CallAt'
    BY <1>2, CallIdles, Zenon DEF CallAt, ListCallbacks
<1>4. MetaAt' /\ HostAt'
    BY <1>1, <1>2, Zenon DEF MetaAt, HostAt
<1>5. ConnAt' /\ KiAt'
    BY <1>2, ConnStays, KiIdle, Zenon
<1>6. QED
    BY <1>3, <1>4, <1>5, Zenon

\* The steps of the handshake with the upstream: key exchange, the check of
\* its host key (grpc.go:428-463), login and the end of the pipe.
LEMMA UpstreamKeeps ==
    ASSUME CallsInv, KeyExchange \/ CheckHostKey \/ Login \/ PipeEnds
    PROVE  CallsInv'
<1>1. /\ at \in {"kex", "verify", "login", "copy"} /\ (at = "verify" => "VerifyHostKey" \notin installed)
      /\ UNCHANGED <<impl, installed, attempt, meta, promised, call, ki, reply, approved>>
    BY Zenon DEF KeyExchange, CheckHostKey, Login, PipeEnds
<1>2. call = Idle /\ promised = meta
    <2>1. call = Idle
        <3>1. (at \notin DOMAIN Due /\ at # "auth") \/ at = "verify"
            BY <1>1, PlaceFacts, ZenonT(40)
        <3>2. QED
            BY <1>1, <3>1, IdleOutsideCalls, Zenon
    <2>2. QED
        BY <1>1, <2>1, Zenon DEF CallsInv, MetaAt
<1>3. CASE CloseUpstream /\ at' \in {"methods", "rejected", "ended"}
    BY <1>1, <1>2, <1>3, GiveUpKeeps, Zenon
<1>4. CASE UNCHANGED <<direct, tvars>> /\ at' \in {"verify", "login", "piped"} /\ HostKeyChecked'
    <2>1. at \in InUse /\ at' \in InUse /\ UNCHANGED <<direct, client>>
        BY <1>1, <1>4, Zenon DEF InUse, tvars
    <2>2. QED
        BY <1>1, <1>2, <1>4, <2>1, GoOnKeeps, ZenonT(40)
<1>5. CASE KeyExchange
    BY <1>3, <1>4, <1>5, Zenon DEF KeyExchange, HostKeyChecked
<1>6. CASE CheckHostKey
    <2>1. CASE at' = "login" /\ UNCHANGED <<direct, tvars>> /\ BuildHostKeyCallback(reply)
        <3>1. "VerifyHostKey" \notin impl
            BY <1>1, <1>6, Zenon DEF CheckHostKey, CallsInv, CallAt, ListCallbacks
        <3>2. HostKeyChecked'
            BY <1>1, <2>1, <3>1, Zenon DEF HostKeyChecked, BuildHostKeyCallback
        <3>3. QED
            BY <1>4, <2>1, <3>2, Zenon
    <2>2. CASE at' = "methods" /\ CloseUpstream
        BY <1>3, <2>2, Zenon
    <2>3. QED
        BY <1>6, <2>1, <2>2, Zenon DEF CheckHostKey
<1>7. CASE Login
    <2>1. at = "login" /\ HostKeyChecked
        BY <1>7, Zenon DEF Login, CallsInv, HostAt
    <2>2. at' = "piped" => HostKeyChecked'
        BY <1>1, <2>1, Zenon DEF HostKeyChecked
    <2>3. QED
        BY <1>3, <1>4, <1>7, <2>2, Zenon DEF Login
<1>8. CASE PipeEnds
    BY <1>3, <1>8, Zenon DEF PipeEnds
<1>9. QED
    BY <1>5, <1>6, <1>7, <1>8, ZenonT(40)

\* The client leaves before it has chosen a method.
LEMMA LeaveKeeps ==
    ASSUME CallsInv, Leave
    PROVE  CallsInv'
<1> USE DEF CallsInv
<1>1. /\ at = "choose" /\ at' = "failed"
      /\ UNCHANGED <<impl, installed, attempt, meta, promised, call, ki, reply, approved, direct, client>>
    BY Zenon DEF Leave, tvars
<1>2. call = Idle /\ call.st = "idle"
    <2>1. at \notin DOMAIN Due /\ at # "auth"
        BY <1>1, PlaceFacts, Zenon
    <2>2. QED
        BY <2>1, IdleOutsideCalls, CallIdles, Zenon
<1>3. CallAt'
    BY <1>1, <1>2, CallIdles, Zenon DEF CallAt, Places, ListCallbacks
<1>4. MetaAt' /\ HostAt'
    BY <1>1, <1>2, HostStays, Zenon DEF MetaAt
<1>5. ConnAt' /\ KiAt'
    BY <1>1, ConnStays, KiIdle, ZenonT(40) DEF InUse
<1>6. QED
    BY <1>3, <1>4, <1>5, Zenon

-----------------------------------------------------------------------------
(* The keyboard-interactive stream. *)

\* The four messages of the stream (pluginbase.go:394-471): the metadata,
LEMMA MetaMessage == Msg("meta", 0, 0, NoReply) \in Msgs /\ Msg("meta", 0, 0, NoReply).m = "meta"
BY Zenon DEF Msg, Msgs

\* a prompt,
LEMMA PromptMessage ==
    \A q \in Nat : LET x == Msg("prompt", q, 0, NoReply) IN x \in Msgs /\ x.m = "prompt" /\ x.q = q
BY Zenon DEF Msg, Msgs

\* the answers of the client,
LEMMA AnswerMessage ==
    \A q \in Nat : LET x == Msg("answer", q, 1, NoReply) IN x \in Msgs /\ x.m = "answer" /\ x.q = q /\ x.n = 1
BY Zenon DEF Msg, Msgs

\* and the end, with the upstream if there is one.
LEMMA FinishMessage ==
    \A r \in Replies \cup {NoReply} : LET x == Msg("finish", 0, 0, r) IN x \in Msgs /\ x.m = "finish" /\ x.up = r
BY Zenon DEF Msg, Msgs

\* The daemon receives one message of the stream (grpc.go:512-566): the rest
\* are still instructions,
LEMMA TailInstructions ==
    ASSUME NEW s \in Seq(Msgs), s # <<>>, Instructions(s)
    PROVE  Instruction(Head(s)) /\ Instructions(Tail(s)) /\ Tail(s) \in Seq(Msgs) /\ Head(s) \in Msgs
<1>1. Len(s) \in Nat /\ Len(s) > 0 /\ Head(s) = s[1] /\ s[1] \in Msgs /\ Tail(s) \in Seq(Msgs) /\ Len(Tail(s)) = Len(s) - 1
    OBVIOUS
<1>2. \A i \in 1 .. Len(Tail(s)) : Tail(s)[i] = s[i + 1] /\ i + 1 \in 1 .. Len(s)
    BY <1>1
<1>3. 1 \in 1 .. Len(s)
    BY <1>1, SMTT(30)
<1>4. QED
    BY <1>1, <1>2, <1>3, Zenon DEF Instructions

\* or instructions and the message that gives it the turn, unless that was it.
LEMMA TailThen ==
    ASSUME NEW s \in Seq(Msgs), NEW x, Then(s, x)
    PROVE  /\ Tail(s) \in Seq(Msgs) /\ Head(s) \in Msgs
           /\ \/ Tail(s) = <<>> /\ Head(s) = x
              \/ Instruction(Head(s)) /\ Then(Tail(s), x)
<1>1. s # <<>> /\ s[Len(s)] = x /\ \A i \in 1 .. Len(s) - 1 : Instruction(s[i])
    BY Zenon DEF Then
<1>2. Len(s) \in Nat /\ Len(s) > 0 /\ Head(s) = s[1] /\ s[1] \in Msgs /\ Tail(s) \in Seq(Msgs) /\ Len(Tail(s)) = Len(s) - 1
    BY <1>1
<1>3. CASE Len(s) = 1
    <2>1. Tail(s) = <<>>
        <3>1. \A p \in Seq(Msgs) : Len(p) = 0 => p = <<>>
            OBVIOUS
        <3>2. Len(Tail(s)) = 0
            BY <1>2, <1>3, SMTT(30)
        <3>3. QED
            BY <1>2, <3>1, <3>2, Zenon
    <2>2. QED
        BY <1>1, <1>2, <1>3, <2>1, Zenon
<1>4. CASE Len(s) > 1
    <2>1. \A i \in 1 .. Len(Tail(s)) : Tail(s)[i] = s[i + 1]
        BY <1>2
    <2>2. Tail(s) # <<>> /\ 1 \in 1 .. Len(s) - 1
        <3>1. Len(<<>>) = 0 /\ Len(Tail(s)) # 0
            BY <1>2, <1>4
        <3>2. Tail(s) # <<>>
            BY <3>1, Zenon
        <3>3. QED
            BY <1>2, <1>4, <3>2, SMTT(30)
    <2>3. Tail(s)[Len(Tail(s))] = s[Len(s)]
        BY <1>2, <1>4, <2>1, SMTT(30)
    <2>4. \A i \in 1 .. Len(Tail(s)) - 1 : Tail(s)[i] = s[i + 1] /\ i + 1 \in 1 .. Len(s) - 1
        BY <1>2, <2>1, SMTT(30)
    <2>5. QED
        BY <1>1, <1>2, <2>2, <2>3, <2>4, ZenonT(40) DEF Then
<1>5. QED
    BY <1>2, <1>3, <1>4, SMTT(30)

\* A message is sent behind the ones under way (pluginbase.go:415-438),
LEMMA AppendMessage ==
    ASSUME NEW s \in Seq(Msgs), NEW x \in Msgs
    PROVE  /\ Append(s, x) \in Seq(Msgs)
           /\ Instructions(s) => Then(Append(s, x), x)
           /\ Instructions(s) /\ Instruction(x) => Instructions(Append(s, x))
<1>1. PICK p \in Seq(Msgs) : p = Append(s, x)
    BY AppendFacts, Zenon
<1>2. Len(p) = Len(s) + 1 /\ Len(s) \in Nat /\ p # <<>> /\ p[Len(p)] = x
    BY <1>1, SMTT(30)
<1>3. \A i \in 1 .. Len(p) - 1 : p[i] = s[i] /\ i \in 1 .. Len(s)
    BY <1>1, <1>2, SMTT(30)
<1>4. \A i \in 1 .. Len(p) : i \in 1 .. Len(p) - 1 \/ i = Len(p)
    BY <1>2
<1>5. QED
    BY <1>1, <1>2, <1>3, <1>4, ZenonT(40) DEF Instructions, Then

\* a stream may be empty,
LEMMA NoMessage == <<>> \in Seq(Msgs) /\ Instructions(<<>>) /\ \A x : ~Then(<<>>, x)
<1>1. Len(<<>>) = 0 /\ <<>> \in Seq(Msgs)
    OBVIOUS
<1>2. 1 .. Len(<<>>) = {}
    BY <1>1
<1>3. QED
    BY <1>1, <1>2, Zenon DEF Instructions, Then

\* and a stream that was empty holds the one message sent.
LEMMA OneMessage ==
    ASSUME NEW x \in Msgs
    PROVE  <<x>> \in Seq(Msgs) /\ <<x>> # <<>> /\ Head(<<x>>) = x /\ Tail(<<x>>) = <<>> /\ Append(<<>>, x) = <<x>>
           /\ DOMAIN <<x>> = {1} /\ <<x>>[1] = x
OBVIOUS

\* The steps of the handler leave the daemon alone.
LEMMA HandlerLeaves ==
    ASSUME CallAt, MetaAt, HostAt, ConnAt, promised' = promised \/ at \in {"ki", "failed", "done"},
           UNCHANGED <<impl, installed, at, attempt, meta, call, reply, approved, direct, client>>
    PROVE  CallAt' /\ MetaAt' /\ HostAt' /\ ConnAt'
<1>1. CallAt'
    BY Zenon DEF CallAt, CallShape, ListCallbacks
<1>2. at \in {"ki", "failed", "done"} => call = Idle \/ call.rpc = "PipeCreateError"
    BY PlaceFacts, ZenonT(40) DEF CallAt
<1>3. MetaAt'
    BY <1>2, CallIdles, Zenon DEF MetaAt
<1>4. HostAt' /\ ConnAt'
    BY Zenon DEF HostAt, HostKeyChecked, ConnAt, DaemonConnsUsed, Opened, Tunnelled
<1>5. QED
    BY <1>1, <1>3, <1>4, ZenonT(40)

\* The handler of the plugin asks for the metadata (pluginbase.go:394-403),
LEMMA KIStartKeeps ==
    ASSUME KiAt, KIStart, UNCHANGED <<at, meta>>
    PROVE  KiAt'
<1>1. PICK x \in Msgs : x = Msg("meta", 0, 0, NoReply)
    BY MetaMessage, Zenon
<1>2. /\ KiTypes /\ ki.plugin = "start" /\ ki.daemon = "recv" /\ ki.down = <<>> /\ ki.up = <<>> /\ promised = meta
      /\ ~ki.closed /\ ~ki.broken /\ ki.answer <= ki.asked /\ at = "ki"
    BY Zenon DEF KiAt, KIStart, Start
<1>3. /\ KiShape' /\ ki'.daemon = ki.daemon /\ ki'.plugin = "meta" /\ ki'.down = Append(ki.down, x) /\ ki'.up = ki.up
      /\ ki'.question = ki.question /\ ki'.asked = ki.asked /\ ki'.answer = ki.answer /\ ki'.status = ki.status
      /\ ki'.meta = ki.meta /\ ki'.closed = ki.closed /\ ki'.broken = ki.broken /\ promised' = promised
    BY <1>1, <1>2, Zenon DEF KIStart, KiTypes, KiShape
<1>4. ki'.down = <<x>> /\ <<x>> \in Seq(Msgs)
    BY <1>2, <1>3, OneMessage, ZenonT(40)
<1>5. KiTypes'
    BY <1>2, <1>3, <1>4, ZenonT(40) DEF KiTypes
<1>6. Metadata'
    BY <1>1, <1>2, <1>3, <1>4, ZenonT(40) DEF Metadata
<1>7. QED
    BY <1>2, <1>3, <1>5, <1>6, ZenonT(40) DEF KiAt

\* receives it (pluginbase.go:405-413),
LEMMA KIMetaKeeps ==
    ASSUME KiAt, KIMeta, UNCHANGED <<at, meta>>
    PROVE  KiAt'
<1>1. PICK x \in Msgs : x = Msg("meta", 0, 0, NoReply) /\ x.m = "meta"
    BY MetaMessage, Zenon
<1>2. /\ KiTypes /\ ki.plugin = "meta" /\ ki.daemon = "recv" /\ promised = meta
      /\ ~ki.closed /\ ~ki.broken /\ ki.answer <= ki.asked /\ at = "ki" /\ Metadata
    BY Zenon DEF KiAt, KIMeta, Metadata
<1>3. ki.up = <<x>> /\ ki.down = <<>> /\ ki.meta = meta /\ Head(ki.up) = x /\ ki.up # <<>> /\ Tail(ki.up) = <<>>
    BY <1>1, <1>2, OneMessage, ZenonT(40) DEF KIMeta, Metadata
<1>4. /\ KiShape' /\ ki'.daemon = ki.daemon /\ ki'.plugin = "callback" /\ ki'.down = ki.down /\ ki'.up = Tail(ki.up)
      /\ ki'.question = ki.question /\ ki'.asked = ki.asked /\ ki'.answer = ki.answer /\ ki'.status = ki.status
      /\ ki'.meta = ki.meta /\ ki'.closed = ki.closed /\ ki'.broken = ki.broken /\ promised' = promised
    BY <1>1, <1>2, <1>3, ZenonT(40) DEF KIMeta, KiTypes, KiShape
<1>5. KiTypes'
    BY <1>2, <1>3, <1>4, NoMessage, ZenonT(40) DEF KiTypes
<1>6. Callback'
    BY <1>2, <1>3, <1>4, NoMessage, ZenonT(40) DEF Callback, NotAsking
<1>7. QED
    BY <1>2, <1>3, <1>4, <1>5, <1>6, ZenonT(40) DEF KiAt

\* sends an instruction or a question (pluginbase.go:415-438),
LEMMA KIPromptKeeps ==
    ASSUME KiAt, NEW q \in {0, ki.asked + 1}, KIPrompt(q), UNCHANGED <<at, meta>>
    PROVE  KiAt'
<1>1. /\ KiTypes /\ ki.plugin = "callback" /\ ki.meta = promised /\ ~ki.broken /\ ki.answer <= ki.asked
      /\ ki.asked \in Nat /\ ki.answer \in Nat /\ ki.down \in Seq(Msgs)
    BY Zenon DEF KiAt, KIPrompt, KiTypes
<1>2. q \in Nat /\ ki.asked + 1 \in Nat /\ ki.asked + 1 # 0 /\ ki.answer <= ki.asked + 1
    BY <1>1
<1>3. PICK x \in Msgs : x = Msg("prompt", q, 0, NoReply) /\ x.m = "prompt" /\ x.q = q
    BY <1>2, PromptMessage, Zenon
<1>4. /\ KiShape' /\ ki'.daemon = ki.daemon /\ ki'.plugin = (IF q = 0 THEN "callback" ELSE "await")
      /\ ki'.down = Append(ki.down, x) /\ ki'.up = ki.up
      /\ ki'.question = ki.question /\ ki'.asked = ki.asked + 1 /\ ki'.answer = ki.answer /\ ki'.status = ki.status
      /\ ki'.meta = ki.meta /\ ki'.closed = ki.closed /\ ki'.broken = ki.broken /\ promised' = promised
    BY <1>1, <1>2, <1>3, Zenon DEF KIPrompt, KiTypes, KiShape
<1>5. KiTypes' /\ ki'.plugin \in {"callback", "await"}
    BY <1>1, <1>2, <1>4, AppendMessage, ZenonT(40) DEF KiTypes
<1>6. ki.daemon # "off" => /\ ki'.plugin = "callback" => Callback'
                           /\ ki'.plugin = "await" => Await'
    <2>1. SUFFICES ASSUME ki.daemon # "off"
                   PROVE  /\ ki'.plugin = "callback" => Callback'
                          /\ ki'.plugin = "await" => Await'
        BY ZenonT(40)
    <2>2. ki.up = <<>> /\ NotAsking /\ Instructions(ki.down)
        BY <1>1, <2>1, Zenon DEF KiAt, Callback
    <2>3. Then(ki'.down, x) /\ (Instruction(x) => Instructions(ki'.down))
        <3>1. Then(Append(ki.down, x), x) /\ (Instruction(x) => Instructions(Append(ki.down, x)))
            BY <1>1, <2>2, AppendMessage, Zenon
        <3>2. QED
            BY <1>4, <3>1, Zenon
    <2>4. NotAsking' /\ ki'.up = <<>>
        BY <1>4, <2>2, ZenonT(40) DEF NotAsking
    <2>5. CASE q = 0
        <3>1. ki'.plugin = "callback" /\ Instruction(x)
            BY <1>3, <1>4, <2>5, Zenon DEF Instruction
        <3>2. QED
            BY <2>3, <2>4, <3>1, Zenon DEF Callback
    <2>6. CASE q # 0
        <3>1. ki'.plugin = "await" /\ q = ki'.asked /\ ki'.asked # 0
            BY <1>2, <1>4, <2>6, Zenon
        <3>2. Then(ki'.down, Msg("prompt", ki'.asked, 0, NoReply))
            BY <1>3, <2>3, <3>1, ZenonT(40)
        <3>3. QED
            BY <2>4, <3>1, <3>2, ZenonT(40) DEF Await
    <2>7. QED
        BY <2>5, <2>6, Zenon
<1>7. QED
    BY <1>1, <1>2, <1>4, <1>5, <1>6, ZenonT(40) DEF KiAt

\* receives the answer (pluginbase.go:440-454),
LEMMA KIAwaitKeeps ==
    ASSUME KiAt, KIAwait, UNCHANGED <<at, meta>>
    PROVE  KiAt'
<1>1. /\ KiTypes /\ ki.plugin = "await" /\ ki.meta = promised /\ ~ki.broken /\ ki.answer <= ki.asked
      /\ ki.asked \in Nat /\ promised' = promised
    BY Zenon DEF KiAt, KIAwait, KiTypes
<1>2. PICK x \in Msgs : /\ x = Msg("answer", ki.asked, 1, NoReply) /\ x.m = "answer" /\ x.q = ki.asked /\ x.n = 1
    BY <1>1, AnswerMessage, Zenon
<1>3. CASE ki.up # <<>>
    <2>1. /\ ki.daemon = "recv" /\ ki.down = <<>> /\ ki.up = <<x>> /\ at = "ki" /\ ~ki.closed /\ promised = meta
        BY <1>1, <1>2, <1>3, Zenon DEF KiAt, Await
    <2>2. Head(ki.up) = x /\ Tail(ki.up) = <<>>
        BY <2>1, OneMessage, Zenon
    <2>3. /\ KiShape' /\ ki'.daemon = ki.daemon /\ ki'.plugin = "callback" /\ ki'.down = ki.down /\ ki'.up = Tail(ki.up)
          /\ ki'.question = ki.question /\ ki'.asked = ki.asked /\ ki'.answer = ki.asked /\ ki'.status = ki.status
          /\ ki'.meta = ki.meta /\ ki'.closed = ki.closed /\ ki'.broken = ki.broken
        <3>1. ki' = [ki EXCEPT !.plugin = "callback", !.up = Tail(ki.up), !.answer = ki.asked]
            BY <1>2, <1>3, <2>2, ZenonT(40) DEF KIAwait
        <3>2. QED
            BY <1>1, <3>1, ZenonT(40) DEF KiTypes, KiShape
    <2>4. KiTypes'
        BY <1>1, <2>1, <2>2, <2>3, NoMessage, ZenonT(40) DEF KiTypes
    <2>5. Callback'
        BY <2>1, <2>2, <2>3, NoMessage, ZenonT(40) DEF Callback, NotAsking
    <2>6. ki'.answer <= ki'.asked
        BY <1>1, <2>3, SMTT(30)
    <2>7. QED
        BY <1>1, <2>1, <2>3, <2>4, <2>5, <2>6, ZenonT(40) DEF KiAt
<1>4. CASE ki.up = <<>>
    <2>1. ki.closed /\ ki.daemon = "off" /\ at # "ki"
        BY <1>1, <1>4, Zenon DEF KIAwait, KiAt
    <2>2. /\ KiShape' /\ ki'.daemon = ki.daemon /\ ki'.plugin = "end" /\ ki'.down = ki.down /\ ki'.up = ki.up
          /\ ki'.question = ki.question /\ ki'.asked = ki.asked /\ ki'.answer = ki.answer /\ ki'.status = "error"
          /\ ki'.meta = ki.meta /\ ki'.closed = ki.closed /\ ki'.broken = ki.broken
        BY <1>1, <1>4, ZenonT(40) DEF KIAwait, KIReturn, KiTypes, KiShape
    <2>3. KiTypes'
        BY <1>1, <2>2, Zenon DEF KiTypes
    <2>4. QED
        BY <1>1, <2>1, <2>2, <2>3, ZenonT(40) DEF KiAt
<1>5. QED
    BY <1>3, <1>4, ZenonT(40)

\* and sends the result of the callback (pluginbase.go:456-471).
LEMMA KIFinishKeeps ==
    ASSUME KiAt, KIFinish, UNCHANGED <<at, meta>>
    PROVE  KiAt' /\ at \in {"ki", "failed", "done"}
<1>1. /\ KiTypes /\ ki.plugin = "callback" /\ ~ki.broken /\ ki.answer <= ki.asked /\ ki.down \in Seq(Msgs)
    BY Zenon DEF KiAt, KIFinish, KiTypes
<1>2. ki.daemon # "off" => /\ ki.up = <<>> /\ NotAsking /\ Instructions(ki.down) /\ promised = meta
                           /\ ~ki.closed /\ at = "ki"
    BY <1>1, Zenon DEF KiAt, Callback
<1>3. at \in {"ki", "failed", "done"}
    BY <1>1, Zenon DEF KiAt
<1>4. CASE KIReturn(ki, "error") /\ UNCHANGED promised
    <2>1. /\ KiShape' /\ ki'.daemon = ki.daemon /\ ki'.plugin = "end" /\ ki'.down = ki.down /\ ki'.up = ki.up
          /\ ki'.question = ki.question /\ ki'.asked = ki.asked /\ ki'.answer = ki.answer /\ ki'.status = "error"
          /\ ki'.meta = ki.meta /\ ki'.closed = ki.closed /\ ki'.broken = ki.broken
        BY <1>1, <1>4, ZenonT(40) DEF KIReturn, KiTypes, KiShape
    <2>2. KiTypes'
        BY <1>1, <2>1, Zenon DEF KiTypes
    <2>3. ki.daemon # "off" => End'
        BY <1>2, <2>1, Zenon DEF End, NotAsking
    <2>4. KiAt'
        BY <1>1, <1>2, <1>4, <2>1, <2>2, <2>3, ZenonT(40) DEF KiAt
    <2>5. QED
        BY <1>3, <2>4, Zenon
<1>5. ASSUME NEW r \in Replies \cup {NoReply},
             KIReturn([ki EXCEPT !.down = Append(@, Msg("finish", 0, 0, r))], "ok"),
             promised' = IF r = NoReply THEN promised ELSE promised \cup r.keys
      PROVE  KiAt'
    <2>1. PICK x \in Msgs : x = Msg("finish", 0, 0, r)
        BY FinishMessage, Zenon
    <2>2. /\ KiShape' /\ ki'.daemon = ki.daemon /\ ki'.plugin = "end" /\ ki'.down = Append(ki.down, x) /\ ki'.up = ki.up
          /\ ki'.question = ki.question /\ ki'.asked = ki.asked /\ ki'.answer = ki.answer /\ ki'.status = "ok"
          /\ ki'.meta = ki.meta /\ ki'.closed = ki.closed /\ ki'.broken = ki.broken
        BY <1>1, <1>5, <2>1, ZenonT(40) DEF KIReturn, KiTypes, KiShape
    <2>3. KiTypes'
        BY <1>1, <2>2, AppendMessage, Zenon DEF KiTypes
    <2>4. promised' = promised \cup Keys(r)
        <3>1. promised \cup {} = promised
            BY ZenonT(40)
        <3>2. QED
            BY <1>5, <3>1, Zenon DEF Keys
    <2>5. ki.daemon # "off" => End'
        <3>1. SUFFICES ASSUME ki.daemon # "off"
                       PROVE  End'
            BY Zenon
        <3>2. Then(Append(ki.down, x), x)
            BY <1>1, <1>2, <3>1, AppendMessage, ZenonT(40)
        <3>3. Then(ki'.down, Msg("finish", 0, 0, r)) /\ promised' = meta' \cup Keys(r)
            BY <1>2, <2>1, <2>2, <2>4, <3>1, <3>2, ZenonT(40)
        <3>4. NotAsking' /\ ki'.up = <<>>
            BY <1>2, <2>2, <3>1, Zenon DEF NotAsking
        <3>5. QED
            BY <1>5, <2>2, <3>3, <3>4, ZenonT(40) DEF End
    <2>6. QED
        BY <1>1, <1>2, <2>2, <2>3, <2>5, ZenonT(40) DEF KiAt
<1>6. QED
    BY <1>3, <1>4, <1>5, ZenonT(40) DEF KIFinish

\* So every step of the handler keeps the invariant
\* (pluginbase.go:394-471).
LEMMA KeyboardInteractiveAuthKeeps ==
    ASSUME CallsInv, KeyboardInteractiveAuth
    PROVE  CallsInv'
<1>1. UNCHANGED <<impl, installed, at, attempt, meta, call, reply, approved, direct, client>>
    BY Zenon DEF KeyboardInteractiveAuth, tvars
<1>2. KiAt' /\ (promised' = promised \/ at \in {"ki", "failed", "done"})
    <2>1. CASE KIStart
        BY <1>1, <2>1, KIStartKeeps, Zenon DEF CallsInv, KIStart
    <2>2. CASE KIMeta
        BY <1>1, <2>2, KIMetaKeeps, ZenonT(40) DEF CallsInv, KIMeta
    <2>3. CASE KIAwait
        BY <1>1, <2>3, KIAwaitKeeps, Zenon DEF CallsInv, KIAwait
    <2>4. CASE KIFinish
        BY <1>1, <2>4, KIFinishKeeps, Zenon DEF CallsInv
    <2>5. CASE \E q \in {0, ki.asked + 1} : KIPrompt(q)
        <3>1. PICK q \in {0, ki.asked + 1} : KIPrompt(q)
            BY <2>5, Zenon
        <3>2. promised' = promised
            BY <3>1, Zenon DEF KIPrompt
        <3>3. QED
            BY <1>1, <3>1, <3>2, KIPromptKeeps, ZenonT(40) DEF CallsInv
    <2>6. QED
        BY <2>1, <2>2, <2>3, <2>4, <2>5, ZenonT(40) DEF KeyboardInteractiveAuth
<1>3. QED
    BY <1>1, <1>2, HandlerLeaves, Zenon DEF CallsInv

\* The daemon puts a prompt to the client.
LEMMA RecvPromptKeeps ==
    ASSUME KiAt, ki.daemon = "recv", ki.down # <<>>, Head(ki.down).m = "prompt",
           ki' = [[ki EXCEPT !.down = Tail(@)] EXCEPT !.daemon = "asking", !.question = Head(ki.down).q],
           UNCHANGED <<at, meta, promised>>
    PROVE  KiAt'
<1>1. /\ KiTypes /\ at = "ki" /\ ~ki.broken /\ ki.answer <= ki.asked /\ ~ki.closed /\ ki.down \in Seq(Msgs)
      /\ (ki.plugin \in {"callback", "await"} => ki.meta = promised)
      /\ (~(ki.plugin = "end" /\ ki.status = "ok") => promised = meta)
    BY Zenon DEF KiAt, KiTypes
<1>2. /\ KiShape' /\ ki'.daemon = "asking" /\ ki'.plugin = ki.plugin /\ ki'.down = Tail(ki.down) /\ ki'.up = ki.up
      /\ ki'.question = Head(ki.down).q /\ ki'.asked = ki.asked /\ ki'.answer = ki.answer /\ ki'.status = ki.status
      /\ ki'.meta = ki.meta /\ ki'.closed = ki.closed /\ ki'.broken = ki.broken
    BY <1>1, ZenonT(40) DEF KiTypes, KiShape
<1>3. Head(ki.down) \in Msgs /\ Tail(ki.down) \in Seq(Msgs)
    BY <1>1, SMTT(30)
<1>4. Head(ki.down).q \in Nat
    BY <1>3, ZenonT(40) DEF Msgs
<1>5. KiTypes'
    BY <1>1, <1>2, <1>3, <1>4, ZenonT(40) DEF KiTypes
<1>6. Instruction(Head(ki.down)) => NotAsking'
    BY <1>2, Zenon DEF Instruction, NotAsking
<1>7. ki.plugin \in {"callback", "await", "end"}
    <2>1. ki.plugin \notin {"off", "start"}
        BY Zenon DEF KiAt, Start
    <2>2. ki.plugin # "meta"
        <3>1. PICK x \in Msgs : x = Msg("meta", 0, 0, NoReply) /\ x.m = "meta"
            BY MetaMessage, Zenon
        <3>2. Head(<<x>>) = x
            BY <3>1, OneMessage, Zenon
        <3>3. ki.plugin = "meta" => ki.down = <<x>>
            BY <3>1, Zenon DEF KiAt, Metadata
        <3>4. QED
            BY <3>1, <3>2, <3>3, ZenonT(40)
    <2>3. QED
        BY <1>1, <2>1, <2>2, Zenon DEF KiTypes
<1>8. ki.plugin = "callback" => Callback'
    <2>1. SUFFICES ASSUME ki.plugin = "callback"
                   PROVE  Callback'
        BY Zenon
    <2>2. ki.up = <<>> /\ Instructions(ki.down)
        BY <2>1, Zenon DEF KiAt, Callback
    <2>3. Instruction(Head(ki.down)) /\ Instructions(Tail(ki.down))
        BY <1>1, <2>2, TailInstructions, ZenonT(40)
    <2>4. QED
        BY <1>2, <1>6, <2>2, <2>3, ZenonT(40) DEF Callback
<1>9. ki.plugin = "await" => Await'
    <2>1. SUFFICES ASSUME ki.plugin = "await"
                   PROVE  Await'
        BY ZenonT(40)
    <2>2. PICK x : x = Msg("prompt", ki.asked, 0, NoReply) /\ x.q = ki.asked
        <3>1. ki.asked \in Nat
            BY <1>1, Zenon DEF KiTypes
        <3>2. QED
            BY <3>1, PromptMessage, Zenon
    <2>3. ki.asked # 0 /\ ki.up = <<>> /\ Then(ki.down, x)
        BY <2>1, <2>2, ZenonT(40) DEF KiAt, Await
    <2>4. \/ Tail(ki.down) = <<>> /\ Head(ki.down) = x
          \/ Instruction(Head(ki.down)) /\ Then(Tail(ki.down), x)
        BY <1>1, <2>3, TailThen, Zenon
    <2>5. CASE Tail(ki.down) = <<>> /\ Head(ki.down) = x
        BY <1>2, <2>2, <2>3, <2>5, ZenonT(40) DEF Await
    <2>6. CASE Instruction(Head(ki.down)) /\ Then(Tail(ki.down), x)
        <3>1. Then(ki'.down, Msg("prompt", ki'.asked, 0, NoReply))
            BY <1>2, <2>2, <2>6, ZenonT(40)
        <3>2. QED
            BY <1>2, <1>6, <2>3, <2>6, <3>1, ZenonT(40) DEF Await
    <2>7. QED
        BY <2>4, <2>5, <2>6, ZenonT(40)
<1>10. ki.plugin = "end" => End'
    <2>1. SUFFICES ASSUME ki.plugin = "end"
                   PROVE  End'
        BY Zenon
    <2>2. ki.up = <<>> /\ End
        BY <2>1, Zenon DEF KiAt, End
    <2>3. CASE ki.status = "error" /\ Instructions(ki.down)
        <3>1. Instruction(Head(ki.down)) /\ Instructions(Tail(ki.down))
            BY <1>1, <2>3, TailInstructions, Zenon
        <3>2. QED
            BY <1>2, <1>6, <2>2, <2>3, <3>1, ZenonT(40) DEF End
    <2>4. ASSUME ki.status = "ok", NEW r \in Replies \cup {NoReply}, Then(ki.down, Msg("finish", 0, 0, r)),
                 promised = meta \cup Keys(r)
          PROVE  End'
        <3>1. PICK x : x = Msg("finish", 0, 0, r) /\ x.m = "finish"
            BY FinishMessage, Zenon
        <3>2. Then(ki.down, x)
            BY <2>4, <3>1, Zenon
        <3>3. Instruction(Head(ki.down)) /\ Then(Tail(ki.down), x)
            BY <1>1, <3>1, <3>2, TailThen, ZenonT(40)
        <3>4. Then(ki'.down, Msg("finish", 0, 0, r)) /\ promised' = meta' \cup Keys(r)
            BY <1>2, <2>4, <3>1, <3>3, ZenonT(40)
        <3>5. QED
            BY <1>2, <1>6, <2>2, <2>4, <3>3, <3>4, ZenonT(40) DEF End
    <2>5. QED
        BY <2>2, <2>3, <2>4, ZenonT(40) DEF End
<1>11. QED
    BY <1>1, <1>2, <1>5, <1>7, <1>8, <1>9, <1>10, ZenonT(40) DEF KiAt

\* The daemon sends the metadata.
LEMMA RecvMetaKeeps ==
    ASSUME KiAt, ki.daemon = "recv", ki.down # <<>>, Head(ki.down).m = "meta"
    PROVE  /\ ki.plugin = "meta"
           /\ ki' = [[ki EXCEPT !.down = Tail(@)] EXCEPT !.up = Append(@, Msg("meta", 0, 0, NoReply)), !.meta = ToMeta]
                /\ UNCHANGED <<at, meta, promised>> => KiAt'
<1>1. /\ KiTypes /\ at = "ki" /\ ~ki.broken /\ ki.answer <= ki.asked /\ ~ki.closed /\ ki.down \in Seq(Msgs)
      /\ ki.plugin \notin {"off", "start"}
    BY Zenon DEF KiAt, KiTypes, Start
<1>2. ~Instruction(Head(ki.down))
    BY Zenon DEF Instruction
<1>3. ki.plugin # "callback"
    BY <1>1, <1>2, TailInstructions, ZenonT(40) DEF KiAt, Callback
<1>4. ki.plugin # "await"
    <2>1. PICK x : x = Msg("prompt", ki.asked, 0, NoReply) /\ x.m = "prompt"
        <3>1. ki.asked \in Nat
            BY <1>1, Zenon DEF KiTypes
        <3>2. QED
            BY <3>1, PromptMessage, Zenon
    <2>2. ki.plugin = "await" => Then(ki.down, x)
        BY <2>1, Zenon DEF KiAt, Await
    <2>3. QED
        BY <1>1, <1>2, <2>1, <2>2, TailThen, ZenonT(40)
<1>5. ki.plugin # "end"
    <2>1. ~Instructions(ki.down)
        BY <1>1, <1>2, TailInstructions, ZenonT(40)
    <2>2. ASSUME NEW r \in Replies \cup {NoReply}, Then(ki.down, Msg("finish", 0, 0, r))
          PROVE  FALSE
        <3>1. PICK x : x = Msg("finish", 0, 0, r) /\ x.m = "finish"
            BY FinishMessage, Zenon
        <3>2. QED
            BY <1>1, <1>2, <2>2, <3>1, TailThen, ZenonT(40)
    <2>3. QED
        BY <2>1, <2>2, ZenonT(40) DEF KiAt, End
<1>6. ki.plugin = "meta"
    BY <1>1, <1>3, <1>4, <1>5, ZenonT(40) DEF KiTypes
<1>7. ASSUME ki' = [[ki EXCEPT !.down = Tail(@)] EXCEPT !.up = Append(@, Msg("meta", 0, 0, NoReply)), !.meta = ToMeta],
             UNCHANGED <<at, meta, promised>>
      PROVE  KiAt'
    <2>1. PICK x \in Msgs : x = Msg("meta", 0, 0, NoReply)
        BY MetaMessage, Zenon
    <2>2. /\ KiShape' /\ ki'.daemon = ki.daemon /\ ki'.plugin = ki.plugin /\ ki'.down = Tail(ki.down)
          /\ ki'.up = Append(ki.up, x)
          /\ ki'.question = ki.question /\ ki'.asked = ki.asked /\ ki'.answer = ki.answer /\ ki'.status = ki.status
          /\ ki'.meta = meta /\ ki'.closed = ki.closed /\ ki'.broken = ki.broken
        BY <1>1, <1>7, <2>1, ZenonT(40) DEF KiTypes, KiShape, ToMeta
    <2>3. ki.down = <<x>> /\ ki.up = <<>> /\ promised = meta
        BY <1>6, <2>1, ZenonT(40) DEF KiAt, Metadata
    <2>4. ki'.down = <<>> /\ ki'.up = <<x>> /\ <<x>> \in Seq(Msgs)
        BY <2>2, <2>3, OneMessage, ZenonT(40)
    <2>5. KiTypes'
        BY <1>1, <2>2, <2>4, NoMessage, ZenonT(40) DEF KiTypes
    <2>6. Metadata'
        BY <1>7, <2>1, <2>2, <2>4, ZenonT(40) DEF Metadata
    <2>7. QED
        BY <1>1, <1>6, <1>7, <2>2, <2>3, <2>5, <2>6, ZenonT(40) DEF KiAt
<1>8. QED
    BY <1>6, <1>7, Zenon

\* The daemon leaves the exchange: the handler has ended, or the client has
\* gone and the handler is in its callback or waits.
LEMMA LeftKeeps ==
    ASSUME KiAt, NEW d \in Seq(Msgs), ki' = Left([ki EXCEPT !.down = d]), at' # "ki", UNCHANGED promised,
           \/ ki.plugin = "end"
           \/ ki.plugin \in {"callback", "await"} /\ ki.up = <<>> /\ at' = "failed"
    PROVE  KiAt'
<1>1. KiTypes /\ ~ki.broken /\ ki.answer <= ki.asked /\ (ki.plugin \in {"callback", "await"} => ki.meta = promised)
    BY ZenonT(40) DEF KiAt
<1>2. /\ KiShape' /\ ki'.daemon = "off" /\ ki'.plugin = ki.plugin /\ ki'.down = d /\ ki'.up = ki.up
      /\ ki'.question = ki.question /\ ki'.asked = ki.asked /\ ki'.answer = ki.answer /\ ki'.status = ki.status
      /\ ki'.meta = ki.meta /\ ki'.closed = TRUE /\ ki'.broken = ki.broken
    BY <1>1, Zenon DEF KiTypes, KiShape, Left
<1>3. TRUE \in BOOLEAN
    BY Zenon
<1>4. KiTypes'
    BY <1>1, <1>2, <1>3, Zenon DEF KiTypes
<1>5. QED
    BY <1>1, <1>2, <1>4, ZenonT(40) DEF KiAt

\* The daemon receives a message of the stream (grpc.go:512-566).
LEMMA KIRecvKeeps ==
    ASSUME CallsInv, KIRecv
    PROVE  CallsInv'
<1> USE DEF CallsInv
<1>1. /\ ki.daemon = "recv" /\ ki.down # <<>> /\ at = "ki" /\ KiTypes /\ ki.down \in Seq(Msgs)
      /\ UNCHANGED <<impl, installed, attempt, promised, call, approved>>
    BY Zenon DEF KIRecv, KiAt, KiTypes
<1>2. call = Idle
    <2>1. at \notin DOMAIN Due /\ at # "auth"
        BY <1>1, PlaceFacts, Zenon
    <2>2. QED
        BY <2>1, IdleOutsideCalls, ZenonT(40)
<1>3. CASE /\ Head(ki.down).m = "prompt"
           /\ ki' = [[ki EXCEPT !.down = Tail(@)] EXCEPT !.daemon = "asking", !.question = Head(ki.down).q]
           /\ UNCHANGED <<at, meta, reply, direct, tvars>>
    <2>1. KiAt'
        BY <1>1, <1>3, RecvPromptKeeps, Zenon
    <2>2. UNCHANGED client
        BY <1>3, Zenon DEF tvars
    <2>3. CallAt' /\ MetaAt' /\ HostAt' /\ ConnAt'
        BY <1>1, <1>3, <2>2, HandlerLeaves, ZenonT(40)
    <2>4. QED
        BY <2>1, <2>3, Zenon
<1>4. CASE /\ Head(ki.down).m = "meta"
           /\ ki' = IF ki.plugin = "end" THEN Left([ki EXCEPT !.down = Tail(@)])
                    ELSE [[ki EXCEPT !.down = Tail(@)] EXCEPT !.up = Append(@, Msg("meta", 0, 0, NoReply)), !.meta = ToMeta]
           /\ IF ki.plugin = "end" THEN AttemptFails ELSE UNCHANGED <<at, reply, direct, tvars>>
           /\ UNCHANGED meta
    <2>1. ki.plugin # "end"
        BY <1>1, <1>4, RecvMetaKeeps, Zenon
    <2>2. UNCHANGED <<at, reply, direct, client, meta, promised>>
        BY <1>1, <1>4, <2>1, Zenon DEF tvars
    <2>3. KiAt'
        BY <1>1, <1>4, <2>1, <2>2, RecvMetaKeeps, ZenonT(40)
    <2>4. CallAt' /\ MetaAt' /\ HostAt' /\ ConnAt'
        BY <1>1, <2>2, HandlerLeaves, ZenonT(40)
    <2>5. QED
        BY <2>3, <2>4, Zenon
<1>5. CASE /\ Head(ki.down).m = "finish"
           /\ ki' = Left([ki EXCEPT !.down = Tail(@)])
           /\ IF Head(ki.down).up = NoReply THEN AttemptFails /\ UNCHANGED meta ELSE CreateUpstream(Head(ki.down).up)
    <2>1. ~Instruction(Head(ki.down))
        BY <1>5, Zenon DEF Instruction
    <2>2. ~Instructions(ki.down)
        BY <1>1, <2>1, TailInstructions, ZenonT(40)
    <2>3. ki.plugin = "end"
        <3>1. ki.plugin \notin {"off", "start", "callback"}
            BY <1>1, <2>2, ZenonT(40) DEF KiAt, Start, Callback
        <3>2. ki.plugin # "meta"
            <4>1. PICK x \in Msgs : x = Msg("meta", 0, 0, NoReply) /\ x.m = "meta"
                BY MetaMessage, Zenon
            <4>2. Head(<<x>>) = x
                BY <4>1, OneMessage, ZenonT(40)
            <4>3. ki.plugin = "meta" => ki.down = <<x>>
                BY <1>1, <4>1, ZenonT(40) DEF KiAt, Metadata
            <4>4. QED
                BY <1>5, <4>1, <4>2, <4>3, ZenonT(40)
        <3>3. ki.plugin # "await"
            <4>1. ki.asked \in Nat
                BY <1>1, Zenon DEF KiTypes
            <4>2. PICK x : x = Msg("prompt", ki.asked, 0, NoReply) /\ x.m = "prompt"
                BY <4>1, PromptMessage, ZenonT(40)
            <4>3. ki.plugin = "await" => Then(ki.down, x)
                BY <1>1, <4>2, ZenonT(40) DEF KiAt, Await
            <4>4. QED
                BY <1>1, <1>5, <2>1, <4>2, <4>3, TailThen, ZenonT(40)
        <3>4. QED
            BY <1>1, <3>1, <3>2, <3>3, ZenonT(40) DEF KiTypes
    <2>4. PICK r \in Replies \cup {NoReply} : Then(ki.down, Msg("finish", 0, 0, r)) /\ promised = meta \cup Keys(r)
        BY <1>1, <2>2, <2>3, ZenonT(40) DEF KiAt, End
    <2>5. Head(ki.down).up = r /\ Tail(ki.down) \in Seq(Msgs)
        <3>1. PICK x : x = Msg("finish", 0, 0, r) /\ x.up = r
            BY FinishMessage, Zenon
        <3>2. QED
            BY <1>1, <2>1, <2>4, <3>1, TailThen, ZenonT(40)
    <2>6. at' # "ki" /\ CallAt' /\ MetaAt' /\ HostAt' /\ ConnAt'
        <3>1. CASE r = NoReply
            <4>1. meta' = promised /\ AttemptFails
                <5>1. Keys(r) = {} /\ meta' = meta /\ AttemptFails
                    BY <1>5, <2>5, <3>1, Zenon DEF Keys
                <5>2. QED
                    BY <2>4, <5>1, Zenon
            <4>2. CallAt' /\ MetaAt' /\ HostAt' /\ ConnAt' /\ at' = "methods"
                BY <1>1, <1>2, <4>1, AttemptFailsKeeps, ZenonT(40)
            <4>3. QED
                BY <4>2, Zenon
        <3>2. CASE r # NoReply
            <4>1. r \in Replies /\ CreateUpstream(r) /\ promised = meta \cup r.keys
                BY <1>5, <2>4, <2>5, <3>2, ZenonT(40) DEF Keys
            <4>2. CallAt' /\ MetaAt' /\ HostAt' /\ ConnAt' /\ at' \in {"methods", "kex"}
                BY <1>1, <1>2, <4>1, CreateUpstreamKeeps, ZenonT(40)
            <4>3. QED
                BY <4>2, Zenon
        <3>3. QED
            BY <3>1, <3>2, Zenon
    <2>7. KiAt'
        BY <1>1, <1>5, <2>3, <2>5, <2>6, LeftKeeps, ZenonT(40)
    <2>8. QED
        BY <2>6, <2>7, ZenonT(40)
<1>6. QED
    BY <1>3, <1>4, <1>5, ZenonT(40) DEF KIRecv

\* The daemon's Recv ends with the handler's error (grpc.go:513-520).
LEMMA KIEndsKeeps ==
    ASSUME CallsInv, KIEnds
    PROVE  CallsInv'
<1> USE DEF CallsInv
<1>1. /\ ki.daemon = "recv" /\ ki.down = <<>> /\ at = "ki" /\ KiTypes /\ AttemptFails /\ ki.plugin = "end"
      /\ ~ki.broken /\ ki.answer <= ki.asked
      /\ UNCHANGED <<impl, installed, attempt, meta, promised, call, approved>>
    BY ZenonT(40) DEF KIEnds, KiAt
<1>2. call = Idle
    <2>1. at \notin DOMAIN Due /\ at # "auth"
        BY <1>1, PlaceFacts, ZenonT(40)
    <2>2. QED
        BY <2>1, IdleOutsideCalls, Zenon
<1>3. ki.status = "error" /\ promised = meta
    BY <1>1, NoMessage, ZenonT(40) DEF KiAt, End
<1>4. CallAt' /\ MetaAt' /\ HostAt' /\ ConnAt' /\ at' = "methods"
    BY <1>1, <1>2, <1>3, AttemptFailsKeeps, ZenonT(40)
<1>5. /\ KiShape' /\ ki'.daemon = "off" /\ ki'.plugin = ki.plugin /\ ki'.down = ki.down /\ ki'.up = ki.up
      /\ ki'.question = ki.question /\ ki'.asked = ki.asked /\ ki'.answer = ki.answer /\ ki'.status = ki.status
      /\ ki'.meta = ki.meta /\ ki'.closed = TRUE /\ ki'.broken = (ki.broken \/ ki.status = "ok")
    BY <1>1, Zenon DEF KIEnds, KiTypes, KiShape, Left
<1>6. ~ki'.broken /\ ki'.broken \in BOOLEAN /\ TRUE \in BOOLEAN
    BY <1>1, <1>3, <1>5, ZenonT(40)
<1>7. KiTypes'
    BY <1>1, <1>5, <1>6, ZenonT(40) DEF KiTypes
<1>8. KiAt'
    BY <1>1, <1>4, <1>5, <1>6, <1>7, ZenonT(40) DEF KiAt
<1>9. QED
    BY <1>4, <1>8, Zenon

\* Nothing that the daemon waits for on the client's behalf is of the start.
LEMMA AskingFacts ==
    ASSUME KiAt, ki.daemon = "asking"
    PROVE  /\ KiTypes /\ at = "ki" /\ ki.plugin \in {"callback", "await", "end"} /\ ki.up = <<>> /\ ~ki.closed
           /\ ki.plugin = "end" => ki.question = 0
<1>1. KiTypes /\ at = "ki" /\ ~ki.closed /\ ki.plugin \notin {"off", "start", "meta"}
    BY Zenon DEF KiAt, Start, Metadata
<1>2. ki.plugin \in {"callback", "await", "end"}
    BY <1>1, Zenon DEF KiTypes
<1>3. ki.up = <<>> /\ (ki.plugin = "end" => ki.question = 0)
    BY <1>2, Zenon DEF KiAt, Callback, Await, End, NotAsking
<1>4. QED
    BY <1>1, <1>2, <1>3, Zenon

\* The client answers and the daemon sends that on (grpc.go:522-546).
LEMMA KIAnswerKeeps ==
    ASSUME CallsInv, KIAnswer
    PROVE  CallsInv'
<1> USE DEF CallsInv
<1>1. /\ ki.daemon = "asking" /\ KiTypes /\ at = "ki" /\ ki.plugin \in {"callback", "await", "end"} /\ ki.up = <<>>
      /\ ~ki.closed /\ (ki.plugin = "end" => ki.question = 0)
    BY AskingFacts, Zenon DEF KIAnswer
<1>2. /\ ki' = [ki EXCEPT !.daemon = "recv",
                          !.up = IF ki.question = 0 THEN @ ELSE Append(@, Msg("answer", ki.question, 1, NoReply))]
      /\ UNCHANGED <<impl, installed, at, attempt, meta, promised, call, reply, approved, direct, client>>
    BY <1>1, Zenon DEF KIAnswer, tvars
<1>3. ki.question \in Nat
    BY <1>1, Zenon DEF KiTypes
<1>4. PICK x \in Msgs : x = Msg("answer", ki.question, 1, NoReply)
    BY <1>3, AnswerMessage, Zenon
<1>5. /\ KiShape' /\ ki'.daemon = "recv" /\ ki'.plugin = ki.plugin /\ ki'.down = ki.down
      /\ ki'.up = (IF ki.question = 0 THEN ki.up ELSE Append(ki.up, x))
      /\ ki'.question = ki.question /\ ki'.asked = ki.asked /\ ki'.answer = ki.answer /\ ki'.status = ki.status
      /\ ki'.meta = ki.meta /\ ki'.closed = ki.closed /\ ki'.broken = ki.broken
    BY <1>1, <1>2, <1>4, ZenonT(40) DEF KiTypes, KiShape
<1>6. ki'.up \in Seq(Msgs) /\ ki'.up = (IF ki.question = 0 THEN <<>> ELSE <<x>>)
    <2>1. <<x>> \in Seq(Msgs) /\ Append(ki.up, x) = <<x>> /\ <<>> \in Seq(Msgs)
        BY <1>1, <1>4, OneMessage, NoMessage, ZenonT(40)
    <2>2. CASE ki.question = 0
        BY <1>1, <1>5, <2>1, <2>2, ZenonT(40)
    <2>3. CASE ki.question # 0
        BY <1>5, <2>1, <2>3, ZenonT(40)
    <2>4. QED
        BY <2>2, <2>3, ZenonT(40)
<1>7. KiTypes'
    BY <1>1, <1>5, <1>6, ZenonT(40) DEF KiTypes
<1>8. ki.plugin = "callback" => Callback'
    BY <1>1, <1>5, <1>6, ZenonT(40) DEF KiAt, Callback, NotAsking
<1>9. ki.plugin = "await" => Await'
    <2>1. SUFFICES ASSUME ki.plugin = "await"
                   PROVE  Await'
        BY Zenon
    <2>2. ki.asked # 0
        BY <1>1, <2>1, ZenonT(40) DEF KiAt, Await
    <2>3. CASE ki.question = 0
        <3>1. Then(ki.down, Msg("prompt", ki.asked, 0, NoReply))
            BY <1>1, <2>1, <2>2, <2>3, ZenonT(40) DEF KiAt, Await
        <3>2. Then(ki'.down, Msg("prompt", ki'.asked, 0, NoReply))
            BY <1>5, <3>1, Zenon
        <3>3. QED
            BY <1>5, <1>6, <2>2, <2>3, <3>2, ZenonT(40) DEF Await, NotAsking
    <2>4. CASE ki.question # 0
        <3>1. ki.down = <<>> /\ ki.question = ki.asked
            BY <1>1, <2>1, <2>4, ZenonT(40) DEF KiAt, Await, NotAsking
        <3>2. ki'.up = <<Msg("answer", ki'.asked, 1, NoReply)>>
            BY <1>4, <1>5, <1>6, <2>4, <3>1, ZenonT(40)
        <3>3. QED
            BY <1>5, <2>2, <3>1, <3>2, ZenonT(40) DEF Await
    <2>5. QED
        BY <2>3, <2>4, ZenonT(40)
<1>10. ki.plugin = "end" => End'
    BY <1>1, <1>2, <1>5, <1>6, ZenonT(40) DEF KiAt, End, NotAsking
<1>11. KiAt'
    BY <1>1, <1>2, <1>5, <1>7, <1>8, <1>9, <1>10, ZenonT(40) DEF KiAt
<1>12. CallAt' /\ MetaAt' /\ HostAt' /\ ConnAt'
    BY <1>2, HandlerLeaves, Zenon
<1>13. QED
    BY <1>11, <1>12, ZenonT(40)

\* The client fails its challenge: the daemon leaves the stream
\* (grpc.go:508-510, 522-546).
LEMMA KIClientFailsKeeps ==
    ASSUME CallsInv, KIClientFails
    PROVE  CallsInv'
<1> USE DEF CallsInv
<1>1. /\ ki.daemon = "asking" /\ KiTypes /\ at = "ki" /\ ki.plugin \in {"callback", "await", "end"} /\ ki.up = <<>>
      /\ ki' = Left(ki) /\ at' = "failed" /\ ki.down \in Seq(Msgs)
      /\ UNCHANGED <<impl, installed, attempt, meta, promised, call, reply, approved, direct, client>>
    BY AskingFacts, ZenonT(40) DEF KIClientFails, tvars, KiTypes
<1>2. call = Idle /\ call.st = "idle"
    <2>1. at \notin DOMAIN Due /\ at # "auth"
        BY <1>1, PlaceFacts, Zenon
    <2>2. QED
        BY <2>1, IdleOutsideCalls, CallIdles, Zenon
<1>3. CallAt'
    BY <1>1, <1>2, CallIdles, ZenonT(40) DEF CallAt, Places, ListCallbacks
<1>4. MetaAt' /\ HostAt'
    BY <1>1, <1>2, HostStays, ZenonT(40) DEF MetaAt
<1>5. ConnAt'
    BY <1>1, ConnStays, Zenon DEF InUse
<1>6. KiAt'
    <2>1. ki = [ki EXCEPT !.down = ki.down]
        BY <1>1, ZenonT(40) DEF KiTypes, KiShape
    <2>2. ki' = Left([ki EXCEPT !.down = ki.down])
        BY <1>1, <2>1, Zenon
    <2>3. QED
        BY <1>1, <2>2, LeftKeeps, Zenon
<1>7. QED
    BY <1>3, <1>4, <1>5, <1>6, ZenonT(40)


-----------------------------------------------------------------------------
(* The client chooses a method. *)

\* A stream that begins, or none.
LEMMA FreshStream ==
    ASSUME NEW d \in {"off", "recv"}, NEW p \in {"off", "start"},
           ki' = [NoStream EXCEPT !.daemon = d, !.plugin = p] \/ (d = "off" /\ p = "off" /\ ki' = NoStream),
           d = "recv" <=> at' = "ki", d = "recv" <=> p = "start", promised' = meta'
    PROVE  KiAt'
<1>1. /\ KiShape' /\ ki'.daemon = d /\ ki'.plugin = p /\ ki'.down = <<>> /\ ki'.up = <<>> /\ ki'.question = 0
      /\ ki'.asked = 0 /\ ki'.answer = 0 /\ ki'.status = "none" /\ ki'.meta = {} /\ ki'.closed = FALSE /\ ki'.broken = FALSE
    <2>1. CASE ki' = [NoStream EXCEPT !.daemon = d, !.plugin = p]
        BY <2>1, ZenonT(40) DEF NoStream, KiShape
    <2>2. CASE d = "off" /\ p = "off" /\ ki' = NoStream
        BY <2>2, Zenon DEF NoStream, KiShape
    <2>3. QED
        BY <2>1, <2>2, ZenonT(40)
<1>2. 0 \in Nat /\ 0 <= 0 /\ FALSE \in BOOLEAN
    OBVIOUS
<1>3. KiTypes'
    BY <1>1, <1>2, NoMessage, ZenonT(40) DEF KiTypes
<1>4. ki'.answer <= ki'.asked
    BY <1>1, <1>2, Zenon
<1>5. d = "recv" => Start'
    BY <1>1, Zenon DEF Start
<1>6. QED
    BY <1>1, <1>3, <1>4, <1>5, ZenonT(40) DEF KiAt

\* The client chooses a method, and the daemon makes the call or opens the
\* stream of it (grpc.go:465-510).
LEMMA ChooseKeeps ==
    ASSUME CallsInv, NEW m \in DOMAIN AuthCallback, Choose(m)
    PROVE  CallsInv'
<1> USE DEF CallsInv
<1>1. /\ at = "choose" /\ call = Idle /\ AuthCallback[m] \in installed /\ attempt' = attempt + 1 /\ reply' = NoReply
      /\ UNCHANGED <<impl, installed, meta, promised, approved, direct, client>>
    BY Zenon DEF Choose, tvars
<1>2. promised = meta
    BY <1>1, CallIdles, Zenon DEF MetaAt
<1>3. "CreateConn" \in installed => attempt' \in Tunnels
    BY <1>1, Zenon DEF Choose
<1>4. ConnAt'
    <2>1. \A t \in Attempts : ~Opened(t)
        BY <1>1, Zenon DEF ConnAt, DaemonConnsUsed
    <2>2. at' # "boot"
        BY Zenon DEF Choose
    <2>3. QED
        BY <1>1, <1>3, <2>1, <2>2, ZenonT(40) DEF ConnAt, DaemonConnsUsed, Opened, Tunnelled
<1>5. CASE m = "keyboard-interactive"
    <2>1. at' = "ki" /\ ki' = [NoStream EXCEPT !.daemon = "recv", !.plugin = "start"] /\ call' = Idle
        BY <1>1, <1>5, ZenonT(40) DEF Choose
    <2>2. KiAt'
        BY <1>1, <1>2, <2>1, FreshStream, ZenonT(40)
    <2>3. call'.st = "idle"
        BY <2>1, CallIdles, ZenonT(40)
    <2>4. CallAt' /\ MetaAt' /\ HostAt'
        BY <1>1, <2>1, <2>3, CallIdles, ZenonT(40) DEF CallAt, Places, ListCallbacks, MetaAt, HostAt, HostKeyChecked
    <2>5. QED
        BY <1>4, <2>2, <2>4, ZenonT(40)
<1>6. CASE m # "keyboard-interactive"
    <2>1. at' = "auth" /\ Send(AuthCallback[m], <<>>) /\ ki' = NoStream /\ AuthCallback[m] \in AuthRpcs
        BY <1>6, MethodFacts, Zenon DEF Choose
    <2>3. KiAt'
        BY <1>1, <1>2, <2>1, FreshStream, ZenonT(40)
    <2>4. CallShape' /\ call'.st = "sent" /\ call'.rpc = AuthCallback[m] /\ call'.meta = meta
        BY <2>1, CallSends, Zenon
    <2>5. CallAt'
        BY <1>1, <2>1, <2>4, ZenonT(40) DEF CallAt, Places, ListCallbacks
    <2>6. MetaAt' /\ HostAt'
        BY <1>1, <1>2, <2>1, <2>4, ZenonT(40) DEF MetaAt, HostAt, HostKeyChecked
    <2>7. QED
        BY <1>4, <2>3, <2>5, <2>6, ZenonT(40)
<1>7. QED
    BY <1>5, <1>6, ZenonT(40)

-----------------------------------------------------------------------------
(* The invariant and what follows from it. *)

\* A connection starts with no call made (grpc.go:155-190).
LEMMA CallsInitHolds == Init => CallsInv
<1> SUFFICES ASSUME Init
             PROVE  CallsInv
    BY Zenon
<1>1. /\ installed = {} /\ at = "boot" /\ meta = {} /\ promised = {} /\ call = Idle /\ ki = NoStream
      /\ approved = {} /\ direct = {}
    BY Zenon DEF Init, CInit
<1>2. /\ CallShape /\ call.st = "idle"
    BY <1>1, ZenonT(40) DEF CallShape, Idle
<1>3. CallAt
    BY <1>1, <1>2, Zenon DEF CallAt, Places
<1>4. MetaAt /\ HostAt
    BY <1>1, <1>2, ZenonT(40) DEF MetaAt, HostAt, HostKeyChecked
<1>5. ConnAt
    <2>1. client \in [Tunnels -> {"none", "open", "closed", "failed"}] /\ \A t \in Tunnels : client[t] = "none"
        BY Zenon DEF Init, TInit
    <2>2. QED
        BY <1>1, <2>1, ZenonT(40) DEF ConnAt, DaemonConnsUsed, Opened, Tunnelled
<1>6. KiAt
    <2>1. /\ KiShape /\ ki.daemon = "off" /\ ki.plugin = "off" /\ ki.down = <<>> /\ ki.up = <<>> /\ ki.question = 0
          /\ ki.asked = 0 /\ ki.answer = 0 /\ ki.closed = FALSE /\ ki.broken = FALSE
        BY <1>1, Zenon DEF NoStream, KiShape
    <2>2. 0 \in Nat /\ 0 <= 0 /\ FALSE \in BOOLEAN
        BY SMTT(30)
    <2>3. KiTypes
        BY <2>1, <2>2, NoMessage, Zenon DEF KiTypes
    <2>4. ki.answer <= ki.asked
        BY <2>1, <2>2, ZenonT(40)
    <2>5. QED
        BY <1>1, <2>1, <2>3, <2>4, ZenonT(40) DEF KiAt
<1>7. QED
    BY <1>3, <1>4, <1>5, <1>6, ZenonT(40) DEF CallsInv

\* Neither the logs nor the traffic of a tunnel touch what the calls depend on.
LEMMA CallsStay ==
    ASSUME CallsInv, UNCHANGED <<cvars, client>>
    PROVE  CallsInv'
<1>1. UNCHANGED <<impl, installed, at, attempt, meta, promised, call, ki, reply, approved, direct, client>>
    BY ZenonT(40) DEF cvars
<1>2. CallAt' /\ MetaAt' /\ HostAt' /\ ConnAt'
    BY <1>1, HandlerLeaves, ZenonT(40) DEF CallsInv
<1>3. KiAt'
    BY <1>1, KiStays, ZenonT(40) DEF CallsInv
<1>4. QED
    BY <1>2, <1>3, Zenon DEF CallsInv

\* What a tunnel carries closes no connection of the daemon
\* (connovergrpc.go:60-72 is the daemon's own Close).
LEMMA TrafficStays ==
    ASSUME NEW t \in Tunnels, Serve(t) \/ Traffic(t)
    PROVE  UNCHANGED client
<1>1. CASE Serve(t)
    BY <1>1, ZenonT(40) DEF Serve, ServeAlone, Return, RecvDial, CreateFails, Create, HandlerReturns, ReadStream, StreamEnds, WriteUpstream, UpstreamEnds, WriteStream
<1>2. CASE Traffic(t)
    BY <1>2, ZenonT(40) DEF Traffic, Read, ReadEnds, UpstreamCloses, Write, ReadUpstream
<1>3. QED
    BY <1>1, <1>2, ZenonT(40)

\* Every step of the daemon, the plugin and the client keeps the invariant.
LEMMA CallsStepHolds == CallsInv /\ [Next]_vars => CallsInv'
<1> SUFFICES ASSUME CallsInv, [Next]_vars
             PROVE  CallsInv'
    BY Zenon
<1>1. CASE DaemonStep
    BY <1>1, InstallKeeps, InvokeKeeps, SkipKeeps, ReceiveKeeps, UpstreamKeeps, ZenonT(40) DEF DaemonStep
<1>2. CASE KeyboardInteractiveCallback
    BY <1>2, KIRecvKeeps, KIEndsKeeps, KIAnswerKeeps, ZenonT(40) DEF KeyboardInteractiveCallback
<1>3. CASE World
    BY <1>3, UpstreamKeeps, LeaveKeeps, KIClientFailsKeeps, ChooseKeeps, ZenonT(40) DEF World
<1>4. CASE HandlerLogs \/ HandlerWrites \/ Handle \/ KeyboardInteractiveAuth
    BY <1>4, HandlerLogsKeeps, HandleKeeps, KeyboardInteractiveAuthKeeps, ZenonT(40)
<1>5. CASE LogSteps \/ UNCHANGED vars
    BY <1>5, CallsStay, ZenonT(40) DEF LogSteps, vars, tvars
<1>6. CASE ServeTunnel \/ TunnelTraffic
    <2>1. PICK t \in Tunnels : (Serve(t) \/ Traffic(t)) /\ UNCHANGED cvars
        BY <1>6, Zenon DEF ServeTunnel, TunnelTraffic
    <2>2. UNCHANGED client
        BY <2>1, TrafficStays, Zenon
    <2>3. QED
        BY <2>1, <2>2, CallsStay, ZenonT(40)
<1>7. QED
    BY <1>1, <1>2, <1>3, <1>4, <1>5, <1>6, ZenonT(40) DEF Next

\* The tunnels are used as ConnTunnel has them: each is dialled and closed
\* by the daemon, and the rest is its own.
LEMMA TunnelSteps ==
    ASSUME CallsInv, [Next]_vars
    PROVE  TunnelStep \/ UNCHANGED tvars
<1> USE DEF TunnelStep
<1>1. ASSUME NEW r, CreateUpstream(r), at \in {"auth", "ki"}
      PROVE  UNCHANGED tvars \/ \E t \in Tunnels : DialContext(t) \/ DialContextFails(t)
    BY <1>1, ZenonT(40) DEF CreateUpstream, AttemptFails, DialUpstream, DialFails, ConnAt, CallsInv
<1>2. ASSUME CloseUpstream
      PROVE  UNCHANGED tvars \/ \E t \in Tunnels : Close(t)
    BY <1>2, Zenon DEF CloseUpstream, Tunnelled
<1>3. CASE Receive
    BY <1>1, <1>2, <1>3, ZenonT(40) DEF Receive, AttemptFails
<1>4. CASE KIRecv
    <2>1. at = "ki"
        BY <1>4, Zenon DEF KIRecv, CallsInv, KiAt
    <2>2. QED
        BY <1>1, <1>4, <2>1, ZenonT(40) DEF KIRecv, AttemptFails
<1>5. CASE KeyExchange \/ CheckHostKey \/ Login \/ PipeEnds
    BY <1>2, <1>5, ZenonT(40) DEF KeyExchange, CheckHostKey, Login, PipeEnds
<1>6. CASE InstallPiperConfig \/ Invoke \/ Skip \/ Leave \/ HandlerLogs \/ HandlerWrites \/ Handle
    BY <1>6, Zenon DEF InstallPiperConfig, Invoke, Skip, Leave, HandlerLogs, HandlerWrites, Handle
<1>7. CASE KIEnds \/ KIAnswer \/ KIClientFails \/ KeyboardInteractiveAuth
    BY <1>7, Zenon DEF KIEnds, KIAnswer, KIClientFails, KeyboardInteractiveAuth, AttemptFails
<1>8. CASE \E m \in DOMAIN AuthCallback : Choose(m)
    BY <1>8, Zenon DEF Choose
<1>9. CASE LogSteps \/ ServeTunnel \/ TunnelTraffic
    BY <1>9, Zenon DEF LogSteps, ServeTunnel, TunnelTraffic
<1>10. CASE UNCHANGED vars
    BY <1>10, Zenon DEF vars
<1>11. QED
    BY <1>3, <1>4, <1>5, <1>6, <1>7, <1>8, <1>9, <1>10, ZenonT(40)
       DEF Next, DaemonStep, KeyboardInteractiveCallback, World

\* The invariant of the calls holds throughout a connection
\* (grpc.go:60-602, pluginbase.go:254-548).
LEMMA CallsAlways == Spec => []CallsInv
BY CallsInitHolds, CallsStepHolds, PTL DEF Spec

\* The two loops of keyboard-interactive (KeyboardInteractiveCallback in the
\* daemon, grpc.go; KeyboardInteractiveAuth in the plugin, pluginbase.go)
\* agree on whose turn it is, for every number of prompts and whenever the
\* client breaks off.
THEOREM KeyboardTheorem == Spec => []KeyboardAgrees
<1>1. CallsInv => KeyboardAgrees
    <2> SUFFICES ASSUME CallsInv
                 PROVE  KeyboardAgrees
        BY Zenon
    <2>1. ~ki.broken /\ ki.answer <= ki.asked /\ KiTypes
        BY Zenon DEF CallsInv, KiAt
    <2>2. ASSUME ki.plugin = "await", NEW i \in DOMAIN ki.up
          PROVE  ki.up[i].q = ki.asked
        <3>1. ki.asked \in Nat
            BY <2>1, ZenonT(40) DEF KiTypes
        <3>2. PICK x \in Msgs : x = Msg("answer", ki.asked, 1, NoReply) /\ x.q = ki.asked
            BY <3>1, AnswerMessage, Zenon
        <3>3. DOMAIN <<x>> = {1} /\ <<x>>[1] = x
            BY <3>2, OneMessage, Zenon
        <3>4. ki.up # <<>>
            <4>1. DOMAIN <<>> = {}
                BY SMTT(30)
            <4>2. QED
                BY <2>2, <4>1, Zenon
        <3>5. ki.up = <<x>>
            BY <2>2, <3>2, <3>4, ZenonT(40) DEF CallsInv, KiAt, Await
        <3>6. QED
            BY <2>2, <3>2, <3>3, <3>5, ZenonT(40)
    <2>3. QED
        BY <2>1, <2>2, Zenon DEF KeyboardAgrees
<1>2. QED
    BY <1>1, CallsAlways, PTL

\* Every call carries the metadata that all retry and hand-over answers so
\* far have asked for (createUpstream and toMeta, grpc.go).
THEOREM MetaTheorem == Spec => []MetaReachesPlugin
<1>1. CallsInv => MetaReachesPlugin
    BY ZenonT(40) DEF CallsInv, MetaAt, KiAt, MetaReachesPlugin
<1>2. QED
    BY <1>1, CallsAlways, PTL

\* A client is logged in only over an upstream whose host key was checked as
\* the plugin wants it, in this very attempt (buildHostKeyCallback, grpc.go).
THEOREM HostKeyTheorem == Spec => []HostKeyChecked
<1>1. CallsInv => HostKeyChecked
    BY ZenonT(40) DEF CallsInv, HostAt
<1>2. QED
    BY <1>1, CallsAlways, PTL

\* The invariant of the tunnels holds with that of the calls: the daemon
\* dials and closes them as ConnTunnel has it (grpc.go:384-404).
LEMMA TunnelsAlways == Spec => []TunnelInv
<1>1. Init => TunnelInv
    BY TunnelInitHolds, Zenon DEF Init
<1>2. CallsInv /\ TunnelInv /\ [Next]_vars => TunnelInv'
    BY TunnelSteps, TunnelStepHolds, Zenon
<1>3. QED
    BY <1>1, <1>2, CallsAlways, PTL DEF Spec

\* No error path leaves a connection behind: one that is open at the daemon
\* is the current attempt's and in use, whatever fails in createUpstream
\* (grpc.go:279-382) or in DialContext (service.go:104-128); one that is open
\* at the plugin has a handler that will close it (service.go:65-97).
THEOREM LeaksTheorem == Spec => []NoConnLeaks
<1>1. CallsInv => DaemonConnsUsed
    BY Zenon DEF CallsInv, ConnAt
<1>2. TunnelInv => PluginConnsUsed
    <2> SUFFICES ASSUME TunnelInv, NEW t \in Tunnels, upconn[t] \in {"open", "eof"}
                 PROVE  handler[t] = "copying"
        BY Zenon DEF PluginConnsUsed
    <2>1. EndAt(t) /\ handler[t] \in {"none", "recv", "creating", "copying", "returned"}
        BY Zenon DEF TunnelInv, TunnelAt, TunnelTypeOK
    <2>2. QED
        BY <2>1, Zenon DEF EndAt
<1>3. QED
    BY <1>1, <1>2, CallsAlways, TunnelsAlways, PTL DEF NoConnLeaks

\* Every tunnel delivers, in order and once, a prefix of the bytes written at
\* its other end, and the daemon reads an end of file only after all of them,
\* however the copies, the packets and the two closes interleave (connovergrpc).
THEOREM DeliversTheorem == Spec => []TunnelDelivers
BY TunnelsAlways, TunnelInvDelivers, PTL
=============================================================================
