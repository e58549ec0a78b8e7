-------------------------- MODULE AdminTools_proofs --------------------------
(***************************************************************************)
(* Proof that an Aggregator routes by the unambiguous answers of its last  *)
(* refresh, for any number of endpoints, identifiers and callers, in both  *)
(* tools that use one; and that a recording of the shell is one channel's  *)
(* part of the stream, whatever the stream carries.                        *)
(***************************************************************************)
EXTENDS AdminTools, Scans_proofs, TLAPS

\* The entries that have reported identifier i in the replies r.
Reported(r, i) == {k \in DOMAIN r : r[k] = i}

Several(S) == \E a, b \in S : a # b

\* A refresh of the list w that waits for its answers: an identifier that one
\* entry reported is in the map m, one that none reported is nowhere, and one
\* that several reported is among the duplicates d.
Sorted(w, r, m, d) ==
    /\ DOMAIN r = DOMAIN w /\ m \in [Ids -> Addrs \cup {None}]
    /\ \A k \in DOMAIN w : w[k] \in Addrs
    /\ \A i \in Ids :
         /\ m[i] # None => i \notin d /\ \E k \in DOMAIN w : Reported(r, i) = {k} /\ m[i] = w[k]
         /\ m[i] = None /\ i \notin d => Reported(r, i) = {}
         /\ i \in d => Several(Reported(r, i))

Asked(p) == Sorted(wanted[p], reply[p], infoMap[p], dupes[p])

Shapes ==
    /\ server \in [Addrs -> Ids \cup {None}] /\ clients \subseteq Addrs
    /\ DOMAIN op = Procs /\ DOMAIN wanted = Procs /\ DOMAIN reply = Procs
    /\ DOMAIN infoMap = Procs /\ DOMAIN dupes = Procs

Calling(p) ==
    /\ op[p] = "refresh" => wanted[p] \in EndpointLists[p]
    /\ op[p] = "infos" => Asked(p)

\* Whoever is asked, or has answered, has its client.
Covered(p) == \A k \in DOMAIN wanted[p] : reply[p][k] # None => wanted[p][k] \in clients

\* webadmin: the list of endpoints is fixed, so no refresh loses a client.
WebAt ==
    /\ Calling(Loop)
    /\ \A l \in EndpointLists[Loop] : clients \subseteq Range(l)
    /\ main # "closed" /\ op[Loop] = "infos" => Covered(Loop)

\* The admin shell: every command has an aggregator of its own, which knows
\* nothing before its refresh, and only the commands that use one run.
ShellAt ==
    /\ Calling(Cmd)
    /\ op[Cmd] = "infos" => Covered(Cmd)
    /\ op[Cmd] \in {"idle", "refresh", "infos"} => infos = NoInfos
    /\ shell = "run" => WellFormed(cmd)

RouteInv ==
    /\ Shapes /\ RoutesTheUnambiguous
    /\ tool \in {"web", "shell"}
    /\ tool = "web" => WebAt
    /\ tool = "shell" => ShellAt

-----------------------------------------------------------------------------
(* Replies and routes. *)

\* A map with exactly the identifiers that one entry reports is the one the
\* replies make (aggregator.go:149-152).
LEMMA RoutesOf ==
    ASSUME NEW l, NEW r, NEW m \in [Ids -> Addrs \cup {None}],
           \A i \in Ids : m[i] # None => \E k \in DOMAIN l : {n \in DOMAIN l : r[n] = i} = {k} /\ m[i] = l[k],
           \A i \in Ids : m[i] = None => \A k : {n \in DOMAIN l : r[n] = i} # {k}
    PROVE  m = Unambiguous(l, r)
<1>1. \A i \in Ids : m[i] = IF \E k \in DOMAIN l : {n \in DOMAIN l : r[n] = i} = {k}
                            THEN l[CHOOSE k \in DOMAIN l : r[k] = i] ELSE None
    <2> TAKE i \in Ids
    <2> DEFINE S == {n \in DOMAIN l : r[n] = i}
    <2>3. CASE m[i] # None
        <3>1. PICK k \in DOMAIN l : S = {k} /\ m[i] = l[k] BY <2>3
        <3>2. \A n \in DOMAIN l : r[n] = i <=> n = k BY <3>1
        <3>3. k = CHOOSE n \in DOMAIN l : r[n] = i
            BY <3>2, SMTT(30)
        <3>4. QED BY <3>1, <3>3, Zenon
    <2>4. CASE m[i] = None
        <3>1. \A k : S # {k} BY <2>4
        <3>2. QED BY <2>4, <3>1, Zenon
    <2>5. QED BY <2>3, <2>4, Zenon
<1> QED BY <1>1, SMTT(30) DEF Unambiguous

\* An aggregator that is new or closed routes nothing (aggregator.go, Close).
LEMMA NothingRoutes == NoInfos = Unambiguous(NoBasis.list, NoBasis.ids)
<1>1. \A k \in DOMAIN NoBasis.list : FALSE
    BY DEF NoBasis
<1>2. \A i \in Ids : (IF \E k \in DOMAIN NoBasis.list : {n \in DOMAIN NoBasis.list : NoBasis.ids[n] = i} = {k}
                     THEN NoBasis.list[CHOOSE k \in DOMAIN NoBasis.list : NoBasis.ids[k] = i] ELSE None) = None
    BY <1>1, Zenon
<1> QED BY <1>2, Zenon DEF NoInfos, Unambiguous

\* An answer is entered (aggregator.go:147-160): the first report of an
\* identifier into the map, the second out of it and among the duplicates,
\* and every later one nowhere.
LEMMA AnswerSorted ==
    ASSUME NEW w, NEW r, NEW m, NEW d, Sorted(w, r, m, d), NEW k \in DOMAIN w, r[k] = Wait, NEW i \in Ids,
           NEW s, s = [r EXCEPT ![k] = i],
           NEW n, n = [m EXCEPT ![i] = IF m[i] = None /\ i \notin d THEN w[k] ELSE None],
           NEW e, e = IF m[i] = None THEN d ELSE d \cup {i}
    PROVE  Sorted(w, s, n, e)
<1>1. w[k] \in Addrs /\ w[k] # None /\ Wait # i
    BY AggregatorAssumption DEF Sorted, AggregatorAssumption
<1>2. DOMAIN s = DOMAIN w /\ s[k] = i /\ \A b \in DOMAIN w : b # k => s[b] = r[b]
    BY Zenon DEF Sorted
<1>3. /\ n \in [Ids -> Addrs \cup {None}] /\ \A j \in Ids : j # i => n[j] = m[j]
      /\ n[i] = IF m[i] = None /\ i \notin d THEN w[k] ELSE None
    BY <1>1, Zenon DEF Sorted
<1>4. k \notin Reported(r, i) /\ Reported(s, i) = Reported(r, i) \cup {k}
    BY <1>1, <1>2, SMTT(30) DEF Reported, Sorted
<1>5. \A j \in Ids : j # i => Reported(s, j) = Reported(r, j)
    <2>1. \A j \in Ids : Wait # j
        BY AggregatorAssumption DEF AggregatorAssumption
    <2>2. QED BY <1>2, <2>1, SMTT(30) DEF Reported, Sorted
<1>6. ASSUME NEW j \in Ids
      PROVE  /\ n[j] # None => j \notin e /\ \E x \in DOMAIN w : Reported(s, j) = {x} /\ n[j] = w[x]
             /\ n[j] = None /\ j \notin e => Reported(s, j) = {}
             /\ j \in e => Several(Reported(s, j))
    <2>1. CASE j # i
        <3>1. n[j] = m[j] /\ (j \in e <=> j \in d) /\ Reported(s, j) = Reported(r, j)
            BY <1>3, <1>5, <2>1, Zenon
        <3>2. QED BY <3>1, Zenon DEF Sorted
    <2>2. CASE j = i /\ m[i] # None
        <3>1. n[i] = None /\ i \in e /\ \E x \in DOMAIN w : x \in Reported(r, i)
            BY <1>3, <2>2, ZenonT(40) DEF Sorted
        <3>2. \E x \in DOMAIN w : x # k /\ x \in Reported(s, i) /\ k \in Reported(s, i)
            BY <1>4, <3>1, Zenon
        <3>3. QED BY <2>2, <3>1, <3>2, ZenonT(40) DEF Several
    <2>3. CASE j = i /\ m[i] = None /\ i \notin d
        <3>1. n[i] = w[k] /\ i \notin e /\ Reported(r, i) = {}
            BY <1>3, <2>3, ZenonT(40) DEF Sorted
        <3>2. Reported(s, i) = {k} BY <1>4, <3>1, Zenon
        <3>3. QED BY <1>1, <2>3, <3>1, <3>2, ZenonT(40)
    <2>4. CASE j = i /\ m[i] = None /\ i \in d
        <3>1. n[i] = None /\ i \in e /\ Several(Reported(r, i))
            BY <1>3, <2>4, Zenon DEF Sorted
        <3>2. QED BY <1>4, <2>4, <3>1, Zenon DEF Several
    <2>5. QED BY <2>1, <2>2, <2>3, <2>4, ZenonT(40)
<1>7. \A b \in DOMAIN w : w[b] \in Addrs
    BY Zenon DEF Sorted
<1> QED BY <1>2, <1>3, <1>6, <1>7, ZenonT(40) DEF Sorted

\* An error is no report (aggregator.go:140-145).
LEMMA ErrorSorted ==
    ASSUME NEW w, NEW r, NEW m, NEW d, Sorted(w, r, m, d), NEW k \in DOMAIN w, r[k] = Wait,
           NEW s, s = [r EXCEPT ![k] = None]
    PROVE  Sorted(w, s, m, d)
<1>1. DOMAIN s = DOMAIN w /\ s[k] = None /\ \A b \in DOMAIN w : b # k => s[b] = r[b]
    BY Zenon DEF Sorted
<1>2. \A i \in Ids : Wait # i /\ None # i
    BY AggregatorAssumption DEF AggregatorAssumption
<1>3. \A i \in Ids : Reported(s, i) = Reported(r, i)
    BY <1>1, <1>2 DEF Reported, Sorted
<1>4. ASSUME NEW i \in Ids
      PROVE  /\ m[i] # None => i \notin d /\ \E x \in DOMAIN w : Reported(s, i) = {x} /\ m[i] = w[x]
             /\ m[i] = None /\ i \notin d => Reported(s, i) = {}
             /\ i \in d => Several(Reported(s, i))
    <2>1. Reported(s, i) = Reported(r, i)
        BY <1>3, Zenon
    <2>2. QED BY <2>1, Zenon DEF Sorted
<1> QED BY <1>1, <1>4, Zenon DEF Sorted

-----------------------------------------------------------------------------
(* The steps of a refresh, and the rest. *)

\* What a refresh of p works with is left alone.
SameCall(p) ==
    /\ op'[p] = op[p] /\ wanted'[p] = wanted[p] /\ reply'[p] = reply[p]
    /\ infoMap'[p] = infoMap[p] /\ dupes'[p] = dupes[p]

\* A refresh that is left alone goes on.
LEMMA CallingStays ==
    ASSUME NEW p, Calling(p), SameCall(p)
    PROVE  Calling(p)'
BY Zenon DEF Calling, SameCall, Asked

\* What infos routes does not change with the rest of the state.
LEMMA RoutesStay ==
    ASSUME RoutesTheUnambiguous, UNCHANGED shared
    PROVE  RoutesTheUnambiguous'
BY Zenon DEF RoutesTheUnambiguous, shared

\* Both tables of an aggregator are emptied by Close.
LEMMA RoutesNothing ==
    ASSUME CloseAll
    PROVE  RoutesTheUnambiguous' /\ infos' = NoInfos /\ clients' = {}
<1>1. infos' = NoInfos /\ clients' = {} /\ basis' = NoBasis
    BY Zenon DEF CloseAll
<1>2. \A i \in Ids : NoInfos[i] = None
    BY Zenon DEF NoInfos
<1> QED BY <1>1, <1>2, NothingRoutes, Zenon DEF RoutesTheUnambiguous

\* An instance changes.
LEMMA InstanceChangesKeeps ==
    ASSUME Shapes, NEW a \in Addrs, InstanceChanges(a)
    PROVE  Shapes' /\ UNCHANGED <<shared, calls>>
<1>1. PICK i \in Reports[a] \cup {None} : server' = [server EXCEPT ![a] = i]
    BY Zenon DEF InstanceChanges
<1>2. i \in Ids \cup {None}
    BY <1>1, AggregatorAssumption, Zenon DEF AggregatorAssumption
<1>3. UNCHANGED <<shared, calls>>
    BY Zenon DEF InstanceChanges
<1> QED BY <1>1, <1>2, <1>3, Zenon DEF Shapes, shared, calls

\* The endpoints are resolved (aggregator.go:90-98).
LEMMA ResolveKeeps ==
    ASSUME Shapes, NEW p \in Procs, RefreshResolve(p)
    PROVE  Shapes' /\ Calling(p)' /\ op'[p] = "refresh" /\ UNCHANGED <<world, shared>>
<1>1. PICK l \in EndpointLists[p] : wanted' = Set(wanted, p, l)
    BY Zenon DEF RefreshResolve
<1>2. op' = Set(op, p, "refresh") /\ UNCHANGED <<world, shared, reply, infoMap, dupes>>
    BY Zenon DEF RefreshResolve
<1>3. op'[p] = "refresh" /\ wanted'[p] = l /\ DOMAIN op' = Procs /\ DOMAIN wanted' = Procs
    BY <1>1, <1>2, Zenon DEF Set, Shapes
<1> QED BY <1>1, <1>2, <1>3, Zenon DEF Shapes, Calling, world, shared

\* The clients are brought in line with the endpoints (aggregator.go:100-126):
\* no answer is in yet.
LEMMA DialKeeps ==
    ASSUME Shapes, NEW p \in Procs, Calling(p), RefreshDial(p)
    PROVE  /\ Shapes' /\ Calling(p)' /\ Covered(p)' /\ op[p] = "refresh" /\ op'[p] = "infos"
           /\ wanted[p] \in EndpointLists[p]
           /\ clients' \in {Range(wanted[p]), clients \cap Range(wanted[p])}
           /\ UNCHANGED <<infos, basis>>
<1> DEFINE w == wanted[p]
           r == [k \in DOMAIN w |-> IF w[k] \in clients' THEN Wait ELSE None]
<1>1. /\ op[p] = "refresh" /\ clients' \in {Range(w), clients \cap Range(w)} /\ wanted' = wanted
      /\ op' = Set(op, p, "infos") /\ reply' = Set(reply, p, r) /\ infoMap' = Set(infoMap, p, NoInfos)
      /\ dupes' = Set(dupes, p, {}) /\ UNCHANGED <<server, infos, basis>>
    BY ZenonT(40) DEF RefreshDial
<1>2. w \in EndpointLists[p] /\ w \in Seq(Addrs)
    BY <1>1, AggregatorAssumption DEF Calling, AggregatorAssumption
<1>3. \A k \in DOMAIN w : w[k] \in Addrs
    BY <1>2
<1>4. clients' \subseteq Addrs
    BY <1>1, <1>3, ZenonT(40) DEF Range
<1>5. /\ op'[p] = "infos" /\ wanted'[p] = w /\ reply'[p] = r /\ infoMap'[p] = NoInfos /\ dupes'[p] = {}
      /\ DOMAIN op' = Procs /\ DOMAIN wanted' = Procs /\ DOMAIN reply' = Procs
      /\ DOMAIN infoMap' = Procs /\ DOMAIN dupes' = Procs
    BY <1>1, Zenon DEF Set, Shapes
<1>6. /\ DOMAIN r = DOMAIN w
      /\ \A k \in DOMAIN w : r[k] \in {Wait, None} /\ (r[k] # None => w[k] \in clients')
    BY Zenon
<1> HIDE DEF w, r
<1>7. \A i \in Ids : Reported(r, i) = {}
    BY <1>6, AggregatorAssumption, SMTT(30) DEF Reported, AggregatorAssumption
<1>8. NoInfos \in [Ids -> Addrs \cup {None}] /\ \A i \in Ids : NoInfos[i] = None
    BY Zenon DEF NoInfos
<1>9. Sorted(w, r, NoInfos, {})
    BY <1>3, <1>6, <1>7, <1>8, ZenonT(40) DEF Sorted
<1>10. Asked(p)' /\ Covered(p)'
    BY <1>5, <1>6, <1>9, ZenonT(40) DEF Asked, Covered
<1>11. Shapes'
    BY <1>1, <1>4, <1>5, ZenonT(40) DEF Shapes
<1> QED BY <1>1, <1>2, <1>5, <1>10, <1>11, ZenonT(40) DEF Calling, w

\* All answers are in: infos is made of them (aggregator.go:175-190).
LEMMA StoreKeeps ==
    ASSUME Shapes, NEW p \in Procs, Calling(p), Covered(p), RefreshStore(p)
    PROVE  /\ Shapes' /\ Calling(p)' /\ op'[p] = "refreshed" /\ RoutesTheUnambiguous' /\ UNCHANGED clients
<1> DEFINE w == wanted[p]
           r == reply[p]
<1>1. /\ op[p] = "infos" /\ infos' = infoMap[p] /\ op' = Set(op, p, "refreshed")
      /\ basis' = [list |-> w, ids |-> r]
      /\ reply' = Set(reply, p, <<>>) /\ infoMap' = Set(infoMap, p, NoInfos)
      /\ dupes' = Set(dupes, p, {}) /\ wanted' = Set(wanted, p, <<>>) /\ UNCHANGED <<server, clients>>
    BY Zenon DEF RefreshStore, world
<1>2. Sorted(w, r, infos', dupes[p])
    BY <1>1, ZenonT(40) DEF Calling, Asked
<1>3. \A k \in DOMAIN w : r[k] # None => w[k] \in clients
    BY Zenon DEF Covered
<1>4. basis'.list = w /\ basis'.ids = r
    BY <1>1
<1> HIDE DEF w, r
<1>5. \A i \in Ids : {n \in DOMAIN w : r[n] = i} = Reported(r, i)
    BY <1>2, Zenon DEF Reported, Sorted
<1>6. infos' \in [Ids -> Addrs \cup {None}]
    BY <1>2, Zenon DEF Sorted
<1>7. \A i \in Ids : infos'[i] # None => \E k \in DOMAIN w : {n \in DOMAIN w : r[n] = i} = {k} /\ infos'[i] = w[k]
    BY <1>2, <1>5, ZenonT(40) DEF Sorted
<1>8. \A i \in Ids : infos'[i] = None => \A k : {n \in DOMAIN w : r[n] = i} # {k}
    <2> SUFFICES ASSUME NEW i \in Ids, infos'[i] = None, NEW k, Reported(r, i) = {k} PROVE FALSE
        BY <1>5, Zenon
    <2>1. i \in dupes[p] \/ Reported(r, i) = {}
        BY <1>2, Zenon DEF Sorted
    <2>2. i \in dupes[p] => Several({k})
        BY <1>2, Zenon DEF Sorted
    <2>3. ~Several({k})
        BY Zenon DEF Several
    <2> QED BY <2>1, <2>2, <2>3, ZenonT(40)
<1>9. infos' = Unambiguous(w, r)
    BY <1>6, <1>7, <1>8, RoutesOf, SMTT(30)
<1>10. \A i \in Ids : infos'[i] # None => infos'[i] \in clients'
    <2>1. \A i \in Ids : i # None
        BY AggregatorAssumption DEF AggregatorAssumption
    <2>2. QED BY <1>1, <1>3, <1>7, <2>1, ZenonT(40)
<1>11. RoutesTheUnambiguous'
    <2>1. infos' = Unambiguous(basis'.list, basis'.ids)
        BY <1>4, <1>9, Zenon
    <2>2. QED BY <1>10, <2>1, Zenon DEF RoutesTheUnambiguous, Unambiguous
<1>12. op'[p] = "refreshed" /\ Shapes'
    BY <1>1, Zenon DEF Set, Shapes
<1> QED BY <1>1, <1>11, <1>12, ZenonT(40) DEF Calling

\* An answer or an error comes in, and nothing else changes.
LEMMA AnswerKeeps ==
    ASSUME Shapes, NEW p \in Procs, Calling(p), op[p] = "infos" => Covered(p), NEW k \in DOMAIN reply[p],
           NEW b, ServerInfo(p, k) \/ RpcFails(p, k, b)
    PROVE  /\ Shapes' /\ Calling(p)' /\ (op[p] = "infos" => Covered(p)') /\ op' = op /\ wanted' = wanted
           /\ UNCHANGED shared
<1>1. op[p] \in {"infos", "list"} /\ UNCHANGED <<server, shared, op, wanted>> /\ reply[p][k] = Wait
    BY Zenon DEF ServerInfo, RpcFails, world, Waiting
<1>2. DOMAIN reply' = Procs /\ DOMAIN infoMap' = Procs /\ DOMAIN dupes' = Procs
    BY Zenon DEF ServerInfo, RpcFails, Shapes
<1>3. ASSUME op[p] = "infos" PROVE Asked(p)' /\ Covered(p)'
    <2>1. k \in DOMAIN wanted[p] /\ Sorted(wanted[p], reply[p], infoMap[p], dupes[p])
        BY <1>3, ZenonT(40) DEF Calling, Asked, Sorted
    <2>2. Wait # None
        BY AggregatorAssumption DEF AggregatorAssumption
    <2>3. \A x \in DOMAIN wanted[p] : reply'[p][x] # None => reply[p][x] # None
        <3>1. PICK v : reply'[p] = [reply[p] EXCEPT ![k] = v]
            BY ZenonT(40) DEF ServerInfo, RpcFails, Shapes
        <3>2. QED BY <1>1, <2>1, <2>2, <3>1, ZenonT(40) DEF Sorted
    <2>4. Covered(p)'
        BY <1>1, <1>3, <2>3, ZenonT(40) DEF Covered, shared
    <2>5. CASE ServerInfo(p, k)
        <3>1. PICK i \in Ids : i = server[wanted[p][k]]
            BY <2>1, <2>5, Zenon DEF ServerInfo, Answers, Shapes, Sorted
        <3>2. /\ reply'[p] = [reply[p] EXCEPT ![k] = i]
              /\ infoMap'[p] = [infoMap[p] EXCEPT ![i] = IF infoMap[p][i] = None /\ i \notin dupes[p]
                                                         THEN wanted[p][k] ELSE None]
              /\ dupes'[p] = IF infoMap[p][i] = None THEN dupes[p] ELSE dupes[p] \cup {i}
            BY <2>5, <3>1, ZenonT(40) DEF ServerInfo, Shapes
        <3>3. Sorted(wanted[p], reply'[p], infoMap'[p], dupes'[p])
            BY <1>1, <2>1, <3>2, AnswerSorted, SMTT(30)
        <3>4. QED BY <1>1, <2>4, <3>3, Zenon DEF Asked
    <2>6. CASE RpcFails(p, k, b)
        <3>1. reply'[p] = [reply[p] EXCEPT ![k] = None] /\ UNCHANGED <<infoMap, dupes>>
            BY <2>6, Zenon DEF RpcFails, Shapes
        <3>2. QED BY <1>1, <2>1, <2>4, <3>1, ErrorSorted, ZenonT(40) DEF Asked
    <2>7. QED BY <2>5, <2>6, Zenon
<1> QED BY <1>1, <1>2, <1>3, ZenonT(40) DEF Shapes, Calling, shared

\* The calls that list, kill and stream (aggregator.go:205-330) leave what
\* Refresh found, and the calls of other goroutines, alone.
LEMMA OtherCalls ==
    ASSUME Shapes, NEW h \in Procs, NEW o, NEW i, NEW s, NEW b,
           \/ ListJobs(h) \/ Route(h, o, i) \/ Kill(h, s, b) \/ StreamEnds(h, s, b)
           \/ \E k \in DOMAIN reply[h] : ListReply(h, k) \/ RpcFails(h, k, b)
    PROVE  Shapes' /\ UNCHANGED shared /\ \A p \in Procs : p # h => SameCall(p)
<1>1. CASE ListJobs(h) \/ Route(h, o, i) \/ Kill(h, s, b) \/ StreamEnds(h, s, b)
    <2>1. /\ UNCHANGED <<server, shared, infoMap, dupes>> /\ \E x : op' = Set(op, h, x)
          /\ wanted' = wanted \/ \E x : wanted' = Set(wanted, h, x)
          /\ reply' = reply \/ \E x : reply' = Set(reply, h, x)
        BY <1>1, ZenonT(40) DEF ListJobs, Route, Kill, StreamEnds, world
    <2>2. QED BY <2>1, ZenonT(40) DEF Shapes, SameCall, Set, shared
<1>2. ASSUME NEW k \in DOMAIN reply[h], ListReply(h, k) \/ RpcFails(h, k, b)
      PROVE  Shapes' /\ UNCHANGED shared /\ \A p \in Procs : p # h => SameCall(p)
    <2>1. /\ UNCHANGED <<server, shared, op, wanted, infoMap, dupes>> /\ \E x : reply' = [reply EXCEPT ![h][k] = x]
        BY <1>2, ZenonT(40) DEF ListReply, RpcFails, world
    <2>2. QED BY <2>1, ZenonT(40) DEF Shapes, SameCall, shared
<1> QED BY <1>1, <1>2, Zenon

\* A call returns.
LEMMA DoneKeeps ==
    ASSUME Shapes, NEW h \in Procs, Done(h), UNCHANGED server, clients' \subseteq Addrs
    PROVE  Shapes' /\ op'[h] = "idle" /\ \A p \in Procs : p # h => SameCall(p)
BY ZenonT(40) DEF Shapes, SameCall, Done, Set

-----------------------------------------------------------------------------
(* The tools. *)

\* webadmin's refreshing goroutine (main.go:152-170).
LEMMA LoopKeeps ==
    ASSUME Shapes, RoutesTheUnambiguous, WebAt, main # "closed", LoopStep
    PROVE  Shapes' /\ RoutesTheUnambiguous' /\ WebAt'
<1> Loop \in Procs
    BY WebAssumption, ZenonT(40) DEF WebAssumption
<1>1. CASE StartRefresh
    <2>1. RefreshResolve(Loop) /\ UNCHANGED main
        BY <1>1, Zenon DEF StartRefresh, wvars
    <2>2. Shapes' /\ Calling(Loop)' /\ op'[Loop] = "refresh" /\ UNCHANGED <<world, shared>>
        BY <2>1, ResolveKeeps, Zenon
    <2>3. QED BY <2>1, <2>2, RoutesStay, ZenonT(40) DEF WebAt, shared
<1>2. CASE RefreshOver
    <2>1. Done(Loop) /\ UNCHANGED <<world, shared>>
        BY <1>2, Zenon DEF RefreshOver
    <2>2. UNCHANGED server /\ clients' \subseteq Addrs /\ UNCHANGED clients
        BY <2>1, Zenon DEF world, shared, Shapes
    <2>3. Shapes' /\ op'[Loop] = "idle"
        BY <2>1, <2>2, DoneKeeps, Zenon
    <2>4. QED BY <2>1, <2>2, <2>3, RoutesStay, ZenonT(40) DEF WebAt, Calling
<1>3. CASE RefreshDial(Loop) /\ UNCHANGED wvars
    <2>1. /\ Shapes' /\ Calling(Loop)' /\ Covered(Loop)' /\ op'[Loop] = "infos"
          /\ wanted[Loop] \in EndpointLists[Loop]
          /\ clients' \in {Range(wanted[Loop]), clients \cap Range(wanted[Loop])}
          /\ UNCHANGED <<infos, basis>>
        BY <1>3, DialKeeps, Zenon DEF WebAt
    <2>2. \A l \in EndpointLists[Loop] : l = wanted[Loop]
        BY <2>1, WebAssumption, Zenon DEF WebAssumption
    <2>3. clients \subseteq clients' /\ clients' \subseteq Range(wanted[Loop])
        BY <2>1, Zenon DEF WebAt
    <2>4. RoutesTheUnambiguous'
        BY <2>1, <2>3, Zenon DEF RoutesTheUnambiguous
    <2>5. QED BY <2>1, <2>2, <2>3, <2>4, ZenonT(40) DEF WebAt
<1>4. CASE RefreshStore(Loop) /\ UNCHANGED wvars
    <2>1. op[Loop] = "infos"
        BY <1>4, Zenon DEF RefreshStore
    <2>2. Shapes' /\ Calling(Loop)' /\ op'[Loop] = "refreshed" /\ RoutesTheUnambiguous' /\ UNCHANGED clients
        BY <1>4, <2>1, StoreKeeps, Zenon DEF WebAt
    <2>3. QED BY <2>2, Zenon DEF WebAt
<1>5. CASE (\E k \in DOMAIN reply[Loop] : ServerInfo(Loop, k) \/ RpcFails(Loop, k, FALSE)) /\ UNCHANGED wvars
    <2>1. /\ Shapes' /\ Calling(Loop)' /\ (op[Loop] = "infos" => Covered(Loop)') /\ op' = op /\ UNCHANGED shared
        BY <1>5, AnswerKeeps, ZenonT(40) DEF WebAt
    <2>2. QED BY <1>5, <2>1, RoutesStay, Zenon DEF WebAt, shared, wvars
<1> QED BY <1>1, <1>2, <1>3, <1>4, <1>5, ZenonT(40) DEF LoopStep

\* webadmin's HTTP handlers (api.go) only read what the loop has found.
LEMMA HandlerKeeps ==
    ASSUME Shapes, NEW h \in Handlers, HandlerStep(h)
    PROVE  Shapes' /\ UNCHANGED <<shared, main>> /\ SameCall(Loop)
<1>0. h \in Procs /\ Loop \in Procs /\ Loop # h
    BY WebAssumption, Zenon DEF WebAssumption
<1>1. CASE ServeCall(h)
    BY <1>0, <1>1, OtherCalls, ZenonT(40) DEF ServeCall, wvars
<1>2. CASE Respond(h)
    <2>1. Done(h) /\ UNCHANGED <<main, world, shared>>
        BY <1>2, Zenon DEF Respond
    <2>2. UNCHANGED server /\ clients' \subseteq Addrs
        BY <2>1, Zenon DEF world, shared, Shapes
    <2>3. QED BY <1>0, <2>1, <2>2, DoneKeeps, ZenonT(40)
<1>3. ASSUME NEW r \in Requests, Serve(h, r) PROVE Shapes' /\ UNCHANGED <<shared, main>> /\ SameCall(Loop)
    BY <1>0, <1>3, OtherCalls, Zenon DEF Serve
<1>4. CASE (\E i \in DOMAIN reply[h] : ListReply(h, i) \/ RpcFails(h, i, TRUE)) /\ UNCHANGED wvars
    BY <1>0, <1>4, OtherCalls, Zenon DEF wvars
<1> QED BY <1>1, <1>2, <1>3, <1>4, ZenonT(40) DEF HandlerStep

\* webadmin keeps the invariant, its exit included.
LEMMA WebKeeps ==
    ASSUME Shapes, RoutesTheUnambiguous, WebAt, WNext
    PROVE  Shapes' /\ RoutesTheUnambiguous' /\ WebAt'
<1>1. CASE LoopStep
    BY <1>1, LoopKeeps, Zenon DEF WNext
<1>2. CASE WebExit
    <2>1. CloseAll /\ main' = "closed" /\ UNCHANGED <<world, calls>>
        BY <1>2, Zenon DEF WebExit
    <2>2. RoutesTheUnambiguous' /\ clients' = {}
        BY <2>1, RoutesNothing, Zenon
    <2>3. Shapes' /\ SameCall(Loop)
        BY <2>1, <2>2, Zenon DEF Shapes, SameCall, world, calls
    <2>4. QED BY <2>1, <2>2, <2>3, CallingStays, ZenonT(40) DEF WebAt
<1>3. ASSUME NEW h \in Handlers, HandlerStep(h) PROVE Shapes' /\ RoutesTheUnambiguous' /\ WebAt'
    <2>1. Shapes' /\ UNCHANGED <<shared, main>> /\ SameCall(Loop)
        BY <1>3, HandlerKeeps, Zenon
    <2>2. Calling(Loop)' /\ (Covered(Loop) => Covered(Loop)')
        BY <2>1, CallingStays, Zenon DEF WebAt, Covered, SameCall, shared
    <2>3. QED BY <2>1, <2>2, RoutesStay, ZenonT(40) DEF WebAt, SameCall, shared
<1> QED BY <1>1, <1>2, <1>3, Zenon DEF WNext

\* The steps of the admin shell around its commands.
Around ==
    \/ \E k \in {"enter", "ctrl-c", "other"} : TypeKey(k)
    \/ Leave \/ Mux \/ HandleSession \/ ReadLine \/ ReadPlain \/ RunShellLine \/ Clear \/ ShellExit

\* They touch no aggregator and start no command (shell.go).
LEMMA AroundKeeps ==
    ASSUME Around
    PROVE  UNCHANGED avars /\ (shell' = "run" => shell = "run" /\ cmd' = cmd)
<1>1. CASE (\E k \in {"enter", "ctrl-c", "other"} : TypeKey(k)) \/ Leave \/ Mux
    BY <1>1, ZenonT(40) DEF TypeKey, Leave, Mux, ReadLoop, Feed, Scan, WriteFails, runvars
<1>2. CASE HandleSession \/ Clear \/ ShellExit
    BY <1>2, ZenonT(40) DEF HandleSession, Clear, ShellExit, AfterLine
<1>3. CASE ReadLine \/ ReadPlain
    BY <1>3, ZenonT(40) DEF ReadLine, ReadPlain, Typed
<1>4. CASE RunShellLine
    BY <1>4, ZenonT(40) DEF RunShellLine, AfterLine
<1> QED BY <1>1, <1>2, <1>3, <1>4, ZenonT(40) DEF Around

\* A command ends with the Close of its aggregator (main.go, deferred).
LEMMA FinishKeeps ==
    ASSUME Shapes, Finish
    PROVE  Shapes' /\ RoutesTheUnambiguous' /\ ShellAt'
<1>1. CloseAll /\ Done(Cmd) /\ shell' = "clear" /\ UNCHANGED server /\ Cmd \in Procs
    BY ShellAssumption, Zenon DEF Finish, RunVarsBut, world, ShellAssumption
<1>2. RoutesTheUnambiguous' /\ infos' = NoInfos /\ clients' = {}
    BY <1>1, RoutesNothing, Zenon
<1>3. Shapes' /\ op'[Cmd] = "idle"
    BY <1>1, <1>2, DoneKeeps, Zenon
<1> QED BY <1>1, <1>2, <1>3, ZenonT(40) DEF ShellAt, Calling

\* A command goes to an instance: it kills or streams.
LEMMA RouteKeeps ==
    ASSUME Shapes, RoutesTheUnambiguous, WellFormed(cmd), cmd.name # <<"list">>, NEW i,
           Route(Cmd, cmd.name[1], i), UNCHANGED svars
    PROVE  Shapes' /\ RoutesTheUnambiguous' /\ ShellAt'
<1>0. Cmd \in Procs
    BY ShellAssumption, Zenon DEF ShellAssumption
<1>1. Shapes' /\ UNCHANGED shared
    BY <1>0, OtherCalls, ZenonT(40)
<1>2. cmd.name[1] \in {"kill", "stream"}
    BY DEF WellFormed
<1>3. op'[Cmd] \in {"unknown", "kill", "stream"}
    BY <1>0, <1>2, ZenonT(40) DEF Route, Set, Shapes
<1>4. WellFormed(cmd)'
    BY ZenonT(40) DEF svars, runvars, WellFormed
<1> QED BY <1>1, <1>3, <1>4, RoutesStay, ZenonT(40) DEF ShellAt, Calling

\* A command runs: it makes an aggregator, refreshes it, uses it and closes
\* it.
LEMMA CommandKeeps ==
    ASSUME Shapes, RoutesTheUnambiguous, ShellAt, Start \/ Refreshed \/ Listed \/ Called
    PROVE  Shapes' /\ RoutesTheUnambiguous' /\ ShellAt'
<1>0. Cmd \in Procs
    BY ShellAssumption, Zenon DEF ShellAssumption
<1>1. CASE Finish
    BY <1>1, FinishKeeps, Zenon
<1>2. CASE Start
    <2>1. CASE WellFormed(cmd)
        <3>1. RefreshResolve(Cmd) /\ shell' = "run" /\ UNCHANGED cmd /\ op[Cmd] = "idle"
            BY <1>2, <2>1, Zenon DEF Start, RunVarsBut, RefreshResolve
        <3>2. Shapes' /\ Calling(Cmd)' /\ op'[Cmd] = "refresh" /\ UNCHANGED <<world, shared>>
            BY <1>0, <3>1, ResolveKeeps, ZenonT(40)
        <3>3. infos' = NoInfos /\ WellFormed(cmd)'
            BY <2>1, <3>1, <3>2, Zenon DEF ShellAt, shared, WellFormed
        <3>4. QED BY <3>1, <3>2, <3>3, RoutesStay, ZenonT(40) DEF ShellAt
    <2>2. CASE ~WellFormed(cmd)
        <3>1. shell' = "clear" /\ UNCHANGED avars
            BY <1>2, <2>2, Zenon DEF Start, RunVarsBut
        <3>2. SameCall(Cmd) /\ Shapes' /\ UNCHANGED <<shared, clients, infos>>
            BY <3>1, Zenon DEF avars, world, shared, calls, SameCall, Shapes
        <3>3. Calling(Cmd)' /\ (Covered(Cmd) => Covered(Cmd)')
            BY <3>2, CallingStays, Zenon DEF ShellAt, Covered, SameCall
        <3>4. QED BY <3>1, <3>2, <3>3, RoutesStay, ZenonT(40) DEF ShellAt, SameCall
    <2>3. QED BY <2>1, <2>2, ZenonT(40)
<1>3. ASSUME WellFormed(cmd), ListJobs(Cmd), UNCHANGED svars PROVE Shapes' /\ RoutesTheUnambiguous' /\ ShellAt'
    <2>1. Shapes' /\ UNCHANGED shared
        BY <1>0, <1>3, OtherCalls, ZenonT(40)
    <2>2. op'[Cmd] = "list"
        BY <1>0, <1>3, Zenon DEF ListJobs, Set, Shapes
    <2>3. WellFormed(cmd)'
        BY <1>3, Zenon DEF svars, runvars, WellFormed
    <2>4. QED BY <2>1, <2>2, <2>3, RoutesStay, ZenonT(40) DEF ShellAt, Calling
<1>4. CASE Refreshed
    <2>1. WellFormed(cmd)
        BY <1>4, Zenon DEF Refreshed, ShellAt
    <2>2. QED BY <1>1, <1>3, <1>4, <2>1, RouteKeeps, ZenonT(40) DEF Refreshed
<1>5. CASE Listed
    <2>1. WellFormed(cmd)
        BY <1>5, Zenon DEF Listed, ShellAt
    <2>2. QED BY <1>1, <1>5, <2>1, RouteKeeps, ZenonT(40) DEF Listed
<1>6. CASE Called
    BY <1>1, <1>6, Zenon DEF Called
<1> QED BY <1>2, <1>4, <1>5, <1>6, ZenonT(40)

\* The calls of a command on its aggregator.
LEMMA ShellCallsKeep ==
    ASSUME Shapes, RoutesTheUnambiguous, ShellAt, ShellCalls
    PROVE  Shapes' /\ RoutesTheUnambiguous' /\ ShellAt'
<1>0. Cmd \in Procs
    BY ShellAssumption, Zenon DEF ShellAssumption
<1>1. UNCHANGED svars /\ UNCHANGED <<shell, cmd>> /\ WellFormed(cmd) /\ WellFormed(cmd)'
    BY Zenon DEF ShellCalls, ShellAt, svars, runvars, WellFormed
<1>2. CASE RefreshDial(Cmd)
    <2>1. /\ Shapes' /\ Calling(Cmd)' /\ Covered(Cmd)' /\ op[Cmd] = "refresh" /\ op'[Cmd] = "infos"
          /\ UNCHANGED <<infos, basis>>
        BY <1>0, <1>2, DialKeeps, Zenon DEF ShellAt
    <2>2. infos = NoInfos /\ \A i \in Ids : NoInfos[i] = None
        BY <2>1, Zenon DEF ShellAt, NoInfos
    <2>3. RoutesTheUnambiguous'
        BY <2>1, <2>2, ZenonT(40) DEF RoutesTheUnambiguous
    <2>4. QED BY <1>1, <2>1, <2>2, <2>3, ZenonT(40) DEF ShellAt
<1>3. CASE RefreshStore(Cmd)
    <2>1. op[Cmd] = "infos"
        BY <1>3, Zenon DEF RefreshStore
    <2>2. Shapes' /\ Calling(Cmd)' /\ op'[Cmd] = "refreshed" /\ RoutesTheUnambiguous'
        BY <1>0, <1>3, <2>1, StoreKeeps, ZenonT(40) DEF ShellAt
    <2>3. QED BY <1>1, <2>2, Zenon DEF ShellAt
<1>4. ASSUME NEW k \in DOMAIN reply[Cmd], ServerInfo(Cmd, k) \/ RpcFails(Cmd, k, cancelled)
      PROVE  Shapes' /\ RoutesTheUnambiguous' /\ ShellAt'
    <2>1. Shapes' /\ Calling(Cmd)' /\ (op[Cmd] = "infos" => Covered(Cmd)') /\ op' = op /\ UNCHANGED shared
        BY <1>0, <1>4, AnswerKeeps, ZenonT(40) DEF ShellAt
    <2>2. QED BY <1>1, <2>1, RoutesStay, Zenon DEF ShellAt, shared
<1>5. ASSUME NEW k \in DOMAIN reply[Cmd], ListReply(Cmd, k) PROVE Shapes' /\ RoutesTheUnambiguous' /\ ShellAt'
    <2>1. Shapes' /\ UNCHANGED shared
        BY <1>0, <1>5, OtherCalls, ZenonT(40)
    <2>2. op'[Cmd] = "list"
        BY <1>5, Zenon DEF ListReply
    <2>3. QED BY <1>1, <2>1, <2>2, RoutesStay, ZenonT(40) DEF ShellAt, Calling
<1>6. CASE Kill(Cmd, cmd.session, cancelled) \/ StreamEnds(Cmd, cmd.session, cancelled)
    <2>1. Shapes' /\ UNCHANGED shared
        BY <1>0, <1>6, OtherCalls, ZenonT(40)
    <2>2. op'[Cmd] = "called"
        BY <1>0, <1>6, Zenon DEF Kill, StreamEnds, Set, Shapes
    <2>3. QED BY <1>1, <2>1, <2>2, RoutesStay, ZenonT(40) DEF ShellAt, Calling
<1> QED BY <1>2, <1>3, <1>4, <1>5, <1>6, ZenonT(40) DEF ShellCalls

\* A frame arrives at the handler of a stream.
LEMMA StreamFrameKeeps ==
    ASSUME Shapes, RoutesTheUnambiguous, ShellAt, NEW f, StreamFrame(f)
    PROVE  Shapes' /\ RoutesTheUnambiguous' /\ ShellAt'
<1>1. /\ op[Cmd] = "stream" /\ op' \in {op, [op EXCEPT ![Cmd] = "called"]} /\ UNCHANGED <<shell, cmd>>
      /\ UNCHANGED <<server, shared, wanted, reply, infoMap, dupes>>
    BY Zenon DEF StreamFrame, runvars, world
<1>2. op'[Cmd] \in {"stream", "called"} /\ DOMAIN op' = Procs
    BY <1>1, ShellAssumption, ZenonT(40) DEF Shapes, ShellAssumption
<1>3. Shapes' /\ (shell' = "run" => WellFormed(cmd)')
    BY <1>1, <1>2, Zenon DEF Shapes, shared, ShellAt, WellFormed
<1> QED BY <1>1, <1>2, <1>3, RoutesStay, ZenonT(40) DEF ShellAt, Calling

\* The admin shell keeps the invariant.
LEMMA ShellKeeps ==
    ASSUME Shapes, RoutesTheUnambiguous, ShellAt, SNext
    PROVE  Shapes' /\ RoutesTheUnambiguous' /\ ShellAt'
<1>1. CASE Around
    <2>1. UNCHANGED avars /\ (shell' = "run" => shell = "run" /\ cmd' = cmd)
        BY <1>1, AroundKeeps, Zenon
    <2>2. SameCall(Cmd) /\ Shapes' /\ UNCHANGED <<shared, clients, infos>>
        BY <2>1, Zenon DEF avars, world, shared, calls, SameCall, Shapes
    <2>3. Calling(Cmd)' /\ (Covered(Cmd) => Covered(Cmd)')
        BY <2>2, CallingStays, Zenon DEF ShellAt, Covered, SameCall
    <2>4. shell' = "run" => WellFormed(cmd)'
        BY <2>1, Zenon DEF ShellAt, WellFormed
    <2>5. QED BY <2>2, <2>3, <2>4, RoutesStay, ZenonT(40) DEF ShellAt, SameCall
<1>2. CASE Start \/ Refreshed \/ Listed \/ Called
    BY <1>2, CommandKeeps, Zenon
<1>3. CASE ShellCalls
    BY <1>3, ShellCallsKeep, ZenonT(40)
<1>4. CASE \E f \in Frames : StreamFrame(f)
    BY <1>4, StreamFrameKeeps, Zenon
<1> QED BY <1>1, <1>2, <1>3, <1>4, ZenonT(40) DEF SNext, Shell, Around

-----------------------------------------------------------------------------
\* A tool starts with an aggregator that knows nothing.
LEMMA RouteInitHolds == Init => RouteInv
<1> SUFFICES ASSUME Init PROVE RouteInv
    OBVIOUS
<1>1. /\ tool \in {"web", "shell"} /\ shell = "new" /\ clients = {} /\ infos = NoInfos
      /\ basis = NoBasis /\ op = [p \in Procs |-> "idle"]
      /\ server \in [Addrs -> Ids]
    BY Zenon DEF Init, AInit, SInit
<1>2. Shapes
    BY <1>1, Zenon DEF Shapes, Init, AInit
<1>3. RoutesTheUnambiguous
    <2>1. \A i \in Ids : NoInfos[i] = None
        BY Zenon DEF NoInfos
    <2>2. QED BY <1>1, <2>1, NothingRoutes, ZenonT(40) DEF RoutesTheUnambiguous
<1>4. op[Loop] = "idle" /\ op[Cmd] = "idle"
    BY <1>1, WebAssumption, ShellAssumption, ZenonT(40) DEF WebAssumption, ShellAssumption
<1>5. WebAt /\ ShellAt
    BY <1>1, <1>4, Zenon DEF WebAt, ShellAt, Calling
<1> QED BY <1>1, <1>2, <1>3, <1>5, ZenonT(40) DEF RouteInv

\* Nothing either tool or an instance does breaks it.
LEMMA RouteStepHolds == RouteInv /\ [Next]_vars => RouteInv'
<1> SUFFICES ASSUME RouteInv, [Next]_vars PROVE RouteInv'
    OBVIOUS
<1>0. UNCHANGED tool
    BY Zenon DEF Next, vars
<1>1. ASSUME Shapes', UNCHANGED <<shared, calls, main, shell, cmd>> PROVE RouteInv'
    <2>1. /\ SameCall(Loop) /\ SameCall(Cmd) /\ UNCHANGED <<clients, infos>>
          /\ (Covered(Loop) => Covered(Loop)') /\ (Covered(Cmd) => Covered(Cmd)')
        BY <1>1, Zenon DEF SameCall, calls, shared, Covered
    <2>2. RoutesTheUnambiguous'
        BY <1>1, RoutesStay, Zenon DEF RouteInv
    <2>3. tool = "web" => WebAt'
        BY <1>1, <2>1, CallingStays, ZenonT(40) DEF RouteInv, WebAt, SameCall
    <2>4. tool = "shell" => ShellAt'
        BY <1>1, <2>1, CallingStays, ZenonT(40) DEF RouteInv, ShellAt, SameCall, WellFormed
    <2>5. QED BY <1>0, <1>1, <2>2, <2>3, <2>4, ZenonT(40) DEF RouteInv
<1>2. CASE World
    <2>1. Shapes' /\ UNCHANGED <<shared, calls>>
        BY <1>2, InstanceChangesKeeps, Zenon DEF World, RouteInv
    <2>2. UNCHANGED <<main, shell, cmd>>
        BY <1>2, Zenon DEF World, wvars, svars, runvars
    <2>3. QED BY <1>1, <2>1, <2>2, ZenonT(40)
<1>3. CASE tool = "web" /\ WNext
    BY <1>0, <1>3, WebKeeps, Zenon DEF RouteInv
<1>4. CASE tool = "shell" /\ SNext
    BY <1>0, <1>4, ShellKeeps, ZenonT(40) DEF RouteInv
<1>5. CASE UNCHANGED vars
    <2>1. UNCHANGED <<shared, calls, main, shell, cmd>> /\ UNCHANGED world
        BY <1>5, Zenon DEF vars, avars, wvars, svars, runvars
    <2>2. Shapes'
        BY <2>1, Zenon DEF RouteInv, Shapes, world, shared, calls
    <2>3. QED BY <1>1, <2>1, <2>2, ZenonT(40)
<1> QED BY <1>2, <1>3, <1>4, <1>5, ZenonT(40) DEF Next

\* An identifier is routed exactly when one entry of the list of endpoints
\* reported it in the refresh the routes come from, in whatever order the
\* answers came in and whichever of them failed (aggregator.go:147-160,
\* 175-190), and the client of a routed identifier is there.  It holds for
\* lists of any length, repeated addresses included, in webadmin, whose list
\* is fixed, and in the admin shell.
THEOREM RoutesTheorem == Spec => []RoutesTheUnambiguous
<1>1. RouteInv => RoutesTheUnambiguous
    BY DEF RouteInv
<1> QED BY <1>1, RouteInitHolds, RouteStepHolds, PTL DEF Spec

-----------------------------------------------------------------------------
(* What streamHandler records (main.go:430-502). *)

\* The channel of the first header.
LockOf(s) == IF Headers(s) = {} THEN None ELSE s[FirstHeader(s)].channel

\* There is a first header, and frames that come later do not change it.
LEMMA FirstStays ==
    ASSUME NEW s \in Seq(Frames), NEW f \in Frames, Headers(s) # {}
    PROVE  /\ FirstHeader(s) \in 1 .. Len(s) /\ s[FirstHeader(s)].kind = "header"
           /\ FirstHeader(Append(s, f)) = FirstHeader(s)
<1> DEFINE t == Append(s, f)
           k == FirstHeader(s)
<1>1. /\ Len(s) \in Nat /\ DOMAIN s = 1 .. Len(s) /\ DOMAIN t = 1 .. (Len(s) + 1)
      /\ \A n \in 1 .. Len(s) : t[n] = s[n]
    OBVIOUS
<1> HIDE DEF t
<1>2. Headers(s) \subseteq Nat BY <1>1 DEF Headers
<1>4. k \in Headers(s) /\ \A m \in Headers(s) : k <= m BY <1>2, FirstOfIs, Zenon DEF FirstHeader
<1> HIDE DEF k
<1>5. k \in 1 .. Len(s) /\ s[k].kind = "header" BY <1>1, <1>4 DEF Headers
<1>6. k \in Headers(t) BY <1>1, <1>5 DEF Headers
<1>7. ASSUME NEW m \in Headers(t) PROVE k <= m
    <2>1. m \in 1 .. (Len(s) + 1) /\ t[m].kind = "header" BY <1>1 DEF Headers
    <2>2. CASE m \in 1 .. Len(s)
        <3>1. m \in Headers(s) BY <1>1, <2>1, <2>2 DEF Headers
        <3> QED BY <1>4, <3>1, Zenon
    <2>3. CASE m \notin 1 .. Len(s) BY <1>1, <1>5, <2>1, <2>3
    <2> QED BY <2>2, <2>3, Zenon
<1>8. Headers(t) \subseteq Nat BY <1>1 DEF Headers
<1>9. FirstHeader(t) = k BY <1>6, <1>7, <1>8, FirstOfUnique, Zenon DEF FirstHeader
<1> QED BY <1>5, <1>9, Zenon DEF t, k

\* A header that comes first is the first.
LEMMA FirstIs ==
    ASSUME NEW s \in Seq(Frames), NEW f \in Frames, Headers(s) = {}
    PROVE  /\ f.kind = "header" => FirstHeader(Append(s, f)) = Len(s) + 1
           /\ Headers(Append(s, f)) = IF f.kind = "header" THEN {Len(s) + 1} ELSE {}
<1>1. /\ Len(s) \in Nat /\ DOMAIN Append(s, f) = 1 .. (Len(s) + 1)
      /\ \A n \in 1 .. Len(s) : Append(s, f)[n] = s[n] /\ s[n].kind # "header"
      /\ Append(s, f)[Len(s) + 1] = f
    BY DEF Headers
<1>2. Headers(Append(s, f)) = IF f.kind = "header" THEN {Len(s) + 1} ELSE {}
    BY <1>1 DEF Headers
<1>3. f.kind = "header" => FirstHeader(Append(s, f)) = Len(s) + 1
    BY <1>1, <1>2 DEF FirstHeader, FirstOf
<1> QED BY <1>2, <1>3, Zenon

\* The headers stay headers.
LEMMA HeadersStay ==
    ASSUME NEW s \in Seq(Frames), NEW f \in Frames, Headers(s) # {}
    PROVE  Headers(Append(s, f)) # {}
BY DEF Headers

\* One more frame: from the first header on, it is chosen if it is of the
\* same channel.
LEMMA ChosenGrows ==
    ASSUME NEW s \in Seq(Frames), NEW f \in Frames, Headers(s) # {}
    PROVE  /\ Chosen(s) \in Seq(Frames)
           /\ Chosen(Append(s, f)) =
                IF f.channel = LockOf(s) THEN Append(Chosen(s), f) ELSE Chosen(s)
<1> DEFINE t == Append(s, f)
           k == FirstHeader(s)
           S == {x \in Frames : x.channel = s[k].channel}
           a == SubSeq(s, k, Len(s))
<1>1. k \in 1 .. Len(s) /\ FirstHeader(t) = k BY FirstStays, Zenon
<1> HIDE DEF k
<1>2. /\ Len(t) = Len(s) + 1 /\ t[k] = s[k] /\ a \in Seq(Frames)
      /\ SubSeq(t, k, Len(t)) = Append(a, f)
    BY <1>1
<1> HIDE DEF t, a
<1>3. Filter(Append(a, f), S) = IF f \in S THEN Append(Filter(a, S), f) ELSE Filter(a, S)
    <2> HIDE DEF S
    <2> QED BY <1>2, FilterAppend, Zenon
<1>4. Filter(a, S) \in Seq(Frames)
    <2> HIDE DEF S
    <2> QED BY <1>2, FilterKeeps, Zenon
<1>5. Chosen(s) = Filter(a, S) BY Zenon DEF Chosen, k, a
<1>6. Chosen(t) = Filter(Append(a, f), S) BY <1>1, <1>2, Zenon DEF Chosen
<1>7. LockOf(s) = s[k].channel BY Zenon DEF LockOf, k
<1>8. f \in S <=> f.channel = LockOf(s) BY <1>7, Zenon
<1> HIDE DEF S
<1> QED BY <1>3, <1>4, <1>5, <1>6, <1>8, Zenon DEF t

\* What the first header starts: a recording of itself.
LEMMA ChosenStarts ==
    ASSUME NEW s \in Seq(Frames), NEW f \in Frames, Headers(s) = {}, f.kind = "header"
    PROVE  Chosen(Append(s, f)) = <<f>> /\ LockOf(Append(s, f)) = f.channel
<1> DEFINE t == Append(s, f)
           k == Len(s) + 1
           S == {x \in Frames : x.channel = f.channel}
<1>1. FirstHeader(t) = k /\ Headers(t) = {k} BY FirstIs, Zenon
<1>2. t[k] = f /\ Len(t) = k /\ k \in Nat /\ t \in Seq(Frames) OBVIOUS
<1>3. f \in S OBVIOUS
<1> HIDE DEF S, t, k
<1>4. SubSeq(t, k, k) = <<f>>
    <2>1. Len(SubSeq(t, k, k)) = 1 /\ SubSeq(t, k, k)[1] = f /\ SubSeq(t, k, k) \in Seq(Frames)
        BY <1>2, SMTT(30) DEF k
    <2>2. Len(<<f>>) = 1 /\ <<f>>[1] = f /\ <<f>> \in Seq(Frames) OBVIOUS
    <2>3. \A i \in 1 .. 1 : SubSeq(t, k, k)[i] = <<f>>[i] BY <2>1, <2>2
    <2> QED BY <2>1, <2>2, <2>3, SameSlice, Zenon
<1>5. Filter(<<f>>, S) = <<f>>
    <2>1. PICK e : e = <<>> OBVIOUS
    <2>2. e \in Seq(Frames) /\ Append(e, f) = <<f>> BY <2>1
    <2>3. Filter(e, S) = e BY <2>1, FilterEmpty, Zenon
    <2>4. Filter(Append(e, f), S) = IF f \in S THEN Append(Filter(e, S), f) ELSE Filter(e, S)
        BY <2>2, FilterAppend
    <2> QED BY <1>3, <2>2, <2>3, <2>4, Zenon
<1>7. Chosen(t) = Filter(<<f>>, S) BY <1>1, <1>2, <1>4, Zenon DEF Chosen, S
<1>6. LockOf(t) = f.channel
    <2>1. Headers(t) # {} BY <1>1
    <2> QED BY <1>1, <1>2, <2>1, Zenon DEF LockOf
<1> QED BY <1>5, <1>7, <1>6, Zenon DEF t

\* As it is recorded, a frame after the first.
Later(f) == IF f.kind = "header" THEN [f EXCEPT !.kind = "r"] ELSE f

\* The recording takes one more frame at its end.
LEMMA RecordingGrows ==
    ASSUME NEW s \in Seq(Frames), NEW f \in Frames, Headers(s) # {}, Recording(s) # <<>>
    PROVE  Recording(Append(s, f)) =
             IF f.channel = LockOf(s) THEN Append(Recording(s), Later(f)) ELSE Recording(s)
<1> DEFINE c == Chosen(s)
           d == Chosen(Append(s, f))
           Of(x) == [n \in DOMAIN x |->
                       LET g == x[n] IN IF n > 1 /\ g.kind = "header" THEN [g EXCEPT !.kind = "r"] ELSE g]
<1>1. c \in Seq(Frames) /\ d = (IF f.channel = LockOf(s) THEN Append(c, f) ELSE c)
    BY ChosenGrows, Zenon
<1>2. Recording(s) = Of(c) BY Zenon DEF Recording
<1>3. Headers(Append(s, f)) # {} BY HeadersStay, Zenon
<1>4. Recording(Append(s, f)) = Of(d) BY <1>3, Zenon DEF Recording
<1> HIDE DEF c, d
<1>5. Len(c) \in Nat /\ DOMAIN c = 1 .. Len(c) BY <1>1
<1>6. Of(c) \in Seq(UNION {Frames, {Of(c)[n] : n \in DOMAIN c}}) /\ Len(Of(c)) = Len(c)
    BY <1>5, SMTT(30)
<1>7. Len(c) > 0 BY <1>1, <1>2, <1>5, <1>6
<1>8. Of(Append(c, f)) = Append(Of(c), Later(f))
    <2>1. /\ DOMAIN Append(c, f) = 1 .. (Len(c) + 1) /\ Append(c, f)[Len(c) + 1] = f
          /\ \A n \in 1 .. Len(c) : Append(c, f)[n] = c[n]
        BY <1>1, <1>5
    <2>2. /\ DOMAIN Append(Of(c), Later(f)) = 1 .. (Len(c) + 1)
          /\ Append(Of(c), Later(f))[Len(c) + 1] = Later(f)
          /\ \A n \in 1 .. Len(c) : Append(Of(c), Later(f))[n] = Of(c)[n]
          /\ Append(Of(c), Later(f)) = [n \in 1 .. (Len(c) + 1) |-> Append(Of(c), Later(f))[n]]
        BY <1>5, <1>6, SMTT(30)
    <2>3. \A n \in 1 .. (Len(c) + 1) : Of(Append(c, f))[n] = Append(Of(c), Later(f))[n]
        <3>1. ASSUME NEW n \in 1 .. Len(c) PROVE Of(Append(c, f))[n] = Append(Of(c), Later(f))[n]
            BY <1>5, <2>1, <2>2
        <3>2. Of(Append(c, f))[Len(c) + 1] = Later(f) BY <1>5, <1>7, <2>1 DEF Later
        <3>3. \A n \in 1 .. (Len(c) + 1) : n \in 1 .. Len(c) \/ n = Len(c) + 1 BY <1>5
        <3> QED BY <2>2, <3>1, <3>2, <3>3, Zenon
    <2>4. Of(Append(c, f)) = [n \in 1 .. (Len(c) + 1) |-> Of(Append(c, f))[n]] BY <2>1, Zenon
    <2> QED BY <2>2, <2>3, <2>4, Zenon
<1> QED BY <1>1, <1>2, <1>4, <1>8, Zenon

\* What streamHandler has after the frames s.
Casting(s, l, o) ==
    /\ s \in Seq(Frames) /\ l = LockOf(s) /\ o = Recording(s)
    /\ Headers(s) # {} => o # <<>>

\* A command starts with a streamHandler that has seen nothing.
CastInv ==
    /\ shell \notin {"run", "clear"} => seen = <<>> /\ locked = None /\ out = <<>>
    /\ shell = "run" /\ cmd.format = "asciicast" => Casting(seen, locked, out)

\* Nothing is recorded of nothing.
LEMMA CastStarts == Casting(<<>>, None, <<>>)
<1>1. Headers(<<>>) = {} BY DEF Headers
<1>2. <<>> \in Seq(Frames) OBVIOUS
<1> QED BY <1>1, <1>2, Zenon DEF Casting, LockOf, Recording

\* streamHandler takes a frame.
LEMMA HandlerRecords ==
    ASSUME Casting(seen, locked, out), NEW f \in Frames, cmd.format = "asciicast",
           StreamHandler(f)
    PROVE  Casting(Append(seen, f), locked', out')
<1> DEFINE header == f.kind = "header"
           lock == IF locked = None /\ header THEN f.channel ELSE locked
           rec == [kind |-> IF header /\ out # <<>> THEN "r" ELSE f.kind, channel |-> f.channel]
<1>1. /\ locked' = lock
      /\ out' = IF f.channel = lock /\ (header \/ out # <<>>) THEN Append(out, rec) ELSE out
    <2>1. cmd.format # "raw" OBVIOUS
    <2> QED BY <2>1, Zenon DEF StreamHandler
<1>2. /\ seen \in Seq(Frames) /\ locked = LockOf(seen) /\ out = Recording(seen)
      /\ Headers(seen) # {} => out # <<>>
    BY Zenon DEF Casting
<1>3. f.channel \in Nat /\ f = [kind |-> f.kind, channel |-> f.channel] /\ f.channel # None
    BY ShellAssumption
<1>4. Append(seen, f) \in Seq(Frames) BY <1>2
<1>5. CASE Headers(seen) # {}
    <2>1. /\ FirstHeader(seen) \in 1 .. Len(seen)
          /\ FirstHeader(Append(seen, f)) = FirstHeader(seen)
        BY <1>2, <1>5, FirstStays, Zenon
    <2>2. seen[FirstHeader(seen)] \in Frames /\ Append(seen, f)[FirstHeader(seen)] = seen[FirstHeader(seen)]
        BY <1>2, <2>1
    <2>3. LockOf(seen) = seen[FirstHeader(seen)].channel BY <1>5, Zenon DEF LockOf
    <2>4. locked # None BY <1>2, <2>2, <2>3, ShellAssumption
    <2>5. lock = locked BY <2>4, Zenon
    <2>6. Headers(Append(seen, f)) # {} BY <1>2, <1>5, HeadersStay, Zenon
    <2>7. LockOf(Append(seen, f)) = LockOf(seen) BY <2>1, <2>2, <2>3, <2>6, Zenon DEF LockOf
    <2>8. rec = Later(f)
        <3>1. out # <<>> BY <1>2, <1>5, Zenon
        <3>2. [f EXCEPT !.kind = "r"] = [kind |-> "r", channel |-> f.channel] BY <1>3
        <3>3. header => rec = [kind |-> "r", channel |-> f.channel] BY <3>1, Zenon
        <3>4. ~header => rec = f BY <1>3, Zenon
        <3> QED BY <3>2, <3>3, <3>4, Zenon DEF Later
    <2> HIDE DEF rec, lock
    <2>9. out' = IF f.channel = LockOf(seen) THEN Append(out, Later(f)) ELSE out
        BY <1>1, <1>2, <1>5, <2>5, <2>8, Zenon
    <2>10. out' = Recording(Append(seen, f))
        BY <1>2, <1>5, <2>9, RecordingGrows, Zenon
    <2>11. out' # <<>>
        <3>1. out # <<>> BY <1>2, <1>5, Zenon
        <3>2. CASE f.channel = LockOf(seen)
            <4>1. out' = Append(out, Later(f)) BY <2>9, <3>2, Zenon
            <4> QED BY <4>1
        <3>3. CASE f.channel # LockOf(seen) BY <2>9, <3>1, <3>3, Zenon
        <3> QED BY <3>2, <3>3, Zenon
    <2> QED BY <1>1, <1>2, <1>4, <2>5, <2>7, <2>10, <2>11, Zenon DEF Casting
<1>6. CASE Headers(seen) = {} /\ header
    <2>1. out = <<>> /\ locked = None BY <1>2, <1>6, Zenon DEF Recording, LockOf
    <2>2. lock = f.channel BY <1>6, <2>1, Zenon
    <2>3. rec = f BY <1>3, <2>1, Zenon
    <2> HIDE DEF rec, lock
    <2>4. out' = Append(out, f) BY <1>1, <1>6, <2>2, <2>3, Zenon
    <2>5. out' = <<f>> BY <2>1, <2>4
    <2>6. Chosen(Append(seen, f)) = <<f>> /\ LockOf(Append(seen, f)) = f.channel
        BY <1>2, <1>6, ChosenStarts, Zenon
    <2>7. Headers(Append(seen, f)) # {}
        <3>1. Headers(Append(seen, f)) = {Len(seen) + 1} BY <1>2, <1>6, FirstIs, Zenon
        <3> QED BY <3>1
    <2>8. Recording(Append(seen, f)) =
            [n \in DOMAIN <<f>> |-> LET g == <<f>>[n]
                IN IF n > 1 /\ g.kind = "header" THEN [g EXCEPT !.kind = "r"] ELSE g]
        BY <2>6, <2>7, Zenon DEF Recording
    <2>9. Recording(Append(seen, f)) = <<f>> BY <2>8
    <2>10. <<f>> # <<>> OBVIOUS
    <2> QED BY <1>1, <1>4, <2>2, <2>5, <2>6, <2>9, <2>10, Zenon DEF Casting
<1>7. CASE Headers(seen) = {} /\ ~header
    <2>1. out = <<>> /\ locked = None BY <1>2, <1>7, Zenon DEF Recording, LockOf
    <2>2. lock = None BY <1>7, <2>1, Zenon
    <2>3. out' = <<>> BY <1>1, <1>7, <2>1, Zenon
    <2>4. Headers(Append(seen, f)) = {} BY <1>2, <1>7, FirstIs, Zenon
    <2> QED BY <1>1, <1>4, <2>2, <2>3, <2>4, Zenon DEF Casting, LockOf, Recording
<1> QED BY <1>5, <1>6, <1>7, Zenon

\* A step of the shell that leaves streamHandler alone and does not start a
\* command.
LEMMA CastKept ==
    ASSUME CastInv, UNCHANGED streamvars,
           \/ shell' = shell /\ cmd' = cmd
           \/ shell' = "clear"
           \/ shell \notin {"run", "clear"} /\ shell' \notin {"run", "clear"}
    PROVE  CastInv'
<1>1. "clear" \in {"run", "clear"} /\ "run" \in {"run", "clear"} /\ "clear" # "run" OBVIOUS
<1>2. CASE shell' = shell /\ cmd' = cmd BY <1>2, Zenon DEF CastInv, streamvars
<1>3. CASE shell' = "clear" BY <1>1, <1>3, Zenon DEF CastInv
<1>4. CASE shell \notin {"run", "clear"} /\ shell' \notin {"run", "clear"}
    BY <1>1, <1>4, Zenon DEF CastInv, streamvars
<1> QED BY <1>2, <1>3, <1>4, Zenon

\* Every step of the shell.
LEMMA ShellCasts == ASSUME CastInv, SNext PROVE CastInv'
<1>1. CASE (\E k \in {"enter", "ctrl-c", "other"} : TypeKey(k)) \/ Leave \/ Mux
    <2>1. UNCHANGED streamvars /\ shell' = shell /\ cmd' = cmd
        BY <1>1, ZenonT(40) DEF TypeKey, Leave, Mux, ReadLoop, Feed, Scan, WriteFails, runvars
    <2> QED BY <2>1, CastKept, Zenon
<1>2. CASE HandleSession \/ ReadLine \/ ReadPlain \/ ShellExit
    <2>1. UNCHANGED streamvars /\ shell \in {"new", "prompt", "exit"}
          /\ shell' \in {"line", "prompt", "exit", "ended"}
        <3>1. CASE HandleSession BY <3>1 DEF HandleSession
        <3>2. CASE ReadLine BY <3>2 DEF ReadLine, Typed
        <3>3. CASE ReadPlain BY <3>3 DEF ReadPlain, Typed
        <3>4. CASE ShellExit BY <3>4 DEF ShellExit
        <3> QED BY <1>2, <3>1, <3>2, <3>3, <3>4, Zenon
    <2>2. shell \notin {"run", "clear"} /\ shell' \notin {"run", "clear"} BY <2>1
    <2> QED BY <2>1, <2>2, CastKept, Zenon
<1>3. CASE RunShellLine
    <2>1. UNCHANGED streamvars /\ shell = "line" BY <1>3, Zenon DEF RunShellLine
    <2>2. shell' \in {"exit", "prompt", "start"} BY <1>3 DEF RunShellLine, AfterLine
    <2>3. shell \notin {"run", "clear"} /\ shell' \notin {"run", "clear"} BY <2>1, <2>2
    <2> QED BY <2>1, <2>3, CastKept, Zenon
<1>4. CASE Start
    <2>1. UNCHANGED streamvars /\ shell = "start" /\ (shell' = "run" \/ shell' = "clear")
        BY <1>4, Zenon DEF Start, RunVarsBut
    <2>2. seen = <<>> /\ locked = None /\ out = <<>>
        <3>1. shell \notin {"run", "clear"} BY <2>1
        <3> QED BY <3>1, Zenon DEF CastInv
    <2>3. Casting(seen', locked', out') BY <2>1, <2>2, CastStarts, Zenon DEF streamvars
    <2>4. shell' \in {"run", "clear"} BY <2>1
    <2> QED BY <2>3, <2>4, Zenon DEF CastInv
<1>5. CASE Refreshed \/ Listed \/ Called \/ ShellCalls
    <2>1. UNCHANGED svars \/ Finish
        BY <1>5, ZenonT(40) DEF Refreshed, Listed, Called, ShellCalls
    <2>2. UNCHANGED streamvars /\ (shell' = "clear" \/ (shell' = shell /\ cmd' = cmd))
        BY <2>1, ZenonT(40) DEF Finish, RunVarsBut, svars, runvars
    <2> QED BY <2>2, CastKept, Zenon
<1>6. CASE Clear
    <2>1. /\ seen' = <<>> /\ locked' = None /\ out' = <<>> /\ shell' = AfterLine
        BY <1>6, Zenon DEF Clear
    <2>2. shell' # "run" BY <2>1 DEF AfterLine
    <2> QED BY <2>1, <2>2, Zenon DEF CastInv
<1>7. ASSUME NEW f \in Frames, StreamFrame(f) PROVE CastInv'
    <2>1. /\ shell = "run" /\ shell' = shell /\ cmd' = cmd /\ StreamHandler(f)
          /\ seen' = IF cmd.format = "raw" THEN seen ELSE Append(seen, f)
        BY <1>7, Zenon DEF StreamFrame, runvars
    <2>2. ASSUME cmd.format = "asciicast" PROVE Casting(seen', locked', out')
        <3>1. cmd.format # "raw" BY <2>2
        <3>2. seen' = Append(seen, f) BY <2>1, <3>1, Zenon
        <3>3. Casting(seen, locked, out) BY <2>1, <2>2, Zenon DEF CastInv
        <3> QED BY <2>1, <2>2, <3>2, <3>3, HandlerRecords, Zenon
    <2>3. shell' \in {"run", "clear"} BY <2>1
    <2> QED BY <2>1, <2>2, <2>3, Zenon DEF CastInv
<1> QED BY <1>1, <1>2, <1>3, <1>4, <1>5, <1>6, <1>7, ZenonT(40) DEF SNext, Shell

\* A recording in asciicast is one channel's, complete from its first header
\* on, whatever frames the stream carries, of any number of channels and in
\* any order (streamHandler, main.go:430-502).
THEOREM CastTheorem == Spec => []CastIsOneChannel
<1>1. Init => CastInv
    <2> SUFFICES ASSUME Init PROVE CastInv OBVIOUS
    <2>1. seen = <<>> /\ locked = None /\ out = <<>> /\ shell = "new"
        BY Zenon DEF Init, SInit
    <2>2. shell # "run" BY <2>1
    <2> QED BY <2>1, <2>2, Zenon DEF CastInv
<1>2. CastInv /\ [Next]_vars => CastInv'
    <2> SUFFICES ASSUME CastInv, [Next]_vars PROVE CastInv' BY Zenon
    <2>1. SNext \/ UNCHANGED svars BY Zenon DEF Next, World, vars
    <2>2. CASE UNCHANGED svars
        <3>1. UNCHANGED streamvars /\ shell' = shell /\ cmd' = cmd
            BY <2>2, Zenon DEF svars, runvars
        <3> QED BY <3>1, CastKept, Zenon
    <2> QED BY <2>1, <2>2, ShellCasts, Zenon
<1>3. CastInv => CastIsOneChannel BY Zenon DEF CastInv, CastIsOneChannel, Casting
<1> QED BY <1>1, <1>2, <1>3, PTL DEF Spec
=============================================================================
