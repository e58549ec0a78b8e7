----------------------- MODULE RegisterServer_proofs ------------------------
(***************************************************************************)
(* Proofs about the tunnel registry and the registration server, for any   *)
(* number of guids, connections, channels, binds and keys, any caps and    *)
(* either store.  The registry keeps its safety invariants; the server     *)
(* uses it only as TunnelRegistry allows, so that the theorems about the   *)
(* registry hold of it, at every moment somebody is answerable for each    *)
(* live tunnel, and the notices of live tunnels fit their queue.           *)
(***************************************************************************)
EXTENDS RegisterServer, FiniteSetTheorems, TLAPS

(* The registry. *)

\* What the invariants need to know besides the types: a channel that is
\* being opened or is open names its tunnel, and a tunnel was registered on a
\* connection that had been accepted and is still the one it is live on.
Bookkeeping ==
    /\ \A h \in Chans : chan[h].st \in {"opening", "open"} => chan[h].guid \in Guids
    /\ \A g \in Guids : owner[g] # None => conn[owner[g]] # "new"
    /\ \A g \in LiveGuids : live[g].conn = owner[g]

RegistryInv ==
    /\ TypeOK
    /\ Bookkeeping
    /\ WithinGlobalCap
    /\ TrackedAreLive
    /\ HalvesAgree
    /\ NoChannelForgotten
    /\ UnusedConnsAreClosed

USE DEF Entry, Record

\* The registry's state is well formed initially and after every method,
\* deferred close, connector step and restart (registry.go).
LEMMA TypeInit == Init => TypeOK
BY RegistryConstants DEF Init, TypeOK

\* Dropping live tunnels, as Remove, Delete and EvictIdle do, keeps the
\* registry well formed (registry.go:192-220, 275-301, 312-343).
LEMMA DropType ==
    ASSUME TypeOK, NEW G \in SUBSET Guids, Drop(G)
    PROVE  /\ live' \in [Guids -> Entry \cup {None}]
           /\ idle' \in SUBSET Guids
           /\ channels' \in [Guids -> SUBSET Chans]
           /\ closingCh' \in SUBSET Chans
           /\ closing' \in SUBSET Conns
<1>1. \A g \in LiveGuids : live[g].conn \in Conns
    BY Zenon DEF TypeOK, LiveGuids
<1>2. UnusedAfter(G \cap LiveGuids) \in SUBSET Conns
    BY <1>1, Zenon DEF UnusedAfter
<1>3. UNION {channels[g] : g \in G} \in SUBSET Chans
    BY DEF TypeOK
<1> QED BY <1>2, <1>3, ZenonT(40) DEF TypeOK, Drop

\* Every registry method and every step of its callers keeps the state well
\* formed.
LEMMA TypeStep == TypeOK /\ [Next]_regVars => TypeOK'
<1> SUFFICES ASSUME TypeOK, [Next]_regVars PROVE TypeOK'
    BY Zenon
<1>1. ASSUME NEW g \in Guids, TunnelStep(g) PROVE TypeOK'
    <2>1. ASSUME NEW c \in Conns, NEW k \in Keys, Put(g, c, k) PROVE TypeOK'
        BY <2>1, ZenonT(40) DEF TypeOK, Put
    <2>2. ASSUME NEW k \in Keys, UpdateConnectorKeyWire(g, k) PROVE TypeOK'
        BY <2>2, SMTT(30) DEF TypeOK, UpdateConnectorKeyWire, Restamp, RecordOf
    <2>3. CASE UpdateAllowPassword(g)
        BY <2>3, ZenonT(30) DEF TypeOK, UpdateAllowPassword, Restamp, RecordOf
    <2>4. CASE Touch(g) BY <2>4, Zenon DEF TypeOK, Touch
    <2>5. CASE AgeStored(g) BY <2>5, Zenon DEF TypeOK, AgeStored
    <2>6. CASE AgeLive(g) BY <2>6, Zenon DEF TypeOK, AgeLive
    <2>7. ASSUME NEW gone \in BOOLEAN, Remove(g, gone) PROVE TypeOK'
        <3>1. Drop({g}) BY <2>7, Zenon DEF Remove
        <3> QED BY <2>7, <3>1, DropType, Zenon DEF TypeOK, Remove
    <2> QED BY <1>1, <2>1, <2>2, <2>3, <2>4, <2>5, <2>6, <2>7, ZenonT(40) DEF TunnelStep
<1>2. ASSUME NEW h \in Chans, ChannelStep(h) PROVE TypeOK'
    <2>1. ASSUME NEW g \in Guids, OpenChannel(h, g) PROVE TypeOK'
        BY <2>1, Zenon DEF TypeOK, OpenChannel
    <2>2. CASE TrackChannel(h)
        <3>1. channels' \in [Guids -> SUBSET Chans]
            BY <2>2, ZenonT(40) DEF TypeOK, TrackChannel
        <3>2. chan' \in [Chans -> [st : {"free", "opening", "open", "closed"},
                                   guid : Guids \cup {None}]]
            <4>1. CASE live[chan[h].guid] # None BY <2>2, <4>1, SMTT(30) DEF TypeOK, TrackChannel
            <4>2. CASE live[chan[h].guid] = None BY <2>2, <4>2 DEF TypeOK, TrackChannel
            <4> QED BY <4>1, <4>2, Zenon
        <3> QED BY <2>2, <3>1, <3>2, Zenon DEF TypeOK, TrackChannel
    <2>3. CASE OpenFails(h) BY <2>3 DEF TypeOK, OpenFails
    <2>4. CASE CloseChannel(h) BY <2>4, ZenonT(30) DEF TypeOK, CloseChannel
    <2>5. CASE CloseTaken(h) BY <2>5 DEF TypeOK, CloseTaken
    <2> QED BY <1>2, <2>1, <2>2, <2>3, <2>4, <2>5, Zenon DEF ChannelStep
<1>3. ASSUME NEW c \in Conns, ConnStep(c) PROVE TypeOK'
    BY <1>3, ZenonT(40) DEF TypeOK, ConnStep, Accept, ConnGoesDown, CloseConn
<1>4. CASE Sweep
    <2> PICK kept \in SUBSET Guids : EvictIdle(kept) BY <1>4, Zenon DEF Sweep
    <2>1. Drop(LiveGuids \cap idle) BY Zenon DEF EvictIdle
    <2>2. LiveGuids \cap idle \in SUBSET Guids BY Zenon DEF LiveGuids
    <2> QED BY <2>1, <2>2, DropType, Zenon DEF TypeOK, EvictIdle
<1>5. CASE Restart
    BY <1>5, SMTT(30) DEF TypeOK, Restart
<1>6. CASE UNCHANGED regVars
    BY <1>6, Zenon DEF TypeOK, regVars
<1> QED BY <1>1, <1>2, <1>3, <1>4, <1>5, <1>6, Zenon DEF Next

-----------------------------------------------------------------------------
(* The steps of a sweep and of a Remove, seen as the removal of a set of    *)
(* tunnels: what holds of Drop holds of both.                               *)

\* A sweep drops a set of live tunnels (EvictIdle, registry.go:312-322).
LEMMA SweepDrops ==
    ASSUME Sweep
    PROVE  \E G \in SUBSET Guids : G \subseteq LiveGuids /\ Drop(G) /\ UNCHANGED <<owner, chan, conn>>
<1> PICK kept \in SUBSET Guids : EvictIdle(kept) BY Zenon DEF Sweep
<1>1. Drop(LiveGuids \cap idle) /\ UNCHANGED <<owner, chan, conn>> BY Zenon DEF EvictIdle
<1> QED BY <1>1, Zenon DEF LiveGuids

\* Removing one tunnel drops it (Remove and Delete, registry.go:192-301).
LEMMA RemoveDrops ==
    ASSUME NEW g \in Guids, NEW gone \in BOOLEAN, Remove(g, gone)
    PROVE  Drop({g}) /\ UNCHANGED <<owner, chan, conn>>
BY Zenon DEF Remove

\* Channels keep naming their tunnel and tunnels their connection.
LEMMA BookkeepingStep == TypeOK /\ Bookkeeping /\ [Next]_regVars => Bookkeeping'
<1> SUFFICES ASSUME TypeOK, Bookkeeping, [Next]_regVars PROVE Bookkeeping'
    BY Zenon
<1> USE RegistryConstants
<1>1. ASSUME NEW g \in Guids, TunnelStep(g) PROVE Bookkeeping'
    <2>1. ASSUME NEW c \in Conns, NEW k \in Keys, Put(g, c, k) PROVE Bookkeeping'
        BY <2>1, ZenonT(40) DEF TypeOK, Bookkeeping, Put, LiveGuids
    <2>2. ASSUME UNCHANGED <<owner, chan, conn>>, live' \in [Guids -> Entry \cup {None}],
                 \A x \in LiveGuids' : x \in LiveGuids /\ live'[x].conn = live[x].conn
          PROVE  Bookkeeping'
        BY <2>2, Zenon DEF Bookkeeping
    <2>3. ASSUME NEW k \in Keys, UpdateConnectorKeyWire(g, k) PROVE Bookkeeping'
        BY <2>2, <2>3 DEF TypeOK, UpdateConnectorKeyWire, LiveGuids
    <2>4. CASE UpdateAllowPassword(g)
        <3>1. live[g] \in Entry BY <2>4, Zenon DEF TypeOK, UpdateAllowPassword
        <3>2. live'[g] = [live[g] EXCEPT !.pwd = TRUE]
            BY <2>4, Zenon DEF TypeOK, UpdateAllowPassword
        <3>3. live'[g] \in Entry /\ live'[g].conn = live[g].conn BY <3>1, <3>2, Zenon
        <3>4. \A x \in Guids \ {g} : live'[x] = live[x]
            BY <2>4, Zenon DEF TypeOK, UpdateAllowPassword
        <3> QED BY <2>4, <3>1, <3>3, <3>4, ZenonT(40) DEF Bookkeeping, LiveGuids, UpdateAllowPassword
    <2>5. CASE Touch(g) \/ AgeStored(g) \/ AgeLive(g)
        BY <2>5, Zenon DEF Bookkeeping, LiveGuids, Touch, AgeStored, AgeLive
    <2>6. ASSUME NEW gone \in BOOLEAN, Remove(g, gone) PROVE Bookkeeping'
        BY <2>6, Zenon DEF TypeOK, Bookkeeping, LiveGuids, Remove, Drop
    <2> QED BY <1>1, <2>1, <2>3, <2>4, <2>5, <2>6, Zenon DEF TunnelStep
<1>2. ASSUME NEW h \in Chans, ChannelStep(h) PROVE Bookkeeping'
    <2>1. ASSUME NEW g \in Guids, OpenChannel(h, g) PROVE Bookkeeping'
        BY <2>1, ZenonT(40) DEF TypeOK, Bookkeeping, LiveGuids, OpenChannel
    <2>2. CASE TrackChannel(h) BY <2>2 DEF TypeOK, Bookkeeping, LiveGuids, TrackChannel
    <2>3. CASE OpenFails(h) BY <2>3, SMTT(30) DEF TypeOK, Bookkeeping, LiveGuids, OpenFails
    <2>4. CASE CloseChannel(h) BY <2>4, SMTT(30) DEF TypeOK, Bookkeeping, LiveGuids, CloseChannel
    <2>5. CASE CloseTaken(h) BY <2>5, SMTT(30) DEF TypeOK, Bookkeeping, LiveGuids, CloseTaken
    <2> QED BY <1>2, <2>1, <2>2, <2>3, <2>4, <2>5, Zenon DEF ChannelStep
<1>3. ASSUME NEW c \in Conns, ConnStep(c) PROVE Bookkeeping'
    BY <1>3, SMTT(30) DEF TypeOK, Bookkeeping, LiveGuids, ConnStep, Accept, ConnGoesDown, CloseConn
<1>4. CASE Sweep
    BY <1>4, SweepDrops, SMTT(30) DEF Bookkeeping, LiveGuids, Drop
<1>5. CASE Restart
    BY <1>5 DEF TypeOK, Bookkeeping, LiveGuids, Restart
<1>6. CASE UNCHANGED regVars
    BY <1>6, ZenonT(40) DEF Bookkeeping, LiveGuids, regVars
<1> QED BY <1>1, <1>2, <1>3, <1>4, <1>5, <1>6, ZenonT(40) DEF Next

\* Taking the channels and removing the tunnel share one critical section,
\* and TrackChannel looks the tunnel up again (registry.go:66-96).
LEMMA TrackedStep == TypeOK /\ TrackedAreLive /\ [Next]_regVars => TrackedAreLive'
<1> SUFFICES ASSUME TypeOK, TrackedAreLive, [Next]_regVars PROVE TrackedAreLive'
    BY Zenon
<1> USE RegistryConstants
<1>1. ASSUME NEW G \in SUBSET Guids, Drop(G) PROVE TrackedAreLive'
    BY <1>1, ZenonT(40) DEF TypeOK, TrackedAreLive, Drop
<1>2. ASSUME NEW g \in Guids, TunnelStep(g) PROVE TrackedAreLive'
    <2>1. ASSUME NEW c \in Conns, NEW k \in Keys, Put(g, c, k) PROVE TrackedAreLive'
        <3>1. [conn |-> c, key |-> k, pwd |-> FALSE] \in Entry BY Zenon
        <3>2. live'[g] # None BY <2>1, <3>1, ZenonT(40) DEF TypeOK, Put
        <3> QED BY <2>1, <3>2, ZenonT(40) DEF TypeOK, TrackedAreLive, Put
    <2>2. ASSUME NEW k \in Keys, UpdateConnectorKeyWire(g, k) PROVE TrackedAreLive'
        BY <2>2, ZenonT(40) DEF TypeOK, TrackedAreLive, UpdateConnectorKeyWire
    <2>3. CASE UpdateAllowPassword(g)
        BY <2>3, ZenonT(40) DEF TypeOK, TrackedAreLive, UpdateAllowPassword
    <2>4. CASE Touch(g) \/ AgeStored(g) \/ AgeLive(g)
        BY <2>4, Zenon DEF TrackedAreLive, Touch, AgeStored, AgeLive
    <2>5. ASSUME NEW gone \in BOOLEAN, Remove(g, gone) PROVE TrackedAreLive'
        BY <2>5, <1>1, Zenon DEF Remove
    <2> QED BY <1>2, <2>1, <2>2, <2>3, <2>4, <2>5, Zenon DEF TunnelStep
<1>3. ASSUME NEW h \in Chans, ChannelStep(h) PROVE TrackedAreLive'
    <2>1. CASE TrackChannel(h) BY <2>1, Zenon DEF TypeOK, TrackedAreLive, TrackChannel
    <2>2. CASE CloseChannel(h) BY <2>2, ZenonT(40) DEF TypeOK, TrackedAreLive, CloseChannel
    <2>3. ASSUME UNCHANGED <<live, channels>> PROVE TrackedAreLive'
        BY <2>3, Zenon DEF TrackedAreLive
    <2> QED BY <1>3, <2>1, <2>2, <2>3, ZenonT(40) DEF ChannelStep, OpenChannel, OpenFails, CloseTaken
<1>4. ASSUME NEW c \in Conns, ConnStep(c) PROVE TrackedAreLive'
    BY <1>4, Zenon DEF TrackedAreLive, ConnStep, Accept, ConnGoesDown, CloseConn
<1>5. CASE Sweep BY <1>5, <1>1, SweepDrops, Zenon
<1>6. CASE Restart BY <1>6, Zenon DEF TrackedAreLive, Restart
<1>7. CASE UNCHANGED regVars BY <1>7, ZenonT(40) DEF TrackedAreLive, regVars
<1> QED BY <1>2, <1>3, <1>4, <1>5, <1>6, <1>7, Zenon DEF Next

\* The store is written before the live record is swapped in, and the sweep
\* skips the records of live tunnels (registry.go:233-243, 352-355).
LEMMA HalvesStep == TypeOK /\ HalvesAgree /\ [Next]_regVars => HalvesAgree'
<1> SUFFICES ASSUME TypeOK, HalvesAgree, [Next]_regVars PROVE HalvesAgree'
    BY Zenon
<1> USE RegistryConstants DEF HalvesAgree, LiveGuids, RecordOf
<1>1. ASSUME NEW g \in Guids, TunnelStep(g) PROVE HalvesAgree'
    <2>1. ASSUME NEW c \in Conns, NEW k \in Keys, Put(g, c, k) PROVE HalvesAgree'
        BY <2>1, ZenonT(40) DEF TypeOK, Put
    <2>2. ASSUME NEW k \in Keys, UpdateConnectorKeyWire(g, k) PROVE HalvesAgree'
        <3>1. live[g] \in Entry BY <2>2, ZenonT(40) DEF TypeOK, UpdateConnectorKeyWire
        <3>2. live'[g] = [live[g] EXCEPT !.key = k] /\ store'[g] = [key |-> k, pwd |-> live[g].pwd]
            BY <2>2, <3>1, ZenonT(40) DEF TypeOK, UpdateConnectorKeyWire
        <3>3. \A x \in Guids \ {g} : live'[x] = live[x] /\ store'[x] = store[x]
            BY <2>2, ZenonT(40) DEF TypeOK, UpdateConnectorKeyWire
        <3> QED BY <3>1, <3>2, <3>3
    <2>3. CASE UpdateAllowPassword(g)
        <3>1. live[g] \in Entry BY <2>3, Zenon DEF TypeOK, UpdateAllowPassword
        <3>2. live'[g] = [live[g] EXCEPT !.pwd = TRUE] /\ store'[g] = [key |-> live[g].key, pwd |-> TRUE]
            BY <2>3, <3>1, ZenonT(40) DEF TypeOK, UpdateAllowPassword
        <3>3. \A x \in Guids \ {g} : live'[x] = live[x] /\ store'[x] = store[x]
            BY <2>3, ZenonT(40) DEF TypeOK, UpdateAllowPassword
        <3> QED BY <3>1, <3>2, <3>3, ZenonT(30)
    <2>4. CASE Touch(g) \/ AgeStored(g) \/ AgeLive(g)
        BY <2>4, Zenon DEF Touch, AgeStored, AgeLive
    <2>5. ASSUME NEW gone \in BOOLEAN, Remove(g, gone) PROVE HalvesAgree'
        BY <2>5, ZenonT(40) DEF TypeOK, Remove, Drop
    <2> QED BY <1>1, <2>1, <2>2, <2>3, <2>4, <2>5, Zenon DEF TunnelStep
<1>2. ASSUME NEW h \in Chans, ChannelStep(h) PROVE HalvesAgree'
    <2>1. UNCHANGED <<live, store>>
        BY <1>2, Zenon DEF ChannelStep, OpenChannel, TrackChannel, OpenFails, CloseChannel, CloseTaken
    <2> QED BY <2>1, Zenon
<1>3. ASSUME NEW c \in Conns, ConnStep(c) PROVE HalvesAgree'
    BY <1>3, Zenon DEF ConnStep, Accept, ConnGoesDown, CloseConn
<1>4. CASE Sweep
    <2> PICK kept \in SUBSET Guids : EvictIdle(kept) BY <1>4, Zenon DEF Sweep
    <2> DEFINE G == LiveGuids \cap idle
    <2>1. \A g \in Guids : g \notin G /\ live[g] # None => g \notin Expired(G)
        BY Zenon DEF Expired
    <2>2. \A g \in Guids : live'[g] # None => g \notin G /\ live'[g] = live[g]
        BY Zenon DEF EvictIdle, Drop
    <2>3. \A g \in Guids : live'[g] # None => store'[g] = store[g]
        BY <2>1, <2>2, Zenon DEF EvictIdle
    <2> QED BY <2>2, <2>3, ZenonT(40)
<1>5. CASE Restart BY <1>5, Zenon DEF Restart
<1>6. CASE UNCHANGED regVars BY <1>6, Zenon DEF regVars
<1> QED BY <1>1, <1>2, <1>3, <1>4, <1>5, <1>6, ZenonT(40) DEF Next

\* No step leaves an open channel that is neither tracked nor taken
\* (registry.go:66-96, 198, 279, 315).
LEMMA ChannelsStep ==
    TypeOK /\ Bookkeeping /\ NoChannelForgotten /\ [Next]_regVars => NoChannelForgotten'
<1> SUFFICES ASSUME TypeOK, Bookkeeping, NoChannelForgotten, [Next]_regVars
             PROVE  NoChannelForgotten'
    BY ZenonT(40)
<1> USE RegistryConstants DEF NoChannelForgotten
<1>1. ASSUME NEW G \in SUBSET Guids, Drop(G), UNCHANGED chan PROVE NoChannelForgotten'
    BY <1>1 DEF TypeOK, Bookkeeping, Drop
<1>2. ASSUME UNCHANGED <<channels, chan, closingCh>> PROVE NoChannelForgotten'
    BY <1>2, Zenon
<1>3. ASSUME NEW g \in Guids, TunnelStep(g) PROVE NoChannelForgotten'
    <2>1. ASSUME NEW gone \in BOOLEAN, Remove(g, gone) PROVE NoChannelForgotten'
        BY <2>1, <1>1, Zenon DEF Remove
    <2> QED BY <1>2, <1>3, <2>1, ZenonT(40) DEF TunnelStep, Put, UpdateConnectorKeyWire,
              UpdateAllowPassword, Touch, AgeStored, AgeLive
<1>4. ASSUME NEW h \in Chans, ChannelStep(h) PROVE NoChannelForgotten'
    <2>1. ASSUME NEW g \in Guids, OpenChannel(h, g) PROVE NoChannelForgotten'
        BY <2>1, ZenonT(40) DEF TypeOK, OpenChannel
    <2>2. CASE TrackChannel(h) BY <2>2 DEF TypeOK, Bookkeeping, TrackChannel
    <2>3. CASE OpenFails(h) BY <2>3, SMTT(30) DEF TypeOK, OpenFails
    <2>4. CASE CloseChannel(h) BY <2>4, SMTT(30) DEF TypeOK, Bookkeeping, CloseChannel
    <2>5. CASE CloseTaken(h) BY <2>5 DEF TypeOK, CloseTaken
    <2> QED BY <1>4, <2>1, <2>2, <2>3, <2>4, <2>5, ZenonT(40) DEF ChannelStep
<1>5. ASSUME NEW c \in Conns, ConnStep(c) PROVE NoChannelForgotten'
    BY <1>5, <1>2, Zenon DEF ConnStep, Accept, ConnGoesDown, CloseConn
<1>6. CASE Sweep BY <1>6, <1>1, SweepDrops, ZenonT(40)
<1>7. CASE Restart BY <1>7, ZenonT(40) DEF TypeOK, Restart
<1>8. CASE UNCHANGED regVars BY <1>8, <1>2, Zenon DEF regVars
<1> QED BY <1>3, <1>4, <1>5, <1>6, <1>7, <1>8, Zenon DEF Next

\* A step that adds no tunnel keeps within the cap.
LEMMA CapMonotone ==
    ASSUME WithinGlobalCap, LiveGuids' \subseteq LiveGuids
    PROVE  WithinGlobalCap'
<1>1. IsFiniteSet(LiveGuids) /\ IsFiniteSet(LiveGuids')
    BY RegistryConstants, FS_Subset, Zenon DEF LiveGuids
<1>2. Cardinality(LiveGuids') <= Cardinality(LiveGuids)
    BY <1>1, FS_Subset, Zenon
<1>3. Cardinality(LiveGuids) \in Nat /\ Cardinality(LiveGuids') \in Nat
    BY <1>1, FS_CardinalityType, Zenon
<1> QED BY <1>2, <1>3, RegistryConstants DEF WithinGlobalCap

\* Only Put adds a tunnel, and it tests the cap in the critical section that
\* adds it (registry.go:122-133).
LEMMA CapStep == TypeOK /\ WithinGlobalCap /\ [Next]_regVars => WithinGlobalCap'
<1> SUFFICES ASSUME TypeOK, WithinGlobalCap, [Next]_regVars PROVE WithinGlobalCap'
    BY Zenon
<1>1. ASSUME NEW G \in SUBSET Guids, Drop(G) PROVE WithinGlobalCap'
    BY <1>1, CapMonotone, Zenon DEF Drop, LiveGuids
<1>2. ASSUME UNCHANGED live PROVE WithinGlobalCap'
    BY <1>2, CapMonotone, Zenon DEF LiveGuids
<1>3. ASSUME NEW g \in Guids, TunnelStep(g) PROVE WithinGlobalCap'
    <2>1. ASSUME NEW c \in Conns, NEW k \in Keys, Put(g, c, k) PROVE WithinGlobalCap'
        <3>1. LiveGuids' \subseteq LiveGuids \cup {g}
            BY <2>1, Zenon DEF Put, LiveGuids, TypeOK
        <3>2. IsFiniteSet(LiveGuids)
            BY RegistryConstants, FS_Subset, Zenon DEF LiveGuids
        <3>3. /\ IsFiniteSet(LiveGuids \cup {g})
              /\ Cardinality(LiveGuids \cup {g}) <= Cardinality(LiveGuids) + 1
            <4>1. Cardinality(LiveGuids) \in Nat BY <3>2, FS_CardinalityType, Zenon
            <4>2. /\ IsFiniteSet(LiveGuids \cup {g})
                  /\ Cardinality(LiveGuids \cup {g}) =
                        IF g \in LiveGuids THEN Cardinality(LiveGuids)
                                           ELSE Cardinality(LiveGuids) + 1
                BY <3>2, FS_AddElement, Zenon
            <4> QED BY <4>1, <4>2
        <3>4. Cardinality(LiveGuids') <= Cardinality(LiveGuids \cup {g})
            BY <3>1, <3>3, FS_Subset, Zenon
        <3>5. IsFiniteSet(LiveGuids')
            BY <3>1, <3>3, FS_Subset, Zenon
        <3>6. /\ Cardinality(LiveGuids) \in Nat
              /\ Cardinality(LiveGuids') \in Nat
              /\ Cardinality(LiveGuids \cup {g}) \in Nat
            BY <3>2, <3>3, <3>5, FS_CardinalityType, Zenon
        <3>7. maxTotal = 0 \/ Cardinality(LiveGuids) < maxTotal
            BY <2>1, Zenon DEF Put, UnderCap
        <3> QED BY <3>3, <3>4, <3>6, <3>7, RegistryConstants, SMTT(30) DEF WithinGlobalCap
    <2>2. ASSUME NEW k \in Keys, UpdateConnectorKeyWire(g, k) PROVE WithinGlobalCap'
        BY <2>2, CapMonotone, Zenon DEF UpdateConnectorKeyWire, LiveGuids, TypeOK
    <2>3. CASE UpdateAllowPassword(g)
        BY <2>3, CapMonotone, Zenon DEF UpdateAllowPassword, LiveGuids, TypeOK
    <2>4. CASE Touch(g) \/ AgeStored(g) \/ AgeLive(g)
        BY <2>4, <1>2, Zenon DEF Touch, AgeStored, AgeLive
    <2>5. ASSUME NEW gone \in BOOLEAN, Remove(g, gone) PROVE WithinGlobalCap'
        BY <2>5, <1>1, Zenon DEF Remove
    <2> QED BY <1>3, <2>1, <2>2, <2>3, <2>4, <2>5, ZenonT(40) DEF TunnelStep
<1>4. ASSUME NEW h \in Chans, ChannelStep(h) PROVE WithinGlobalCap'
    BY <1>4, <1>2, Zenon DEF ChannelStep, OpenChannel, TrackChannel, OpenFails,
                      CloseChannel, CloseTaken
<1>5. ASSUME NEW c \in Conns, ConnStep(c) PROVE WithinGlobalCap'
    BY <1>5, <1>2, Zenon DEF ConnStep, Accept, ConnGoesDown, CloseConn
<1>6. CASE Sweep BY <1>6, <1>1, SweepDrops, Zenon
<1>7. CASE Restart BY <1>7, CapMonotone, Zenon DEF Restart, LiveGuids
<1>8. CASE UNCHANGED regVars BY <1>8, <1>2, ZenonT(40) DEF regVars
<1> QED BY <1>3, <1>4, <1>5, <1>6, <1>7, <1>8, ZenonT(40) DEF Next

\* The step that removes the last tunnel of a connection takes on to close it
\* (registry.go:202-211, 283-292, 327-343).
LEMMA UnusedStep ==
    TypeOK /\ Bookkeeping /\ UnusedConnsAreClosed /\ [Next]_regVars => UnusedConnsAreClosed'
<1> SUFFICES ASSUME TypeOK, Bookkeeping, UnusedConnsAreClosed, [Next]_regVars
             PROVE  UnusedConnsAreClosed'
    BY Zenon
<1> USE RegistryConstants DEF UnusedConnsAreClosed, LiveOn, LiveGuids
<1>1. ASSUME NEW G \in SUBSET Guids, Drop(G), UNCHANGED <<owner, conn>>
      PROVE  UnusedConnsAreClosed'
    <2> SUFFICES ASSUME NEW g \in Guids, owner'[g] # None, LiveOn(owner[g])' = {}
                 PROVE  conn[owner[g]] # "up" \/ owner[g] \in closing'
        BY <1>1, Zenon
    <2> DEFINE c == owner[g]
    <2>1. CASE LiveOn(c) = {}
        BY <1>1, <2>1, Zenon DEF Drop
    <2>2. CASE LiveOn(c) # {}
        <3>1. \A x \in LiveGuids : live[x].conn = c => x \in G
            BY <1>1, Zenon DEF Drop
        <3>2. PICK x \in LiveGuids : live[x].conn = c
            BY <2>2, Zenon
        <3>3. c \in UnusedAfter(G \cap LiveGuids)
            BY <3>1, <3>2, Zenon DEF UnusedAfter
        <3> QED BY <1>1, <3>3, Zenon DEF Drop
    <2> QED BY <2>1, <2>2, Zenon
<1>2. ASSUME UNCHANGED <<live, owner, conn, closing>> PROVE UnusedConnsAreClosed'
    BY <1>2, Zenon
<1>3. ASSUME NEW g \in Guids, TunnelStep(g) PROVE UnusedConnsAreClosed'
    <2>1. ASSUME NEW c \in Conns, NEW k \in Keys, Put(g, c, k) PROVE UnusedConnsAreClosed'
        <3>1. [conn |-> c, key |-> k, pwd |-> FALSE] \in Entry BY Zenon
        <3>2. live'[g] # None /\ live'[g].conn = c BY <2>1, <3>1, ZenonT(40) DEF TypeOK, Put
        <3>3. \A x \in Guids \ {g} : live'[x] = live[x] /\ owner'[x] = owner[x]
            BY <2>1, ZenonT(40) DEF TypeOK, Put
        <3>4. live[g] = None BY <2>1, ZenonT(40) DEF TypeOK, Bookkeeping, Put
        <3>5. owner'[g] = c /\ conn' = conn /\ closing' = closing
            BY <2>1, ZenonT(40) DEF TypeOK, Put
        <3>6. \A d : LiveOn(d) \subseteq LiveOn(d)'
            BY <3>3, <3>4, Zenon
        <3>7. g \in LiveOn(c)' BY <3>2, Zenon
        <3> QED BY <3>3, <3>5, <3>6, <3>7, SMTT(30)
    <2>2. ASSUME NEW k \in Keys, UpdateConnectorKeyWire(g, k) PROVE UnusedConnsAreClosed'
        <3>1. \A x \in Guids : /\ live[x] # None <=> live'[x] # None
                               /\ live[x] # None => live'[x].conn = live[x].conn
            <4>1. live[g] \in Entry BY <2>2, Zenon DEF TypeOK, UpdateConnectorKeyWire
            <4>2. live'[g] = [live[g] EXCEPT !.key = k]
                BY <2>2, Zenon DEF TypeOK, UpdateConnectorKeyWire
            <4>3. live'[g] \in Entry /\ live'[g].conn = live[g].conn BY <4>1, <4>2, Zenon
            <4> QED BY <2>2, <4>1, <4>3, ZenonT(40) DEF TypeOK, UpdateConnectorKeyWire
        <3>2. \A d : LiveOn(d)' = LiveOn(d) BY <3>1, Zenon
        <3> QED BY <2>2, <3>2, Zenon DEF UpdateConnectorKeyWire
    <2>3. CASE UpdateAllowPassword(g)
        <3>1. \A x \in Guids : /\ live[x] # None <=> live'[x] # None
                               /\ live[x] # None => live'[x].conn = live[x].conn
            <4>1. live[g] \in Entry BY <2>3, Zenon DEF TypeOK, UpdateAllowPassword
            <4>2. live'[g] = [live[g] EXCEPT !.pwd = TRUE]
                BY <2>3, Zenon DEF TypeOK, UpdateAllowPassword
            <4>3. live'[g] \in Entry /\ live'[g].conn = live[g].conn BY <4>1, <4>2, Zenon
            <4> QED BY <2>3, <4>1, <4>3, ZenonT(40) DEF TypeOK, UpdateAllowPassword
        <3>2. \A d : LiveOn(d)' = LiveOn(d) BY <3>1, Zenon
        <3> QED BY <2>3, <3>2, ZenonT(40) DEF UpdateAllowPassword
    <2>4. CASE Touch(g) \/ AgeStored(g) \/ AgeLive(g)
        BY <2>4, <1>2, Zenon DEF Touch, AgeStored, AgeLive
    <2>5. ASSUME NEW gone \in BOOLEAN, Remove(g, gone) PROVE UnusedConnsAreClosed'
        BY <2>5, <1>1, Zenon DEF Remove
    <2> QED BY <1>3, <2>1, <2>2, <2>3, <2>4, <2>5, ZenonT(40) DEF TunnelStep
<1>4. ASSUME NEW h \in Chans, ChannelStep(h) PROVE UnusedConnsAreClosed'
    BY <1>4, <1>2, Zenon DEF ChannelStep, OpenChannel, TrackChannel, OpenFails,
                      CloseChannel, CloseTaken
<1>5. ASSUME NEW c \in Conns, ConnStep(c) PROVE UnusedConnsAreClosed'
    <2>1. \A d : LiveOn(d)' = LiveOn(d)
        BY <1>5, Zenon DEF ConnStep, Accept, ConnGoesDown, CloseConn
    <2>2. CASE Accept(c)
        <3>1. /\ UNCHANGED <<owner, closing>>
              /\ \A d \in Conns \ {c} : conn'[d] = conn[d]
            BY <2>2, Zenon DEF TypeOK, Accept
        <3>2. \A g \in Guids : owner[g] # None => owner[g] \in Conns \ {c}
            BY <2>2, ZenonT(40) DEF TypeOK, Bookkeeping, Accept
        <3> QED BY <2>1, <3>1, <3>2, SMTT(30)
    <2>3. CASE ConnGoesDown(c) BY <2>1, <2>3, ZenonT(40) DEF TypeOK, ConnGoesDown
    <2>4. CASE CloseConn(c) BY <2>1, <2>4, ZenonT(40) DEF TypeOK, CloseConn
    <2> QED BY <1>5, <2>2, <2>3, <2>4, ZenonT(40) DEF ConnStep
<1>6. CASE Sweep BY <1>6, <1>1, SweepDrops, Zenon
<1>7. CASE Restart BY <1>7, ZenonT(40) DEF TypeOK, Bookkeeping, Restart
<1>8. CASE UNCHANGED regVars BY <1>8, <1>2, Zenon DEF regVars
<1> QED BY <1>3, <1>4, <1>5, <1>6, <1>7, <1>8, ZenonT(40) DEF Next

-----------------------------------------------------------------------------
(* The theorems. *)

\* The registry's state stays well formed (registry.go:43-64).
THEOREM TypeCorrect == Spec => []TypeOK
BY TypeInit, TypeStep, PTL DEF Spec

\* The invariant holds of a registry with no tunnels (newRegistry).
LEMMA InvInit == Init => RegistryInv
<1> SUFFICES ASSUME Init PROVE RegistryInv
    BY Zenon
<1> USE RegistryConstants
<1>1. LiveGuids = {} BY Zenon DEF Init, LiveGuids
<1>2. WithinGlobalCap BY <1>1, FS_EmptySet DEF WithinGlobalCap
<1>3. Bookkeeping BY <1>1, Zenon DEF Init, Bookkeeping
<1>4. NoChannelForgotten BY Zenon DEF Init, NoChannelForgotten
<1>5. TrackedAreLive /\ UnusedConnsAreClosed
    BY Zenon DEF Init, TrackedAreLive, UnusedConnsAreClosed
<1>6. HalvesAgree BY <1>1, Zenon DEF HalvesAgree
<1> QED BY TypeInit, <1>2, <1>3, <1>4, <1>5, <1>6, Zenon DEF RegistryInv

\* Every step keeps the invariant.
LEMMA InvStep == RegistryInv /\ [Next]_regVars => RegistryInv'
BY TypeStep, BookkeepingStep, CapStep, TrackedStep, HalvesStep, ChannelsStep, UnusedStep, ZenonT(40)
   DEF RegistryInv

\* The inductive invariant, from which the theorems below follow.
THEOREM Invariance == Spec => []RegistryInv
BY InvInit, InvStep, PTL DEF Spec

\* However many registrations race, the live tunnels stay within --max-tunnels
\* (registry.go:118-128).
THEOREM CapTheorem == Spec => []WithinGlobalCap
<1>1. RegistryInv => WithinGlobalCap BY Zenon DEF RegistryInv
<1> QED BY <1>1, Invariance, PTL

\* A tracked channel belongs to a live tunnel, and an open channel is tracked
\* or about to be closed: the removal of a tunnel reaches every channel
\* opened through it (registry.go:66-96, 192-220, 275-301, 305-375).
THEOREM ChannelTheorem == Spec => [](TrackedAreLive /\ NoChannelForgotten)
<1>1. RegistryInv => TrackedAreLive /\ NoChannelForgotten BY Zenon DEF RegistryInv
<1> QED BY <1>1, Invariance, PTL

\* The live and the persisted half of a tunnel agree, whatever store
\* operations fail and whatever is swept (registry.go:122-141, 225-269,
\* 344-365).
THEOREM HalvesTheorem == Spec => []HalvesAgree
<1>1. RegistryInv => HalvesAgree BY Zenon DEF RegistryInv
<1> QED BY <1>1, Invariance, PTL

\* No registrar connection is kept open after its last tunnel
\* (registry.go:271-300, 323-343, 366-373).
THEOREM UnusedTheorem == Spec => []UnusedConnsAreClosed
<1>1. RegistryInv => UnusedConnsAreClosed BY Zenon DEF RegistryInv
<1> QED BY <1>1, Invariance, PTL

-----------------------------------------------------------------------------
(* The server. *)

HIDE DEF Entry, Record

\* What a goroutine holds where it is: the global-request goroutine runs only
\* while HandleConn waits for it, has tunnels to remove only while it removes
\* them (as cleanup does), and knows the tunnel and the bind it is
\* registering; the session knows the tunnel it is announcing and the key it
\* is about to apply.
Control ==
    \A c \in Conns :
        /\ gpc[c] # "off" => hpc[c] = "serve"
        /\ gset[c] # {} => gpc[c] \in {"remove", "closing"}
        /\ hset[c] # {} => hpc[c] = "cleanup"
        /\ gpc[c] \in {"record", "enqueue", "forget"} => gcur[c] \in Guids
        /\ gpc[c] \in {"put", "record"} => gbind[c] \in Binds
        /\ spc[c] \in {"key", "pwd", "lookup", "write", "error", "forget", "remove"}
              => scur[c] \in Guids
        /\ spc[c] = "key" => snap[c].key \in Keys

ServerInv == RTypeOK /\ Control /\ EveryTunnelHasAnOwner

\* The registry steps the server takes besides registry.Put.
OtherStep ==
    \/ \E g \in Guids : \/ \E k \in Keys : UpdateConnectorKeyWire(g, k)
                       \/ UpdateAllowPassword(g) \/ Remove(g, TRUE)
                       \/ Touch(g) \/ AgeStored(g) \/ AgeLive(g)
    \/ \E c \in Conns : ConnStep(c)
    \/ EvictIdle({})
    \/ UNCHANGED regVars

\* What the server does to the registry: it stores a tunnel, takes one of the
\* other steps or leaves it alone (server.go calls only registry methods).
LEMMA ServerCalls ==
    ASSUME Control, [RNext]_vars
    PROVE  OtherStep \/ \E c \in Conns, g \in Guids : StoreTunnel(c, g)
<1> DEFINE Goal == OtherStep \/ \E c \in Conns, g \in Guids : StoreTunnel(c, g)
<1>1. ASSUME NEW c \in Conns, GlobalStep(c) PROVE Goal
    <2>1. ASSUME NEW g \in Guids, RemoveCancelled(c, g) PROVE Goal
        BY <2>1, Zenon DEF RemoveCancelled, OtherStep
    <2>2. ASSUME UNCHANGED regVars PROVE Goal BY <2>2, ZenonT(40) DEF OtherStep
    <2> QED BY <1>1, <2>1, <2>2, Zenon
            DEF GlobalStep, TcpipForward, StoreFails, RecordTunnel, Enqueue, RevokeQueued,
                CancelTcpipForward, GlobalClosed, GlobalEnds
<1>2. ASSUME NEW c \in Conns, SessionStep(c) PROVE Goal
    <2>1. CASE OverrideKey(c)
        <3>1. scur[c] \in Guids /\ snap[c].key \in Keys BY <2>1, ZenonT(40) DEF OverrideKey, Control
        <3> QED BY <2>1, <3>1, Zenon DEF OverrideKey, OtherStep
    <2>2. CASE OverridePassword(c)
        <3>1. scur[c] \in Guids BY <2>2, Zenon DEF OverridePassword, Control
        <3> QED BY <2>2, <3>1, Zenon DEF OverridePassword, OtherStep
    <2>3. CASE RemoveFailed(c)
        <3>1. scur[c] \in Guids BY <2>3, Zenon DEF RemoveFailed, Control
        <3> QED BY <2>3, <3>1, ZenonT(40) DEF RemoveFailed, OtherStep
    <2>4. CASE EndSession(c) BY <2>4, Zenon DEF EndSession, OtherStep, ConnStep
    <2>5. ASSUME UNCHANGED regVars PROVE Goal BY <2>5, Zenon DEF OtherStep
    <2> QED BY <1>2, <2>1, <2>2, <2>3, <2>4, <2>5, ZenonT(40)
            DEF SessionStep, OpenSession, Shell, TakeNotif, ApplyEnv, OverrideFails,
                LookupTunnel, WriteBlock, WriteError, ForgetFailed, SessionClosed, StopSession
<1>3. ASSUME NEW c \in Conns, MainStep(c) PROVE Goal
    <2>1. ASSUME NEW g \in Guids, CleanupTunnel(c, g) PROVE Goal
        BY <2>1, Zenon DEF CleanupTunnel, OtherStep
    <2>2. CASE HandleConn(c) BY <2>2, Zenon DEF HandleConn, OtherStep, ConnStep
    <2>3. ASSUME UNCHANGED regVars PROVE Goal BY <2>3, Zenon DEF OtherStep
    <2> QED BY <1>3, <2>1, <2>2, <2>3, ZenonT(40) DEF MainStep, StartCleanup, EndCleanup
<1>4. CASE Surroundings BY <1>4, ZenonT(40) DEF Surroundings, OtherStep, ConnStep
<1>5. CASE UNCHANGED vars BY <1>5, Zenon DEF vars, OtherStep
<1> QED BY <1>1, <1>2, <1>3, <1>4, <1>5, ZenonT(40) DEF RNext

\* So every step of the server is a step of the registry or none.
LEMMA RegistryStep == Control /\ [RNext]_vars => [Next]_regVars
<1> SUFFICES ASSUME Control, [RNext]_vars PROVE [Next]_regVars
    BY Zenon
<1>1. ASSUME NEW c \in Conns, NEW g \in Guids, StoreTunnel(c, g) PROVE Next
    BY <1>1, ServerConstants, Zenon DEF StoreTunnel, Next, TunnelStep
<1>2. ASSUME NEW g \in Guids, Remove(g, TRUE) PROVE Next BY <1>2, Zenon DEF Next, TunnelStep
<1>3. CASE OtherStep BY <1>2, <1>3, ZenonT(40) DEF OtherStep, Next, TunnelStep, Sweep
<1> QED BY <1>1, <1>3, ServerCalls, Zenon

\* The handlers start well formed and at rest.
LEMMA ServerTypeInit == RInit => RTypeOK /\ Control
<1> SUFFICES ASSUME RInit PROVE RTypeOK /\ Control
    BY Zenon
<1>1. TypeOK BY TypeInit, Zenon DEF RInit
<1>2. NoEnv \in Env BY Zenon DEF NoEnv, Env
<1>3. QueueCap \in Nat BY ServerConstants, RegistryConstants, Zenon DEF QueueCap
<1>4. <<>> \in Seq(Guids) /\ Len(<<>>) = 0 OBVIOUS
<1>5. wclosed \in [Conns -> BOOLEAN] BY Zenon DEF RInit
<1>6. RTypeOK BY <1>1, <1>2, <1>3, <1>4, <1>5, SMTT(30) DEF RInit, RTypeOK
<1>7. Control BY Zenon DEF RInit, Control
<1> QED BY <1>6, <1>7, Zenon

\* The places of the goroutines and what they hold are functions of the
\* connection: all that Control and the owners of tunnels need of the types.
LEMMA Domains ==
    ASSUME RTypeOK
    PROVE  /\ DOMAIN gpc = Conns /\ DOMAIN gcur = Conns /\ DOMAIN gbind = Conns
           /\ DOMAIN gset = Conns /\ DOMAIN hGuids = Conns /\ DOMAIN spc = Conns
           /\ DOMAIN scur = Conns /\ DOMAIN snap = Conns /\ DOMAIN hpc = Conns
           /\ DOMAIN hset = Conns
BY Zenon DEF RTypeOK

\* Forgetting tunnels keeps the handler's bookkeeping well formed.
LEMMA ForgetType ==
    ASSUME RTypeOK, NEW c \in Conns, NEW G, Forget(c, G)
    PROVE  /\ hGuids' \in [Conns -> SUBSET Guids]
           /\ forwards' \in [Conns -> [Binds -> Guids \cup {None}]]
BY DEF Forget, RTypeOK

\* Moving the session on keeps it well formed; `pc` is one of its positions.
LEMMA SessionAtType ==
    ASSUME RTypeOK, Control, NEW c \in Conns,
           NEW pc \in {"loop", "pwd", "lookup", "write", "error", "closing", "end", "done"},
           SessionAt(c, pc),
           pc \in {"pwd", "lookup", "write", "error"} => scur[c] \in Guids,
           announced' \in SUBSET Guids, TypeOK'
    PROVE  RTypeOK' /\ Control'
<1>1. NoEnv \in Env BY Zenon DEF NoEnv, Env
<1>2. RTypeOK'
    BY <1>1, ZenonT(40) DEF SessionAt, RTypeOK, gVars, bookVars, mainVars
<1>3. Control'
    BY Domains, SMTT(30) DEF SessionAt, Control, gVars, mainVars
<1> QED BY <1>2, <1>3, ZenonT(40)

\* Every step keeps the handlers well formed and the goroutines where they
\* hold what they need (server.go:222-257, 504-730, 770-924).
LEMMA ServerTypeStep == RTypeOK /\ Control /\ [RNext]_vars => RTypeOK' /\ Control'
<1> SUFFICES ASSUME RTypeOK, Control, [RNext]_vars PROVE RTypeOK' /\ Control'
    BY Zenon
<1>1. TypeOK' BY RegistryStep, TypeStep, Zenon DEF RTypeOK
<1>2. NoEnv \in Env /\ QueueCap \in Nat
    BY ServerConstants, RegistryConstants, Zenon DEF NoEnv, Env, QueueCap
<1> USE DEF gVars, bookVars, sessVars, mainVars
<1>3. ASSUME NEW c \in Conns, GlobalStep(c) PROVE RTypeOK' /\ Control'
    <2>1. ASSUME NEW b \in Binds, TcpipForward(c, b) PROVE RTypeOK' /\ Control'
        <3>1. Forget(c, Guids \ LiveGuids) BY <2>1, Zenon DEF TcpipForward
        <3>2. RTypeOK' BY <1>1, <2>1, <3>1, ForgetType, ZenonT(40) DEF TcpipForward, RTypeOK
        <3>3. Control' BY <2>1, Domains, ZenonT(40) DEF TcpipForward, Control
        <3> QED BY <3>2, <3>3, Zenon
    <2>2. ASSUME NEW g \in Guids, StoreTunnel(c, g) PROVE RTypeOK' /\ Control'
        <3>1. RTypeOK' BY <1>1, <2>2, ZenonT(40) DEF StoreTunnel, RTypeOK
        <3>2. Control' BY <2>2, Domains, ZenonT(40) DEF StoreTunnel, Control
        <3> QED BY <3>1, <3>2, Zenon
    <2>3. ASSUME NEW g \in Guids, RemoveCancelled(c, g) PROVE RTypeOK' /\ Control'
        <3>1. RTypeOK' BY <1>1, <2>3, ZenonT(40) DEF RemoveCancelled, RTypeOK
        <3>2. Control' BY <2>3, Domains, ZenonT(40) DEF RemoveCancelled, Control
        <3> QED BY <3>1, <3>2, Zenon
    <2>4. CASE StoreFails(c)
        <3>1. RTypeOK' BY <1>1, <2>4, ZenonT(40) DEF StoreFails, RTypeOK, regVars
        <3>2. Control' BY <2>4, Domains, ZenonT(40) DEF StoreFails, Control
        <3> QED BY <3>1, <3>2, Zenon
    <2>5. CASE RecordTunnel(c)
        <3>1. gcur[c] \in Guids /\ gbind[c] \in Binds BY <2>5, ZenonT(40) DEF RecordTunnel, Control
        <3>2. RTypeOK' BY <1>1, <2>5, <3>1, ZenonT(40) DEF RecordTunnel, RTypeOK
        <3>3. Control' BY <2>5, Domains, ZenonT(40) DEF RecordTunnel, Control
        <3> QED BY <3>2, <3>3, Zenon
    <2>6. CASE Enqueue(c)
        <3>1. gcur[c] \in Guids BY <2>6, ZenonT(40) DEF Enqueue, Control
        <3>2. /\ queue' \in [Conns -> Seq(Guids)]
              /\ \A d \in Conns : Len(queue'[d]) <= QueueCap
            BY <1>2, <2>6, <3>1, SMTT(30) DEF Enqueue, RTypeOK
        <3>3. RTypeOK' BY <1>1, <2>6, <3>2, ZenonT(40) DEF Enqueue, RTypeOK
        <3>4. Control' BY <2>6, Domains, ZenonT(40) DEF Enqueue, Control
        <3> QED BY <3>3, <3>4, Zenon
    <2>7. CASE RevokeQueued(c)
        <3>1. gcur[c] \in Guids /\ Forget(c, {gcur[c]}) BY <2>7, ZenonT(40) DEF RevokeQueued, Control
        <3>2. RTypeOK' BY <1>1, <2>7, <3>1, ForgetType, SMTT(30) DEF RevokeQueued, RTypeOK
        <3>3. Control' BY <2>7, <3>1, Domains, ZenonT(40) DEF RevokeQueued, Control
        <3> QED BY <3>2, <3>3, Zenon
    <2>8. ASSUME NEW B \in CancelTargets, CancelTcpipForward(c, B) PROVE RTypeOK' /\ Control'
        <3>1. B \subseteq Binds BY SMTT(30) DEF CancelTargets, Binds
        <3>2. {forwards[c][b] : b \in B} \ {None} \subseteq Guids BY <3>1, SMTT(30) DEF RTypeOK
        <3>3. RTypeOK' BY <1>1, <2>8, <3>2, SMTT(30) DEF CancelTcpipForward, RTypeOK
        <3>4. Control' BY <2>8, <3>2, Domains, ZenonT(40) DEF CancelTcpipForward, Control
        <3> QED BY <3>3, <3>4, Zenon
    <2>9. CASE GlobalClosed(c) \/ GlobalEnds(c)
        <3>1. RTypeOK' BY <1>1, <2>9, ZenonT(40) DEF GlobalClosed, GlobalEnds, RTypeOK
        <3>2. Control' BY <2>9, Domains DEF GlobalClosed, GlobalEnds, Control
        <3> QED BY <3>1, <3>2, Zenon
    <2> QED BY <1>3, <2>1, <2>2, <2>3, <2>4, <2>5, <2>6, <2>7, <2>8, <2>9, ZenonT(40) DEF GlobalStep
<1>4. ASSUME NEW c \in Conns, SessionStep(c) PROVE RTypeOK' /\ Control'
    <2>1. CASE OpenSession(c)
        <3>1. RTypeOK' BY <1>1, <2>1, ZenonT(40) DEF OpenSession, RTypeOK
        <3>2. Control' BY <2>1, Domains, ZenonT(40) DEF OpenSession, Control
        <3> QED BY <3>1, <3>2, Zenon
    <2>2. CASE Shell(c)
        <3>1. RTypeOK' BY <1>1, <2>2, Zenon DEF Shell, RTypeOK
        <3>2. Control' BY <2>2, Domains, ZenonT(40) DEF Shell, Control
        <3> QED BY <3>1, <3>2, Zenon
    <2>3. CASE TakeNotif(c)
        <3>1. /\ queue[c] \in Seq(Guids) /\ queue[c] # <<>> /\ env[c] \in Env
              /\ Len(queue[c]) <= QueueCap
            BY <2>3, Zenon DEF TakeNotif, RTypeOK
        <3>2. /\ Head(queue[c]) \in Guids /\ Tail(queue[c]) \in Seq(Guids)
              /\ Len(Tail(queue[c])) <= QueueCap
            BY <1>2, <3>1
        <3>3. /\ AfterTake(env[c]) \in {"error", "key", "pwd", "lookup"}
              /\ AfterTake(env[c]) = "key" => env[c].key \in Keys
            BY <3>1, Zenon DEF AfterTake, Env
        <3>4. RTypeOK'
            BY <1>1, <1>2, <2>3, <3>1, <3>2, <3>3, ZenonT(40) DEF TakeNotif, RTypeOK
        <3>5. Control'
            BY <2>3, <3>2, <3>3, Domains, ZenonT(40) DEF TakeNotif, Control
        <3> QED BY <3>4, <3>5, Zenon
    <2>4. ASSUME NEW e \in Env, ApplyEnv(c, e) PROVE RTypeOK' /\ Control'
        <3>1. RTypeOK' BY <1>1, <2>4, ZenonT(40) DEF ApplyEnv, RTypeOK
        <3>2. Control' BY <2>4, Domains, ZenonT(40) DEF ApplyEnv, Control
        <3> QED BY <3>1, <3>2, Zenon
    <2>5. CASE OverrideKey(c)
        <3>1. scur[c] \in Guids BY <2>5, ZenonT(40) DEF OverrideKey, Control
        <3>2. announced' \in SUBSET Guids BY <2>5, ZenonT(40) DEF OverrideKey, RTypeOK
        <3> QED BY <1>1, <2>5, <3>1, <3>2, SessionAtType, ZenonT(40) DEF OverrideKey
    <2>6. CASE OverridePassword(c)
        <3>1. scur[c] \in Guids BY <2>6, ZenonT(40) DEF OverridePassword, Control
        <3>2. announced' \in SUBSET Guids BY <2>6, ZenonT(40) DEF OverridePassword, RTypeOK
        <3> QED BY <1>1, <2>6, <3>1, <3>2, SessionAtType, ZenonT(40) DEF OverridePassword
    <2>7. CASE OverrideFails(c)
        <3>1. scur[c] \in Guids BY <2>7, ZenonT(40) DEF OverrideFails, Control
        <3>2. announced' \in SUBSET Guids BY <2>7, ZenonT(40) DEF OverrideFails, RTypeOK
        <3> QED BY <1>1, <2>7, <3>1, <3>2, SessionAtType, ZenonT(40) DEF OverrideFails
    <2>8. CASE LookupTunnel(c)
        <3>1. scur[c] \in Guids BY <2>8, ZenonT(40) DEF LookupTunnel, Control
        <3>2. announced' \in SUBSET Guids BY <2>8, ZenonT(40) DEF LookupTunnel, RTypeOK
        <3> QED BY <1>1, <2>8, <3>1, <3>2, SessionAtType, ZenonT(40) DEF LookupTunnel
    <2>9. CASE WriteBlock(c)
        <3>1. scur[c] \in Guids BY <2>9, ZenonT(40) DEF WriteBlock, Control
        <3>2. announced' \in SUBSET Guids BY <2>9, <3>1, ZenonT(40) DEF WriteBlock, RTypeOK
        <3> QED BY <1>1, <2>9, <3>2, SessionAtType, Zenon DEF WriteBlock
    <2>10. CASE WriteError(c)
        <3>1. wclosed' \in [Conns -> BOOLEAN] BY <2>10, Zenon DEF WriteError, RTypeOK
        <3>2. RTypeOK' BY <1>1, <2>10, <3>1, ZenonT(40) DEF WriteError, RTypeOK
        <3>3. Control' BY <2>10, Domains, ZenonT(40) DEF WriteError, Control
        <3> QED BY <3>2, <3>3, Zenon
    <2>11. CASE ForgetFailed(c)
        <3>1. Forget(c, {scur[c]}) BY <2>11, Zenon DEF ForgetFailed
        <3>2. RTypeOK' BY <1>1, <2>11, <3>1, ForgetType, ZenonT(40) DEF ForgetFailed, RTypeOK
        <3>3. Control' BY <2>11, Domains, ZenonT(40) DEF ForgetFailed, Control
        <3> QED BY <3>2, <3>3, Zenon
    <2>12. CASE RemoveFailed(c)
        <3>1. announced' \in SUBSET Guids BY <2>12, ZenonT(40) DEF RemoveFailed, RTypeOK
        <3>2. CASE UnusedAfter({scur[c]} \cap LiveGuids) # {}
            BY <1>1, <2>12, <3>1, <3>2, SessionAtType, ZenonT(40) DEF RemoveFailed
        <3>3. CASE ~(UnusedAfter({scur[c]} \cap LiveGuids) # {})
            BY <1>1, <2>12, <3>1, <3>3, SessionAtType, ZenonT(40) DEF RemoveFailed
        <3> QED BY <3>2, <3>3, ZenonT(40)
    <2>13. CASE SessionClosed(c) \/ StopSession(c) \/ EndSession(c)
        <3>1. announced' \in SUBSET Guids
            BY <2>13, ZenonT(40) DEF SessionClosed, StopSession, EndSession, RTypeOK
        <3>2. SessionAt(c, "loop") \/ SessionAt(c, "end") \/ SessionAt(c, "done")
            BY <2>13, ZenonT(40) DEF SessionClosed, StopSession, EndSession
        <3> QED BY <1>1, <3>1, <3>2, SessionAtType, ZenonT(40)
    <2> QED BY <1>4, <2>1, <2>2, <2>3, <2>4, <2>5, <2>6, <2>7, <2>8, <2>9, <2>10, <2>11,
               <2>12, <2>13, ZenonT(40) DEF SessionStep
<1>5. ASSUME NEW c \in Conns, MainStep(c) PROVE RTypeOK' /\ Control'
    <2>1. CASE HandleConn(c)
        <3>1. RTypeOK' BY <1>1, <2>1, ZenonT(40) DEF HandleConn, RTypeOK
        <3>2. Control' BY <2>1, Domains, ZenonT(40) DEF HandleConn, Control
        <3> QED BY <3>1, <3>2, Zenon
    <2>2. CASE StartCleanup(c) \/ EndCleanup(c)
        <3>1. RTypeOK' BY <1>1, <2>2, ZenonT(30) DEF StartCleanup, EndCleanup, RTypeOK
        <3>2. Control' BY <2>2, Domains DEF StartCleanup, EndCleanup, Control
        <3> QED BY <3>1, <3>2, Zenon
    <2>3. ASSUME NEW g \in Guids, CleanupTunnel(c, g) PROVE RTypeOK' /\ Control'
        <3>1. RTypeOK' BY <1>1, <2>3, ZenonT(40) DEF CleanupTunnel, RTypeOK
        <3>2. Control' BY <2>3, Domains, ZenonT(40) DEF CleanupTunnel, Control
        <3> QED BY <3>1, <3>2, Zenon
    <2> QED BY <1>5, <2>1, <2>2, <2>3, ZenonT(40) DEF MainStep
<1>6. CASE Surroundings \/ UNCHANGED vars
    <2>1. UNCHANGED hVars BY <1>6, Zenon DEF Surroundings, vars
    <2>2. RTypeOK' BY <1>1, <2>1, Zenon DEF hVars, RTypeOK
    <2>3. Control' BY <2>1, ZenonT(40) DEF hVars, Control
    <2> QED BY <2>2, <2>3, Zenon
<1> QED BY <1>3, <1>4, <1>5, <1>6, ZenonT(40) DEF RNext

-----------------------------------------------------------------------------
(* Somebody is answerable for every live tunnel. *)

\* The tunnels of connection d that somebody answers for.
Owned(d) == (IF gpc[d] = "record" THEN {gcur[d]} ELSE {})
              \cup (IF hpc[d] = "serve" THEN hGuids[d] ELSE {})
              \cup hset[d] \cup Leaving(d)

\* EveryTunnelHasAnOwner, in terms of that set.
LEMMA OwnedIsEnough ==
    EveryTunnelHasAnOwner <=> \A d \in Conns : LiveOn(d) \subseteq Owned(d)
BY ZenonT(40) DEF EveryTunnelHasAnOwner, Owned, Leaving

\* The same of the next state.
LEMMA OwnedNext ==
    ASSUME \A d \in Conns : LiveOn(d)' \subseteq Owned(d)'
    PROVE  EveryTunnelHasAnOwner'
BY ZenonT(40) DEF EveryTunnelHasAnOwner, Owned, Leaving

\* None of the live tunnels of connection d loses who answers for it.
Keeps(d) == \A g \in LiveOn(d)' : g \in Owned(d) => g \in Owned(d)'

\* A step that adds no tunnel to a connection and takes none of its live ones
\* from those answered for keeps the property.
LEMMA OwnedStep ==
    ASSUME EveryTunnelHasAnOwner,
           \A d \in Conns : LiveOn(d)' \subseteq LiveOn(d),
           \A d \in Conns : Keeps(d)
    PROVE  EveryTunnelHasAnOwner'
<1>1. \A d \in Conns : LiveOn(d) \subseteq Owned(d) BY OwnedIsEnough, Zenon
<1>2. \A d \in Conns : LiveOn(d)' \subseteq Owned(d)' BY <1>1, Zenon DEF Keeps
<1> QED BY <1>2, OwnedNext, Zenon

\* What the goroutines of connection d hold is left alone.
SameAt(d) ==
    /\ gpc'[d] = gpc[d] /\ gcur'[d] = gcur[d] /\ gset'[d] = gset[d] /\ hGuids'[d] = hGuids[d]
    /\ spc'[d] = spc[d] /\ scur'[d] = scur[d] /\ hpc'[d] = hpc[d] /\ hset'[d] = hset[d]

\* A goroutine works for one connection: the others keep theirs.
LEMMA OnlyHere ==
    ASSUME NEW c \in Conns, \A d \in Conns \ {c} : SameAt(d), Keeps(c)
    PROVE  \A d \in Conns : Keeps(d)
<1>1. ASSUME NEW d \in Conns \ {c} PROVE Owned(d)' = Owned(d)
    <2>1. SameAt(d) BY Zenon
    <2> QED BY <2>1, ZenonT(40) DEF SameAt, Owned, Leaving
<1>2. ASSUME NEW d \in Conns \ {c} PROVE Keeps(d) BY <1>1, Zenon DEF Keeps
<1> QED BY <1>2, Zenon

\* The other steps add no tunnel, and a tunnel that stays live stays on its
\* connection.
LEMMA OnlyPutAdds ==
    ASSUME TypeOK, OtherStep
    PROVE  \A d \in Conns : LiveOn(d)' \subseteq LiveOn(d)
<1> DEFINE Kept(g) == live'[g] # None => live[g] # None /\ live'[g].conn = live[g].conn
<1> SUFFICES \A g \in Guids : Kept(g)
    BY Zenon DEF LiveOn, LiveGuids
<1> USE DEF TypeOK
<1>1. ASSUME NEW h \in Guids, NEW k \in Keys, UpdateConnectorKeyWire(h, k)
      PROVE  \A g \in Guids : Kept(g)
    BY <1>1, SMTT(30) DEF UpdateConnectorKeyWire
<1>2. ASSUME NEW h \in Guids, UpdateAllowPassword(h) PROVE \A g \in Guids : Kept(g)
    <2>1. live' = [live EXCEPT ![h] = [live[h] EXCEPT !.pwd = TRUE]] /\ live[h] # None
        BY <1>2, Zenon DEF UpdateAllowPassword
    <2>2. live[h] \in Entry BY <2>1, Zenon
    <2>3. [live[h] EXCEPT !.pwd = TRUE].conn = live[h].conn BY <2>2
    <2> QED BY <2>1, <2>3, ZenonT(40)
<1>3. ASSUME NEW h \in Guids, Remove(h, TRUE) PROVE \A g \in Guids : Kept(g)
    BY <1>3, Zenon DEF Remove, Drop
<1>4. ASSUME NEW h \in Guids, Touch(h) \/ AgeStored(h) \/ AgeLive(h) PROVE UNCHANGED live
    BY <1>4, Zenon DEF Touch, AgeStored, AgeLive
<1>5. ASSUME NEW c \in Conns, ConnStep(c) PROVE UNCHANGED live
    BY <1>5, Zenon DEF ConnStep, Accept, ConnGoesDown, CloseConn
<1>6. CASE EvictIdle({}) BY <1>6, Zenon DEF EvictIdle, Drop
<1>7. CASE UNCHANGED regVars BY <1>7, Zenon DEF regVars
<1> QED BY <1>1, <1>2, <1>3, <1>4, <1>5, <1>6, <1>7, ZenonT(40) DEF OtherStep

\* A removed tunnel is live on no connection.
LEMMA RemovedIsGone ==
    ASSUME NEW g \in Guids, Remove(g, TRUE)
    PROVE  \A d \in Conns : g \notin LiveOn(d)'
BY Zenon DEF Remove, Drop, LiveOn, LiveGuids

\* Every step leaves somebody answerable for each live tunnel: a goroutine
\* that takes a tunnel out of the shared list has it in hand, and cleanup
\* copies the list when nothing can be added to it any more
\* (server.go:249-256, 440-465, 619-629, 682-729).
LEMMA OwnerStep ==
    ASSUME RTypeOK, Control, EveryTunnelHasAnOwner, [RNext]_vars
    PROVE  EveryTunnelHasAnOwner'
<1> USE DEF gVars, bookVars, sessVars, mainVars
<1>1. ASSUME NEW c \in Conns, NEW g \in Guids, StoreTunnel(c, g) PROVE EveryTunnelHasAnOwner'
    <2>1. /\ live' = [live EXCEPT ![g] = [conn |-> c, key |-> DefaultKey, pwd |-> FALSE]]
          /\ gpc[c] = "put" /\ gpc' = [gpc EXCEPT ![c] = "record"]
          /\ gcur' = [gcur EXCEPT ![c] = g]
          /\ UNCHANGED <<hGuids, hpc, hset, gset, spc, scur>>
        BY <1>1, Zenon DEF StoreTunnel, Put
    <2>2. \A d \in Conns : LiveOn(d)' \subseteq LiveOn(d) \cup (IF d = c THEN {g} ELSE {})
        BY <2>1, Zenon DEF LiveOn, LiveGuids, RTypeOK, TypeOK
    <2>3. ASSUME NEW d \in Conns \ {c} PROVE Owned(d) \subseteq Owned(d)'
        BY <2>1, Domains, ZenonT(40) DEF Owned, Leaving
    <2>4. Owned(c) \cup {g} \subseteq Owned(c)'
        <3>1. gpc'[c] = "record" /\ gcur'[c] = g BY <2>1, Domains, Zenon
        <3> QED BY <2>1, <3>1, Zenon DEF Owned, Leaving
    <2>5. \A d \in Conns : LiveOn(d)' \subseteq Owned(d)'
        BY <2>2, <2>3, <2>4, OwnedIsEnough, ZenonT(40)
    <2> QED BY <2>5, OwnedNext, Zenon
<1> SUFFICES ASSUME OtherStep PROVE EveryTunnelHasAnOwner'
    BY <1>1, ServerCalls, ZenonT(40)
<1>2. \A d \in Conns : LiveOn(d)' \subseteq LiveOn(d) BY OnlyPutAdds, Zenon DEF RTypeOK
<1> DEFINE Kept == \A d \in Conns : Keeps(d)
<1> SUFFICES Kept BY <1>2, OwnedStep, Zenon
<1>3. ASSUME UNCHANGED <<gpc, gcur, gset, hGuids, spc, scur, hpc, hset>> PROVE Kept
    BY <1>3, ZenonT(40) DEF Keeps, Owned, Leaving
<1>4. ASSUME NEW c \in Conns, GlobalStep(c) PROVE Kept
    <2>1. ASSUME NEW b \in Binds, TcpipForward(c, b) PROVE Kept
        <3>1. \A d \in Conns \ {c} : SameAt(d)
            BY <2>1, Domains, ZenonT(40) DEF TcpipForward, Forget, SameAt
        <3>2. /\ gpc[c] = "idle" /\ hGuids'[c] = hGuids[c] \ (Guids \ LiveGuids)
              /\ gset'[c] = gset[c] /\ spc'[c] = spc[c] /\ scur'[c] = scur[c]
              /\ hpc'[c] = hpc[c] /\ hset'[c] = hset[c] /\ UNCHANGED live
            BY <2>1, Domains, ZenonT(40) DEF TcpipForward, Forget, regVars
        <3>3. LiveOn(c)' \subseteq LiveGuids BY <3>2, Zenon DEF LiveOn, LiveGuids
        <3>4. Keeps(c) BY <3>2, <3>3, ZenonT(40) DEF Keeps, Owned, Leaving
        <3> QED BY <3>1, <3>4, OnlyHere, ZenonT(40)
    <2>2. ASSUME NEW g \in Guids, StoreTunnel(c, g) PROVE Kept
        <3>1. \A d \in Conns \ {c} : SameAt(d) BY <2>2, Domains, ZenonT(40) DEF StoreTunnel, SameAt
        <3>2. /\ gpc[c] = "put" /\ hGuids'[c] = hGuids[c] /\ gset'[c] = gset[c]
              /\ spc'[c] = spc[c] /\ scur'[c] = scur[c] /\ hpc'[c] = hpc[c]
              /\ hset'[c] = hset[c]
            BY <2>2, Domains, ZenonT(40) DEF StoreTunnel
        <3>3. Keeps(c) BY <3>2, ZenonT(40) DEF Keeps, Owned, Leaving
        <3> QED BY <3>1, <3>3, OnlyHere, ZenonT(40)
    <2>3. ASSUME NEW g \in Guids, RemoveCancelled(c, g) PROVE Kept
        <3>1. \A d \in Conns \ {c} : SameAt(d) BY <2>3, Domains, ZenonT(40) DEF RemoveCancelled, SameAt
        <3>2. /\ gpc[c] = "remove" /\ hGuids'[c] = hGuids[c] /\ gset'[c] = gset[c] \ {g}
              /\ spc'[c] = spc[c] /\ scur'[c] = scur[c] /\ hpc'[c] = hpc[c]
              /\ hset'[c] = hset[c]
            BY <2>3, Domains, ZenonT(40) DEF RemoveCancelled
        <3>3. g \notin LiveOn(c)' BY <2>3, RemovedIsGone, ZenonT(40) DEF RemoveCancelled
        <3>4. Keeps(c) BY <3>2, <3>3, ZenonT(40) DEF Keeps, Owned, Leaving
        <3> QED BY <3>1, <3>4, OnlyHere, Zenon
    <2>4. CASE StoreFails(c) \/ GlobalClosed(c) \/ GlobalEnds(c)
        <3>1. \A d \in Conns \ {c} : SameAt(d)
            BY <2>4, Domains, ZenonT(40) DEF StoreFails, GlobalClosed, GlobalEnds, SameAt
        <3>2. /\ gpc[c] # "record" /\ hGuids'[c] = hGuids[c] /\ gset'[c] = gset[c]
              /\ spc'[c] = spc[c] /\ scur'[c] = scur[c] /\ hpc'[c] = hpc[c]
              /\ hset'[c] = hset[c]
            BY <2>4, Domains, ZenonT(40) DEF StoreFails, GlobalClosed, GlobalEnds
        <3>3. Keeps(c) BY <3>2, ZenonT(40) DEF Keeps, Owned, Leaving
        <3> QED BY <3>1, <3>3, OnlyHere, ZenonT(40)
    <2>5. CASE RecordTunnel(c)
        <3>1. \A d \in Conns \ {c} : SameAt(d) BY <2>5, Domains, ZenonT(40) DEF RecordTunnel, SameAt
        <3>2. /\ hpc[c] = "serve" /\ hGuids'[c] = hGuids[c] \cup {gcur[c]}
              /\ gset'[c] = gset[c] /\ spc'[c] = spc[c] /\ scur'[c] = scur[c]
              /\ hpc'[c] = hpc[c] /\ hset'[c] = hset[c]
            BY <2>5, Domains, ZenonT(40) DEF RecordTunnel, Control
        <3>3. Keeps(c) BY <3>2, ZenonT(40) DEF Keeps, Owned, Leaving
        <3> QED BY <3>1, <3>3, OnlyHere, Zenon
    <2>6. CASE Enqueue(c)
        <3>1. \A d \in Conns \ {c} : SameAt(d) BY <2>6, Domains, ZenonT(40) DEF Enqueue, SameAt
        <3>2. /\ gpc[c] = "enqueue" /\ hGuids'[c] = hGuids[c] /\ gset'[c] = gset[c]
              /\ spc'[c] = spc[c] /\ scur'[c] = scur[c] /\ hpc'[c] = hpc[c]
              /\ hset'[c] = hset[c]
            BY <2>6, Domains, ZenonT(40) DEF Enqueue
        <3>3. Keeps(c) BY <3>2, ZenonT(40) DEF Keeps, Owned, Leaving
        <3> QED BY <3>1, <3>3, OnlyHere, Zenon
    <2>7. CASE RevokeQueued(c)
        <3>1. \A d \in Conns \ {c} : SameAt(d) BY <2>7, Domains, ZenonT(40) DEF RevokeQueued, Forget, SameAt
        <3>2. /\ gpc[c] = "forget" /\ hGuids'[c] = hGuids[c] \ {gcur[c]}
              /\ gset[c] = {} /\ gset'[c] = {gcur[c]}
              /\ spc'[c] = spc[c] /\ scur'[c] = scur[c] /\ hpc'[c] = hpc[c]
              /\ hset'[c] = hset[c]
            BY <2>7, Domains, ZenonT(40) DEF RevokeQueued, Forget, Control
        <3>3. Keeps(c) BY <3>2, ZenonT(40) DEF Keeps, Owned, Leaving
        <3> QED BY <3>1, <3>3, OnlyHere, Zenon
    <2>8. ASSUME NEW B \in CancelTargets, CancelTcpipForward(c, B) PROVE Kept
        <3> DEFINE G == {forwards[c][b] : b \in B} \ {None}
        <3>1. \A d \in Conns \ {c} : SameAt(d) BY <2>8, Domains, ZenonT(40) DEF CancelTcpipForward, SameAt
        <3>2. /\ gpc[c] = "idle" /\ hGuids'[c] = hGuids[c] \ G
              /\ gset[c] = {} /\ gset'[c] = G
              /\ spc'[c] = spc[c] /\ scur'[c] = scur[c] /\ hpc'[c] = hpc[c]
              /\ hset'[c] = hset[c]
            BY <2>8, Domains, Zenon DEF CancelTcpipForward, Control
        <3> HIDE DEF G
        <3>3. Keeps(c) BY <3>2, Zenon DEF Keeps, Owned, Leaving
        <3> QED BY <3>1, <3>3, OnlyHere, Zenon
    <2> QED BY <1>4, <2>1, <2>2, <2>3, <2>4, <2>5, <2>6, <2>7, <2>8, ZenonT(40) DEF GlobalStep
<1>5. ASSUME NEW c \in Conns, SessionStep(c) PROVE Kept
    <2>1. CASE ForgetFailed(c)
        <3>1. \A d \in Conns \ {c} : SameAt(d) BY <2>1, Domains, ZenonT(40) DEF ForgetFailed, Forget, SameAt
        <3>2. /\ hGuids'[c] = hGuids[c] \ {scur[c]} /\ spc[c] = "forget" /\ spc'[c] = "remove"
              /\ scur'[c] = scur[c] /\ gpc'[c] = gpc[c] /\ gcur'[c] = gcur[c]
              /\ gset'[c] = gset[c] /\ hpc'[c] = hpc[c] /\ hset'[c] = hset[c]
            BY <2>1, Domains, Zenon DEF ForgetFailed, Forget
        <3>3. Keeps(c) BY <3>2, ZenonT(40) DEF Keeps, Owned, Leaving
        <3> QED BY <3>1, <3>3, OnlyHere, Zenon
    <2>2. CASE RemoveFailed(c)
        <3>1. \A d \in Conns \ {c} : SameAt(d) BY <2>2, Domains, ZenonT(40) DEF RemoveFailed, SessionAt, SameAt
        <3>2. /\ hGuids'[c] = hGuids[c] /\ gpc'[c] = gpc[c] /\ gcur'[c] = gcur[c]
              /\ gset'[c] = gset[c] /\ hpc'[c] = hpc[c] /\ hset'[c] = hset[c]
            BY <2>2, Zenon DEF RemoveFailed, SessionAt
        <3>3. scur[c] \notin LiveOn(c)' BY <2>2, RemovedIsGone, ZenonT(40) DEF RemoveFailed, Control
        <3>4. Keeps(c) BY <3>2, <3>3, ZenonT(40) DEF Keeps, Owned, Leaving
        <3> QED BY <3>1, <3>4, OnlyHere, Zenon
    <2>3. ASSUME spc[c] # "remove" \/ UNCHANGED <<spc, scur>>,
                 \A d \in Conns \ {c} : spc'[d] = spc[d] /\ scur'[d] = scur[d],
                 UNCHANGED <<gpc, gcur, gset, hGuids, hpc, hset>>
          PROVE  Kept
        <3>1. \A d \in Conns \ {c} : SameAt(d) BY <2>3, Zenon DEF SameAt
        <3>2. Keeps(c) BY <2>3, ZenonT(40) DEF Keeps, Owned, Leaving
        <3> QED BY <3>1, <3>2, OnlyHere, Zenon
    <2>4. CASE TakeNotif(c) BY <2>3, <2>4, Domains, ZenonT(40) DEF TakeNotif
    <2>5. CASE OpenSession(c) \/ Shell(c) \/ WriteError(c) \/ \E e \in Env : ApplyEnv(c, e)
        BY <2>3, <2>5, Domains, ZenonT(40) DEF OpenSession, Shell, WriteError, ApplyEnv
    <2>6. ASSUME NEW pc, SessionAt(c, pc), spc[c] # "remove" PROVE Kept
        BY <2>3, <2>6, Domains, ZenonT(40) DEF SessionAt
    <2> QED BY <1>5, <2>1, <2>2, <2>4, <2>5, <2>6, ZenonT(40)
            DEF SessionStep, OverrideKey, OverridePassword, OverrideFails, LookupTunnel,
                WriteBlock, SessionClosed, StopSession, EndSession
<1>6. ASSUME NEW c \in Conns, MainStep(c) PROVE Kept
    <2>1. CASE HandleConn(c)
        <3>1. \A d \in Conns \ {c} : SameAt(d) BY <2>1, Domains, ZenonT(40) DEF HandleConn, SameAt
        <3>2. /\ gpc[c] # "record" /\ hpc'[c] = "serve" /\ hGuids'[c] = hGuids[c]
              /\ gset'[c] = gset[c] /\ spc'[c] = spc[c] /\ scur'[c] = scur[c]
              /\ hset'[c] = hset[c]
            BY <2>1, Domains, ZenonT(40) DEF HandleConn, Control
        <3>3. Keeps(c) BY <3>2, ZenonT(40) DEF Keeps, Owned, Leaving
        <3> QED BY <3>1, <3>3, OnlyHere, Zenon
    <2>2. CASE StartCleanup(c)
        <3>1. \A d \in Conns \ {c} : SameAt(d) BY <2>2, Domains, ZenonT(40) DEF StartCleanup, SameAt
        <3>2. /\ gpc'[c] = gpc[c] /\ gcur'[c] = gcur[c] /\ hset[c] = {} /\ hset'[c] = hGuids[c]
              /\ gset'[c] = gset[c] /\ spc'[c] = spc[c] /\ scur'[c] = scur[c]
            BY <2>2, Domains, ZenonT(40) DEF StartCleanup, Control
        <3>3. Keeps(c) BY <3>2, ZenonT(40) DEF Keeps, Owned, Leaving
        <3> QED BY <3>1, <3>3, OnlyHere, Zenon
    <2>3. CASE EndCleanup(c)
        <3>1. \A d \in Conns \ {c} : SameAt(d) BY <2>3, Domains, ZenonT(40) DEF EndCleanup, SameAt
        <3>2. /\ hpc[c] = "cleanup" /\ hset'[c] = hset[c] /\ gpc'[c] = gpc[c]
              /\ gcur'[c] = gcur[c] /\ gset'[c] = gset[c] /\ spc'[c] = spc[c]
              /\ scur'[c] = scur[c]
            BY <2>3, ZenonT(40) DEF EndCleanup
        <3>3. Keeps(c) BY <3>2, ZenonT(40) DEF Keeps, Owned, Leaving
        <3> QED BY <3>1, <3>3, OnlyHere, Zenon
    <2>4. ASSUME NEW g \in Guids, CleanupTunnel(c, g) PROVE Kept
        <3>1. \A d \in Conns \ {c} : SameAt(d) BY <2>4, Domains, ZenonT(40) DEF CleanupTunnel, SameAt
        <3>2. /\ hGuids'[c] = hGuids[c] /\ hpc'[c] = hpc[c] /\ hset'[c] = hset[c] \ {g}
              /\ gpc'[c] = gpc[c] /\ gcur'[c] = gcur[c] /\ gset'[c] = gset[c]
              /\ spc'[c] = spc[c] /\ scur'[c] = scur[c]
            BY <2>4, Domains, Zenon DEF CleanupTunnel
        <3>3. g \notin LiveOn(c)' BY <2>4, RemovedIsGone, Zenon DEF CleanupTunnel
        <3>4. Keeps(c) BY <3>2, <3>3, ZenonT(40) DEF Keeps, Owned, Leaving
        <3> QED BY <3>1, <3>4, OnlyHere, Zenon
    <2> QED BY <1>6, <2>1, <2>2, <2>3, <2>4, ZenonT(40) DEF MainStep
<1>7. CASE Surroundings \/ UNCHANGED vars
    BY <1>3, <1>7, Zenon DEF Surroundings, vars, hVars
<1> QED BY <1>4, <1>5, <1>6, <1>7, ZenonT(40) DEF RNext

-----------------------------------------------------------------------------
(* What a session asked for is in force when a tunnel is announced. *)

\* What tunnel g needs to honour of what session d asked for before its shell.
HonoursKey(d, g) == gated[d].key # None => live[g].key = gated[d].key
HonoursPwd(d, g) == gated[d].pwd => live[g].pwd

\* Settings e are those session d had at its shell, or later ones:
\* applyEnvRequest never takes one back.
Covers(d, e) ==
    /\ gated[d].inval => e.inval
    /\ gated[d].key # None => e.key = gated[d].key
    /\ gated[d].pwd => e.pwd

\* The global-request goroutine hands the session tunnels of this connection.
HandOver(d) ==
    /\ gpc[d] \in {"record", "enqueue", "forget"} => owner[gcur[d]] = d
    /\ \A i \in 1 .. Len(queue[d]) : owner[queue[d][i]] = d

\* The session has applied, where it is, what it has to before it writes a
\* block, and what it has written stays so.
Announcing(d) ==
    /\ Covers(d, env[d])
    /\ spc[d] \in {"key", "pwd", "lookup", "write"} => owner[scur[d]] = d /\ ~gated[d].inval
    /\ spc[d] = "key" => Covers(d, snap[d])
    /\ spc[d] \in {"pwd", "lookup", "write"} /\ live[scur[d]] # None => HonoursKey(d, scur[d])
    /\ spc[d] \in {"lookup", "write"} /\ live[scur[d]] # None => HonoursPwd(d, scur[d])
    /\ spc[d] \in {"none", "gate"} => \A g \in announced : owner[g] # d
    /\ \A g \in announced :
          owner[g] = d /\ live[g] # None => ~gated[d].inval /\ HonoursKey(d, g) /\ HonoursPwd(d, g)

OverrideInv ==
    /\ \A d \in Conns : HandOver(d) /\ Announcing(d)
    /\ \A g \in announced : owner[g] # None

\* A tunnel that stays live keeps its key and keeps admitting passwords.
StaysPut(g) ==
    live'[g] # None => /\ live[g] # None /\ live'[g].key = live[g].key
                       /\ live[g].pwd => live'[g].pwd

\* A tunnel keeps the connection it was registered on.
OwnersStay == \A g \in Guids : owner[g] # None => owner'[g] = owner[g]

\* The steps that leave the keys of the live tunnels alone do so, and take no
\* password toggle back.
LEMMA MildStep ==
    ASSUME TypeOK,
           \/ UNCHANGED regVars
           \/ EvictIdle({})
           \/ \E g \in Guids : UpdateAllowPassword(g) \/ Remove(g, TRUE) \/ Touch(g)
                                  \/ AgeStored(g) \/ AgeLive(g)
           \/ \E c \in Conns : ConnStep(c)
    PROVE  OwnersStay /\ \A g \in Guids : StaysPut(g)
<1> DEFINE Goal == owner' = owner /\ \A g \in Guids : StaysPut(g)
<1> SUFFICES Goal BY Zenon DEF OwnersStay
<1>1. ASSUME UNCHANGED <<live, owner>> PROVE Goal BY <1>1, Zenon DEF StaysPut
<1>2. ASSUME NEW G, Drop(G), UNCHANGED owner PROVE Goal
    BY <1>2, ZenonT(40) DEF Drop, StaysPut
<1>3. ASSUME NEW h \in Guids, UpdateAllowPassword(h) PROVE Goal
    <2>1. /\ live' = [live EXCEPT ![h] = [live[h] EXCEPT !.pwd = TRUE]] /\ live[h] # None
          /\ owner' = owner /\ live \in [Guids -> Entry \cup {None}]
        BY <1>3, Zenon DEF UpdateAllowPassword, TypeOK
    <2>2. live[h] \in Entry BY <2>1, Zenon
    <2>3. [live[h] EXCEPT !.pwd = TRUE].key = live[h].key /\ [live[h] EXCEPT !.pwd = TRUE].pwd
        BY <2>2
    <2>4. \A g \in Guids : live'[g] = IF g = h THEN [live[h] EXCEPT !.pwd = TRUE] ELSE live[g]
        BY <2>1, Zenon
    <2>5. StaysPut(h) BY <2>1, <2>3, <2>4, Zenon DEF StaysPut
    <2>6. \A g \in Guids \ {h} : StaysPut(g) BY <2>4, Zenon DEF StaysPut
    <2> QED BY <2>1, <2>5, <2>6, ZenonT(40)
<1>4. ASSUME NEW h \in Guids, Remove(h, TRUE) PROVE Goal BY <1>2, <1>4, Zenon DEF Remove
<1>5. ASSUME NEW h \in Guids, Touch(h) \/ AgeStored(h) \/ AgeLive(h) PROVE Goal
    BY <1>1, <1>5, Zenon DEF Touch, AgeStored, AgeLive
<1>6. ASSUME NEW c \in Conns, ConnStep(c) PROVE Goal
    BY <1>1, <1>6, Zenon DEF ConnStep, Accept, ConnGoesDown, CloseConn
<1>7. CASE EvictIdle({}) BY <1>2, <1>7, Zenon DEF EvictIdle
<1>8. CASE UNCHANGED regVars BY <1>1, <1>8, ZenonT(40) DEF regVars
<1> HIDE DEF Goal
<1> QED BY <1>3, <1>4, <1>5, <1>6, <1>7, <1>8, ZenonT(40)

\* Handing over is kept by a step that puts nothing new in hand.
LEMMA HandOverKept ==
    ASSUME RTypeOK, Control, OwnersStay, NEW d \in Conns, HandOver(d),
           gpc'[d] \in {"record", "enqueue", "forget"} =>
               gpc[d] \in {"record", "enqueue", "forget"} /\ gcur'[d] = gcur[d],
           queue'[d] = queue[d]
    PROVE  HandOver(d)'
<1>1. d # None BY RegistryConstants, Zenon
<1>2. \A i \in 1 .. Len(queue[d]) : queue[d][i] \in Guids
    <2>1. queue[d] \in Seq(Guids) BY Zenon DEF RTypeOK
    <2> QED BY <2>1, SMTT(30)
<1>3. gpc'[d] \in {"record", "enqueue", "forget"} => owner'[gcur'[d]] = d
    BY <1>1, ZenonT(40) DEF HandOver, Control, OwnersStay
<1>4. \A i \in 1 .. Len(queue[d]) : owner'[queue[d][i]] = d
    BY <1>1, <1>2, Zenon DEF HandOver, OwnersStay
<1> QED BY <1>3, <1>4, Zenon DEF HandOver

\* What session d holds is left alone.
SameSession(d) ==
    /\ env'[d] = env[d] /\ gated'[d] = gated[d] /\ spc'[d] = spc[d] /\ scur'[d] = scur[d]
    /\ snap'[d] = snap[d]

\* What session d announced is kept by a step of somebody else that changes
\* no tunnel of its connection and announces none of them.
LEMMA AnnouncedKept ==
    ASSUME RTypeOK, OverrideInv, OwnersStay, NEW d \in Conns,
           \A g \in Guids : StaysPut(g) \/ owner[g] # d,
           \A g \in announced' : g \in announced \/ (g \in Guids /\ owner[g] \in Conns \ {d}),
           gated'[d] = gated[d]
    PROVE  /\ (\A g \in announced : owner[g] # d) => \A g \in announced' : owner'[g] # d
           /\ \A g \in announced' : owner'[g] = d /\ live'[g] # None =>
                ~gated'[d].inval /\ HonoursKey(d, g)' /\ HonoursPwd(d, g)'
<1>1. d # None /\ None \notin Conns BY RegistryConstants, Zenon
<1>2. ASSUME NEW g \in announced'
      PROVE  /\ g \in Guids /\ owner'[g] = owner[g]
             /\ g \in announced \/ owner[g] # d
    <2>1. g \in Guids /\ owner[g] # None
        BY <1>1, Zenon DEF RTypeOK, OverrideInv
    <2> QED BY <2>1, Zenon DEF OwnersStay
<1>3. ASSUME NEW g \in announced', owner'[g] = d, live'[g] # None
      PROVE  ~gated'[d].inval /\ HonoursKey(d, g)' /\ HonoursPwd(d, g)'
    <2>1. g \in announced /\ owner[g] = d /\ g \in Guids BY <1>2, <1>3, Zenon
    <2>2. StaysPut(g) BY <2>1, Zenon
    <2>3. ~gated[d].inval /\ HonoursKey(d, g) /\ HonoursPwd(d, g)
        BY <1>3, <2>1, <2>2, ZenonT(40) DEF OverrideInv, Announcing, StaysPut
    <2> QED BY <1>3, <2>2, <2>3, ZenonT(40) DEF StaysPut, HonoursKey, HonoursPwd
<1> QED BY <1>2, <1>3, Zenon

\* So is where session d is.
LEMMA SessionKept ==
    ASSUME RTypeOK, Control, OverrideInv, OwnersStay, NEW d \in Conns,
           \A g \in Guids : StaysPut(g) \/ owner[g] # d,
           \A g \in announced' : g \in announced \/ (g \in Guids /\ owner[g] \in Conns \ {d}),
           SameSession(d)
    PROVE  Announcing(d)'
<1>1. Announcing(d) /\ d # None BY RegistryConstants, Zenon DEF OverrideInv
<1>2. /\ (\A g \in announced : owner[g] # d) => \A g \in announced' : owner'[g] # d
      /\ \A g \in announced' : owner'[g] = d /\ live'[g] # None =>
           ~gated'[d].inval /\ HonoursKey(d, g)' /\ HonoursPwd(d, g)'
    BY AnnouncedKept, Zenon DEF SameSession
<1>3. Covers(d, env[d])' BY <1>1, Zenon DEF SameSession, Announcing, Covers
<1>4. spc'[d] = "key" => Covers(d, snap[d])' BY <1>1, Zenon DEF SameSession, Announcing, Covers
<1>5. ASSUME spc[d] \in {"key", "pwd", "lookup", "write"}
      PROVE  owner'[scur[d]] = d /\ ~gated[d].inval /\ StaysPut(scur[d])
    <2>1. scur[d] \in Guids /\ owner[scur[d]] = d /\ ~gated[d].inval
        BY <1>1, <1>5, Zenon DEF Control, Announcing
    <2> QED BY <1>1, <2>1, Zenon DEF OwnersStay
<1>6. spc'[d] \in {"key", "pwd", "lookup", "write"} => owner'[scur'[d]] = d /\ ~gated'[d].inval
    BY <1>5, Zenon DEF SameSession
<1>7. ASSUME spc'[d] \in {"pwd", "lookup", "write"}, live'[scur'[d]] # None
      PROVE  HonoursKey(d, scur[d])'
    <2>1. StaysPut(scur[d]) /\ scur'[d] = scur[d] /\ gated'[d] = gated[d]
          /\ spc[d] \in {"pwd", "lookup", "write"}
        BY <1>5, <1>7, ZenonT(40) DEF SameSession
    <2>2. live[scur[d]] # None /\ live'[scur[d]].key = live[scur[d]].key
        BY <1>7, <2>1, Zenon DEF StaysPut
    <2>3. HonoursKey(d, scur[d]) BY <1>1, <2>1, <2>2, ZenonT(40) DEF Announcing
    <2> QED BY <2>1, <2>2, <2>3, ZenonT(40) DEF HonoursKey
<1>8. ASSUME spc'[d] \in {"lookup", "write"}, live'[scur'[d]] # None
      PROVE  HonoursPwd(d, scur[d])'
    <2>1. StaysPut(scur[d]) /\ scur'[d] = scur[d] /\ gated'[d] = gated[d]
          /\ spc[d] \in {"lookup", "write"}
        BY <1>5, <1>8, Zenon DEF SameSession
    <2>2. live[scur[d]] # None /\ (live[scur[d]].pwd => live'[scur[d]].pwd)
        BY <1>8, <2>1, Zenon DEF StaysPut
    <2>3. HonoursPwd(d, scur[d]) BY <1>1, <2>1, <2>2, ZenonT(40) DEF Announcing
    <2> QED BY <2>1, <2>2, <2>3, ZenonT(40) DEF HonoursPwd
<1>9. spc'[d] \in {"none", "gate"} => \A g \in announced' : owner'[g] # d
    BY <1>1, <1>2, Zenon DEF SameSession, Announcing
<1> QED BY <1>2, <1>3, <1>4, <1>6, <1>7, <1>8, <1>9, ZenonT(40) DEF Announcing

\* A session that moves on to a place where it holds no tunnel.
LEMMA SessionRests ==
    ASSUME RTypeOK, Control, OverrideInv, OwnersStay, NEW d \in Conns,
           \A g \in Guids : StaysPut(g) \/ owner[g] # d,
           \A g \in announced' : g \in announced \/ (g \in Guids /\ owner[g] \in Conns \ {d}),
           env'[d] = env[d], gated'[d] = gated[d],
           spc'[d] \notin {"key", "pwd", "lookup", "write"},
           spc'[d] \in {"none", "gate"} => spc[d] \in {"none", "gate"}
    PROVE  Announcing(d)'
<1>1. Announcing(d) BY Zenon DEF OverrideInv
<1>2. /\ (\A g \in announced : owner[g] # d) => \A g \in announced' : owner'[g] # d
      /\ \A g \in announced' : owner'[g] = d /\ live'[g] # None =>
           ~gated'[d].inval /\ HonoursKey(d, g)' /\ HonoursPwd(d, g)'
    BY AnnouncedKept, Zenon
<1>3. Covers(d, env[d])' BY <1>1, Zenon DEF Announcing, Covers
<1>4. spc'[d] \in {"none", "gate"} => \A g \in announced' : owner'[g] # d
    BY <1>1, <1>2, Zenon DEF Announcing
<1> QED BY <1>2, <1>3, <1>4, ZenonT(40) DEF Announcing

\* What connection d has in hand does not change.
SameHands(d) == gpc'[d] = gpc[d] /\ gcur'[d] = gcur[d] /\ queue'[d] = queue[d]

\* A goroutine works for one connection: what the overrides of the others
\* rest on is left alone (server.go).
LEMMA OverridesElsewhere ==
    ASSUME RTypeOK, Control, OverrideInv, OwnersStay, NEW c \in Conns,
           \A g \in Guids : StaysPut(g) \/ owner[g] \in {c, None},
           \A d \in Conns \ {c} : SameSession(d) /\ SameHands(d),
           \A g \in announced' : g \in announced \/ (g \in Guids /\ owner[g] = c),
           HandOver(c)', Announcing(c)'
    PROVE  OverrideInv'
<1>1. None \notin Conns BY RegistryConstants, Zenon
<1>2. ASSUME NEW d \in Conns \ {c} PROVE HandOver(d)' /\ Announcing(d)'
    <2>1. HandOver(d) /\ SameSession(d) /\ SameHands(d) BY Zenon DEF OverrideInv
    <2>2. HandOver(d)' BY <2>1, HandOverKept, Zenon DEF SameHands
    <2>3. \A g \in Guids : StaysPut(g) \/ owner[g] # d BY <1>1, Zenon
    <2>4. \A g \in announced' : g \in announced \/ (g \in Guids /\ owner[g] \in Conns \ {d})
        BY Zenon
    <2>5. Announcing(d)' BY <2>1, <2>3, <2>4, SessionKept, ZenonT(40)
    <2> QED BY <2>2, <2>5, Zenon
<1>3. ASSUME NEW g \in announced' PROVE owner'[g] # None
    <2>1. g \in Guids /\ owner[g] # None BY <1>1, ZenonT(40) DEF RTypeOK, OverrideInv
    <2> QED BY <2>1, Zenon DEF OwnersStay
<1> QED BY <1>2, <1>3, Zenon DEF OverrideInv

\* The functions the argument is about, by connection.
LEMMA MoreDomains ==
    ASSUME RTypeOK
    PROVE  /\ DOMAIN queue = Conns /\ DOMAIN env = Conns /\ DOMAIN gated = Conns
           /\ DOMAIN owner = Guids
BY Zenon DEF RTypeOK, TypeOK

\* handleGlobalRequests hands over only tunnels of its own connection
\* (server.go:391-730).
LEMMA GlobalOverrides ==
    ASSUME RTypeOK, Control, OverrideInv, NEW c \in Conns, GlobalStep(c)
    PROVE  OverrideInv'
<1> USE DEF gVars, bookVars, sessVars, mainVars
<1>1. TypeOK BY Zenon DEF RTypeOK
<1>2. c # None /\ HandOver(c) /\ None \notin Conns BY RegistryConstants, Zenon DEF OverrideInv
<1>3. ASSUME UNCHANGED sessVars, OwnersStay,
             \A g \in Guids : StaysPut(g) \/ owner[g] = None,
             \A d \in Conns \ {c} : SameHands(d),
             HandOver(c)'
      PROVE  OverrideInv'
    <2>1. \A d \in Conns : SameSession(d) BY <1>3, Zenon DEF SameSession
    <2>2. announced' = announced BY <1>3, Zenon
    <2>3. \A g \in Guids : StaysPut(g) \/ owner[g] # c BY <1>2, <1>3, ZenonT(40)
    <2>4. Announcing(c)' BY <1>3, <2>1, <2>2, <2>3, SessionKept, ZenonT(40)
    <2> QED BY <1>3, <2>1, <2>2, <2>4, OverridesElsewhere, ZenonT(40)
<1>4. ASSUME UNCHANGED <<regVars, sessVars, queue>>, \A d \in Conns \ {c} : SameHands(d),
             gpc'[c] \in {"record", "enqueue", "forget"} =>
                gpc[c] \in {"record", "enqueue", "forget"} /\ gcur'[c] = gcur[c]
      PROVE  OverrideInv'
    <2>1. OwnersStay /\ \A g \in Guids : StaysPut(g) BY <1>1, <1>4, MildStep, ZenonT(40)
    <2>2. HandOver(c)' BY <1>2, <1>4, <2>1, HandOverKept, ZenonT(40)
    <2> QED BY <1>3, <1>4, <2>1, <2>2, ZenonT(40)
<1>5. ASSUME NEW b \in Binds, TcpipForward(c, b) PROVE OverrideInv'
    <2>1. gpc'[c] \notin {"record", "enqueue", "forget"}
        BY <1>5, Domains, ZenonT(40) DEF TcpipForward
    <2>2. \A d \in Conns \ {c} : SameHands(d) BY <1>5, Domains, Zenon DEF TcpipForward, SameHands
    <2> QED BY <1>4, <1>5, <2>1, <2>2, ZenonT(40) DEF TcpipForward
<1>6. ASSUME NEW g \in Guids, StoreTunnel(c, g) PROVE OverrideInv'
    <2>1. /\ owner[g] = None /\ owner' = [owner EXCEPT ![g] = c]
          /\ live' = [live EXCEPT ![g] = [conn |-> c, key |-> DefaultKey, pwd |-> FALSE]]
          /\ gcur' = [gcur EXCEPT ![c] = g] /\ gpc' = [gpc EXCEPT ![c] = "record"]
          /\ queue' = queue /\ UNCHANGED sessVars
        BY <1>6, ZenonT(40) DEF StoreTunnel, Put
    <2>2. OwnersStay BY <2>1, MoreDomains, ZenonT(40) DEF OwnersStay
    <2>3. \A x \in Guids : StaysPut(x) \/ owner[x] = None
        <3>1. \A x \in Guids \ {g} : live'[x] = live[x] BY <2>1, ZenonT(40) DEF RTypeOK, TypeOK
        <3> QED BY <2>1, <3>1, ZenonT(40) DEF StaysPut
    <2>4. \A d \in Conns \ {c} : SameHands(d) BY <2>1, Domains, ZenonT(40) DEF SameHands
    <2>5. HandOver(c)'
        <3>1. gcur'[c] = g /\ owner'[g] = c BY <2>1, Domains, MoreDomains, ZenonT(40)
        <3>2. queue[c] \in Seq(Guids) BY Zenon DEF RTypeOK
        <3>3. \A i \in 1 .. Len(queue[c]) : queue[c][i] \in Guids BY <3>2, SMTT(30)
        <3>4. \A i \in 1 .. Len(queue[c]) : owner'[queue[c][i]] = c
            BY <1>2, <2>2, <3>3, ZenonT(40) DEF HandOver, OwnersStay
        <3> QED BY <2>1, <3>1, <3>4, ZenonT(40) DEF HandOver
    <2> QED BY <1>3, <2>1, <2>2, <2>3, <2>4, <2>5, ZenonT(40)
<1>7. ASSUME NEW g \in Guids, RemoveCancelled(c, g) PROVE OverrideInv'
    <2>1. OwnersStay /\ \A x \in Guids : StaysPut(x)
        BY <1>1, <1>7, MildStep, ZenonT(40) DEF RemoveCancelled
    <2>2. \A d \in Conns \ {c} : SameHands(d) BY <1>7, Domains, ZenonT(40) DEF RemoveCancelled, SameHands
    <2>3. gpc'[c] \notin {"record", "enqueue", "forget"} /\ queue' = queue /\ UNCHANGED sessVars
        BY <1>7, Domains, ZenonT(40) DEF RemoveCancelled
    <2>4. HandOver(c)' BY <1>2, <2>1, <2>3, HandOverKept, ZenonT(40)
    <2> QED BY <1>3, <2>1, <2>2, <2>3, <2>4, ZenonT(40)
<1>8. CASE StoreFails(c) \/ RecordTunnel(c) \/ RevokeQueued(c) \/ GlobalClosed(c) \/ GlobalEnds(c)
    <2>1. \A d \in Conns \ {c} : SameHands(d)
        BY <1>8, Domains, ZenonT(40)
        DEF StoreFails, RecordTunnel, RevokeQueued, GlobalClosed, GlobalEnds, SameHands
    <2>2. gpc'[c] \in {"record", "enqueue", "forget"} =>
             gpc[c] \in {"record", "enqueue", "forget"} /\ gcur'[c] = gcur[c]
        BY <1>8, Domains, ZenonT(40)
        DEF StoreFails, RecordTunnel, RevokeQueued, GlobalClosed, GlobalEnds
    <2>3. UNCHANGED <<regVars, sessVars, queue>>
        BY <1>8, ZenonT(40) DEF StoreFails, RecordTunnel, RevokeQueued, GlobalClosed, GlobalEnds
    <2> QED BY <1>4, <2>1, <2>2, <2>3, ZenonT(40)
<1>9. ASSUME NEW B \in CancelTargets, CancelTcpipForward(c, B) PROVE OverrideInv'
    <2>1. gpc'[c] \notin {"record", "enqueue", "forget"}
        BY <1>9, Domains, ZenonT(40) DEF CancelTcpipForward
    <2>2. \A d \in Conns \ {c} : SameHands(d)
        BY <1>9, Domains, ZenonT(40) DEF CancelTcpipForward, SameHands
    <2> QED BY <1>4, <1>9, <2>1, <2>2, ZenonT(40) DEF CancelTcpipForward
<1>10. CASE Enqueue(c)
    <2>1. UNCHANGED <<regVars, sessVars>> BY <1>10, Zenon DEF Enqueue
    <2>2. OwnersStay /\ \A g \in Guids : StaysPut(g) BY <1>1, <2>1, MildStep, ZenonT(40)
    <2>3. \A d \in Conns \ {c} : SameHands(d)
        BY <1>10, Domains, MoreDomains, ZenonT(40) DEF Enqueue, SameHands
    <2>4. /\ gpc'[c] \in {"record", "enqueue", "forget"} => gcur'[c] = gcur[c]
          /\ queue'[c] = queue[c] \/ queue'[c] = Append(queue[c], gcur[c])
          /\ gpc[c] = "enqueue"
        BY <1>10, Domains, MoreDomains, ZenonT(40) DEF Enqueue
    <2>5. gcur[c] \in Guids /\ owner[gcur[c]] = c /\ owner' = owner
        BY <1>2, <2>1, <2>4, ZenonT(40) DEF Control, HandOver, regVars
    <2>6. queue[c] \in Seq(Guids) BY Zenon DEF RTypeOK
    <2>7. \A i \in 1 .. Len(queue[c]) : owner[queue[c][i]] = c BY <1>2, ZenonT(40) DEF HandOver
    <2>8. \A i \in 1 .. Len(Append(queue[c], gcur[c])) : owner[Append(queue[c], gcur[c])[i]] = c
        BY <2>5, <2>6, <2>7, SMTT(30)
    <2>9. HandOver(c)' BY <2>4, <2>5, <2>7, <2>8, ZenonT(40) DEF HandOver
    <2> QED BY <1>3, <2>1, <2>2, <2>3, <2>9, ZenonT(40)
<1> QED BY <1>5, <1>6, <1>7, <1>8, <1>9, <1>10, ZenonT(40) DEF GlobalStep

\* A block is announced only with what the session asked for before its shell
\* in force, and no later override takes it back (server.go:336-390, 798-924).
LEMMA SessionOverrides ==
    ASSUME RTypeOK, Control, OverrideInv, NEW c \in Conns, SessionStep(c)
    PROVE  OverrideInv'
<1> USE DEF gVars, bookVars, mainVars
<1>1. TypeOK BY Zenon DEF RTypeOK
<1>2. c # None /\ HandOver(c) /\ Announcing(c) /\ None \notin Conns
    BY RegistryConstants, Zenon DEF OverrideInv
<1>3. ASSUME UNCHANGED <<gpc, gcur, queue>>, OwnersStay,
             \A g \in Guids : StaysPut(g) \/ owner[g] = c,
             \A d \in Conns \ {c} : SameSession(d),
             \A g \in announced' : g \in announced \/ (g \in Guids /\ owner[g] = c),
             Announcing(c)'
      PROVE  OverrideInv'
    <2>1. \A d \in Conns : SameHands(d) BY <1>3, Zenon DEF SameHands
    <2>2. HandOver(c)' BY <1>2, <1>3, HandOverKept, ZenonT(40)
    <2> QED BY <1>3, <2>1, <2>2, OverridesElsewhere, ZenonT(40)
\* Away from the tunnel it announces.
<1>4. ASSUME UNCHANGED <<gpc, gcur, queue, announced>>, OwnersStay,
             \A g \in Guids : StaysPut(g), \A d \in Conns \ {c} : SameSession(d),
             env'[c] = env[c], gated'[c] = gated[c],
             spc'[c] \notin {"key", "pwd", "lookup", "write"},
             spc'[c] \in {"none", "gate"} => spc[c] \in {"none", "gate"}
      PROVE  OverrideInv'
    <2>1. Announcing(c)' BY <1>4, SessionRests, ZenonT(40)
    <2> QED BY <1>3, <1>4, <2>1, ZenonT(40)
<1>5. ASSUME UNCHANGED regVars PROVE OwnersStay /\ \A g \in Guids : StaysPut(g)
    BY <1>1, <1>5, MildStep, ZenonT(40)
<1>6. ASSUME NEW pc, SessionAt(c, pc)
      PROVE  /\ UNCHANGED <<gpc, gcur, queue>> /\ \A d \in Conns \ {c} : SameSession(d)
             /\ env'[c] = env[c] /\ gated'[c] = gated[c] /\ spc'[c] = pc
             /\ pc \in {"pwd", "lookup", "write"} => scur'[c] = scur[c]
    BY <1>6, Domains, ZenonT(40) DEF SessionAt, SameSession
<1>7. ASSUME NEW pc \in {"loop", "error", "closing", "end", "done"}, SessionAt(c, pc),
             OwnersStay, \A g \in Guids : StaysPut(g), UNCHANGED announced
      PROVE  OverrideInv'
    BY <1>4, <1>6, <1>7, ZenonT(40)
<1>8. CASE OpenSession(c)
    <2>1. \A d \in Conns \ {c} : SameSession(d) BY <1>8, Domains, Zenon DEF OpenSession, SameSession
    <2>2. spc[c] = "none" /\ spc'[c] = "gate" BY <1>8, Domains, ZenonT(40) DEF OpenSession
    <2> QED BY <1>4, <1>5, <1>8, <2>1, <2>2, ZenonT(40) DEF OpenSession
<1>9. CASE WriteError(c) \/ ForgetFailed(c)
    <2>1. \A d \in Conns \ {c} : SameSession(d)
        BY <1>9, Domains, ZenonT(40) DEF WriteError, ForgetFailed, SameSession
    <2>2. spc'[c] \in {"forget", "remove"} BY <1>9, Domains, ZenonT(40) DEF WriteError, ForgetFailed
    <2> QED BY <1>4, <1>5, <1>9, <2>1, <2>2, ZenonT(40) DEF WriteError, ForgetFailed
<1>10. CASE RemoveFailed(c)
    <2>1. scur[c] \in Guids /\ Remove(scur[c], TRUE) BY <1>10, Zenon DEF RemoveFailed, Control
    <2>2. OwnersStay /\ \A g \in Guids : StaysPut(g) BY <1>1, <2>1, MildStep, ZenonT(40)
    <2>3. SessionAt(c, "closing") \/ SessionAt(c, "loop") BY <1>10, ZenonT(40) DEF RemoveFailed
    <2> QED BY <1>7, <1>10, <2>2, <2>3, ZenonT(40) DEF RemoveFailed
<1>11. CASE EndSession(c)
    <2>1. OwnersStay /\ \A g \in Guids : StaysPut(g)
        BY <1>1, <1>11, MildStep, ZenonT(40) DEF EndSession, ConnStep
    <2> QED BY <1>7, <1>11, <2>1, ZenonT(40) DEF EndSession
<1>12. CASE OverrideFails(c) \/ SessionClosed(c) \/ StopSession(c)
    <2>1. SessionAt(c, "error") \/ SessionAt(c, "loop") \/ SessionAt(c, "end")
        BY <1>12, Zenon DEF OverrideFails, SessionClosed, StopSession
    <2>2. UNCHANGED <<regVars, announced>>
        BY <1>12, Zenon DEF OverrideFails, SessionClosed, StopSession
    <2> QED BY <1>5, <1>7, <2>1, <2>2, ZenonT(40)
<1>13. CASE Shell(c)
    <2>1. /\ spc[c] = "gate" /\ spc'[c] = "first" /\ gated'[c] = env[c] /\ env'[c] = env[c]
          /\ UNCHANGED <<gpc, gcur, queue, announced, regVars>>
        BY <1>13, Domains, MoreDomains, ZenonT(40) DEF Shell
    <2>2. \A d \in Conns \ {c} : SameSession(d)
        BY <1>13, Domains, MoreDomains, ZenonT(40) DEF Shell, SameSession
    <2>3. \A g \in announced' : owner'[g] # c BY <1>2, <2>1, ZenonT(40) DEF Announcing, regVars
    <2>4. Covers(c, env[c])' BY <2>1, Zenon DEF Covers
    <2>5. Announcing(c)' BY <2>1, <2>3, <2>4, ZenonT(40) DEF Announcing
    <2> QED BY <1>3, <1>5, <2>1, <2>2, <2>5, ZenonT(40)
<1>14. ASSUME NEW e \in Env, ApplyEnv(c, e) PROVE OverrideInv'
    <2>1. /\ env'[c] = e
          /\ UNCHANGED <<gpc, gcur, queue, announced, regVars, spc, scur, snap, gated>>
        BY <1>14, MoreDomains, ZenonT(40) DEF ApplyEnv
    <2>2. \A d \in Conns \ {c} : SameSession(d)
        BY <1>14, MoreDomains, ZenonT(40) DEF ApplyEnv, SameSession
    <2>3. env[c] \in Env BY Zenon DEF RTypeOK
    <2>4. /\ env[c].key # None => e.key = env[c].key
          /\ env[c].inval => e.inval
          /\ env[c].pwd => e.pwd
        <3>1. CASE \E k \in Keys : env[c].key = None /\ e = [env[c] EXCEPT !.key = k]
            BY <2>3, <3>1, ZenonT(40) DEF Env
        <3>2. CASE e = [env[c] EXCEPT !.inval = TRUE] BY <2>3, <3>2, ZenonT(40) DEF Env
        <3>3. CASE e = [env[c] EXCEPT !.pwd = TRUE] BY <2>3, <3>3, ZenonT(40) DEF Env
        <3> QED BY <1>14, <3>1, <3>2, <3>3, ZenonT(40) DEF ApplyEnv
    <2>5. Covers(c, env[c]) BY <1>2, Zenon DEF Announcing
    <2>6. Covers(c, env[c])' BY <2>1, <2>4, <2>5, ZenonT(40) DEF Covers
    <2>7. Announcing(c)'
        BY <1>2, <2>1, <2>6, ZenonT(40) DEF Announcing, Covers, HonoursKey, HonoursPwd, regVars
    <2> QED BY <1>3, <1>5, <2>1, <2>2, <2>7, ZenonT(40)
<1>15. CASE TakeNotif(c)
    <2>1. /\ queue[c] # <<>> /\ queue'[c] = Tail(queue[c]) /\ scur'[c] = Head(queue[c])
          /\ spc'[c] = AfterTake(env[c]) /\ spc[c] \in {"first", "loop"}
          /\ AfterTake(env[c]) = "key" => snap'[c] = env[c]
          /\ UNCHANGED <<gpc, gcur, announced, regVars, env, gated>>
        BY <1>15, Domains, MoreDomains, ZenonT(40) DEF TakeNotif
    <2>2. \A d \in Conns \ {c} : SameSession(d) /\ SameHands(d)
        BY <1>15, Domains, MoreDomains, ZenonT(40) DEF TakeNotif, SameSession, SameHands
    <2>3. queue[c] \in Seq(Guids) BY Zenon DEF RTypeOK
    <2>4. \A i \in 1 .. Len(queue[c]) : owner[queue[c][i]] = c BY <1>2, ZenonT(40) DEF HandOver
    <2>5. /\ \A i \in 1 .. Len(Tail(queue[c])) : owner[Tail(queue[c])[i]] = c
          /\ owner[Head(queue[c])] = c
        BY <2>1, <2>3, <2>4, SMTT(30)
    <2>6. owner' = owner /\ live' = live BY <2>1, Zenon DEF regVars
    <2>7. HandOver(c)' BY <1>2, <2>1, <2>5, <2>6, ZenonT(40) DEF HandOver
    <2>8. Covers(c, env[c]) BY <1>2, ZenonT(40) DEF Announcing
    <2>9. CASE AfterTake(env[c]) = "error"
        <3>1. Announcing(c)'
            BY <1>2, <2>1, <2>6, <2>9, ZenonT(40)
            DEF Announcing, Covers, HonoursKey, HonoursPwd
        <3> QED BY <1>5, <2>1, <2>2, <2>7, <3>1, OverridesElsewhere, ZenonT(40)
    <2>10. CASE AfterTake(env[c]) # "error"
        <3>1. /\ AfterTake(env[c]) \in {"key", "pwd", "lookup"} /\ ~env[c].inval
              /\ AfterTake(env[c]) # "key" => env[c].key = None
              /\ AfterTake(env[c]) = "lookup" => ~env[c].pwd
            BY <2>10, Zenon DEF AfterTake
        <3>2. /\ ~gated[c].inval
              /\ AfterTake(env[c]) # "key" => gated[c].key = None
              /\ AfterTake(env[c]) = "lookup" => ~gated[c].pwd
            BY <2>8, <3>1, ZenonT(40) DEF Covers
        <3>3. Covers(c, env[c])' /\ (spc'[c] = "key" => Covers(c, snap[c])')
            BY <2>1, <2>8, ZenonT(40) DEF Covers
        <3>4. \A g \in announced' : owner'[g] = c /\ live'[g] # None =>
                 ~gated'[c].inval /\ HonoursKey(c, g)' /\ HonoursPwd(c, g)'
            BY <1>2, <2>1, <2>6, ZenonT(40) DEF Announcing, HonoursKey, HonoursPwd
        <3>5. /\ spc'[c] \in {"pwd", "lookup", "write"} => HonoursKey(c, scur[c])'
              /\ spc'[c] \in {"lookup", "write"} => HonoursPwd(c, scur[c])'
              /\ spc'[c] \notin {"none", "gate"} /\ owner'[scur'[c]] = c /\ ~gated'[c].inval
            BY <2>1, <2>5, <2>6, <3>1, <3>2, ZenonT(40) DEF HonoursKey, HonoursPwd
        <3>6. Announcing(c)' BY <3>3, <3>4, <3>5, ZenonT(40) DEF Announcing
        <3> QED BY <1>5, <2>1, <2>2, <2>7, <3>6, OverridesElsewhere, Zenon
    <2> QED BY <2>9, <2>10, ZenonT(40)
<1>16. CASE OverrideKey(c)
    <2> PICK g, k : g = scur[c] /\ k = snap[c].key BY Zenon
    <2>1. /\ g \in Guids /\ owner[g] = c /\ ~gated[c].inval /\ Covers(c, snap[c])
        BY <1>2, <1>16, ZenonT(40) DEF OverrideKey, Control, Announcing
    <2>2. /\ live[g] # None /\ live' = [live EXCEPT ![g].key = k] /\ owner' = owner
          /\ announced' = announced /\ live \in [Guids -> Entry \cup {None}]
        BY <1>1, <1>16, ZenonT(40) DEF OverrideKey, UpdateConnectorKeyWire, TypeOK
    <2>3. live'[g].key = k /\ live'[g].pwd = live[g].pwd BY <2>1, <2>2, SMTT(30)
    <2>4. \A x \in Guids \ {g} : live'[x] = live[x] BY <2>2, Zenon
    <2>5. OwnersStay BY <2>2, Zenon DEF OwnersStay
    <2>6. \A x \in Guids \ {g} : StaysPut(x) BY <2>4, Zenon DEF StaysPut
    <2>7. PICK pc \in {"pwd", "lookup"} :
             SessionAt(c, pc) /\ (pc = "lookup" => ~snap[c].pwd)
        BY <1>16, ZenonT(40) DEF OverrideKey
    <2>8. /\ UNCHANGED <<gpc, gcur, queue>> /\ \A d \in Conns \ {c} : SameSession(d)
          /\ env'[c] = env[c] /\ gated'[c] = gated[c] /\ spc'[c] = pc /\ scur'[c] = g
        BY <1>6, <2>7, ZenonT(40)
    <2>9. HonoursKey(c, g)' BY <2>1, <2>3, <2>8, ZenonT(40) DEF HonoursKey, Covers
    <2>10. pc = "lookup" => HonoursPwd(c, g)' BY <2>1, <2>7, <2>8, ZenonT(40) DEF HonoursPwd, Covers
    <2>11. ASSUME NEW x \in announced', owner'[x] = c, live'[x] # None
           PROVE  ~gated'[c].inval /\ HonoursKey(c, x)' /\ HonoursPwd(c, x)'
        <3>1. x \in announced /\ x \in Guids /\ owner[x] = c BY <2>2, <2>11, ZenonT(40) DEF RTypeOK
        <3>2. CASE x = g
            <4>1. HonoursPwd(c, g) BY <1>2, <2>2, <3>1, <3>2, ZenonT(40) DEF Announcing
            <4>2. HonoursPwd(c, g)' BY <2>3, <2>8, <4>1, ZenonT(40) DEF HonoursPwd
            <4> QED BY <2>1, <2>8, <2>9, <3>2, <4>2, ZenonT(40)
        <3>3. CASE x # g
            <4>1. live'[x] = live[x] BY <2>4, <3>1, <3>3, ZenonT(40)
            <4>2. HonoursKey(c, x) /\ HonoursPwd(c, x)
                BY <1>2, <2>11, <3>1, <4>1, ZenonT(40) DEF Announcing
            <4> QED BY <2>1, <2>8, <4>1, <4>2, ZenonT(40) DEF HonoursKey, HonoursPwd
        <3> QED BY <3>2, <3>3, ZenonT(40)
    <2>12. Covers(c, env[c])' BY <1>2, <2>8, ZenonT(40) DEF Announcing, Covers
    <2>13. Announcing(c)'
        BY <2>1, <2>2, <2>7, <2>8, <2>9, <2>10, <2>11, <2>12, ZenonT(40) DEF Announcing
    <2>14. \A x \in Guids : StaysPut(x) \/ owner[x] = c BY <2>1, <2>6, ZenonT(40)
    <2> QED BY <1>3, <2>2, <2>5, <2>8, <2>13, <2>14, ZenonT(40)
<1>17. CASE OverridePassword(c)
    <2> PICK g : g = scur[c] BY Zenon
    <2>1. /\ g \in Guids /\ owner[g] = c /\ ~gated[c].inval
          /\ live[g] # None => HonoursKey(c, g)
        BY <1>2, <1>17, ZenonT(40) DEF OverridePassword, Control, Announcing
    <2>2. /\ live[g] # None /\ live' = [live EXCEPT ![g].pwd = TRUE]
          /\ announced' = announced /\ live \in [Guids -> Entry \cup {None}]
        BY <1>1, <1>17, ZenonT(40) DEF OverridePassword, UpdateAllowPassword, TypeOK
    <2>3. OwnersStay /\ \A x \in Guids : StaysPut(x)
        BY <1>1, <1>17, <2>1, MildStep, ZenonT(40) DEF OverridePassword
    <2>4. live'[g].pwd
        <3>1. live[g] \in Entry BY <2>1, <2>2, ZenonT(40)
        <3>2. live'[g] = [live[g] EXCEPT !.pwd = TRUE] BY <2>1, <2>2, ZenonT(40)
        <3>3. [live[g] EXCEPT !.pwd = TRUE].pwd BY <3>1, SMTT(30)
        <3> QED BY <3>2, <3>3, ZenonT(40)
    <2>5. /\ UNCHANGED <<gpc, gcur, queue>> /\ \A d \in Conns \ {c} : SameSession(d)
          /\ env'[c] = env[c] /\ gated'[c] = gated[c] /\ spc'[c] = "lookup" /\ scur'[c] = g
        BY <1>6, <1>17, ZenonT(40) DEF OverridePassword
    <2>6. \A x \in announced' : owner'[x] = c /\ live'[x] # None =>
             ~gated'[c].inval /\ HonoursKey(c, x)' /\ HonoursPwd(c, x)'
        BY <2>2, <2>3, <2>5, AnnouncedKept, ZenonT(40)
    <2>7. HonoursPwd(c, g)' BY <2>4, Zenon DEF HonoursPwd
    <2>8. live'[g] # None => HonoursKey(c, g)'
        <3>1. HonoursKey(c, g) /\ StaysPut(g) BY <2>1, <2>2, <2>3, ZenonT(40)
        <3> QED BY <2>5, <3>1, ZenonT(40) DEF HonoursKey, StaysPut
    <2>9. owner'[g] = c BY <1>2, <2>1, <2>3, ZenonT(40) DEF OwnersStay
    <2>10. Covers(c, env[c])' BY <1>2, <2>5, ZenonT(40) DEF Announcing, Covers
    <2>11. Announcing(c)'
        BY <2>1, <2>5, <2>6, <2>7, <2>8, <2>9, <2>10, ZenonT(40) DEF Announcing
    <2> QED BY <1>3, <2>2, <2>3, <2>5, <2>11, ZenonT(40)
<1>18. CASE LookupTunnel(c)
    <2>1. UNCHANGED <<regVars, announced>> /\ spc[c] = "lookup"
        BY <1>18, Zenon DEF LookupTunnel
    <2>2. CASE SessionAt(c, "loop") BY <1>5, <1>7, <2>1, <2>2, ZenonT(40)
    <2>3. CASE SessionAt(c, "write")
        <3>1. /\ UNCHANGED <<gpc, gcur, queue>> /\ \A d \in Conns \ {c} : SameSession(d)
              /\ env'[c] = env[c] /\ gated'[c] = gated[c] /\ spc'[c] = "write"
              /\ scur'[c] = scur[c]
            BY <1>6, <2>3, ZenonT(40)
        <3>2. live' = live /\ owner' = owner BY <2>1, Zenon DEF regVars
        <3>3. Announcing(c)'
            BY <1>2, <2>1, <3>1, <3>2, ZenonT(40) DEF Announcing, Covers, HonoursKey, HonoursPwd
        <3> QED BY <1>3, <1>5, <2>1, <3>1, <3>3, ZenonT(40)
    <2> QED BY <1>18, <2>2, <2>3, ZenonT(40) DEF LookupTunnel
<1>19. CASE WriteBlock(c)
    <2>1. /\ UNCHANGED regVars /\ spc[c] = "write" /\ SessionAt(c, "loop")
          /\ announced' \subseteq announced \cup {scur[c]}
        BY <1>19, Zenon DEF WriteBlock
    <2>2. scur[c] \in Guids /\ owner[scur[c]] = c /\ ~gated[c].inval
        BY <1>2, <2>1, ZenonT(40) DEF Control, Announcing
    <2>3. /\ UNCHANGED <<gpc, gcur, queue>> /\ \A d \in Conns \ {c} : SameSession(d)
          /\ env'[c] = env[c] /\ gated'[c] = gated[c] /\ spc'[c] = "loop"
        BY <1>6, <2>1, ZenonT(40)
    <2>4. live' = live /\ owner' = owner BY <2>1, Zenon DEF regVars
    <2>5. ASSUME NEW g \in announced', owner'[g] = c, live'[g] # None
          PROVE  ~gated'[c].inval /\ HonoursKey(c, g)' /\ HonoursPwd(c, g)'
        <3>1. g \in announced \/ g = scur[c] BY <2>1, Zenon
        <3>2. HonoursKey(c, g) /\ HonoursPwd(c, g)
            BY <1>2, <2>1, <2>4, <2>5, <3>1, ZenonT(40) DEF Announcing
        <3> QED BY <2>2, <2>3, <2>4, <3>2, ZenonT(40) DEF HonoursKey, HonoursPwd
    <2>6. Covers(c, env[c])' BY <1>2, <2>3, ZenonT(40) DEF Announcing, Covers
    <2>7. Announcing(c)' BY <2>3, <2>5, <2>6, ZenonT(40) DEF Announcing
    <2> QED BY <1>3, <1>5, <2>1, <2>2, <2>3, <2>7, Zenon
<1> QED BY <1>8, <1>9, <1>10, <1>11, <1>12, <1>13, <1>14, <1>15, <1>16, <1>17, <1>18, <1>19,
           ZenonT(40) DEF SessionStep

\* Every step keeps it.
LEMMA OverrideStep ==
    ASSUME RTypeOK, Control, OverrideInv, [RNext]_vars
    PROVE  OverrideInv'
<1>1. ASSUME UNCHANGED <<gcur, queue, sessVars>>, OwnersStay, \A g \in Guids : StaysPut(g),
             \A d \in Conns : gpc'[d] \in {"record", "enqueue", "forget"} => gpc'[d] = gpc[d]
      PROVE  OverrideInv'
    <2>1. announced' = announced /\ \A d \in Conns : SameSession(d)
        BY <1>1, Zenon DEF sessVars, SameSession
    <2>2. ASSUME NEW d \in Conns PROVE HandOver(d)' /\ Announcing(d)'
        <3>1. HandOver(d)' BY <1>1, HandOverKept, Zenon DEF OverrideInv
        <3>2. Announcing(d)' BY <1>1, <2>1, SessionKept, ZenonT(40)
        <3> QED BY <3>1, <3>2, Zenon
    <2>3. \A g \in announced' : owner'[g] # None
        BY <1>1, <2>1, ZenonT(40) DEF OverrideInv, OwnersStay, RTypeOK
    <2> QED BY <2>2, <2>3, Zenon DEF OverrideInv
<1>2. TypeOK BY Zenon DEF RTypeOK
<1>3. ASSUME NEW c \in Conns, MainStep(c) PROVE OverrideInv'
    <2>1. UNCHANGED <<gcur, queue, sessVars>>
        BY <1>3, ZenonT(40) DEF MainStep, HandleConn, StartCleanup, EndCleanup, CleanupTunnel, gVars
    <2>2. \A d \in Conns : gpc'[d] \in {"record", "enqueue", "forget"} => gpc'[d] = gpc[d]
        BY <1>3, Domains, ZenonT(40)
        DEF MainStep, HandleConn, StartCleanup, EndCleanup, CleanupTunnel, gVars
    <2>3. \/ UNCHANGED regVars \/ ConnStep(c) \/ \E g \in Guids : Remove(g, TRUE)
        BY <1>3, ZenonT(40)
        DEF MainStep, HandleConn, StartCleanup, EndCleanup, CleanupTunnel, ConnStep
    <2>4. OwnersStay /\ \A g \in Guids : StaysPut(g) BY <1>2, <2>3, MildStep, ZenonT(40)
    <2> QED BY <1>1, <2>1, <2>2, <2>4, ZenonT(40)
<1>4. CASE Surroundings \/ UNCHANGED vars
    <2>1. UNCHANGED <<gpc, gcur, queue, sessVars>>
        BY <1>4, Zenon DEF Surroundings, vars, hVars, gVars
    <2>2. \/ UNCHANGED regVars \/ EvictIdle({})
          \/ \E g \in Guids : Touch(g) \/ AgeStored(g) \/ AgeLive(g)
          \/ \E c \in Conns : ConnStep(c)
        BY <1>4, ZenonT(40) DEF Surroundings, vars, ConnStep
    <2>3. OwnersStay /\ \A g \in Guids : StaysPut(g) BY <1>2, <2>2, MildStep, ZenonT(40)
    <2> QED BY <1>1, <2>1, <2>3, ZenonT(40)
<1> QED BY <1>3, <1>4, GlobalOverrides, SessionOverrides, ZenonT(40) DEF RNext

-----------------------------------------------------------------------------
(* A forward that passed the caps finds room for its notice. *)

\* The positions at which the session has a tunnel in hand.
Holding == {"key", "pwd", "lookup", "write", "error", "forget", "remove"}

\* No notice for tunnel g waits on connection d.
Absent(d, g) == \A i \in 1 .. Len(queue[d]) : queue[d][i] # g

\* The live tunnels of connection d whose notices wait.
Waiting(d) == {g \in LiveGuids : ~Absent(d, g)}

\* Each tunnel is announced once: its notice is about to be queued, waits, or
\* is in the session's hands.  Once a forward has passed a cap, the live
\* tunnels whose notices wait are fewer than that cap.
FitAt(d) ==
    /\ \A i, j \in 1 .. Len(queue[d]) : queue[d][i] = queue[d][j] => i = j
    /\ gpc[d] \in {"record", "enqueue"} => Absent(d, gcur[d])
    /\ spc[d] \in Holding => Absent(d, scur[d]) /\ owner[scur[d]] # None
    /\ spc[d] \in Holding /\ gpc[d] \in {"record", "enqueue"} => scur[d] # gcur[d]
    /\ gpc[d] = "put" /\ maxPerConn > 0 => Cardinality(Waiting(d)) < maxPerConn
    /\ gpc[d] \in {"record", "enqueue"} /\ (maxPerConn > 0 \/ maxTotal > 0) =>
          Cardinality(Waiting(d)) < QueueCap

FitInv == \A d \in Conns : FitAt(d)

\* A tunnel that was registered and is gone does not come back.
NoRevival == \A g \in Guids : owner[g] # None /\ live'[g] # None => live[g] # None

\* What connection d has in hand, or less.
Still(d) ==
    /\ queue'[d] = queue[d]
    /\ gpc'[d] = "put" => gpc[d] = "put"
    /\ gpc'[d] \in {"record", "enqueue"} => gpc[d] \in {"record", "enqueue"} /\ gcur'[d] = gcur[d]
    /\ spc'[d] \in Holding => spc[d] \in Holding /\ scur'[d] = scur[d]

\* Sets of live tunnels are finite, and a smaller one has no more elements.
LEMMA FewerWait ==
    ASSUME NEW S \in SUBSET LiveGuids, NEW T \in SUBSET S
    PROVE  /\ Cardinality(S) \in Nat /\ Cardinality(T) \in Nat
           /\ Cardinality(T) <= Cardinality(S)
<1>1. IsFiniteSet(LiveGuids) BY RegistryConstants, FS_Subset, Zenon DEF LiveGuids
<1>2. IsFiniteSet(S) BY <1>1, FS_Subset, Zenon
<1>3. IsFiniteSet(T) /\ Cardinality(T) <= Cardinality(S) BY <1>2, FS_Subset, Zenon
<1> QED BY <1>2, <1>3, FS_CardinalityType, Zenon

\* registry.Put takes a fresh guid, and no other method registers one or
\* brings one back (registry.go:118-141).
LEMMA Registered ==
    ASSUME RTypeOK, Control, [RNext]_vars
    PROVE  OwnersStay /\ NoRevival
<1>1. ASSUME NEW c \in Conns, NEW g \in Guids, StoreTunnel(c, g) PROVE OwnersStay /\ NoRevival
    <2>1. /\ owner[g] = None /\ owner' = [owner EXCEPT ![g] = c]
          /\ \E e : live' = [live EXCEPT ![g] = e]
        BY <1>1, Zenon DEF StoreTunnel, Put
    <2>2. \A h \in Guids : h # g => owner'[h] = owner[h] /\ live'[h] = live[h]
        BY <2>1, Zenon DEF RTypeOK, TypeOK
    <2> QED BY <2>1, <2>2, Zenon DEF OwnersStay, NoRevival
<1>2. CASE OtherStep
    <2>1. owner' = owner
        BY <1>2, ZenonT(40) DEF OtherStep, UpdateConnectorKeyWire, UpdateAllowPassword, Remove,
              Touch, AgeStored, AgeLive, ConnStep, Accept, ConnGoesDown, CloseConn, EvictIdle, regVars
    <2>2. \A d \in Conns : LiveOn(d)' \subseteq LiveOn(d)
        BY <1>2, OnlyPutAdds, Zenon DEF RTypeOK
    <2>3. TypeOK'
        BY ServerTypeStep, Zenon DEF RTypeOK
    <2>4. ASSUME NEW g \in Guids, live'[g] # None PROVE live[g] # None
        <3>1. live'[g] \in Entry BY <2>3, <2>4, Zenon DEF TypeOK
        <3>2. PICK d \in Conns : live'[g].conn = d BY <3>1 DEF Entry
        <3>3. g \in LiveOn(d)' BY <2>4, <3>2, Zenon DEF LiveOn, LiveGuids
        <3>4. g \in LiveOn(d) BY <2>2, <3>3, Zenon
        <3> QED BY <3>4, Zenon DEF LiveOn, LiveGuids
    <2> QED BY <2>1, <2>4, Zenon DEF OwnersStay, NoRevival
<1> QED BY <1>1, <1>2, ServerCalls, Zenon

\* Notices only leave, or stay: no more live tunnels wait than before.
LEMMA WaitingShrinks ==
    ASSUME NoRevival, NEW d \in Conns, HandOver(d), d # None,
           \A g \in Guids : Absent(d, g) => Absent(d, g)'
    PROVE  Waiting(d)' \subseteq Waiting(d)
<1> SUFFICES ASSUME NEW g \in Guids, live'[g] # None, ~Absent(d, g)' PROVE g \in Waiting(d)
    BY Zenon DEF Waiting, LiveGuids
<1>1. ~Absent(d, g) BY Zenon
<1>2. owner[g] = d BY <1>1, Zenon DEF Absent, HandOver
<1> QED BY <1>1, <1>2, Zenon DEF NoRevival, Waiting, LiveGuids

\* A connection whose goroutines take nothing new in hand stays as it was.
LEMMA FitKept ==
    ASSUME RTypeOK, Control, OwnersStay, NoRevival,
           NEW d \in Conns, HandOver(d), FitAt(d), Still(d)
    PROVE  FitAt(d)'
<1>1. d # None BY RegistryConstants, Zenon
<1>2. ASSUME NEW g PROVE Absent(d, g)' <=> Absent(d, g) BY Zenon DEF Absent, Still
<1>3. Waiting(d)' \subseteq Waiting(d) BY <1>1, <1>2, WaitingShrinks, Zenon
<1>4. /\ Cardinality(Waiting(d)) \in Nat /\ Cardinality(Waiting(d)') \in Nat
      /\ Cardinality(Waiting(d)') <= Cardinality(Waiting(d))
    BY <1>3, FewerWait, Zenon DEF Waiting
<1>5. \A n \in Nat : Cardinality(Waiting(d)) < n => Cardinality(Waiting(d)') < n
    BY <1>4
<1>6. maxPerConn \in Nat /\ QueueCap \in Nat
    BY RegistryConstants, ServerConstants DEF QueueCap
<1>7. \A i, j \in 1 .. Len(queue'[d]) : queue'[d][i] = queue'[d][j] => i = j
    BY Zenon DEF FitAt, Still
<1>8. gpc'[d] \in {"record", "enqueue"} => Absent(d, gcur[d])'
    <2>1. ASSUME gpc'[d] \in {"record", "enqueue"}
          PROVE  queue'[d] = queue[d] /\ gcur'[d] = gcur[d] /\ Absent(d, gcur[d])
        BY <2>1, Zenon DEF FitAt, Still
    <2> QED BY <2>1, Zenon DEF Absent
<1>9. spc'[d] \in Holding =>
          /\ Absent(d, scur[d])' /\ owner'[scur'[d]] # None
          /\ gpc'[d] \in {"record", "enqueue"} => scur'[d] # gcur'[d]
    <2> SUFFICES ASSUME spc'[d] \in Holding
                 PROVE  /\ Absent(d, scur[d])' /\ owner'[scur'[d]] # None
                        /\ gpc'[d] \in {"record", "enqueue"} => scur'[d] # gcur'[d]
        OBVIOUS
    <2>1. spc[d] \in Holding /\ scur'[d] = scur[d] BY Zenon DEF Still
    <2>2. scur[d] \in Guids BY <2>1, Zenon DEF Control, Holding
    <2>3. owner'[scur'[d]] # None BY <2>1, <2>2, Zenon DEF FitAt, OwnersStay
    <2>4. Absent(d, scur[d])' BY <2>1, Zenon DEF FitAt, Absent, Still
    <2>5. gpc'[d] \in {"record", "enqueue"} => scur'[d] # gcur'[d]
        BY <2>1, Zenon DEF FitAt, Still
    <2> QED BY <2>3, <2>4, <2>5, Zenon
<1>10. gpc'[d] = "put" /\ maxPerConn > 0 => Cardinality(Waiting(d)') < maxPerConn
    BY <1>5, <1>6, Zenon DEF FitAt, Still
<1>11. gpc'[d] \in {"record", "enqueue"} /\ (maxPerConn > 0 \/ maxTotal > 0) =>
          Cardinality(Waiting(d)') < QueueCap
    BY <1>5, <1>6, Zenon DEF FitAt, Still
<1> QED BY <1>7, <1>8, <1>9, <1>10, <1>11, ZenonT(40) DEF FitAt

\* A forward that is let in has fewer live tunnels waiting than its
\* connection's cap (server.go:472-500, 540-558).
LEMMA ForwardFits ==
    ASSUME ServerInv, Bookkeeping, OwnersStay, NoRevival, NEW c \in Conns, HandOver(c), FitAt(c),
           NEW b \in Binds, TcpipForward(c, b)
    PROVE  FitAt(c)'
<1> USE DEF ServerInv
<1>1. /\ gpc[c] = "idle" /\ gpc' = [gpc EXCEPT ![c] = IF gpc'[c] = "put" THEN "put" ELSE "idle"]
      /\ gpc'[c] \in {"put", "idle"} /\ UNCHANGED <<queue, spc, scur, live, owner>>
    BY Domains, ZenonT(40) DEF TcpipForward, regVars, sessVars
<1>2. CASE gpc'[c] # "put"
    <2>1. Still(c) BY <1>1, <1>2, Zenon DEF Still
    <2> QED BY <2>1, FitKept, Zenon
<1>3. CASE gpc'[c] = "put"
    <2> DEFINE kept == hGuids[c] \cap LiveGuids
    <2>1. maxPerConn > 0 => ~(Cardinality(kept) >= maxPerConn)
        BY <1>3, Domains, ZenonT(40) DEF TcpipForward
    <2>2. ASSUME NEW g \in Waiting(c) PROVE g \in kept
        <3>1. g \in LiveGuids /\ owner[g] = c BY Zenon DEF Waiting, Absent, HandOver
        <3>2. g \in LiveOn(c) BY <3>1, Zenon DEF LiveOn, Bookkeeping
        <3>3. gset[c] = {} /\ hset[c] = {} BY <1>1, ZenonT(40) DEF Control
        <3>4. ~(spc[c] = "remove" /\ g = scur[c]) BY Zenon DEF FitAt, Waiting, Holding
        <3>5. g \in hGuids[c]
            BY <1>1, <3>2, <3>3, <3>4, ZenonT(40) DEF EveryTunnelHasAnOwner, Leaving
        <3> QED BY <3>1, <3>5, Zenon
    <2>3. /\ Cardinality(kept) \in Nat /\ Cardinality(Waiting(c)) \in Nat
          /\ Cardinality(Waiting(c)) <= Cardinality(kept)
        BY <2>2, FewerWait, Zenon
    <2>4. maxPerConn > 0 => Cardinality(Waiting(c)) < maxPerConn
        <3> HIDE DEF kept
        <3> QED BY <2>1, <2>3, ServerConstants
    <2>5. \A g : Absent(c, g)' <=> Absent(c, g) BY <1>1, Zenon DEF Absent
    <2>6. Waiting(c)' = Waiting(c) BY <1>1, <2>5, Zenon DEF Waiting, LiveGuids
    <2>7. spc'[c] \in Holding => Absent(c, scur[c])' /\ owner'[scur'[c]] # None
        BY <1>1, <2>5, Zenon DEF FitAt, Absent
    <2>8. \A i, j \in 1 .. Len(queue'[c]) : queue'[c][i] = queue'[c][j] => i = j
        BY <1>1, Zenon DEF FitAt
    <2> QED BY <1>3, <2>4, <2>6, <2>7, <2>8, ZenonT(40) DEF FitAt
<1> QED BY <1>2, <1>3, Zenon

\* registry.Put tests the global cap, and its guid is fresh
\* (registry.go:118-141).
LEMMA StoreFits ==
    ASSUME ServerInv, OwnersStay, NoRevival, NEW c \in Conns, HandOver(c), FitAt(c),
           NEW g \in Guids, StoreTunnel(c, g)
    PROVE  FitAt(c)'
<1> USE DEF ServerInv
<1>1. /\ gpc[c] = "put" /\ gpc'[c] = "record" /\ gcur'[c] = g /\ owner[g] = None /\ UnderCap
      /\ UNCHANGED <<queue, spc, scur>>
    BY Domains, ZenonT(40) DEF StoreTunnel, Put, sessVars
<1>2. c # None BY RegistryConstants, Zenon
<1>3. \A h : Absent(c, h)' <=> Absent(c, h) BY <1>1, Zenon DEF Absent
<1>4. Absent(c, g) BY <1>1, <1>2, Zenon DEF Absent, HandOver
<1>5. Waiting(c)' \subseteq Waiting(c) BY <1>2, <1>3, WaitingShrinks, Zenon
<1>6. /\ Cardinality(Waiting(c)) \in Nat /\ Cardinality(Waiting(c)') \in Nat
      /\ Cardinality(Waiting(c)') <= Cardinality(Waiting(c))
    BY <1>5, FewerWait, Zenon DEF Waiting
<1>7. Cardinality(LiveGuids) \in Nat /\ Cardinality(Waiting(c)) <= Cardinality(LiveGuids)
    BY FewerWait, Zenon DEF Waiting
<1>8. maxPerConn > 0 => Cardinality(Waiting(c)) < maxPerConn BY <1>1, Zenon DEF FitAt
<1>9. maxTotal = 0 \/ Cardinality(LiveGuids) < maxTotal BY <1>1, Zenon DEF UnderCap
<1>10. maxPerConn > 0 \/ maxTotal > 0 => Cardinality(Waiting(c)') < QueueCap
    BY <1>6, <1>7, <1>8, <1>9, RegistryConstants, ServerConstants, SMTT(30) DEF QueueCap
<1>11. Absent(c, gcur[c])' BY <1>1, <1>3, <1>4, Zenon DEF Absent
<1>12. spc'[c] \in Holding =>
          Absent(c, scur[c])' /\ owner'[scur'[c]] # None /\ scur'[c] # gcur'[c]
    <2> SUFFICES ASSUME spc[c] \in Holding
                 PROVE  Absent(c, scur[c])' /\ owner'[scur'[c]] # None /\ scur'[c] # gcur'[c]
        BY <1>1, Zenon
    <2>1. scur[c] \in Guids BY Zenon DEF Control, Holding
    <2>2. owner[scur[c]] # None /\ Absent(c, scur[c]) BY Zenon DEF FitAt
    <2>3. owner'[scur'[c]] # None BY <1>1, <2>1, <2>2, Zenon DEF OwnersStay
    <2>4. Absent(c, scur[c])' BY <1>1, <2>2, Zenon DEF Absent
    <2> QED BY <1>1, <2>2, <2>3, <2>4, Zenon
<1>13. \A i, j \in 1 .. Len(queue'[c]) : queue'[c][i] = queue'[c][j] => i = j
    BY <1>1, Zenon DEF FitAt
<1> QED BY <1>1, <1>10, <1>11, <1>12, <1>13, ZenonT(40) DEF FitAt

\* enqueueRegistration queues a tunnel that no other notice is for
\* (server.go:324-331, 625-640).
LEMMA EnqueueFits ==
    ASSUME ServerInv, OwnersStay, NoRevival, NEW c \in Conns, HandOver(c), FitAt(c), Enqueue(c)
    PROVE  FitAt(c)'
<1> USE DEF ServerInv
<1>1. /\ gpc[c] = "enqueue" /\ gpc'[c] \in {"idle", "forget"} /\ UNCHANGED <<spc, scur, owner>>
      /\ queue'[c] \in {queue[c], Append(queue[c], gcur[c])}
    BY Domains, MoreDomains, ZenonT(40) DEF Enqueue, regVars, sessVars
<1>2. CASE queue'[c] = queue[c]
    <2>1. Still(c) BY <1>1, <1>2, Zenon DEF Still
    <2> QED BY <2>1, FitKept, Zenon
<1>3. CASE queue'[c] = Append(queue[c], gcur[c])
    <2>1. gcur[c] \in Guids /\ queue[c] \in Seq(Guids) BY <1>1, Zenon DEF Control, RTypeOK
    <2>2. /\ Len(queue'[c]) = Len(queue[c]) + 1 /\ queue'[c][Len(queue[c]) + 1] = gcur[c]
          /\ \A i \in 1 .. Len(queue[c]) : queue'[c][i] = queue[c][i]
        BY <1>3, <2>1
    <2>3. \A i \in 1 .. Len(queue'[c]) : i \in 1 .. Len(queue[c]) \/ i = Len(queue[c]) + 1
        BY <2>1, <2>2
    <2>4. Absent(c, gcur[c]) BY <1>1, Zenon DEF FitAt
    <2>5. \A i, j \in 1 .. Len(queue'[c]) : queue'[c][i] = queue'[c][j] => i = j
        BY <2>2, <2>3, <2>4, ZenonT(40) DEF FitAt, Absent
    <2>6. spc'[c] \in Holding => Absent(c, scur[c])' /\ owner'[scur'[c]] # None
        <3>1. spc[c] \in Holding => Absent(c, scur[c]) /\ owner[scur[c]] # None /\ scur[c] # gcur[c]
            BY <1>1, Zenon DEF FitAt
        <3> QED BY <1>1, <2>2, <2>3, <3>1, ZenonT(40) DEF Absent
    <2> QED BY <1>1, <2>5, <2>6, ZenonT(40) DEF FitAt
<1> QED BY <1>1, <1>2, <1>3, Zenon

\* The session takes the oldest notice, and there is no other for its tunnel
\* (server.go:889-924).
LEMMA TakeFits ==
    ASSUME ServerInv, OwnersStay, NoRevival, NEW c \in Conns, HandOver(c), FitAt(c), TakeNotif(c)
    PROVE  FitAt(c)'
<1> USE DEF ServerInv
<1>1. /\ queue[c] # <<>> /\ queue'[c] = Tail(queue[c]) /\ scur'[c] = Head(queue[c])
      /\ UNCHANGED <<gpc, gcur, owner>>
    BY Domains, MoreDomains, ZenonT(40) DEF TakeNotif, regVars, gVars
<1>2. queue[c] \in Seq(Guids) /\ c # None BY RegistryConstants, Zenon DEF RTypeOK
<1>3. /\ Len(queue[c]) \in Nat \ {0} /\ Len(queue'[c]) = Len(queue[c]) - 1
      /\ scur'[c] = queue[c][1] /\ \A i \in 1 .. Len(queue[c]) - 1 : queue'[c][i] = queue[c][i + 1]
    BY <1>1, <1>2
<1>4. \A i \in 1 .. Len(queue'[c]) :
          i + 1 \in 1 .. Len(queue[c]) /\ i + 1 # 1 /\ queue'[c][i] = queue[c][i + 1]
    BY <1>3
<1>5. 1 \in 1 .. Len(queue[c]) BY <1>3
<1>6. \A g : Absent(c, g) => Absent(c, g)' BY <1>4, Zenon DEF Absent
<1>7. Absent(c, scur[c])' BY <1>3, <1>4, <1>5, Zenon DEF FitAt, Absent
<1>8. \A i, j \in 1 .. Len(queue'[c]) : queue'[c][i] = queue'[c][j] => i = j
    <2> SUFFICES ASSUME NEW i \in 1 .. Len(queue'[c]), NEW j \in 1 .. Len(queue'[c]),
                        queue'[c][i] = queue'[c][j]
                 PROVE  i = j
        BY Zenon
    <2>1. /\ i + 1 \in 1 .. Len(queue[c]) /\ j + 1 \in 1 .. Len(queue[c])
          /\ queue[c][i + 1] = queue[c][j + 1]
        BY <1>4, Zenon
    <2>2. i + 1 = j + 1 BY <2>1, Zenon DEF FitAt
    <2>3. i \in Int /\ j \in Int OBVIOUS
    <2> QED BY <2>2, <2>3
<1>9. owner'[scur'[c]] # None BY <1>1, <1>2, <1>3, <1>5, Zenon DEF HandOver
<1>10. gpc'[c] \in {"record", "enqueue"} => Absent(c, gcur[c])' /\ scur'[c] # gcur'[c]
    <2>1. gpc[c] \in {"record", "enqueue"} => Absent(c, gcur[c]) BY Zenon DEF FitAt
    <2>2. Absent(c, gcur[c]) => scur'[c] # gcur[c] BY <1>3, <1>5, Zenon DEF Absent
    <2>3. Absent(c, gcur[c]) => Absent(c, gcur[c])' BY <1>1, <1>4, Zenon DEF Absent
    <2> QED BY <1>1, <2>1, <2>2, <2>3, Zenon
<1>11. Waiting(c)' \subseteq Waiting(c) BY <1>2, <1>6, WaitingShrinks, Zenon
<1>12. /\ Cardinality(Waiting(c)) \in Nat /\ Cardinality(Waiting(c)') \in Nat
       /\ Cardinality(Waiting(c)') <= Cardinality(Waiting(c))
    BY <1>11, FewerWait, Zenon DEF Waiting
<1>13. \A n \in Nat : Cardinality(Waiting(c)) < n => Cardinality(Waiting(c)') < n
    BY <1>12
<1>14. maxPerConn \in Nat /\ QueueCap \in Nat
    BY RegistryConstants, ServerConstants DEF QueueCap
<1>15. /\ gpc'[c] = "put" /\ maxPerConn > 0 => Cardinality(Waiting(c)') < maxPerConn
       /\ gpc'[c] \in {"record", "enqueue"} /\ (maxPerConn > 0 \/ maxTotal > 0) =>
             Cardinality(Waiting(c)') < QueueCap
    BY <1>1, <1>13, <1>14, Zenon DEF FitAt
<1> QED BY <1>7, <1>8, <1>9, <1>10, <1>15, ZenonT(40) DEF FitAt

\* Every step keeps the notices that wait within the caps.
LEMMA FitStep ==
    ASSUME ServerInv, RegistryInv, OverrideInv, FitInv, [RNext]_vars
    PROVE  FitInv'
<1> USE DEF gVars, bookVars, sessVars, mainVars
<1>1. RTypeOK /\ Control /\ Bookkeeping BY Zenon DEF ServerInv, RegistryInv
<1>2. OwnersStay /\ NoRevival BY <1>1, Registered, Zenon
<1>3. ASSUME NEW d \in Conns, Still(d) PROVE FitAt(d)'
    BY <1>1, <1>2, <1>3, FitKept, Zenon DEF FitInv, OverrideInv
<1>4. ASSUME NEW c \in Conns, \A d \in Conns \ {c} : Still(d), FitAt(c)' PROVE FitInv'
    BY <1>3, <1>4, Zenon DEF FitInv
<1>6. ASSUME NEW c \in Conns, GlobalStep(c) PROVE FitInv'
    <2>1. UNCHANGED <<spc, scur>>
        BY <1>6, ZenonT(40) DEF GlobalStep, TcpipForward, StoreTunnel, RemoveCancelled, StoreFails,
              RecordTunnel, Enqueue, RevokeQueued, CancelTcpipForward, GlobalClosed, GlobalEnds
    <2>2. \A d \in Conns \ {c} : queue'[d] = queue[d]
        BY <1>1, <1>6, MoreDomains, ZenonT(40)
        DEF GlobalStep, TcpipForward, StoreTunnel, RemoveCancelled, StoreFails,
            RecordTunnel, Enqueue, RevokeQueued, CancelTcpipForward, GlobalClosed, GlobalEnds
    <2>3. \A d \in Conns \ {c} : gpc'[d] = gpc[d] /\ gcur'[d] = gcur[d]
        BY <1>1, <1>6, Domains, ZenonT(40)
        DEF GlobalStep, TcpipForward, StoreTunnel, RemoveCancelled, StoreFails,
            RecordTunnel, Enqueue, RevokeQueued, CancelTcpipForward, GlobalClosed, GlobalEnds
    <2>4. \A d \in Conns \ {c} : Still(d) BY <2>1, <2>2, <2>3, Zenon DEF Still
    <2>5. HandOver(c) /\ FitAt(c) BY Zenon DEF OverrideInv, FitInv
    <2>6. ASSUME NEW b \in Binds, TcpipForward(c, b) PROVE FitAt(c)'
        BY <1>1, <1>2, <2>5, <2>6, ForwardFits, Zenon
    <2>7. ASSUME NEW g \in Guids, StoreTunnel(c, g) PROVE FitAt(c)'
        BY <1>1, <1>2, <2>5, <2>7, StoreFits, Zenon
    <2>8. ASSUME Enqueue(c) PROVE FitAt(c)' BY <1>1, <1>2, <2>5, <2>8, EnqueueFits, Zenon
    <2>9. ASSUME NEW g \in Guids, RemoveCancelled(c, g) PROVE Still(c)
        BY <1>1, <2>1, <2>9, Domains, ZenonT(40) DEF RemoveCancelled, Still
    <2>10. ASSUME StoreFails(c) \/ GlobalClosed(c) \/ GlobalEnds(c) PROVE Still(c)
        BY <1>1, <2>1, <2>10, Domains, ZenonT(40) DEF StoreFails, GlobalClosed, GlobalEnds, Still
    <2>11. ASSUME RecordTunnel(c) \/ RevokeQueued(c) PROVE Still(c)
        BY <1>1, <2>1, <2>11, Domains, ZenonT(40) DEF RecordTunnel, RevokeQueued, Still
    <2>12. ASSUME NEW B \in CancelTargets, CancelTcpipForward(c, B) PROVE Still(c)
        BY <1>1, <2>1, <2>12, Domains, ZenonT(40) DEF CancelTcpipForward, Still
    <2>13. FitAt(c)'
        BY <1>3, <1>6, <2>6, <2>7, <2>8, <2>9, <2>10, <2>11, <2>12, ZenonT(40) DEF GlobalStep
    <2> QED BY <1>4, <2>4, <2>13, Zenon
<1>7. ASSUME NEW c \in Conns, SessionStep(c) PROVE FitInv'
    <2>1. UNCHANGED <<gpc, gcur>>
        BY <1>7, ZenonT(40)
        DEF SessionStep, OpenSession, Shell, TakeNotif, ApplyEnv, OverrideKey, OverridePassword,
            OverrideFails, LookupTunnel, WriteBlock, WriteError, ForgetFailed, RemoveFailed,
            SessionClosed, StopSession, EndSession, SessionAt
    <2>2. \A d \in Conns \ {c} : queue'[d] = queue[d]
        BY <1>1, <1>7, MoreDomains, ZenonT(40)
        DEF SessionStep, OpenSession, Shell, TakeNotif, ApplyEnv, OverrideKey, OverridePassword,
            OverrideFails, LookupTunnel, WriteBlock, WriteError, ForgetFailed, RemoveFailed,
            SessionClosed, StopSession, EndSession, SessionAt
    <2>3. ASSUME NEW pc, SessionAt(c, pc) PROVE \A d \in Conns \ {c} : spc'[d] = spc[d] /\ scur'[d] = scur[d]
        BY <1>1, <2>3, Domains, ZenonT(40) DEF SessionAt
    <2>4. \A d \in Conns \ {c} : spc'[d] = spc[d] /\ scur'[d] = scur[d]
        BY <1>1, <1>7, <2>3, Domains, ZenonT(40)
        DEF SessionStep, OpenSession, Shell, TakeNotif, ApplyEnv, OverrideKey, OverridePassword,
            OverrideFails, LookupTunnel, WriteBlock, WriteError, ForgetFailed, RemoveFailed,
            SessionClosed, StopSession, EndSession
    <2>5. \A d \in Conns \ {c} : Still(d) BY <2>1, <2>2, <2>4, Zenon DEF Still
    <2>6. HandOver(c) /\ FitAt(c) BY Zenon DEF OverrideInv, FitInv
    <2>7. ASSUME TakeNotif(c) PROVE FitAt(c)' BY <1>1, <1>2, <2>6, <2>7, TakeFits, Zenon
    <2>8. ASSUME NEW pc, SessionAt(c, pc),
                 pc \in Holding => pc \in {"pwd", "lookup", "write", "error"} /\ spc[c] \in Holding
          PROVE  Still(c)
        <3>1. spc'[c] = pc /\ queue' = queue BY <1>1, <2>8, Domains, Zenon DEF SessionAt
        <3>2. pc \in {"pwd", "lookup", "write", "error"} => scur'[c] = scur[c]
            BY <2>8, ZenonT(40) DEF SessionAt
        <3> QED BY <2>1, <2>8, <3>1, <3>2, ZenonT(40) DEF Still
    <2>9. ASSUME OverrideKey(c) \/ OverridePassword(c) \/ OverrideFails(c) PROVE Still(c)
        <3>1. spc[c] \in Holding
            BY <2>9, Zenon DEF OverrideKey, OverridePassword, OverrideFails, Holding
        <3>2. SessionAt(c, "pwd") \/ SessionAt(c, "lookup") \/ SessionAt(c, "error")
            BY <2>9, Zenon DEF OverrideKey, OverridePassword, OverrideFails
        <3> QED BY <2>8, <3>1, <3>2, ZenonT(40)
    <2>10. ASSUME LookupTunnel(c) PROVE Still(c)
        <3>1. spc[c] \in Holding BY <2>10, Zenon DEF LookupTunnel, Holding
        <3>2. SessionAt(c, "write") \/ SessionAt(c, "loop") BY <2>10, Zenon DEF LookupTunnel
        <3>3. "loop" \notin Holding BY Zenon DEF Holding
        <3> QED BY <2>8, <3>1, <3>2, <3>3, ZenonT(40)
    <2>11. ASSUME WriteBlock(c) \/ RemoveFailed(c) \/ SessionClosed(c) \/ StopSession(c) \/ EndSession(c)
           PROVE  Still(c)
        <3>1. \E pc \in {"loop", "closing", "end", "done"} : SessionAt(c, pc)
            BY <2>11, ZenonT(40) DEF WriteBlock, RemoveFailed, SessionClosed, StopSession, EndSession
        <3>2. \A pc \in {"loop", "closing", "end", "done"} : pc \notin Holding BY Zenon DEF Holding
        <3> QED BY <2>8, <3>1, <3>2, ZenonT(40)
    <2>12. ASSUME OpenSession(c) \/ Shell(c) \/ \E e \in Env : ApplyEnv(c, e) PROVE Still(c)
        BY <1>1, <2>1, <2>12, Domains, ZenonT(40) DEF OpenSession, Shell, ApplyEnv, Still, Holding
    <2>13. ASSUME WriteError(c) \/ ForgetFailed(c) PROVE Still(c)
        BY <1>1, <2>1, <2>13, Domains, ZenonT(40) DEF WriteError, ForgetFailed, Still, Holding
    <2>14. FitAt(c)'
        BY <1>3, <1>7, <2>7, <2>9, <2>10, <2>11, <2>12, <2>13, ZenonT(40) DEF SessionStep
    <2> QED BY <1>4, <2>5, <2>14, Zenon
<1>8. ASSUME NEW c \in Conns, MainStep(c) PROVE FitInv'
    <2>1. UNCHANGED <<gcur, queue, spc, scur>>
        BY <1>8, ZenonT(40) DEF MainStep, HandleConn, StartCleanup, EndCleanup, CleanupTunnel
    <2>2. \A d \in Conns : gpc'[d] \in {"put", "record", "enqueue"} => gpc'[d] = gpc[d]
        BY <1>1, <1>8, Domains, ZenonT(40)
        DEF MainStep, HandleConn, StartCleanup, EndCleanup, CleanupTunnel
    <2>3. \A d \in Conns : Still(d) BY <2>1, <2>2, ZenonT(40) DEF Still
    <2> QED BY <1>3, <2>3, Zenon DEF FitInv
<1>9. CASE Surroundings \/ UNCHANGED vars
    <2>1. UNCHANGED <<gpc, gcur, queue, spc, scur>> BY <1>9, Zenon DEF Surroundings, vars, hVars
    <2>2. \A d \in Conns : Still(d) BY <2>1, Zenon DEF Still
    <2> QED BY <1>3, <2>2, Zenon DEF FitInv
<1> QED BY <1>6, <1>7, <1>8, <1>9, ZenonT(40) DEF RNext

\* A queue of live tunnels only is as long as the set of them.
LEMMA LiveQueueIsShort ==
    ASSUME RTypeOK, NEW d \in Conns, FitAt(d),
           \A i \in 1 .. Len(queue[d]) : queue[d][i] \in LiveGuids
    PROVE  Len(queue[d]) <= Cardinality(Waiting(d))
<1> DEFINE n == Len(queue[d])
<1>1. queue[d] \in Seq(Guids) BY Zenon DEF RTypeOK
<1>2. n \in Nat /\ queue[d] = [i \in 1 .. n |-> queue[d][i]] BY <1>1
<1>3. \A i \in 1 .. n : queue[d][i] \in Waiting(d) BY Zenon DEF Waiting, Absent
<1>4. queue[d] \in Injection(1 .. n, Waiting(d))
    <2>1. queue[d] \in [1 .. n -> Waiting(d)] BY <1>2, <1>3, Zenon
    <2>2. \A i, j \in 1 .. n : queue[d][i] = queue[d][j] => i = j BY Zenon DEF FitAt
    <2> HIDE DEF n
    <2> QED BY <2>1, <2>2, Zenon DEF Injection, IsInjective
<1>5. IsFiniteSet(Waiting(d))
    <2>1. IsFiniteSet(LiveGuids) BY RegistryConstants, FS_Subset, Zenon DEF LiveGuids
    <2>2. Waiting(d) \in SUBSET LiveGuids BY Zenon DEF Waiting
    <2> QED BY <2>1, <2>2, FS_Subset, Zenon
<1> HIDE DEF n
<1>6. Cardinality(1 .. n) <= Cardinality(Waiting(d)) BY <1>4, <1>5, FS_Injection, Zenon
<1>7. Cardinality(1 .. n) = IF 1 > n THEN 0 ELSE n - 1 + 1
    <2>1. 1 \in Int /\ n \in Int BY <1>2
    <2> QED BY <2>1, FS_Interval, Zenon
<1>8. Cardinality(1 .. n) = n BY <1>2, <1>7
<1> QED BY <1>6, <1>8, Zenon DEF n

-----------------------------------------------------------------------------
(* The theorems. *)

\* The inductive invariant, from which the theorems below follow.
THEOREM ServerInvariance == RSpec => []ServerInv
<1>1. RInit => ServerInv
    <2> SUFFICES ASSUME RInit PROVE ServerInv
        BY Zenon
    <2>1. \A d \in Conns : LiveOn(d) = {} BY Zenon DEF RInit, Init, LiveOn, LiveGuids
    <2>2. EveryTunnelHasAnOwner BY <2>1, ZenonT(40) DEF EveryTunnelHasAnOwner
    <2> QED BY <2>2, ServerTypeInit, ZenonT(40) DEF ServerInv
<1>2. ServerInv /\ [RNext]_vars => ServerInv'
    BY ServerTypeStep, OwnerStep, ZenonT(40) DEF ServerInv
<1> QED BY <1>1, <1>2, PTL DEF RSpec

\* The server changes the registry through its methods only, with the
\* arguments they expect (server.go:391-730): what holds of the registry
\* holds of it here.
LEMMA ServerUsesRegistry == RSpec => Spec
<1>1. RInit => Init BY ZenonT(40) DEF RInit
<1>2. ServerInv /\ [RNext]_vars => [Next]_regVars BY RegistryStep, ZenonT(40) DEF ServerInv
<1> QED BY <1>1, <1>2, ServerInvariance, PTL DEF RSpec, Spec

\* At every moment somebody is answerable for each live tunnel, so none
\* outlives its connection by being forgotten (server.go:219-257, 438-465).
THEOREM OwnerTheorem == RSpec => []EveryTunnelHasAnOwner
<1>1. ServerInv => EveryTunnelHasAnOwner BY ZenonT(40) DEF ServerInv
<1> QED BY <1>1, ServerInvariance, PTL

\* The handlers' state stays well formed and guidCh within its capacity
\* (server.go:259-293).
THEOREM ServerTypeCorrect == RSpec => []RTypeOK
<1>1. ServerInv => RTypeOK BY Zenon DEF ServerInv
<1> QED BY <1>1, ServerInvariance, PTL

\* With the real callers too, the live tunnels stay within --max-tunnels, the
\* two halves of a tunnel agree and a connection without tunnels is closed
\* (registry.go:118-141, 225-301).
THEOREM ServerKeepsRegistrySafe ==
    RSpec => [](WithinGlobalCap /\ HalvesAgree /\ UnusedConnsAreClosed)
<1>1. RegistryInv => WithinGlobalCap /\ HalvesAgree /\ UnusedConnsAreClosed
    BY Zenon DEF RegistryInv
<1> QED BY <1>1, ServerUsesRegistry, Invariance, PTL

\* What the overrides rest on holds at every moment (server.go:336-390).
LEMMA OverridesAlways == RSpec => []OverrideInv
<1>1. RInit => OverrideInv
    <2> SUFFICES ASSUME RInit PROVE OverrideInv BY Zenon
    <2>1. announced = {} BY Zenon DEF RInit
    <2>2. ASSUME NEW d \in Conns PROVE HandOver(d) /\ Announcing(d)
        <3>1. /\ gpc[d] = "off" /\ queue[d] = <<>> /\ spc[d] = "none"
              /\ gated[d] = NoEnv /\ env[d] = NoEnv
            BY Zenon DEF RInit
        <3>2. HandOver(d)
            <4>1. 1 .. Len(<<>>) = {} OBVIOUS
            <4> QED BY <3>1, <4>1, ZenonT(40) DEF HandOver
        <3>3. Covers(d, env[d]) BY <3>1, Zenon DEF Covers
        <3> QED BY <2>1, <3>1, <3>2, <3>3, ZenonT(40) DEF Announcing
    <2> QED BY <2>1, <2>2, ZenonT(40) DEF OverrideInv
<1>2. ServerInv /\ OverrideInv /\ [RNext]_vars => OverrideInv'
    BY OverrideStep, Zenon DEF ServerInv
<1> QED BY <1>1, <1>2, ServerInvariance, PTL DEF RSpec

\* When a tunnel is announced, what its session asked for before its shell is
\* in force, and stays so as long as the tunnel is live: its key is the one
\* chosen, passwords are admitted if asked for, and after an invalid key
\* nothing is announced (server.go:336-390, 798-924).
THEOREM OverridesTheorem == RSpec => []OverridesBeforeAnnouncement
<1>1. ServerInv /\ OverrideInv /\ RegistryInv => OverridesBeforeAnnouncement
    <2> SUFFICES ASSUME OverrideInv, RegistryInv, NEW c \in Conns,
                        NEW g \in LiveOn(c) \cap announced
                 PROVE  /\ ~gated[c].inval
                        /\ gated[c].key # None => live[g].key = gated[c].key
                        /\ gated[c].pwd => live[g].pwd
        BY Zenon DEF OverridesBeforeAnnouncement
    <2>1. live[g] # None /\ owner[g] = c
        BY Zenon DEF LiveOn, LiveGuids, RegistryInv, Bookkeeping
    <2> QED BY <2>1, ZenonT(40) DEF OverrideInv, Announcing, HonoursKey, HonoursPwd
<1> QED BY <1>1, OverridesAlways, ServerInvariance, ServerUsesRegistry, Invariance, PTL

\* With a cap set, live tunnels alone never fill guidCh: a forward that passed
\* the caps and finds no room, and is revoked for it, owes that to a notice of
\* a tunnel that is gone (server.go:259-277, 472-500, 625-640).
THEOREM ForwardsFitTheorem == RSpec => []AllowedForwardsFit
<1>1. RInit => FitInv
    <2> SUFFICES ASSUME RInit, NEW d \in Conns PROVE FitAt(d) BY Zenon DEF FitInv
    <2>1. gpc[d] = "off" /\ queue[d] = <<>> /\ spc[d] = "none" BY Zenon DEF RInit
    <2>2. 1 .. Len(<<>>) = {} OBVIOUS
    <2> QED BY <2>1, <2>2, ZenonT(40) DEF FitAt, Holding
<1>2. ServerInv /\ RegistryInv /\ OverrideInv /\ FitInv /\ [RNext]_vars => FitInv'
    BY FitStep, Zenon
<1>3. ServerInv /\ FitInv => AllowedForwardsFit
    <2> SUFFICES ASSUME ServerInv, FitInv, maxPerConn > 0 \/ maxTotal > 0, NEW c \in Conns,
                        gpc[c] = "enqueue", Len(queue[c]) >= QueueCap,
                        \A i \in DOMAIN queue[c] : queue[c][i] \in LiveGuids
                 PROVE  FALSE
        BY Zenon DEF AllowedForwardsFit
    <2>1. FitAt(c) /\ RTypeOK /\ queue[c] \in Seq(Guids) BY Zenon DEF FitInv, ServerInv, RTypeOK
    <2>2. DOMAIN queue[c] = 1 .. Len(queue[c]) /\ Len(queue[c]) \in Nat BY <2>1
    <2>3. Len(queue[c]) <= Cardinality(Waiting(c)) BY <2>1, <2>2, LiveQueueIsShort, Zenon
    <2>4. Cardinality(Waiting(c)) < QueueCap BY <2>1, Zenon DEF FitAt
    <2>5. Cardinality(Waiting(c)) \in Nat BY FewerWait, Zenon DEF Waiting
    <2>6. QueueCap \in Nat BY RegistryConstants, ServerConstants DEF QueueCap
    <2> QED BY <2>2, <2>3, <2>4, <2>5, <2>6
<1>4. RSpec => []FitInv
    BY <1>1, <1>2, ServerInvariance, ServerUsesRegistry, Invariance, OverridesAlways, PTL DEF RSpec
<1> QED BY <1>3, <1>4, ServerInvariance, PTL
=============================================================================
