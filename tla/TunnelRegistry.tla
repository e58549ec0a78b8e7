--------------------------- MODULE TunnelRegistry ---------------------------
(***************************************************************************)
(* The tunnel registry of the revtunnel plugin (plugin/revtunnel/          *)
(* registry.go) with its session store and the channels opened through it. *)
(*                                                                         *)
(* Every registry method is one critical section of registry.mu, so it is  *)
(* one action; what a method does after it unlocks (closing the channels   *)
(* it took and the registrar connection it found unused) are later actions *)
(* of the same goroutine: `closingCh` and `closing` hold what is still to  *)
(* be closed.  The callers are left free here: any goroutine may call any  *)
(* method at any time.  RegisterServer constrains them to the real ones.   *)
(*                                                                         *)
(* LastActivity is kept as the one fact the sweeper asks of it: whether it *)
(* is older than the idle cutoff (`idle` for the live record, `storeIdle`  *)
(* for the persisted one).                                                 *)
(***************************************************************************)
EXTENDS Integers, FiniteSets

CONSTANTS Guids,     \* tunnel identifiers; each is generated at most once
          Conns,     \* registrar connections
          Chans,     \* channelConns of connectors
          Keys,      \* connector public keys
          maxTotal,  \* --max-tunnels, 0 = unlimited
          Durable,   \* file store (TRUE) or memory store (FALSE)
          None

Entry  == [conn : Conns, key : Keys, pwd : BOOLEAN]
Record == [key : Keys, pwd : BOOLEAN]

ASSUME RegistryConstants ==
    /\ maxTotal \in Nat
    /\ Durable \in BOOLEAN
    /\ IsFiniteSet(Guids)
    /\ None \notin Guids \cup Conns \cup Entry \cup Record

VARIABLES
    live,       \* registry.live
    store,      \* the records of the session store
    idle,       \* live guids whose LastActivity is before the cutoff
    storeIdle,  \* guids whose persisted LastActivity is
    owner,      \* history: the connection each guid was registered on
    channels,   \* registry.channels
    chan,       \* the channelConns themselves
    closingCh,  \* channels taken from the registry, to be closed after unlock
    conn,       \* the registrar connections
    closing     \* connections to be closed after unlock

regVars == <<live, store, idle, storeIdle, owner, channels, chan, closingCh,
             conn, closing>>

\* The persisted half of a live entry.
RecordOf(e) == [key |-> e.key, pwd |-> e.pwd]

LiveGuids  == {g \in Guids : live[g] # None}
LiveOn(c)  == {g \in LiveGuids : live[g].conn = c}

Init ==
    /\ live = [g \in Guids |-> None]
    /\ store = [g \in Guids |-> None]
    /\ idle = {} /\ storeIdle = {}
    /\ owner = [g \in Guids |-> None]
    /\ channels = [g \in Guids |-> {}]
    /\ chan = [h \in Chans |-> [st |-> "free", guid |-> None]]
    /\ closingCh = {}
    /\ conn = [c \in Conns |-> "new"]
    /\ closing = {}

-----------------------------------------------------------------------------
(* Registering and changing a tunnel. *)

UnderCap == maxTotal = 0 \/ Cardinality(LiveGuids) < maxTotal

\* registry.Put, accepted.  A registrar connection that is already down may
\* still register: its requests were read before it went down.  A Put that
\* is refused (cap reached, store error) leaves the registry as it was.
Put(g, c, k) ==
    /\ owner[g] = None /\ conn[c] \in {"up", "down"}
    /\ UnderCap
    /\ owner' = [owner EXCEPT ![g] = c]
    /\ live' = [live EXCEPT ![g] = [conn |-> c, key |-> k, pwd |-> FALSE]]
    /\ store' = [store EXCEPT ![g] = [key |-> k, pwd |-> FALSE]]
    /\ UNCHANGED <<idle, storeIdle, channels, chan, closingCh, conn, closing>>

\* Persisting a live record again writes its current LastActivity.
Restamp(g) == storeIdle' = IF g \in idle THEN storeIdle \cup {g} ELSE storeIdle \ {g}

\* registry.UpdateConnectorKeyWire, accepted by the store (a refusal changes
\* neither half).
UpdateConnectorKeyWire(g, k) ==
    /\ live[g] # None
    /\ store' = [store EXCEPT ![g] = [RecordOf(live[g]) EXCEPT !.key = k]]
    /\ Restamp(g)
    /\ live' = [live EXCEPT ![g].key = k]
    /\ UNCHANGED <<idle, owner, channels, chan, closingCh, conn, closing>>

\* Mutant of UpdateAllowPassword: the live record is changed although the
\* store refused the copy.
UpdateAllowPassword_LiveFirst(g) ==
    /\ live[g] # None /\ ~live[g].pwd
    /\ live' = [live EXCEPT ![g].pwd = TRUE]
    /\ UNCHANGED <<store, idle, storeIdle, owner, channels, chan, closingCh, conn, closing>>

\* registry.UpdateAllowPassword(guid, true): its callers only ever enable.
UpdateAllowPassword(g) ==
    /\ live[g] # None /\ ~live[g].pwd
    /\ store' = [store EXCEPT ![g] = [RecordOf(live[g]) EXCEPT !.pwd = TRUE]]
    /\ Restamp(g)
    /\ live' = [live EXCEPT ![g].pwd = TRUE]
    /\ UNCHANGED <<idle, owner, channels, chan, closingCh, conn, closing>>

Touch(g) ==
    /\ live[g] # None /\ g \in idle
    /\ idle' = idle \ {g}
    /\ UNCHANGED <<live, store, storeIdle, owner, channels, chan, closingCh, conn, closing>>

-----------------------------------------------------------------------------
(* Removing tunnels. *)

\* The registrar connections of the tunnels G that no other live tunnel uses.
UnusedAfter(G) == {live[g].conn : g \in G} \ {live[g].conn : g \in LiveGuids \ G}

\* What Delete, Remove and EvictIdle share, the live tunnels of G going: their
\* channels are taken, and the connections left without a tunnel are closed
\* after the unlock.
Drop(G) ==
    /\ live' = [g \in Guids |-> IF g \in G THEN None ELSE live[g]]
    /\ idle' = idle \ G
    /\ channels' = [g \in Guids |-> IF g \in G THEN {} ELSE channels[g]]
    /\ closingCh' = closingCh \cup UNION {channels[g] : g \in G}
    /\ closing' = closing \cup UnusedAfter(G \cap LiveGuids)

\* registry.Remove and registry.Delete, live guid or not.  `gone` says whether
\* the store carried out its Delete; the error is ignored.
Remove(g, gone) ==
    /\ Drop({g})
    /\ store' = IF gone THEN [store EXCEPT ![g] = None] ELSE store
    /\ storeIdle' = IF gone THEN storeIdle \ {g} ELSE storeIdle
    /\ UNCHANGED <<owner, chan, conn>>

\* Mutant of Expired: persisted-only records are left alone.
Expired_EvictedOnly(G) == {g \in G : store[g] # None}

\* What the sweep removes from the store: the records of the tunnels it
\* evicts, and the expired ones that belong to no live tunnel.
Expired(G) == {g \in Guids : /\ store[g] # None
                             /\ \/ g \in G
                                \/ g \notin LiveGuids /\ g \in storeIdle}

\* registry.EvictIdle.  `kept` are the records the store failed to delete or,
\* its List failing, to report.
EvictIdle(kept) ==
    LET G    == LiveGuids \cap idle
        dead == Expired(G) \ kept
    IN /\ kept \subseteq Expired(G)
       /\ G # {} \/ dead # {}
       /\ Drop(G)
       /\ store' = [g \in Guids |-> IF g \in dead THEN None ELSE store[g]]
       /\ storeIdle' = storeIdle \ dead
       /\ UNCHANGED <<owner, chan, conn>>

\* Time: a persisted LastActivity is never later than the live one.
AgeStored(g) ==
    /\ store[g] # None /\ g \notin storeIdle
    /\ storeIdle' = storeIdle \cup {g}
    /\ UNCHANGED <<live, store, idle, owner, channels, chan, closingCh, conn, closing>>

AgeLive(g) ==
    /\ live[g] # None /\ g \notin idle /\ g \in storeIdle
    /\ idle' = idle \cup {g}
    /\ UNCHANGED <<live, store, storeIdle, owner, channels, chan, closingCh, conn, closing>>

-----------------------------------------------------------------------------
(* The deferred closes, and the channels of connectors. *)

\* conn.Close() after the unlock.
CloseConn(c) ==
    /\ c \in closing
    /\ closing' = closing \ {c}
    /\ conn' = [conn EXCEPT ![c] = "down"]
    /\ UNCHANGED <<live, store, idle, storeIdle, owner, channels, chan, closingCh>>

\* channel.closeFromRegistry() after the unlock.
CloseTaken(h) ==
    /\ h \in closingCh
    /\ closingCh' = closingCh \ {h}
    /\ chan' = [chan EXCEPT ![h].st = "closed"]
    /\ UNCHANGED <<live, store, idle, storeIdle, owner, channels, conn, closing>>

\* CreateConnCallback: Lookup, then OpenChannel on the connection it returned.
OpenChannel(h, g) ==
    /\ chan[h].st = "free" /\ live[g] # None
    /\ chan' = [chan EXCEPT ![h] = [st |-> "opening", guid |-> g]]
    /\ UNCHANGED <<live, store, idle, storeIdle, owner, channels, closingCh, conn, closing>>

\* Mutant of TrackChannel: a channel whose tunnel went away is left open.
TrackChannel_NoClose(h) ==
    LET g == chan[h].guid
    IN /\ chan[h].st = "opening"
       /\ channels' = IF live[g] # None THEN [channels EXCEPT ![g] = @ \cup {h}] ELSE channels
       /\ chan' = [chan EXCEPT ![h].st = "open"]
       /\ UNCHANGED <<live, store, idle, storeIdle, owner, closingCh, conn, closing>>

\* registry.TrackChannel once the channel is open; the tunnel may have gone
\* in the meantime, and then the channel is closed.
TrackChannel(h) ==
    LET g == chan[h].guid
        ok == live[g] # None
    IN /\ chan[h].st = "opening"
       /\ channels' = IF ok THEN [channels EXCEPT ![g] = @ \cup {h}] ELSE channels
       /\ chan' = [chan EXCEPT ![h].st = IF ok THEN "open" ELSE "closed"]
       /\ UNCHANGED <<live, store, idle, storeIdle, owner, closingCh, conn, closing>>

\* OpenChannel fails: the registrar refuses it or is gone.
OpenFails(h) ==
    /\ chan[h].st = "opening"
    /\ chan' = [chan EXCEPT ![h].st = "closed"]
    /\ UNCHANGED <<live, store, idle, storeIdle, owner, channels, closingCh, conn, closing>>

\* channelConn.Close at the end of the connector's pipe: UntrackChannel.
CloseChannel(h) ==
    /\ chan[h].st = "open"
    /\ channels' = [channels EXCEPT ![chan[h].guid] = @ \ {h}]
    /\ chan' = [chan EXCEPT ![h].st = "closed"]
    /\ UNCHANGED <<live, store, idle, storeIdle, owner, closingCh, conn, closing>>

-----------------------------------------------------------------------------
(* Registrar connections, and the plugin process. *)

Accept(c) ==
    /\ conn[c] = "new"
    /\ conn' = [conn EXCEPT ![c] = "up"]
    /\ UNCHANGED <<live, store, idle, storeIdle, owner, channels, chan, closingCh, closing>>

\* The registrar hangs up, or HandleConn or serveSession closes it.
ConnGoesDown(c) ==
    /\ conn[c] = "up"
    /\ conn' = [conn EXCEPT ![c] = "down"]
    /\ UNCHANGED <<live, store, idle, storeIdle, owner, channels, chan, closingCh, closing>>

\* The plugin process is killed and started again: only the store survives,
\* and only if it is a file store.
Restart ==
    /\ live' = [g \in Guids |-> None]
    /\ idle' = {} /\ closingCh' = {} /\ closing' = {}
    /\ channels' = [g \in Guids |-> {}]
    /\ chan' = [h \in Chans |-> IF chan[h].st = "free" THEN chan[h]
                                ELSE [chan[h] EXCEPT !.st = "closed"]]
    /\ conn' = [c \in Conns |-> IF conn[c] = "new" THEN "new" ELSE "gone"]
    /\ store' = IF Durable THEN store ELSE [g \in Guids |-> None]
    /\ storeIdle' = IF Durable THEN storeIdle ELSE {}
    /\ UNCHANGED owner

TunnelStep(g) ==
    \/ \E c \in Conns, k \in Keys : Put(g, c, k)
    \/ \E k \in Keys : UpdateConnectorKeyWire(g, k)
    \/ UpdateAllowPassword(g)
    \/ Touch(g) \/ AgeStored(g) \/ AgeLive(g)
    \/ \E gone \in BOOLEAN : Remove(g, gone)

ChannelStep(h) ==
    \/ \E g \in Guids : OpenChannel(h, g)
    \/ TrackChannel(h) \/ OpenFails(h) \/ CloseChannel(h) \/ CloseTaken(h)

ConnStep(c) == Accept(c) \/ ConnGoesDown(c) \/ CloseConn(c)

Sweep == \E kept \in SUBSET Guids : EvictIdle(kept)

Next ==
    \/ \E g \in Guids : TunnelStep(g)
    \/ \E h \in Chans : ChannelStep(h)
    \/ \E c \in Conns : ConnStep(c)
    \/ Sweep
    \/ Restart

Spec == Init /\ [][Next]_regVars

\* Goroutines finish what they unlocked for, an OpenChannel returns, time
\* passes and the sweeper runs; a store that keeps failing is not assumed to
\* recover, only a sweep in which it works to come up again and again.
LiveSpec ==
    /\ Spec
    /\ \A h \in Chans : WF_regVars(CloseTaken(h)) /\ WF_regVars(TrackChannel(h))
    /\ \A c \in Conns : WF_regVars(CloseConn(c))
    /\ \A g \in Guids : WF_regVars(AgeStored(g))
    /\ SF_regVars(EvictIdle({}))

-----------------------------------------------------------------------------
(* Properties. *)

\* The registry, its store and what its callers have still to close are well
\* formed.
TypeOK ==
    /\ live \in [Guids -> Entry \cup {None}]
    /\ store \in [Guids -> Record \cup {None}]
    /\ idle \in SUBSET Guids /\ storeIdle \in SUBSET Guids
    /\ owner \in [Guids -> Conns \cup {None}]
    /\ channels \in [Guids -> SUBSET Chans]
    /\ chan \in [Chans -> [st : {"free", "opening", "open", "closed"},
                           guid : Guids \cup {None}]]
    /\ closingCh \in SUBSET Chans
    /\ conn \in [Conns -> {"new", "up", "down", "gone"}]
    /\ closing \in SUBSET Conns

\* registry.go:118-128: concurrent registrations never exceed --max-tunnels.
WithinGlobalCap == maxTotal > 0 => Cardinality(LiveGuids) <= maxTotal

\* A tracked channel belongs to a live tunnel: whoever removes the tunnel
\* takes its channels in the same critical section, and TrackChannel does not
\* add one behind its back (registry.go:66-96).
TrackedAreLive == \A g \in Guids : channels[g] # {} => live[g] # None

\* Every live tunnel has a persisted record, and the two halves agree: a
\* store error never leaves a tunnel on a key that the other half does not
\* have, and the sweep never expires the record of a live tunnel
\* (registry.go:132-141, 233-243, 352-355).
HalvesAgree == \A g \in LiveGuids : store[g] = RecordOf(live[g])

\* An open channel is either tracked, and so found by whoever removes its
\* tunnel, or already taken and about to be closed: none survives its tunnel
\* because of the order in which the open and the removal happened.
NoChannelForgotten ==
    \A h \in Chans : chan[h].st = "open" => h \in channels[chan[h].guid] \cup closingCh

\* registry.go:271-274: "zero-forward sessions cannot retain transports": a
\* registrar connection that has registered a tunnel and has none left is
\* closed, or the goroutine that removed the last one is about to close it.
UnusedConnsAreClosed ==
    \A g \in Guids :
        owner[g] # None /\ LiveOn(owner[g]) = {} =>
            conn[owner[g]] # "up" \/ owner[g] \in closing

\* After a tunnel is gone, every channel opened through it is closed.
RemovedTunnelDropsChannels ==
    \A h \in Chans :
        (chan[h].st = "open" /\ live[chan[h].guid] = None) ~> (chan[h].st = "closed")

\* registry.go:344-346: a persisted record that lost its tunnel does not
\* "accumulate forever": the sweep removes it.
StaleRecordsExpire ==
    \A g \in Guids : (store[g] # None /\ live[g] = None) ~> (store[g] = None)

\* Nothing outlives its tunnel for good: neither a channel opened through it
\* nor its persisted record.
NothingOutlivesItsTunnel == RemovedTunnelDropsChannels /\ StaleRecordsExpire
=============================================================================
