--------------------------- MODULE RegisterServer ---------------------------
(***************************************************************************)
(* The registration server of the revtunnel plugin (plugin/revtunnel/      *)
(* server.go): one handler per registrar connection, on top of the         *)
(* registry of TunnelRegistry, and the sweeper.                            *)
(*                                                                         *)
(* A handler is three goroutines.  HandleConn waits for the connection to  *)
(* end and then deletes the tunnels it owns (hpc).  handleGlobalRequests   *)
(* serves tcpip-forward and cancel-tcpip-forward one at a time (gpc).      *)
(* serveSession takes the registrations from guidCh, applies the session's *)
(* overrides and announces them (spc).  They share connHandler.guids and   *)
(* .forwards under connHandler.mu, and the registry under its own mutex;   *)
(* no goroutine holds both across a step, so each critical section is a    *)
(* step of its own.                                                        *)
(*                                                                         *)
(* Every change to the registry is one of TunnelRegistry's actions; what   *)
(* this module adds is who takes it and when.  The store is taken to carry *)
(* out its deletes here (TunnelRegistry lets them fail, and no handler     *)
(* looks at the outcome); its Puts may fail.                               *)
(***************************************************************************)
EXTENDS TunnelRegistry, Sequences

CONSTANTS Addrs, Ports,  \* bind addresses, and the ports of a forward
          maxPerConn,    \* --max-tunnels-per-connection, 0 = unlimited
          Burst,         \* unlimitedBurst
          DefaultKey     \* the key the registrar authenticated with

ASSUME ServerConstants ==
    /\ maxPerConn \in Nat
    /\ Burst \in Nat \ {0}
    /\ DefaultKey \in Keys
    /\ None \notin Keys \cup (Addrs \X Ports)

VARIABLES
    gpc,        \* handleGlobalRequests: where it is,
    gcur,       \*   the tunnel it is registering,
    gbind,      \*   the bind address and port reserved for it,
    gset,       \*   and the tunnels it has still to remove
    hGuids,     \* connHandler.guids
    forwards,   \* connHandler.forwards
    queue,      \* connHandler.guidCh
    env,        \* regSession: CONNECTOR_PUBKEY, its validity, ALLOWPASSWORD
    gated,      \* history: env when shell/exec arrived
    spc,        \* serveSession: where it is,
    scur,       \*   the tunnel it is announcing,
    snap,       \*   and its copy of env, as long as it is needed
    wclosed,    \* the session's channel is closed for writing
    announced,  \* history: tunnels whose block reached the registrar
    hpc,        \* HandleConn: where it is,
    hset        \*   and the tunnels cleanup has still to delete

gVars == <<gpc, gcur, gbind, gset>>
bookVars == <<hGuids, forwards>>
sessVars == <<env, gated, spc, scur, snap, wclosed, announced>>
mainVars == <<hpc, hset>>
hVars == <<gVars, bookVars, queue, sessVars, mainVars>>
vars == <<regVars, hVars>>

Binds == Addrs \X Ports
Env   == [key : Keys \cup {None}, inval : BOOLEAN, pwd : BOOLEAN]
NoEnv == [key |-> None, inval |-> FALSE, pwd |-> FALSE]

\* Mutant of QueueCap: room for one notice less.
QueueCap_OneShort ==
    IF maxPerConn > 0 /\ (maxTotal = 0 \/ maxPerConn <= maxTotal) THEN maxPerConn - 1
    ELSE IF maxTotal > 0 THEN maxTotal - 1
    ELSE Burst

\* notificationQueueCapacity: the smaller of the two caps that are set.
QueueCap ==
    IF maxPerConn > 0 /\ (maxTotal = 0 \/ maxPerConn <= maxTotal) THEN maxPerConn
    ELSE IF maxTotal > 0 THEN maxTotal
    ELSE Burst

RInit ==
    /\ Init
    /\ gpc = [c \in Conns |-> "off"]
    /\ gcur = [c \in Conns |-> None]
    /\ gbind = [c \in Conns |-> None]
    /\ gset = [c \in Conns |-> {}]
    /\ hGuids = [c \in Conns |-> {}]
    /\ forwards = [c \in Conns |-> [b \in Binds |-> None]]
    /\ queue = [c \in Conns |-> <<>>]
    /\ env = [c \in Conns |-> NoEnv]
    /\ gated = [c \in Conns |-> NoEnv]
    /\ spc = [c \in Conns |-> "none"]
    /\ scur = [c \in Conns |-> None]
    /\ snap = [c \in Conns |-> NoEnv]
    /\ wclosed = [c \in Conns |-> FALSE]
    /\ announced = {}
    /\ hpc = [c \in Conns |-> "new"]
    /\ hset = [c \in Conns |-> {}]

\* HandleConn once the auth header and the handshake are through.
HandleConn(c) ==
    /\ hpc[c] = "new" /\ Accept(c)
    /\ hpc' = [hpc EXCEPT ![c] = "serve"]
    /\ gpc' = [gpc EXCEPT ![c] = "idle"]
    /\ UNCHANGED <<gcur, gbind, gset, bookVars, queue, sessVars, hset>>

-----------------------------------------------------------------------------
(* The bookkeeping that the goroutines share under connHandler.mu. *)

\* Forgetting the tunnels G of connection c: they leave guids and forwards.
Forget(c, G) ==
    /\ hGuids' = [hGuids EXCEPT ![c] = @ \ G]
    /\ forwards' = [forwards EXCEPT ![c] = [b \in Binds |-> IF @[b] \in G THEN None ELSE @[b]]]

-----------------------------------------------------------------------------
(* handleGlobalRequests. *)

\* handleTcpipForward up to the reserved port.  perConnLimitReached prunes
\* what the sweeper evicted, whatever comes next; the request is refused at
\* the per-connection cap, at the global cap (a pre-check) or when the bind
\* port is taken.  A port of 0 is any free one.  The pass over the registry is
\* one step: a tunnel only ever leaves the live set, so one that leaves it
\* during the pass is kept as if it had left right after.
TcpipForward(c, b) ==
    LET kept == hGuids[c] \cap LiveGuids
        full == maxPerConn > 0 /\ Cardinality(kept) >= maxPerConn
        ok   == ~full /\ UnderCap /\ (forwards[c][b] \notin LiveGuids)
    IN /\ gpc[c] = "idle"
       /\ Forget(c, Guids \ LiveGuids)
       /\ gpc' = [gpc EXCEPT ![c] = IF ok THEN "put" ELSE "idle"]
       /\ gbind' = [gbind EXCEPT ![c] = IF ok THEN b ELSE None]
       /\ UNCHANGED <<regVars, gcur, gset, queue, sessVars, mainVars>>

\* registry.Put of a fresh guid under the registrar's own key.
StoreTunnel(c, g) ==
    /\ gpc[c] = "put"
    /\ Put(g, c, DefaultKey)
    /\ gcur' = [gcur EXCEPT ![c] = g]
    /\ gpc' = [gpc EXCEPT ![c] = "record"]
    /\ UNCHANGED <<gbind, gset, bookVars, queue, sessVars, mainVars>>

\* Put fails: the cap was reached in the meantime, or the store failed.
StoreFails(c) ==
    /\ gpc[c] = "put"
    /\ gpc' = [gpc EXCEPT ![c] = "idle"]
    /\ gbind' = [gbind EXCEPT ![c] = None]
    /\ UNCHANGED <<regVars, gcur, gset, bookVars, queue, sessVars, mainVars>>

\* The tunnel enters the handler's bookkeeping.
RecordTunnel(c) ==
    /\ gpc[c] = "record"
    /\ hGuids' = [hGuids EXCEPT ![c] = @ \cup {gcur[c]}]
    /\ forwards' = [forwards EXCEPT ![c][gbind[c]] = gcur[c]]
    /\ gpc' = [gpc EXCEPT ![c] = "enqueue"]
    /\ UNCHANGED <<regVars, gcur, gbind, gset, queue, sessVars, mainVars>>

\* enqueueRegistration: there is room, or the tunnel is revoked again.
Enqueue(c) ==
    LET room == Len(queue[c]) < QueueCap
    IN /\ gpc[c] = "enqueue"
       /\ queue' = IF room THEN [queue EXCEPT ![c] = Append(@, gcur[c])] ELSE queue
       /\ gpc' = [gpc EXCEPT ![c] = IF room THEN "idle" ELSE "forget"]
       /\ gcur' = IF room THEN [gcur EXCEPT ![c] = None] ELSE gcur
       /\ gbind' = [gbind EXCEPT ![c] = None]
       /\ UNCHANGED <<regVars, gset, bookVars, sessVars, mainVars>>

\* revokeGuid, its h.mu section.
RevokeQueued(c) ==
    /\ gpc[c] = "forget"
    /\ Forget(c, {gcur[c]})
    /\ gset' = [gset EXCEPT ![c] = {gcur[c]}]
    /\ gcur' = [gcur EXCEPT ![c] = None]
    /\ gpc' = [gpc EXCEPT ![c] = "remove"]
    /\ UNCHANGED <<regVars, gbind, queue, sessVars, mainVars>>

\* The forwards a cancel names: one bind, or (port 0) every bind of an address.
CancelTargets == {{b} : b \in Binds} \cup {{a} \X Ports : a \in Addrs}

\* revokeForward, its h.mu section.
CancelTcpipForward(c, B) ==
    LET G == {forwards[c][b] : b \in B} \ {None}
    IN /\ gpc[c] = "idle" /\ G # {}
       /\ forwards' = [forwards EXCEPT ![c] = [b \in Binds |-> IF b \in B THEN None ELSE @[b]]]
       /\ hGuids' = [hGuids EXCEPT ![c] = @ \ G]
       /\ gset' = [gset EXCEPT ![c] = G]
       /\ gpc' = [gpc EXCEPT ![c] = "remove"]
       /\ UNCHANGED <<regVars, gcur, gbind, queue, sessVars, mainVars>>

\* registry.Remove of one of them, which goes on to close the connection if
\* it was the last tunnel.
RemoveCancelled(c, g) ==
    /\ gpc[c] = "remove" /\ g \in gset[c]
    /\ Remove(g, TRUE)
    /\ gset' = [gset EXCEPT ![c] = @ \ {g}]
    /\ gpc' = [gpc EXCEPT ![c] = IF UnusedAfter({g} \cap LiveGuids) # {} THEN "closing"
                                 ELSE IF gset'[c] # {} THEN "remove" ELSE "idle"]
    /\ UNCHANGED <<gcur, gbind, bookVars, queue, sessVars, mainVars>>

\* Its Close has returned.
GlobalClosed(c) ==
    /\ gpc[c] = "closing" /\ c \notin closing
    /\ gpc' = [gpc EXCEPT ![c] = IF gset[c] # {} THEN "remove" ELSE "idle"]
    /\ UNCHANGED <<regVars, gcur, gbind, gset, bookVars, queue, sessVars, mainVars>>

\* The request channel of a dead connection is drained: the goroutine ends.
GlobalEnds(c) ==
    /\ gpc[c] = "idle" /\ conn[c] = "down"
    /\ gpc' = [gpc EXCEPT ![c] = "off"]
    /\ UNCHANGED <<regVars, gcur, gbind, gset, bookVars, queue, sessVars, mainVars>>

-----------------------------------------------------------------------------
(* serveSession, and the goroutine that reads its channel requests. *)

InSession(c) == spc[c] \notin {"none", "end", "done"}

\* handleChannels accepts one session per connection.
OpenSession(c) ==
    /\ conn[c] = "up" /\ spc[c] = "none"
    /\ spc' = [spc EXCEPT ![c] = "gate"]
    /\ UNCHANGED <<regVars, gVars, bookVars, queue, env, gated, scur, snap, wclosed,
                   announced, mainVars>>

\* applyEnvRequest: the first valid CONNECTOR_PUBKEY counts, an invalid one
\* is remembered, and ALLOWPASSWORD can only be turned on.
ApplyEnv(c, e) ==
    /\ InSession(c) /\ conn[c] = "up"
    /\ \/ \E k \in Keys : env[c].key = None /\ e = [env[c] EXCEPT !.key = k]
       \/ e = [env[c] EXCEPT !.inval = TRUE]
       \/ e = [env[c] EXCEPT !.pwd = TRUE]
    /\ env' = [env EXCEPT ![c] = e]
    /\ UNCHANGED <<regVars, gVars, bookVars, queue, gated, spc, scur, snap, wclosed,
                   announced, mainVars>>

\* signalShell: shell or exec, after which serveSession consumes guidCh.
Shell(c) ==
    /\ spc[c] = "gate"
    /\ spc' = [spc EXCEPT ![c] = "first"]
    /\ gated' = [gated EXCEPT ![c] = env[c]]
    /\ UNCHANGED <<regVars, gVars, bookVars, queue, env, scur, snap, wclosed,
                   announced, mainVars>>

\* Mutant of AfterTake: an invalid CONNECTOR_PUBKEY falls back to the key the
\* registrar authenticated with.
AfterTake_FailOpen(e) == IF e.key # None THEN "key" ELSE IF e.pwd THEN "pwd" ELSE "lookup"

\* What applyEnvOverrides does first, given the session's copy of env.
AfterTake(e) == IF e.inval THEN "error" ELSE IF e.key # None THEN "key"
                ELSE IF e.pwd THEN "pwd" ELSE "lookup"

\* A notification is received and applyEnvOverrides copies env; the copy
\* outlives this step only if there is a key to apply first.
TakeNotif(c) ==
    /\ spc[c] \in {"first", "loop"} /\ queue[c] # <<>>
    /\ scur' = [scur EXCEPT ![c] = Head(queue[c])]
    /\ queue' = [queue EXCEPT ![c] = Tail(@)]
    /\ snap' = [snap EXCEPT ![c] = IF AfterTake(env[c]) = "key" THEN env[c] ELSE NoEnv]
    /\ spc' = [spc EXCEPT ![c] = AfterTake(env[c])]
    /\ UNCHANGED <<regVars, gVars, bookVars, env, gated, wclosed, announced, mainVars>>

\* The session goes on to `pc`; between two notifications it holds nothing.
SessionAt(c, pc) ==
    LET holds == pc \in {"pwd", "lookup", "write", "error"}
    IN /\ spc' = [spc EXCEPT ![c] = pc]
       /\ scur' = IF holds THEN scur ELSE [scur EXCEPT ![c] = None]
       /\ snap' = [snap EXCEPT ![c] = NoEnv]
       /\ UNCHANGED <<gVars, bookVars, queue, env, gated, wclosed, mainVars>>

\* applyEnvOverrides, the key and then the password toggle.
OverrideKey(c) ==
    /\ spc[c] = "key"
    /\ UpdateConnectorKeyWire(scur[c], snap[c].key)
    /\ UNCHANGED announced
    /\ SessionAt(c, IF snap[c].pwd THEN "pwd" ELSE "lookup")

OverridePassword(c) ==
    /\ spc[c] = "pwd"
    /\ UpdateAllowPassword(scur[c])
    /\ UNCHANGED announced
    /\ SessionAt(c, "lookup")

\* The tunnel is gone, or the store refuses the changed record.
OverrideFails(c) ==
    /\ spc[c] \in {"key", "pwd"}
    /\ UNCHANGED <<regVars, announced>>
    /\ SessionAt(c, "error")

\* handleRegistration looks the tunnel up again before it writes its block.
LookupTunnel(c) ==
    /\ spc[c] = "lookup"
    /\ UNCHANGED <<regVars, announced>>
    /\ SessionAt(c, IF live[scur[c]] # None THEN "write" ELSE "loop")

WriteBlock(c) ==
    /\ spc[c] = "write"
    /\ announced' = IF conn[c] = "up" /\ ~wclosed[c]
                    THEN announced \cup {scur[c]} ELSE announced
    /\ UNCHANGED regVars
    /\ SessionAt(c, "loop")

\* The error is written and the channel closed for writing, then revokeGuid.
WriteError(c) ==
    /\ spc[c] = "error"
    /\ spc' = [spc EXCEPT ![c] = "forget"]
    /\ wclosed' = [wclosed EXCEPT ![c] = TRUE]
    /\ UNCHANGED <<regVars, gVars, bookVars, queue, env, gated, scur, snap, announced,
                   mainVars>>

ForgetFailed(c) ==
    /\ spc[c] = "forget"
    /\ Forget(c, {scur[c]})
    /\ spc' = [spc EXCEPT ![c] = "remove"]
    /\ UNCHANGED <<regVars, gVars, queue, env, gated, scur, snap, wclosed, announced,
                   mainVars>>

RemoveFailed(c) ==
    /\ spc[c] = "remove"
    /\ Remove(scur[c], TRUE)
    /\ UNCHANGED announced
    /\ SessionAt(c, IF UnusedAfter({scur[c]} \cap LiveGuids) # {} THEN "closing" ELSE "loop")

SessionClosed(c) ==
    /\ spc[c] = "closing" /\ c \notin closing
    /\ UNCHANGED <<regVars, announced>>
    /\ SessionAt(c, "loop")

\* A signal, ETX, the end of the channel or of the connection (`done`), no
\* shell within 30 s, no forward within 5 s, or guidCh closed.
StopSession(c) ==
    /\ spc[c] \in {"gate", "first", "loop"}
    /\ UNCHANGED <<regVars, announced>>
    /\ SessionAt(c, "end")

\* Mutant of EndSession: the connection outlives the session.
EndSession_KeepsConn(c) ==
    /\ spc[c] = "end"
    /\ UNCHANGED <<regVars, announced>>
    /\ SessionAt(c, "done")

\* The deferred sc.Close(): the end of the session ends the connection.
EndSession(c) ==
    /\ spc[c] = "end"
    /\ IF conn[c] = "up" THEN ConnGoesDown(c) ELSE UNCHANGED regVars
    /\ UNCHANGED announced
    /\ SessionAt(c, "done")

-----------------------------------------------------------------------------
(* HandleConn's end. *)

\* Mutant of StartCleanup: it does not wait for handleGlobalRequests.
StartCleanup_NoWait(c) ==
    /\ hpc[c] = "serve" /\ conn[c] = "down"
    /\ hset' = [hset EXCEPT ![c] = hGuids[c]]
    /\ hpc' = [hpc EXCEPT ![c] = "cleanup"]
    /\ UNCHANGED <<regVars, gVars, bookVars, queue, sessVars>>

\* sc.Wait and wg.Wait have returned; cleanup copies the tunnels it owns.
StartCleanup(c) ==
    /\ hpc[c] = "serve" /\ conn[c] = "down" /\ gpc[c] = "off"
    /\ hset' = [hset EXCEPT ![c] = hGuids[c]]
    /\ hpc' = [hpc EXCEPT ![c] = "cleanup"]
    /\ UNCHANGED <<regVars, gVars, bookVars, queue, sessVars>>

\* registry.Delete of one of them.
CleanupTunnel(c, g) ==
    /\ hpc[c] = "cleanup" /\ g \in hset[c]
    /\ Remove(g, TRUE)
    /\ hset' = [hset EXCEPT ![c] = @ \ {g}]
    /\ UNCHANGED <<gVars, bookVars, queue, sessVars, hpc>>

EndCleanup(c) ==
    /\ hpc[c] = "cleanup" /\ hset[c] = {}
    /\ hpc' = [hpc EXCEPT ![c] = "done"]
    /\ UNCHANGED <<regVars, gVars, bookVars, queue, sessVars, hset>>

-----------------------------------------------------------------------------
(* The whole server. *)

GlobalStep(c) ==
    \/ \E b \in Binds : TcpipForward(c, b)
    \/ \E g \in Guids : StoreTunnel(c, g) \/ RemoveCancelled(c, g)
    \/ StoreFails(c) \/ RecordTunnel(c) \/ Enqueue(c) \/ RevokeQueued(c)
    \/ \E B \in CancelTargets : CancelTcpipForward(c, B)
    \/ GlobalClosed(c) \/ GlobalEnds(c)

SessionStep(c) ==
    \/ OpenSession(c) \/ Shell(c) \/ TakeNotif(c)
    \/ \E e \in Env : ApplyEnv(c, e)
    \/ OverrideKey(c) \/ OverridePassword(c) \/ OverrideFails(c)
    \/ LookupTunnel(c) \/ WriteBlock(c)
    \/ WriteError(c) \/ ForgetFailed(c) \/ RemoveFailed(c) \/ SessionClosed(c)
    \/ StopSession(c) \/ EndSession(c)

MainStep(c) ==
    \/ HandleConn(c) \/ StartCleanup(c) \/ EndCleanup(c)
    \/ \E g \in Guids : CleanupTunnel(c, g)

\* The deferred closes, the registrar hanging up, the connectors' activity,
\* time and the sweeper.  The connectors' channels are left to TunnelRegistry:
\* no handler looks at them.
Surroundings ==
    /\ \/ \E c \in Conns : ConnGoesDown(c) \/ CloseConn(c)
       \/ \E g \in Guids : Touch(g) \/ AgeStored(g) \/ AgeLive(g)
       \/ EvictIdle({})
    /\ UNCHANGED hVars

\* Every connection has been served to its end.
Served == \A c \in Conns : hpc[c] = "done" /\ spc[c] \in {"none", "done"}

RNext ==
    \/ \E c \in Conns : GlobalStep(c) \/ SessionStep(c) \/ MainStep(c)
    \/ Surroundings
    \/ Served /\ UNCHANGED vars

RSpec == RInit /\ [][RNext]_vars

\* What each goroutine does without the registrar asking for it.
Continues(c) ==
    \/ \E g \in Guids : RemoveCancelled(c, g)
    \/ StoreFails(c) \/ RecordTunnel(c) \/ Enqueue(c) \/ RevokeQueued(c)
    \/ GlobalClosed(c)

Announces(c) ==
    \/ TakeNotif(c) \/ OverrideFails(c) \/ LookupTunnel(c) \/ WriteBlock(c)
    \/ WriteError(c) \/ ForgetFailed(c) \/ RemoveFailed(c) \/ SessionClosed(c)
    \/ EndSession(c)

\* Goroutines run.  A dead connection has finitely many requests left to
\* serve, so however often handleGlobalRequests is between two of them, it
\* ends (the one strong fairness).  A session that waits for its shell or its first forward
\* times out, and one whose connection is down sees `done`; nothing makes
\* the registrar send a request, a signal or hang up.
RLiveSpec ==
    /\ RSpec
    /\ \A c \in Conns :
        /\ WF_vars(Continues(c)) /\ SF_vars(GlobalEnds(c))
        /\ WF_vars(Announces(c))
        /\ WF_vars(StopSession(c) /\ (conn[c] # "up" \/ spc[c] \in {"gate", "first"}))
        /\ WF_vars(StartCleanup(c) \/ EndCleanup(c) \/ \E g \in Guids : CleanupTunnel(c, g))
        /\ WF_vars(CloseConn(c) /\ UNCHANGED hVars)

-----------------------------------------------------------------------------
(* Properties. *)

\* The handlers' state is well formed, and guidCh keeps within its capacity.
RTypeOK ==
    /\ TypeOK
    /\ gpc \in [Conns -> {"off", "idle", "put", "record", "enqueue", "forget",
                          "remove", "closing"}]
    /\ gcur \in [Conns -> Guids \cup {None}]
    /\ gbind \in [Conns -> Binds \cup {None}]
    /\ gset \in [Conns -> SUBSET Guids]
    /\ hGuids \in [Conns -> SUBSET Guids]
    /\ forwards \in [Conns -> [Binds -> Guids \cup {None}]]
    /\ queue \in [Conns -> Seq(Guids)]
    /\ \A c \in Conns : Len(queue[c]) <= QueueCap
    /\ env \in [Conns -> Env] /\ gated \in [Conns -> Env] /\ snap \in [Conns -> Env]
    /\ spc \in [Conns -> {"none", "gate", "first", "loop", "key", "pwd", "lookup", "write",
                          "error", "forget", "remove", "closing", "end", "done"}]
    /\ scur \in [Conns -> Guids \cup {None}]
    /\ wclosed \in [Conns -> BOOLEAN]
    /\ announced \in SUBSET Guids
    /\ hpc \in [Conns -> {"new", "serve", "cleanup", "done"}]
    /\ hset \in [Conns -> SUBSET Guids]

\* The tunnels of c that a goroutine is in the middle of removing.
Leaving(c) == gset[c] \cup (IF spc[c] = "remove" THEN {scur[c]} ELSE {})

\* server.go:219-221, 458-465: "Any tunnels registered on this connection are
\* evicted when the connection terminates".  At every moment somebody is
\* answerable for each live tunnel: it is about to be recorded, it is in the
\* handler's list that cleanup will copy, it is on the list cleanup is
\* working off, or a revocation has it in hand.
EveryTunnelHasAnOwner ==
    \A c \in Conns : \A g \in LiveOn(c) :
        \/ gpc[c] = "record" /\ g = gcur[c]
        \/ hpc[c] = "serve" /\ g \in hGuids[c]
        \/ g \in hset[c]
        \/ g \in Leaving(c)

\* server.go:386-390, 874-876: what the session asked for before its shell is
\* in force when a tunnel is announced: its key is the one it chose, and
\* after an invalid key nothing is announced at all.
OverridesBeforeAnnouncement ==
    \A c \in Conns : \A g \in LiveOn(c) \cap announced :
        /\ ~gated[c].inval
        /\ gated[c].key # None => live[g].key = gated[c].key
        /\ gated[c].pwd => live[g].pwd

\* server.go:259-263: guidCh is sized "so all allowed forwards can be queued
\* before OpenSSH opens its session channel".  With a cap set, a forward that
\* passed the caps is turned away at a full queue only if a notice in it is
\* for a tunnel that is gone: live tunnels alone never fill it.
AllowedForwardsFit ==
    maxPerConn > 0 \/ maxTotal > 0 =>
        \A c \in Conns : gpc[c] = "enqueue" /\ Len(queue[c]) >= QueueCap =>
            \E i \in DOMAIN queue[c] : queue[c][i] \notin LiveGuids

\* server.go:219-221, 806-809: a registrar connection that is down loses all
\* its tunnels for good, and so does one whose session has ended, which
\* "immediately tears down every GUID it owns".
EndedConnLosesTunnels ==
    \A c \in Conns : (conn[c] = "down" \/ spc[c] = "end") ~> [](LiveOn(c) = {})

\* server.go:349-351: a tunnel whose session sent an invalid CONNECTOR_PUBKEY
\* does not stay on the registrar's default key; it is revoked.
InvalidKeyIsRevoked ==
    \A c \in Conns, g \in Guids :
        (spc[c] # "gate" /\ gated[c].inval /\ g \in LiveOn(c)) ~> live[g] = None

\* A tunnel that must go is gone: of a connection or session that ended, or
\* of one that sent an invalid key.
TunnelsAreRevoked == EndedConnLosesTunnels /\ InvalidKeyIsRevoked

\* server.go:798-802: serveSession "streams every guid registered on this
\* connection": a block is never written to a channel it closed itself while
\* the connection is up.
BlocksAreWritten ==
    \A c \in Conns : spc[c] = "write" /\ conn[c] = "up" => ~wclosed[c]

\* registry.go:323-326: "Close a registrar connection only once none of its
\* forwards remain live".
ClosesOnlyUnused ==
    [][\A c \in Conns : CloseConn(c) => LiveOn(c) = {}]_vars
=============================================================================
