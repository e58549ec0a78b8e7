----------------------------- MODULE FailToBan -----------------------------
(***************************************************************************)
(* The failtoban plugin (plugin/failtoban/main.go): a count of failures    *)
(* per address in a cache whose entries expire, consulted when a           *)
(* connection arrives and raised by the notices of the daemon.             *)
(*                                                                         *)
(* The plugin serves calls concurrently.  Each call of the cache (go-cache,*)
(* external) is atomic; NewConnection makes two.  Time is the number of    *)
(* ticks an entry has left, and an entry without any is not found.         *)
(***************************************************************************)
EXTENDS Integers

CONSTANTS Conns,        \* connections
          Addrs,        \* client addresses
          Ignored,      \* --ignore-ip
          AddrOf,       \* AddrOf[c]: the address of connection c
          maxFailures,  \* --max-failures
          banDuration,  \* --ban-duration, in ticks
          logOnly,      \* --log-only
          MaxCount,     \* bound on the failures that are counted
          NoReason      \* not refused

ASSUME BanConstants ==
    /\ maxFailures \in Nat \ {0} /\ banDuration \in Nat \ {0} /\ MaxCount \in Nat
    /\ MaxCount >= maxFailures /\ logOnly \in BOOLEAN /\ Ignored \subseteq Addrs
    /\ AddrOf \in [Conns -> Addrs]

VARIABLES
    cache,   \* failures and ticks left, by address
    conn,    \* a connection: in NewConnection, then what the daemon makes of it
    why      \* history: the failures for which a connection was refused

banVars == <<cache, conn, why>>

BanInit ==
    /\ cache = [a \in Addrs |-> [n |-> 0, ttl |-> 0]]
    /\ conn = [c \in Conns |-> "new"]
    /\ why = [c \in Conns |-> NoReason]

Found(a)  == cache[a].ttl > 0
Banned(a) == Found(a) /\ cache[a].n >= maxFailures

-----------------------------------------------------------------------------

\* Mutant of Denied: the connection is refused one failure late.
Denied_OffByOne(a) == Found(a) /\ cache[a].n > maxFailures

\* The address has used up its failures.
Denied(a) == Found(a) /\ cache[a].n >= maxFailures

\* NewConnection up to cache.Get.
NewConnection(c) ==
    LET a == AddrOf[c]
        free == logOnly \/ a \in Ignored
    IN /\ conn[c] = "new"
       /\ conn' = [conn EXCEPT ![c] = IF ~free /\ Denied(a) THEN "refused"
                                  ELSE IF ~free /\ ~Found(a) THEN "add" ELSE "admitted"]
       /\ why' = [why EXCEPT ![c] = IF ~free /\ Denied(a) THEN cache[a].n ELSE NoReason]
       /\ UNCHANGED cache

\* What cache.Add stores.
NewEntry == [n |-> 0, ttl |-> banDuration]

\* Mutant of AddEntry: the entry is set, whether or not it has appeared.
AddEntry_Set(c) ==
    /\ conn[c] = "add"
    /\ cache' = [cache EXCEPT ![AddrOf[c]] = NewEntry]
    /\ conn' = [conn EXCEPT ![c] = "admitted"]
    /\ UNCHANGED why

\* NewConnection goes on to cache.Add, which fails if the address has been
\* added in the meantime; its error refuses the connection.
AddEntry(c) ==
    LET a == AddrOf[c]
    IN /\ conn[c] = "add"
       /\ cache' = IF Found(a) THEN cache ELSE [cache EXCEPT ![a] = NewEntry]
       /\ conn' = [conn EXCEPT ![c] = IF Found(a) THEN "refused" ELSE "admitted"]
       /\ why' = [why EXCEPT ![c] = IF Found(a) THEN cache[a].n ELSE NoReason]

\* Mutant of Increment: a failure starts the time of the entry anew.
Increment_Renews(a) ==
    cache' = IF a \notin Ignored /\ Found(a)
             THEN [cache EXCEPT ![a] = [n |-> IF @.n < MaxCount THEN @.n + 1 ELSE @.n,
                                        ttl |-> banDuration]]
             ELSE cache

\* cache.IncrementInt: it fails for an address that is not found, and leaves
\* the expiry as it is.
Increment(a) ==
    cache' = IF a \notin Ignored /\ Found(a) /\ cache[a].n < MaxCount
             THEN [cache EXCEPT ![a].n = @ + 1] ELSE cache

\* The upstream rejects the login of a connection; it may try again.
UpstreamAuthFailure(c) ==
    /\ conn[c] = "admitted"
    /\ Increment(AddrOf[c])
    /\ UNCHANGED <<conn, why>>

\* The pipe of a connection is not created; the daemon says so once, and also
\* for the connections the plugin itself refused.
PipeCreateError(c) ==
    /\ conn[c] \in {"admitted", "refused"}
    /\ Increment(AddrOf[c])
    /\ conn' = [conn EXCEPT ![c] = "done"]
    /\ UNCHANGED why

\* The pipe of a connection is created.
PipeStart(c) ==
    /\ conn[c] = "admitted"
    /\ conn' = [conn EXCEPT ![c] = "done"]
    /\ UNCHANGED <<cache, why>>

\* SIGHUP: cache.Flush, which lifts every ban on purpose.
Hangup ==
    /\ cache' = [a \in Addrs |-> [n |-> 0, ttl |-> 0]]
    /\ UNCHANGED <<conn, why>>

\* Time passes: entries come closer to their expiry.
Tick ==
    /\ \E a \in Addrs : Found(a)
    /\ cache' = [a \in Addrs |-> IF cache[a].ttl <= 1 THEN [n |-> 0, ttl |-> 0]
                                 ELSE [cache[a] EXCEPT !.ttl = @ - 1]]
    /\ UNCHANGED <<conn, why>>

\* The slot of a connection that is over is used for another one.
Reconnect(c) ==
    /\ conn[c] = "done"
    /\ conn' = [conn EXCEPT ![c] = "new"]
    /\ why' = [why EXCEPT ![c] = NoReason]
    /\ UNCHANGED cache

ConnStep(c) ==
    \/ NewConnection(c) \/ AddEntry(c) \/ UpstreamAuthFailure(c)
    \/ PipeCreateError(c) \/ PipeStart(c) \/ Reconnect(c)

BanNext == Hangup \/ Tick \/ \E c \in Conns : ConnStep(c)

BanSpec == BanInit /\ [][BanNext]_banVars

\* Time passes.
BanLiveSpec == BanSpec /\ WF_banVars(Tick)

-----------------------------------------------------------------------------
(* Properties. *)

\* A banned address stays out: no connection of it is admitted, although
\* cache.Get and cache.Add are two calls between which the ban may begin
\* (main.go:93-103).
BannedStayOut ==
    [][\A c \in Conns : conn[c] # "admitted" /\ conn'[c] = "admitted" =>
          logOnly \/ AddrOf[c] \in Ignored \/ ~Banned(AddrOf[c])]_banVars

\* Failures are forgotten only when the entry expires or on SIGHUP, never by
\* another connection of the address (main.go:93-96).
FailuresKept ==
    [][\A a \in Addrs : cache'[a].n >= cache[a].n
          \/ cache'[a].ttl = 0]_banVars

\* A ban holds while it lasts: nothing a banned address or its neighbours do
\* gets it in or its failures forgotten.
BansHold == BannedStayOut /\ FailuresKept

\* A ban ends, however often the address comes back: its attempts do not
\* renew it (main.go:114, 126).
BansEnd == \A a \in Addrs : Banned(a) ~> ~Banned(a)

\* README.md:3, "put ip to jail for a while after failed to login for several
\* times": a connection is refused only for its failures.
RefusesOnlyBanned ==
    \A c \in Conns : conn[c] = "refused" => why[c] >= maxFailures
=============================================================================
