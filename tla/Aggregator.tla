----------------------------- MODULE Aggregator -----------------------------
(***************************************************************************)
(* libadmin: one Aggregator over the admin endpoints of several sshpiperd  *)
(* instances, and the instances themselves.  Its methods are called by     *)
(* goroutines (Procs); Refresh and ListAllSessions hold the lock only at   *)
(* their ends and ask the instances without it, each in a goroutine of its *)
(* own, so their steps interleave.  Refresh asks once per entry of the     *)
(* list of endpoints, so an address listed twice is asked twice;           *)
(* ListAllSessions asks once per identifier.                               *)
(*                                                                         *)
(* An instance is external: it is up or down, reports an identifier (two   *)
(* may be configured alike) and has sessions.  An RPC to an instance that  *)
(* is down, or over a client that is closed, is an error.  So is one that  *)
(* is never answered, by the deadline of the caller; only the first        *)
(* refresh of webadmin sets none, and would wait.                          *)
(***************************************************************************)
EXTENDS Integers, Sequences, FiniteSets, TLC, Functions

CONSTANTS
  Addrs,        \* addresses of instances
  Ids,          \* identifiers of instances
  Reports,      \* [Addrs -> identifiers the instance there may report]
  Sessions,     \* session identifiers, which are unique
  Hosts,        \* [Sessions -> the instance it runs on]
  EndpointLists, \* [Procs -> the lists of addresses its Discovery may
                 \*   return: one for StaticDiscovery, as it was given]
  Procs,        \* goroutines that call the aggregator
  None, Wait,   \* no value; an answer that is outstanding
  MaxChanges    \* changes of the instances (bound)

ASSUME AggregatorAssumption ==
  /\ Hosts \in [Sessions -> Addrs]
  /\ Reports \in [Addrs -> SUBSET Ids]
  /\ EndpointLists \in [Procs -> SUBSET Seq(Addrs)]
  /\ MaxChanges \in Nat
  /\ None \notin Addrs \cup Ids /\ Wait \notin Ids \cup {None}

VARIABLES
  server,    \* [Addrs -> identifier the instance there reports, None when down]
  live,      \* [Addrs -> sessions of the instance]
  changes,   \* changes so far
  clients,   \* addresses with a Client in Aggregator.clients
  infos,     \* [Ids -> address in Aggregator.infos, or None]
  basis,     \* the list and the replies infos was last made from, for the
             \* properties
  op,        \* [Procs -> the method a goroutine is in]
  wanted,    \* [Procs -> the addresses asked: the list of a Refresh, by
             \* identifier for ListAllSessions]
  reply,     \* [Procs -> the answer so far to each of those]
  infoMap,   \* [Procs -> infoMap of a Refresh]
  dupes,     \* [Procs -> dupes of a Refresh]
  target     \* [Procs -> the address ClientFor found]

world == <<server, live, changes>>
shared == <<clients, infos, basis>>
calls == <<op, wanted, reply, infoMap, dupes, target>>
avars == <<world, shared, calls>>

NoInfos == [i \in Ids |-> None]
NoBasis == [list |-> <<>>, ids |-> <<>>]

AInit ==
  /\ server \in {f \in [Addrs -> Ids] : \A a \in Addrs : f[a] \in Reports[a]}
  /\ live = [a \in Addrs |-> {s \in Sessions : Hosts[s] = a}]
  /\ changes = 0
  /\ clients = {}
  /\ infos = NoInfos
  /\ basis = NoBasis
  /\ op = [p \in Procs |-> "idle"]
  /\ wanted = [p \in Procs |-> <<>>]
  /\ reply = [p \in Procs |-> <<>>]
  /\ infoMap = [p \in Procs |-> NoInfos]
  /\ dupes = [p \in Procs |-> {}]
  /\ target = [p \in Procs |-> None]

Set(f, p, v) == [f EXCEPT ![p] = v]

----------------------------------------------------------------------------
(* The instances.                                                          *)

\* An instance stops, starts, or is replaced by one with another identifier.
InstanceChanges(a) ==
  /\ changes < MaxChanges
  /\ changes' = changes + 1
  /\ \E i \in (Reports[a] \cup {None}) \ {server[a]} : server' = [server EXCEPT ![a] = i]
  /\ live' = [live EXCEPT ![a] = {}]
  /\ UNCHANGED <<shared, calls>>

Answers(a) == server[a] # None /\ a \in clients

----------------------------------------------------------------------------
(* Refresh.                                                                *)

\* The endpoints are resolved, before the lock is taken.
RefreshResolve(p) ==
  /\ op[p] = "idle"
  /\ \E l \in EndpointLists[p] : wanted' = Set(wanted, p, l)
  /\ op' = Set(op, p, "refresh")
  /\ UNCHANGED <<world, shared, reply, infoMap, dupes, target>>

\* Under the lock: clients nobody wants are closed, missing ones are dialled,
\* which opens no connection yet but fails for all when the TLS files cannot
\* be read; each entry of the list that has a client is then asked.  The
\* deletion from infos by address finds nothing there, as infos is keyed by
\* identifier.
RefreshDial(p) ==
  /\ op[p] = "refresh"
  /\ \/ clients' = Range(wanted[p]) /\ UNCHANGED changes
     \/ /\ changes < MaxChanges /\ changes' = changes + 1
        /\ clients' = clients \cap Range(wanted[p])
  /\ op' = Set(op, p, "infos")
  /\ reply' = Set(reply, p, [k \in DOMAIN wanted[p] |-> IF wanted[p][k] \in clients' THEN Wait ELSE None])
  /\ infoMap' = Set(infoMap, p, NoInfos)
  /\ dupes' = Set(dupes, p, {})
  /\ UNCHANGED <<server, live, infos, basis, wanted, target>>

Waiting(p, k) == k \in DOMAIN reply[p] /\ reply[p][k] = Wait
AllIn(p) == \A k \in DOMAIN reply[p] : reply[p][k] # Wait

\* One that keeps no memory of the identifiers in conflict.
ServerInfo_Forgets(p, k) ==
  /\ op[p] = "infos" /\ Waiting(p, k) /\ Answers(wanted[p][k])
  /\ LET a == wanted[p][k]
     IN /\ reply' = [reply EXCEPT ![p][k] = server[a]]
        /\ infoMap' = [infoMap EXCEPT ![p][server[a]] = IF @ = None THEN a ELSE None]
  /\ UNCHANGED <<world, shared, op, wanted, dupes, target>>

\* The goroutine of entry k has its answer: an identifier that a second
\* entry reports is dropped, and stays so for a third.
ServerInfo(p, k) ==
  /\ op[p] = "infos" /\ Waiting(p, k) /\ Answers(wanted[p][k])
  /\ LET a == wanted[p][k]
         i == server[a]
     IN /\ reply' = [reply EXCEPT ![p][k] = i]
        /\ infoMap' = [infoMap EXCEPT ![p][i] = IF @ = None /\ i \notin dupes[p] THEN a ELSE None]
        /\ dupes' = IF infoMap[p][i] = None THEN dupes ELSE [dupes EXCEPT ![p] = @ \cup {i}]
  /\ UNCHANGED <<world, shared, op, wanted, target>>

\* It has an error: the instance is not there, the caller has cancelled, or
\* the deadline has passed, which counts as a change of the network.
RpcFails(p, k, cancelled) ==
  /\ op[p] \in {"infos", "list"} /\ Waiting(p, k)
  /\ IF Answers(wanted[p][k]) /\ ~cancelled
     THEN changes < MaxChanges /\ changes' = changes + 1
     ELSE UNCHANGED changes
  /\ reply' = [reply EXCEPT ![p][k] = None]
  /\ UNCHANGED <<server, live, shared, op, wanted, infoMap, dupes, target>>

\* Under the lock again, all answers in: infos is replaced as a whole.
RefreshStore(p) ==
  /\ op[p] = "infos" /\ AllIn(p)
  /\ infos' = infoMap[p]
  /\ basis' = [list |-> wanted[p], ids |-> reply[p]]
  /\ op' = Set(op, p, "refreshed")
  /\ wanted' = Set(wanted, p, <<>>)
  /\ reply' = Set(reply, p, <<>>)
  /\ infoMap' = Set(infoMap, p, NoInfos)
  /\ dupes' = Set(dupes, p, {})
  /\ UNCHANGED <<world, clients, target>>

----------------------------------------------------------------------------
(* The calls that use what Refresh found.                                  *)

\* ListAllSessions takes its jobs under the lock ...
ListJobs(p) ==
  LET known == {i \in Ids : infos[i] # None}
  IN /\ wanted' = Set(wanted, p, [i \in known |-> infos[i]])
     /\ reply' = Set(reply, p, [i \in known |-> Wait])
     /\ op' = Set(op, p, "list")
     /\ UNCHANGED <<world, shared, infoMap, dupes, target>>

\* ... asks each instance without it ...
ListReply(p, i) ==
  /\ op[p] = "list" /\ Waiting(p, i) /\ Answers(wanted[p][i])
  /\ reply' = [reply EXCEPT ![p][i] = live[wanted[p][i]]]
  /\ UNCHANGED <<world, shared, op, wanted, infoMap, dupes, target>>

\* ... and its caller finds the identifiers whose instance has session s.
Holders(p, s) == {i \in DOMAIN reply[p] : reply[p][i] # None /\ s \in reply[p][i]}

\* ClientFor: the address of an identifier, None when it is not known.
ClientFor(i) == IF infos[i] = None \/ infos[i] \notin clients THEN None ELSE infos[i]

\* KillSession and StreamSession look up their client ...
Route(p, o, i) ==
  /\ op' = Set(op, p, IF ClientFor(i) = None THEN "unknown" ELSE o)
  /\ target' = Set(target, p, ClientFor(i))
  /\ UNCHANGED <<world, shared, wanted, reply, infoMap, dupes>>

\* ... and call it: the session, if it is there, is killed, or the call fails.
Kill(p, s, cancelled) ==
  /\ op[p] = "kill"
  /\ \/ Answers(target[p]) /\ live' = [live EXCEPT ![target[p]] = @ \ {s}]
     \/ (~Answers(target[p]) \/ cancelled) /\ UNCHANGED live
  /\ op' = Set(op, p, "called")
  /\ UNCHANGED <<server, changes, shared, wanted, reply, infoMap, dupes, target>>

\* A stream that its caller cannot cancel.
StreamEnds_Uncancelled(p, s, cancelled) ==
  /\ op[p] = "stream"
  /\ ~Answers(target[p]) \/ s \notin live[target[p]]
  /\ op' = Set(op, p, "called")
  /\ UNCHANGED <<world, shared, wanted, reply, infoMap, dupes, target>>

\* A stream runs until its session or its instance ends, its client is
\* closed or its caller cancels.
StreamEnds(p, s, cancelled) ==
  /\ op[p] = "stream"
  /\ cancelled \/ ~Answers(target[p]) \/ s \notin live[target[p]]
  /\ op' = Set(op, p, "called")
  /\ UNCHANGED <<world, shared, wanted, reply, infoMap, dupes, target>>

\* The call returns and its goroutine forgets it.
Done(p) ==
  /\ op' = Set(op, p, "idle")
  /\ wanted' = Set(wanted, p, <<>>)
  /\ reply' = Set(reply, p, <<>>)
  /\ target' = Set(target, p, None)
  /\ UNCHANGED <<infoMap, dupes>>

\* Close: every client is closed, nothing is known any more.
CloseAll ==
  /\ clients' = {}
  /\ infos' = NoInfos
  /\ basis' = NoBasis

----------------------------------------------------------------------------
(* Properties.                                                             *)

\* The identifiers that exactly one entry of the list l reports in the
\* replies r, each with the address of that entry.
Unambiguous(l, r) ==
  [i \in Ids |-> IF \E k \in DOMAIN l : {n \in DOMAIN l : r[n] = i} = {k}
                 THEN l[CHOOSE k \in DOMAIN l : r[k] = i] ELSE None]

\* infos routes an identifier exactly when one entry of the list of endpoints
\* reported it in the refresh infos comes from, in whatever order the answers
\* arrived: an identifier in conflict is routed to nobody, as the comment at
\* aggregator.go:149-152 wants, and no identifier reported once is lost.  (An
\* address listed twice is in conflict with itself.)  The client of a routed
\* identifier is there: ListAllSessions uses it unchecked.
RoutesTheUnambiguous ==
  /\ infos = Unambiguous(basis.list, basis.ids)
  /\ \A i \in Ids : infos[i] # None => infos[i] \in clients
============================================================================
