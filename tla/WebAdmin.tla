------------------------------ MODULE WebAdmin ------------------------------
(***************************************************************************)
(* sshpiperd-webadmin: one Aggregator, a loop that refreshes it and the    *)
(* HTTP handlers that use it concurrently.  A request that a handler       *)
(* refuses (404, 405, 403) changes nothing and has no step of its own.     *)
(***************************************************************************)
EXTENDS Aggregator

CONSTANTS
  Loop,      \* the goroutine that refreshes: main first, then the loop
  Handlers,  \* goroutines of HTTP requests
  Requests   \* [method, path]: the segments behind /api/v1/sessions

\* The discovery of webadmin is static: its list of endpoints does not change.
ASSUME WebAssumption ==
  /\ {Loop} \cup Handlers \subseteq Procs /\ Loop \notin Handlers
  /\ EndpointLists[Loop] # {} /\ \A l, m \in EndpointLists[Loop] : l = m

VARIABLES
  main,       \* "start", "serving", "closed"
  allowKill,  \* the --allow-kill flag
  request     \* [Handlers -> the request it serves, or None]

wvars == <<main, allowKill, request>>

WInit ==
  /\ main = "start"
  /\ allowKill \in BOOLEAN
  /\ request = [h \in Handlers |-> None]

\* parseSessionPath: instance, session and perhaps an action, none of them
\* empty and each one ("%" is not) unescapable.
ParseSessionPath(p) == Len(p) \in 2 .. 3 /\ \A n \in DOMAIN p : p[n] \notin {"", "%"}

\* The requests that sessions serves, and sessionByID by their action.
Lists(r) == r.path = <<>> /\ r.method = "GET"
Action(r, action, method) ==
  /\ ParseSessionPath(r.path)
  /\ action = (IF Len(r.path) = 3 THEN r.path[3] ELSE "")
  /\ r.method = method

\* A loop that stops once it has found every endpoint.
StartRefresh_Once ==
  /\ main = "start" \/ \E k \in DOMAIN basis.ids : basis.ids[k] = None
  /\ RefreshResolve(Loop)
  /\ UNCHANGED wvars

\* The first refresh, before the server listens, and those of the loop.
StartRefresh ==
  /\ main \in {"start", "serving"}
  /\ RefreshResolve(Loop)
  /\ UNCHANGED wvars

\* A refresh is over; after the first one the loop is started.
RefreshOver ==
  /\ op[Loop] = "refreshed"
  /\ Done(Loop)
  /\ main' = "serving"
  /\ UNCHANGED <<allowKill, request, world, shared>>

\* A handler takes a request and makes its call on the aggregator.
Serve(h, r) ==
  /\ main = "serving" /\ request[h] = None /\ op[h] = "idle"
  /\ request' = [request EXCEPT ![h] = r]
  /\ \/ Lists(r) /\ ListJobs(h)
     \/ Action(r, "", "DELETE") /\ allowKill /\ Route(h, "kill", r.path[1])
     \/ Action(r, "stream", "GET") /\ Route(h, "stream", r.path[1])
  /\ UNCHANGED <<main, allowKill>>

\* The call of a kill handler, and the end of a stream; the browser may
\* leave at any time, which cancels either.
ServeCall(h) ==
  /\ request[h] # None
  /\ Kill(h, request[h].path[2], TRUE) \/ StreamEnds(h, request[h].path[2], TRUE)
  /\ UNCHANGED wvars

\* The response is written and the handler returns.
Respond(h) ==
  /\ request[h] # None
  /\ \/ op[h] \in {"called", "unknown"}
     \/ op[h] = "list" /\ AllIn(h)
  /\ request' = [request EXCEPT ![h] = None]
  /\ Done(h)
  /\ UNCHANGED <<main, allowKill, world, shared>>

\* ListenAndServe fails: the deferred Close, and the process ends.
WebExit ==
  /\ main = "serving"
  /\ main' = "closed"
  /\ CloseAll
  /\ UNCHANGED <<allowKill, request, world, calls>>

\* The refreshing goroutine, and the calls of handlers.
LoopStep ==
  \/ StartRefresh \/ RefreshOver
  \/ /\ \/ RefreshDial(Loop) \/ RefreshStore(Loop)
        \/ \E k \in DOMAIN reply[Loop] : ServerInfo(Loop, k) \/ RpcFails(Loop, k, FALSE)
     /\ UNCHANGED wvars

HandlerStep(h) ==
  \/ ServeCall(h) \/ Respond(h)
  \/ \E r \in Requests : Serve(h, r)
  \/ (\E i \in DOMAIN reply[h] : ListReply(h, i) \/ RpcFails(h, i, TRUE)) /\ UNCHANGED wvars

WNext ==
  /\ main # "closed"
  /\ LoopStep \/ WebExit \/ \E h \in Handlers : HandlerStep(h)

\* Once the instances stay as they are, what the web page routes by agrees
\* with them for good: the loop repairs whatever a refresh has missed.
WebConverges ==
  <>[](main = "serving" =>
         \A l \in EndpointLists[Loop] : infos = Unambiguous(l, [k \in DOMAIN l |-> server[l[k]]]))
============================================================================
