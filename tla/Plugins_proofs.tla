--------------------------- MODULE Plugins_proofs ---------------------------
(***************************************************************************)
(* Proofs about the plugins.                                               *)
(*                                                                         *)
(* lua: the calls are isolated although they share one interpreter, for    *)
(* any number of calls, scripts, edits and signals.                        *)
(*                                                                         *)
(* failtoban: a ban holds while it lasts, for any number of connections    *)
(* and addresses.                                                          *)
(*                                                                         *)
(* yaml, workingdir, docker, kubernetes: a login is routed by the first    *)
(* from that has an opinion, the upstream carries the known hosts of its   *)
(* pipe, and workingdir asks for the code first, for any configuration and *)
(* whatever edits it.  The searches of skel are recursive; each is shown   *)
(* equal to a closed form, which the invariant then speaks of.             *)
(***************************************************************************)
EXTENDS Lua, FailToBan, Routes, Scans_proofs, TLAPS

-----------------------------------------------------------------------------
(* lua. *)

\* Where a call holds the shared state, and where its script has read the
\* counter and not yet written it.
Holding == {"enter", "run", "ask", "asked", "return"}
Reading == {"run", "ask", "asked"}

RunTypeOK ==
    /\ pc \in [Calls -> {"idle", "lock", "done"} \cup Holding]
    /\ got \in [Calls -> Calls \cup {None}]
    /\ seen \in [Calls -> Nat] /\ count \in Nat

\* A call has the lock from getLuaState to putLuaState, the callbacks of the
\* script and the wait for a user included (lua.go:112-137).
Owner == \A c \in Calls : pc[c] \in Holding <=> stateMu = c

\* What a script has read is what there is.
Current == \A c \in Calls : pc[c] \in Reading => seen[c] = count

\* The stack holds what the call at "return" has left there, and nothing else.
Stacked ==
    /\ (\A c \in Calls : pc[c] # "return") => stack = <<>>
    /\ \A c \in Calls : pc[c] = "return" => stack = <<stack[1]>> /\ stack[1].call = c

LuaInv == RunTypeOK /\ Owner /\ Current /\ Stacked /\ CallsAreIsolated

-----------------------------------------------------------------------------
\* Nobody has called yet, and the primed state is unlocked with nothing on
\* its stack (lua.go:83-110).
LEMMA LuaInitHolds == Init => LuaInv
BY LuaConstants, SMTT(30) DEF Init, LuaInv, RunTypeOK, Owner, Current, Stacked, CallsAreIsolated, Holding, Reading, LuaConstants

\* Start-up, reload, edits and signals do not touch the shared state
\* (lua.go:175-212): reloadScript has locks of its own.
LEMMA LuaKept ==
    ASSUME LuaInv, UNCHANGED <<pc, got, seen, count, stack, stateMu, ran>>
    PROVE  LuaInv'
BY ZenonT(40) DEF LuaInv, RunTypeOK, Owner, Current, Stacked, CallsAreIsolated

\* Two calls are never in the shared state at once.
LEMMA Alone ==
    ASSUME LuaInv, NEW c \in Calls, pc[c] \in Holding
    PROVE  \A d \in Calls : d # c => pc[d] \notin Holding
BY Zenon DEF LuaInv, Owner

\* Only the call c moves, and it stays outside the shared state or inside.
Moves(c, p) == pc' = [pc EXCEPT ![c] = p]

\* A call moves on.
LEMMA Move ==
    ASSUME LuaInv, NEW c \in Calls, NEW p \in {"idle", "lock", "done"} \cup Holding, Moves(c, p)
    PROVE  /\ pc' \in [Calls -> {"idle", "lock", "done"} \cup Holding]
           /\ pc'[c] = p /\ \A d \in Calls : d # c => pc'[d] = pc[d]
BY Zenon DEF LuaInv, RunTypeOK, Moves

\* A callback comes in and waits for the lock (lua.go:112-113).
LEMMA BeginKeeps ==
    ASSUME LuaInv, NEW c \in Calls, NEW x, Calling(c, x)
    PROVE  LuaInv'
<1>1. /\ pc[c] \in {"idle", "done"} /\ got' = [got EXCEPT ![c] = None]
      /\ UNCHANGED <<seen, count, stack, stateMu, ran>> /\ Moves(c, "lock")
    BY Zenon DEF Calling, Free, Moves, runVars
<1>2. /\ pc' \in [Calls -> {"idle", "lock", "done"} \cup Holding]
      /\ pc'[c] = "lock" /\ \A d \in Calls : d # c => pc'[d] = pc[d]
    BY <1>1, Move, Zenon
<1>3. RunTypeOK' /\ CallsAreIsolated'
    BY <1>1, <1>2, Zenon DEF LuaInv, RunTypeOK, CallsAreIsolated
<1>4. Owner' /\ Current'
    BY <1>1, <1>2, Zenon DEF LuaInv, Owner, Current, Holding, Reading
<1>5. Stacked'
    <2>1. \A d \in Calls : pc'[d] = "return" <=> pc[d] = "return"
        BY <1>1, <1>2, Zenon
    <2>2. QED BY <1>1, <2>1, Zenon DEF LuaInv, Stacked
<1> QED BY <1>3, <1>4, <1>5, Zenon DEF LuaInv

\* getLuaState: nobody else is in the shared state (lua.go:113-116).
LEMMA GetLuaStateKeeps ==
    ASSUME LuaInv, NEW c \in Calls, GetLuaState(c)
    PROVE  LuaInv'
<1>1. /\ pc[c] = "lock" /\ stateMu = None /\ stateMu' = c /\ Moves(c, "enter")
      /\ UNCHANGED <<seen, count, stack, got, ran>>
    BY Zenon DEF GetLuaState, Moves
<1>2. /\ pc' \in [Calls -> {"idle", "lock", "done"} \cup Holding]
      /\ pc'[c] = "enter" /\ \A d \in Calls : d # c => pc'[d] = pc[d]
    BY <1>1, Move, Zenon DEF Holding
<1>3. \A d \in Calls : pc[d] \notin Holding
    BY <1>1, LuaConstants, Zenon DEF LuaInv, Owner, LuaConstants
<1>4. RunTypeOK' /\ CallsAreIsolated'
    BY <1>1, <1>2, Zenon DEF LuaInv, RunTypeOK, CallsAreIsolated
<1>5. Owner' /\ Current'
    BY <1>1, <1>2, <1>3, Zenon DEF Owner, Current, Holding, Reading
<1>6. Stacked'
    <2>1. (\A d \in Calls : pc[d] # "return") /\ \A d \in Calls : pc'[d] # "return"
        BY <1>2, <1>3, Zenon DEF Holding
    <2>2. QED BY <1>1, <2>1, Zenon DEF LuaInv, Stacked
<1> QED BY <1>4, <1>5, <1>6, Zenon DEF LuaInv

\* A handler that finds no function, or whose script fails, unlocks and
\* leaves nothing on the stack (lua.go:131-135).
LEMMA GivesUpKeeps ==
    ASSUME LuaInv, NEW c \in Calls, NotDefined(c) \/ ScriptFails(c)
    PROVE  LuaInv'
<1>1. /\ pc[c] \in Holding /\ pc[c] # "return" /\ stateMu' = None /\ Moves(c, "done")
      /\ UNCHANGED <<seen, count, stack, got, ran>>
    BY Zenon DEF NotDefined, ScriptFails, Moves, Holding
<1>2. /\ pc' \in [Calls -> {"idle", "lock", "done"} \cup Holding]
      /\ pc'[c] = "done" /\ \A d \in Calls : d # c => pc'[d] = pc[d]
    BY <1>1, Move, Zenon
<1>3. \A d \in Calls : pc'[d] \notin Holding
    BY <1>1, <1>2, Alone, Zenon DEF Holding
<1>4. RunTypeOK' /\ CallsAreIsolated'
    BY <1>1, <1>2, Zenon DEF LuaInv, RunTypeOK, CallsAreIsolated
<1>5. Owner' /\ Current'
    BY <1>1, <1>3, LuaConstants, Zenon DEF Owner, Current, Holding, Reading, LuaConstants
<1>6. Stacked'
    <2>1. \A d \in Calls : pc[d] # "return" /\ pc'[d] # "return"
        BY <1>1, <1>3, Alone, Zenon DEF Holding
    <2>2. QED BY <1>1, <2>1, Zenon DEF LuaInv, Stacked
<1> QED BY <1>4, <1>5, <1>6, Zenon DEF LuaInv

\* The script runs: it reads the counter, or waits for its user, with the
\* lock held (lua.go:667-683).
LEMMA RunsKeeps ==
    ASSUME LuaInv, NEW c \in Calls, NEW p \in Reading, Moves(c, p),
           pc[c] \in Holding, pc[c] # "return", UNCHANGED <<stateMu, count, stack, got, ran>>,
           seen' = [seen EXCEPT ![c] = count] \/ (pc[c] \in Reading /\ seen' = seen)
    PROVE  LuaInv'
<1>1. /\ pc' \in [Calls -> {"idle", "lock", "done"} \cup Holding]
      /\ pc'[c] = p /\ \A d \in Calls : d # c => pc'[d] = pc[d]
    BY Move, Zenon DEF Holding, Reading
<1>2. seen' \in [Calls -> Nat] /\ seen'[c] = count /\ \A d \in Calls : d # c => seen'[d] = seen[d]
    BY Zenon DEF LuaInv, RunTypeOK, Current
<1>3. RunTypeOK' /\ CallsAreIsolated'
    BY <1>1, <1>2, Zenon DEF LuaInv, RunTypeOK, CallsAreIsolated
<1>4. Owner' /\ Current'
    BY <1>1, <1>2, Zenon DEF LuaInv, Owner, Current, Holding, Reading
<1>5. Stacked'
    <2>1. \A d \in Calls : pc'[d] = "return" <=> pc[d] = "return"
        BY <1>1, Zenon DEF Reading
    <2>2. QED BY <2>1, Zenon DEF LuaInv, Stacked
<1> QED BY <1>3, <1>4, <1>5, Zenon DEF LuaInv

\* The script starts, asks its user, and goes on when they have answered, have
\* left or are disconnected (lua.go:667-683).
LEMMA UserKeeps ==
    ASSUME LuaInv, NEW c \in Calls, EnterScript(c) \/ Challenge(c) \/ UserAnswers(c)
    PROVE  LuaInv'
<1>1. PICK p \in Reading : Moves(c, p)
    BY Zenon DEF EnterScript, Challenge, UserAnswers, Moves, Reading
<1>2. /\ pc[c] \in Holding /\ pc[c] # "return" /\ UNCHANGED <<stateMu, count, stack, got, ran>>
      /\ \/ seen' = [seen EXCEPT ![c] = count]
         \/ pc[c] \in Reading /\ seen' = seen
    BY Zenon DEF EnterScript, Challenge, UserAnswers, Holding, Reading, runVars
<1> QED BY <1>1, <1>2, RunsKeeps, Zenon

\* The notice of the end of a grace time has returned, and the daemon closes
\* the connection it was about (daemon.go:530, 556-562).
LEMMA GraceClosesKeeps ==
    ASSUME LuaInv, NEW d \in Calls, GraceCloses(d)
    PROVE  LuaInv'
<1>1. UNCHANGED <<seen, count, stack, stateMu, got, ran>>
    BY Zenon DEF GraceCloses, runVars
<1>2. CASE pc' = pc
    BY <1>1, <1>2, LuaKept, Zenon
<1>3. CASE pc' # pc
    <2>1. pc[closing[d]] = "ask" /\ Moves(closing[d], "asked")
        BY <1>3, Zenon DEF GraceCloses, Moves
    <2>2. closing[d] \in Calls
        BY <1>3, <2>1, Zenon DEF Moves, LuaInv, RunTypeOK
    <2>3. "asked" \in Reading /\ "ask" \in Reading /\ "ask" \in Holding
        BY Zenon DEF Reading, Holding
    <2>4. QED BY <1>1, <2>1, <2>2, <2>3, RunsKeeps, Zenon
<1> QED BY <1>2, <1>3, Zenon

\* The script returns: the counter it raises is the one it has read, and the
\* stack it leaves its values on is empty (lua.go:427-428).
LEMMA ScriptReturnsKeeps ==
    ASSUME LuaInv, NEW c \in Calls, NEW vs, ScriptReturns(c, vs)
    PROVE  LuaInv'
<1>1. /\ pc[c] \in Reading /\ count' = seen[c] + 1 /\ ran' = ran + 1 /\ Moves(c, "return")
      /\ stack' = <<[call |-> c, vals |-> vs]>> \o stack /\ UNCHANGED <<stateMu, seen, got>>
    BY Zenon DEF ScriptReturns, Moves, Reading
<1>2. /\ pc' \in [Calls -> {"idle", "lock", "done"} \cup Holding]
      /\ pc'[c] = "return" /\ \A d \in Calls : d # c => pc'[d] = pc[d]
    BY <1>1, Move, Zenon DEF Holding
<1>3. pc[c] \in Holding /\ \A d \in Calls : d # c => pc[d] \notin Holding
    BY <1>1, Alone, Zenon DEF Holding, Reading
<1>4. seen[c] = count /\ count = ran /\ count \in Nat
    BY <1>1, Zenon DEF LuaInv, RunTypeOK, Current, CallsAreIsolated
<1>5. count' = ran' /\ count' \in Nat
    BY <1>1, <1>4
<1>6. RunTypeOK' /\ CallsAreIsolated'
    BY <1>1, <1>2, <1>5, Zenon DEF LuaInv, RunTypeOK, CallsAreIsolated
<1>7. Owner' /\ Current'
    BY <1>1, <1>2, <1>3, Zenon DEF LuaInv, Owner, Current, Holding, Reading
<1>8. Stacked'
    <2>1. stack = <<>>
        BY <1>1, <1>3, Zenon DEF LuaInv, Stacked, Holding, Reading
    <2>2. stack' = <<[call |-> c, vals |-> vs]>>
        BY <1>1, <2>1
    <2>3. \A d \in Calls : pc'[d] = "return" => d = c
        BY <1>2, <1>3, Zenon DEF Holding
    <2>4. stack' = <<stack'[1]>> /\ stack'[1].call = c
        BY <2>2
    <2>5. QED BY <1>2, <2>3, <2>4, Zenon DEF Stacked
<1> QED BY <1>6, <1>7, <1>8, Zenon DEF LuaInv

\* The handler pops the values of its own call and unlocks (lua.go:131-135, 431-432).
LEMMA PutLuaStateKeeps ==
    ASSUME LuaInv, NEW c \in Calls, PutLuaState(c)
    PROVE  LuaInv'
<1>1. /\ pc[c] = "return" /\ stateMu' = None /\ Moves(c, "done") /\ stack' = Tail(stack)
      /\ got' = [got EXCEPT ![c] = Head(stack).call] /\ UNCHANGED <<seen, count, ran>>
    BY Zenon DEF PutLuaState, Moves
<1>2. /\ pc' \in [Calls -> {"idle", "lock", "done"} \cup Holding]
      /\ pc'[c] = "done" /\ \A d \in Calls : d # c => pc'[d] = pc[d]
    BY <1>1, Move, Zenon
<1>3. \A d \in Calls : pc'[d] \notin Holding
    BY <1>1, <1>2, Alone, Zenon DEF Holding
<1>4. stack = <<stack[1]>> /\ stack[1].call = c
    BY <1>1, Zenon DEF LuaInv, Stacked
<1>5. Head(stack).call = c /\ stack' = <<>>
    <2>1. PICK e : stack = <<e>> /\ e.call = c
        BY <1>4, Zenon
    <2>2. Head(stack) = e /\ Tail(stack) = <<>>
        BY <2>1
    <2>3. QED BY <1>1, <2>1, <2>2, Zenon
<1>6. got' \in [Calls -> Calls \cup {None}] /\ \A d \in Calls : got'[d] \in {None, d}
    BY <1>1, <1>5, Zenon DEF LuaInv, RunTypeOK, CallsAreIsolated
<1>7. RunTypeOK' /\ CallsAreIsolated'
    BY <1>1, <1>2, <1>6, Zenon DEF LuaInv, RunTypeOK, CallsAreIsolated
<1>8. Owner' /\ Current'
    BY <1>1, <1>3, LuaConstants, Zenon DEF Owner, Current, Holding, Reading, LuaConstants
<1>9. Stacked'
    BY <1>3, <1>5, Zenon DEF Stacked, Holding
<1> QED BY <1>7, <1>8, <1>9, Zenon DEF LuaInv

-----------------------------------------------------------------------------
\* Every step of the plugin keeps the invariant.
LEMMA LuaStepHolds == LuaInv /\ [Next]_vars => LuaInv'
<1> SUFFICES ASSUME LuaInv, [Next]_vars PROVE LuaInv'
    OBVIOUS
<1>1. CASE \/ Prime \/ InitPool \/ Sighup \/ ReloadBegin \/ ReloadTest
           \/ (\E s \in Scripts \cup {None} : Edit(s)) \/ UNCHANGED vars
    <2>1. UNCHANGED <<pc, got, seen, count, stack, stateMu, ran>>
        BY <1>1, ZenonT(40) DEF Prime, InitPool, Sighup, ReloadBegin, ReloadTest, Edit, vars, runVars, callVars
    <2>2. QED BY <2>1, LuaKept, Zenon
<1>2. ASSUME NEW c \in Calls, Challenge(c) \/ UserAnswers(c) \/ GraceClosesAtOnce(c) PROVE LuaInv'
    BY <1>2, UserKeeps, Zenon DEF GraceClosesAtOnce
<1>3. ASSUME NEW c \in Calls, (\E x \in Callbacks : Begin(c, x)) \/ \E d \in Calls : GraceNotice(d, c)
      PROVE  LuaInv'
    <2>1. PICK x : Calling(c, x)
        BY <1>3, Zenon DEF Begin, GraceNotice
    <2>2. QED BY <2>1, BeginKeeps, Zenon
<1>4. ASSUME NEW c \in Calls, CallStep(c) PROVE LuaInv'
    BY <1>4, GetLuaStateKeeps, GivesUpKeeps, UserKeeps, ScriptReturnsKeeps, PutLuaStateKeeps, Zenon DEF CallStep
<1> QED BY <1>1, <1>2, <1>3, <1>4, GraceClosesKeeps, Zenon DEF Next

\* Calls of different connections are isolated in the one shared state
\* (lua.go:99, 112-137, 427-428, 667-683): no update of a global is lost and no
\* handler answers with the values of another call, for any number of calls,
\* whatever the script clears and however long a user takes.
THEOREM IsolationTheorem == Spec => []CallsAreIsolated
<1>1. LuaInv => CallsAreIsolated
    BY DEF LuaInv
<1> QED BY <1>1, LuaInitHolds, LuaStepHolds, PTL DEF Spec

-----------------------------------------------------------------------------
(* failtoban. *)

\* An entry of the cache that has expired counts nothing.
BanInv ==
    /\ cache \in [Addrs -> [n : Nat, ttl : Nat]]
    /\ \A a \in Addrs : cache[a].ttl = 0 => cache[a].n = 0
    /\ conn \in [Conns -> {"new", "add", "admitted", "refused", "done"}]

\* The cache starts empty (gocache.New, failtoban/main.go:58).
LEMMA BanInitHolds == BanInit => BanInv
BY DEF BanInit, BanInv

\* What one step may do to the cache: an entry only grows, unless it is gone,
\* and only one that was not there is new.
CacheStep ==
    /\ cache' \in [Addrs -> [n : Nat, ttl : Nat]]
    /\ \A a \in Addrs :
         /\ cache'[a].ttl = 0 => cache'[a].n = 0
         /\ cache'[a].n >= cache[a].n \/ cache'[a].ttl = 0

\* A failure is counted (main.go:112-131): IncrementInt finds the entry or fails.
LEMMA IncrementCounts ==
    ASSUME BanInv, NEW a \in Addrs, Increment(a) PROVE CacheStep
<1>1. cache[a] \in [n : Nat, ttl : Nat] BY DEF BanInv
<1>2. CASE a \notin Ignored /\ Found(a) /\ cache[a].n < MaxCount
    <2>1. cache' = [cache EXCEPT ![a].n = @ + 1] BY <1>2, Zenon DEF Increment
    <2>2. cache' \in [Addrs -> [n : Nat, ttl : Nat]] BY <1>1, <2>1 DEF BanInv
    <2>3. ASSUME NEW b \in Addrs
          PROVE  /\ cache'[b].ttl = 0 => cache'[b].n = 0
                 /\ cache'[b].n >= cache[b].n
        <3>1. CASE b = a BY <1>1, <1>2, <2>1, <3>1 DEF BanInv, Found
        <3>2. CASE b # a BY <2>1, <3>2 DEF BanInv
        <3> QED BY <3>1, <3>2, Zenon
    <2> QED BY <2>2, <2>3, Zenon DEF CacheStep
<1>3. CASE ~(a \notin Ignored /\ Found(a) /\ cache[a].n < MaxCount)
    <2>1. cache' = cache BY <1>3, Zenon DEF Increment
    <2> QED BY <2>1 DEF BanInv, CacheStep
<1> QED BY <1>2, <1>3, Zenon

\* Every step on the cache: NewConnection adds what is not there
\* (main.go:93-103), entries expire, SIGHUP flushes them (main.go:135-148).
LEMMA CacheSteps ==
    ASSUME BanInv, [BanNext]_banVars PROVE CacheStep
<1>0. ASSUME cache' = cache PROVE CacheStep BY <1>0 DEF BanInv, CacheStep
<1>1. CASE Hangup BY <1>1 DEF Hangup, BanInv, CacheStep
<1>2. CASE Tick
    <2>1. cache' = [a \in Addrs |-> IF cache[a].ttl <= 1 THEN [n |-> 0, ttl |-> 0]
                                    ELSE [cache[a] EXCEPT !.ttl = @ - 1]]
        BY <1>2, Zenon DEF Tick
    <2>2. ASSUME NEW a \in Addrs
          PROVE  /\ cache'[a] \in [n : Nat, ttl : Nat]
                 /\ cache'[a].ttl = 0 => cache'[a].n = 0
                 /\ cache'[a].n >= cache[a].n \/ cache'[a].ttl = 0
        <3>1. cache[a] \in [n : Nat, ttl : Nat] BY DEF BanInv
        <3>2. CASE cache[a].ttl <= 1
            <4>1. cache'[a] = [n |-> 0, ttl |-> 0] BY <2>1, <3>2, Zenon
            <4> QED BY <4>1
        <3>3. CASE ~(cache[a].ttl <= 1)
            <4>1. cache'[a] = [cache[a] EXCEPT !.ttl = @ - 1] BY <2>1, <3>3, Zenon
            <4> QED BY <3>1, <3>3, <4>1
        <3> QED BY <3>2, <3>3, Zenon
    <2>3. cache' \in [Addrs -> [n : Nat, ttl : Nat]]
        <3>1. cache' = [a \in Addrs |-> cache'[a]] BY <2>1, Zenon
        <3> QED BY <2>2, <3>1, Zenon
    <2> QED BY <2>2, <2>3, Zenon DEF CacheStep
<1>3. ASSUME NEW c \in Conns, ConnStep(c) PROVE CacheStep
    <2>0. AddrOf[c] \in Addrs BY BanConstants
    <2>1. CASE NewConnection(c) \/ PipeStart(c) \/ Reconnect(c)
        BY <1>0, <2>1, Zenon DEF NewConnection, PipeStart, Reconnect
    <2>2. CASE AddEntry(c)
        <3>1. CASE Found(AddrOf[c]) BY <1>0, <2>2, <3>1, Zenon DEF AddEntry
        <3>2. CASE ~Found(AddrOf[c])
            <4>1. cache' = [cache EXCEPT ![AddrOf[c]] = NewEntry]
                BY <2>2, <3>2, Zenon DEF AddEntry
            <4>2. NewEntry \in [n : Nat, ttl : Nat] /\ NewEntry.ttl # 0 /\ NewEntry.n = 0
                BY BanConstants DEF NewEntry
            <4>3. cache[AddrOf[c]].n = 0 BY <2>0, <3>2 DEF BanInv, Found
            <4> QED BY <2>0, <4>1, <4>2, <4>3 DEF BanInv, CacheStep
        <3> QED BY <3>1, <3>2, Zenon
    <2>3. CASE UpstreamAuthFailure(c) \/ PipeCreateError(c)
        BY <2>0, <2>3, IncrementCounts, Zenon DEF UpstreamAuthFailure, PipeCreateError
    <2> QED BY <1>3, <2>1, <2>2, <2>3, Zenon DEF ConnStep
<1>4. CASE UNCHANGED banVars BY <1>0, <1>4, Zenon DEF banVars
<1> QED BY <1>1, <1>2, <1>3, <1>4, Zenon DEF BanNext

\* What one step may do to a connection: a banned address is not admitted.
ConnMoves ==
    /\ conn' \in [Conns -> {"new", "add", "admitted", "refused", "done"}]
    /\ \A c \in Conns : conn[c] # "admitted" /\ conn'[c] = "admitted" =>
          logOnly \/ AddrOf[c] \in Ignored \/ ~Banned(AddrOf[c])

\* Whichever call admits it has seen the cache at that moment (main.go:86-110).
LEMMA ConnSteps ==
    ASSUME BanInv, [BanNext]_banVars PROVE ConnMoves
<1> DEFINE Places == {"new", "add", "admitted", "refused", "done"}
<1>0. conn \in [Conns -> Places] BY Zenon DEF BanInv
<1>1. ASSUME conn' = conn PROVE ConnMoves BY <1>0, <1>1, Zenon DEF ConnMoves
<1>2. ASSUME NEW c \in Conns, NEW x \in Places, conn' = [conn EXCEPT ![c] = x],
             x = "admitted" => logOnly \/ AddrOf[c] \in Ignored \/ ~Banned(AddrOf[c])
      PROVE  ConnMoves
    <2>1. conn' \in [Conns -> Places] BY <1>0, <1>2
    <2>2. \A d \in Conns : conn'[d] = IF d = c THEN x ELSE conn[d] BY <1>0, <1>2, Zenon
    <2> QED BY <1>2, <2>1, <2>2, Zenon DEF ConnMoves
<1>3. ASSUME NEW c \in Conns, ConnStep(c) PROVE ConnMoves
    <2> DEFINE a == AddrOf[c]
               free == logOnly \/ a \in Ignored
               x == IF ~free /\ Denied(a) THEN "refused"
                    ELSE IF ~free /\ ~Found(a) THEN "add" ELSE "admitted"
               y == IF Found(a) THEN "refused" ELSE "admitted"
    <2>1. CASE NewConnection(c)
        <3>1. conn' = [conn EXCEPT ![c] = x] BY <2>1, Zenon DEF NewConnection
        <3>2. x \in Places OBVIOUS
        <3>3. x = "admitted" => free \/ ~Banned(a) BY DEF Denied, Banned
        <3> HIDE DEF x
        <3> QED BY <1>2, <3>1, <3>2, <3>3, Zenon
    <2>2. CASE AddEntry(c)
        <3>1. conn' = [conn EXCEPT ![c] = y] BY <2>2, Zenon DEF AddEntry
        <3>2. y \in Places OBVIOUS
        <3>3. y = "admitted" => ~Banned(a) BY DEF Banned
        <3> HIDE DEF y
        <3> QED BY <1>2, <3>1, <3>2, <3>3, Zenon
    <2>3. CASE UpstreamAuthFailure(c) BY <1>1, <2>3, Zenon DEF UpstreamAuthFailure
    <2>4. CASE PipeCreateError(c) \/ PipeStart(c)
        <3>1. conn' = [conn EXCEPT ![c] = "done"] BY <2>4, Zenon DEF PipeCreateError, PipeStart
        <3>2. "done" \in Places /\ "done" # "admitted" OBVIOUS
        <3> HIDE DEF Places
        <3> QED BY <1>2, <3>1, <3>2, Zenon
    <2>5. CASE Reconnect(c)
        <3>1. conn' = [conn EXCEPT ![c] = "new"] BY <2>5, Zenon DEF Reconnect
        <3>2. "new" \in Places /\ "new" # "admitted" OBVIOUS
        <3> HIDE DEF Places
        <3> QED BY <1>2, <3>1, <3>2, Zenon
    <2> QED BY <1>3, <2>1, <2>2, <2>3, <2>4, <2>5, Zenon DEF ConnStep
<1>4. CASE Hangup \/ Tick BY <1>1, <1>4, Zenon DEF Hangup, Tick
<1>5. CASE UNCHANGED banVars BY <1>1, <1>5, Zenon DEF banVars
<1> QED BY <1>3, <1>4, <1>5, Zenon DEF BanNext

\* A banned address is not let in, and its failures are not forgotten before
\* the entry expires or is flushed, for any number of connections and addresses,
\* any limit and any duration (main.go:86-148).
THEOREM BansHoldTheorem == BanSpec => BansHold
<1>1. BanInv /\ [BanNext]_banVars => BanInv'
    BY CacheSteps, ConnSteps, Zenon DEF BanInv, CacheStep, ConnMoves
<1>2. BanInv /\ [BanNext]_banVars =>
        [\A c \in Conns : conn[c] # "admitted" /\ conn'[c] = "admitted" =>
            logOnly \/ AddrOf[c] \in Ignored \/ ~Banned(AddrOf[c])]_banVars
    BY ConnSteps, Zenon DEF ConnMoves
<1>3. BanInv /\ [BanNext]_banVars =>
        [\A a \in Addrs : cache'[a].n >= cache[a].n \/ cache'[a].ttl = 0]_banVars
    BY CacheSteps, Zenon DEF CacheStep
<1> QED BY BanInitHolds, <1>1, <1>2, <1>3, PTL
        DEF BanSpec, BansHold, BannedStayOut, FailuresKept

-----------------------------------------------------------------------------
(* The second factor of workingdir. *)

\* What a client may present.
LEMMA CredForms ==
    ASSUME NEW c \in Creds
    PROVE  /\ c.method = "password" \/ c.method = "publickey"
           /\ c.key # Junk /\ (c.method = "publickey" => c.password = "")
           /\ c.method = "password" => ~c.cert
<1>1. c.method \in {"password", "publickey"} /\ c.key # Junk
      /\ (c.method = "publickey" => c.password = "") /\ (c.method = "password" => ~c.cert)
    BY RoutesAssumption, Zenon
<1> QED BY <1>1

\* With --check-totp: the meta says checked only after a right code, and
\* without it no other method is on offer.
TotpInv ==
    plugin = "workingdir" /\ opts.checkTotp =>
        /\ checked => codes # {}
        /\ "publickey" \in offered \/ "password" \in offered => codes # {}
        /\ answer.ok => codes # {}

\* What a callback may change of it (workingdir/main.go:70-122).
LEMMA TotpStep == TotpInv /\ [RouteNext]_routeVars => TotpInv'
<1> SUFFICES ASSUME TotpInv, [RouteNext]_routeVars, plugin' = "workingdir", opts'.checkTotp
             PROVE  (checked => codes # {})' /\ (answer.ok => codes # {})'
                    /\ ("publickey" \in offered \/ "password" \in offered => codes # {})'
    BY Zenon DEF TotpInv
<1>0. plugin' = plugin /\ opts' = opts
    BY Zenon DEF RouteNext, Offer, EditConfig, Try, EnterCode, routeVars
<1>1. /\ plugin = "workingdir" /\ opts.checkTotp
      /\ checked => codes # {}
      /\ "publickey" \in offered \/ "password" \in offered => codes # {}
      /\ answer.ok => codes # {}
    BY <1>0, Zenon DEF TotpInv
<1>2. CASE Offer
    <2>1. offered' = W!NextAuthMethods(opts, checked) BY <1>1, <1>2, Zenon DEF Offer
    <2>2. ~checked => offered' = {"keyboard-interactive"}
        BY <1>1, <2>1, Zenon DEF W!NextAuthMethods
    <2>3. ~checked => "publickey" \notin offered' /\ "password" \notin offered' BY <2>2
    <2> QED BY <1>1, <1>2, <2>3, Zenon DEF Offer
<1>3. ASSUME NEW w, EditConfig(w)
      PROVE  UNCHANGED <<checked, codes, offered, answer>>
    BY <1>3, Zenon DEF EditConfig
<1>4. ASSUME NEW u \in Users, NEW c \in Creds, Try(u, c)
      PROVE  UNCHANGED <<checked, codes>> /\ offered' = {} /\ codes # {}
    <2>1. c.method \in offered /\ UNCHANGED <<checked, codes>> /\ offered' = {}
        BY <1>4, Zenon DEF Try
    <2>2. c.method = "password" \/ c.method = "publickey" BY CredForms, Zenon
    <2> QED BY <1>1, <2>1, <2>2, Zenon
<1>5. ASSUME NEW u \in Users, NEW code \in {"right", "wrong"}, EnterCode(u, code)
      PROVE  /\ (checked' => codes' # {}) /\ answer' = answer /\ (codes # {} => codes' # {})
             /\ \A m : m \in offered' => m \in offered
    <2> DEFINE said == W!KeyboardInteractive(opts, world, u, code)
    <2>1. /\ checked' = (checked \/ said = "retry")
          /\ codes' = IF code = "right" THEN codes \cup {u} ELSE codes
          /\ offered' = IF said = "again" THEN offered ELSE {}
          /\ answer' = answer
        BY <1>5, Zenon DEF EnterCode
    <2>2. said = "retry" => code = "right" BY DEF W!KeyboardInteractive
    <2>3. (code = "right" => codes' # {}) /\ (codes # {} => codes' # {}) BY <2>1, Zenon
    <2> HIDE DEF said
    <2> QED BY <1>1, <2>1, <2>2, <2>3, Zenon
<1>6. CASE UNCHANGED routeVars BY <1>1, <1>6, Zenon DEF routeVars
<1>7. CASE \E w \in Later[plugin] : EditConfig(w) BY <1>1, <1>3, <1>7, Zenon
<1>8. CASE \E u \in Users, c \in Creds : Try(u, c) BY <1>4, <1>8, Zenon
<1>9. CASE \E u \in Users, code \in {"right", "wrong"} : EnterCode(u, code)
    <2>1. PICK u \in Users, code \in {"right", "wrong"} : EnterCode(u, code) BY <1>9, Zenon
    <2>2. /\ (checked' => codes' # {}) /\ answer' = answer /\ (codes # {} => codes' # {})
          /\ "publickey" \in offered' => "publickey" \in offered
          /\ "password" \in offered' => "password" \in offered
        BY <1>5, <2>1, Zenon
    <2> QED BY <1>1, <2>2, Zenon
<1> QED BY <1>2, <1>6, <1>7, <1>8, <1>9, Zenon DEF RouteNext

\* With --check-totp nobody gets an upstream before a right code was entered,
\* however the callbacks of a login, the names it is made under and the edits
\* of the directories interleave (workingdir/main.go:70-122).
THEOREM CodeTheorem == RouteSpec => []CodeBeforeUpstream
<1>1. RouteInit => TotpInv
    <2>1. ~Failed.ok BY DEF Failed
    <2> QED BY <2>1, Zenon DEF RouteInit, TotpInv
<1>2. TotpInv => CodeBeforeUpstream BY Zenon DEF TotpInv, CodeBeforeUpstream
<1> QED BY <1>1, <1>2, TotpStep, PTL DEF RouteSpec

-----------------------------------------------------------------------------
(* The search for a key (skel.go:154-233). *)

\* What the last n lines say of a key.
Scanned(lines, key, n) ==
    IF n = 0 THEN "no"
    ELSE IF \E i \in (Len(lines) + 1 - n) .. Len(lines) : lines[i] = key THEN "yes"
    ELSE IF lines[Len(lines)] = Junk THEN "error" ELSE "no"

\* The loop of ScanKeys with n lines left, g being what it comes to with fewer.
ScanRound(lines, key, n, g) ==
    LET found == {i \in (Len(lines) + 1 - n) .. Len(lines) : lines[i] # Junk} IN
    IF n = 0 THEN "no"
    ELSE IF found = {} THEN "error"
    ELSE IF lines[FirstOf(found)] = key THEN "yes" ELSE g[Len(lines) - FirstOf(found)]

\* One round skips what is no key and looks at the one that follows.
LEMMA ScanRoundIs ==
    ASSUME NEW lines, NEW key, NEW n, NEW g, Len(lines) \in Nat, key # Junk,
           n \in 0 .. Len(lines),
           \A m \in 0 .. Len(lines) : m < n => g[m] = Scanned(lines, key, m)
    PROVE  ScanRound(lines, key, n, g) = Scanned(lines, key, n)
<1> DEFINE L == Len(lines)
           found == {i \in (L + 1 - n) .. L : lines[i] # Junk}
           k == FirstOf(found)
<1>0. L \in Nat /\ n \in 0 .. L /\ n \in Nat OBVIOUS
<1>1. CASE n = 0 BY <1>1, Zenon DEF ScanRound, Scanned
<1>2. CASE n # 0 /\ found = {}
    <2>1. \A i \in (L + 1 - n) .. L : lines[i] = Junk BY <1>2, Zenon
    <2>2. L \in (L + 1 - n) .. L BY <1>0, <1>2
    <2>3. ~\E i \in (L + 1 - n) .. L : lines[i] = key BY <2>1, Zenon
    <2>4. Scanned(lines, key, n) = "error" BY <1>2, <2>1, <2>2, <2>3, Zenon DEF Scanned
    <2>5. ScanRound(lines, key, n, g) = "error" BY <1>2, Zenon DEF ScanRound
    <2> QED BY <2>4, <2>5, Zenon
<1>3. CASE n # 0 /\ found # {}
    <2>1. found \subseteq Nat BY <1>0
    <2>2. k \in found /\ \A m \in found : k <= m
        <3> HIDE DEF found
        <3> QED BY <1>3, <2>1, FirstOfIs, Zenon
    <2> HIDE DEF k
    <2>3. k \in (L + 1 - n) .. L /\ lines[k] # Junk BY <2>2, Zenon
    <2>4. \A i \in (L + 1 - n) .. L : i < k => lines[i] = Junk
        <3> SUFFICES ASSUME NEW i \in (L + 1 - n) .. L, i < k, lines[i] # Junk PROVE FALSE
            BY Zenon
        <3>1. k <= i BY <2>2, Zenon
        <3> QED BY <1>0, <2>3, <3>1
    <2>5. ScanRound(lines, key, n, g) = IF lines[k] = key THEN "yes" ELSE g[L - k]
        BY <1>3, Zenon DEF ScanRound, k
    <2> HIDE DEF found, L
    <2>6. CASE lines[k] = key
        BY <1>3, <2>3, <2>5, <2>6, Zenon DEF Scanned, L
    <2>7. CASE lines[k] # key
        <3>1. L - k \in 0 .. L /\ L - k < n BY <1>0, <2>3
        <3>2. ScanRound(lines, key, n, g) = Scanned(lines, key, L - k)
            BY <2>5, <2>7, <3>1, Zenon DEF L
        <3>3. (\E i \in (L + 1 - n) .. L : lines[i] = key)
                <=> (\E i \in (L + 1 - (L - k)) .. L : lines[i] = key)
            <4>1. ASSUME NEW i \in (L + 1 - n) .. L, lines[i] = key
                  PROVE  i \in (L + 1 - (L - k)) .. L
                <5>1. ~(i < k) /\ i # k BY <2>4, <2>7, <4>1, Zenon
                <5> QED BY <1>0, <2>3, <5>1
            <4>2. ASSUME NEW i \in (L + 1 - (L - k)) .. L PROVE i \in (L + 1 - n) .. L
                BY <1>0, <2>3
            <4> QED BY <4>1, <4>2, Zenon
        <3>4. CASE L - k = 0
            <4>1. k = L BY <1>0, <2>3, <3>4
            <4>2. ~\E i \in (L + 1 - (L - k)) .. L : lines[i] = key BY <1>0, <3>4
            <4>3. Scanned(lines, key, n) = "no"
                BY <1>3, <2>3, <3>3, <4>1, <4>2, Zenon DEF Scanned, L
            <4>4. Scanned(lines, key, L - k) = "no" BY <3>4, Zenon DEF Scanned
            <4> QED BY <3>2, <4>3, <4>4, Zenon
        <3>5. CASE L - k # 0
            BY <1>3, <3>2, <3>3, <3>5, Zenon DEF Scanned, L
        <3> QED BY <3>4, <3>5, Zenon
    <2> QED BY <2>6, <2>7, Zenon
<1> HIDE DEF found
<1> QED BY <1>1, <1>2, <1>3, Zenon

\* The search finds a key wherever it is listed, and fails on text that ends
\* in no key without listing it.
LEMMA ScanIs ==
    ASSUME NEW lines, NEW key, Len(lines) \in Nat, key # Junk
    PROVE  ScanKeys(lines, key) = Scanned(lines, key, Len(lines))
<1> DEFINE L == Len(lines)
           Run(g) == g = [n \in 0 .. L |-> ScanRound(lines, key, n, g)]
           f == [n \in 0 .. L |-> Scanned(lines, key, n)]
           h == CHOOSE g : Run(g)
<1>1. Run(f)
    <2>1. \A n \in 0 .. L : f[n] = Scanned(lines, key, n) BY Zenon
    <2>2. f = [n \in 0 .. L |-> f[n]] BY Zenon
    <2> HIDE DEF f
    <2>3. \A n \in 0 .. L : ScanRound(lines, key, n, f) = f[n] BY <2>1, ScanRoundIs, Zenon
    <2>4. [n \in 0 .. L |-> ScanRound(lines, key, n, f)] = [n \in 0 .. L |-> f[n]]
        BY <2>3, Zenon
    <2> QED BY <2>2, <2>4, Zenon
<1>2. Run(h)
    <2> HIDE DEF f, Run
    <2> QED BY <1>1, Zenon
<1>3. ScanKeys(lines, key) = h[L] BY Zenon DEF ScanKeys, ScanRound
<1>4. \A n \in 0 .. L : h[n] = ScanRound(lines, key, n, h)
    <2> HIDE DEF h
    <2> QED BY <1>2, Zenon
<1> HIDE DEF h, L, Run
<1> DEFINE Bad == {n \in 0 .. L : h[n] # Scanned(lines, key, n)}
<1>5. Bad \subseteq Nat /\ L \in Nat BY DEF L
<1>6. Bad = {}
    <2> SUFFICES ASSUME Bad # {} PROVE FALSE BY Zenon
    <2>1. PICK n \in Bad : \A m \in Bad : n <= m
        <3> HIDE DEF Bad
        <3> QED BY <1>5, Least, Zenon
    <2>2. n \in 0 .. L /\ h[n] # Scanned(lines, key, n) BY <2>1, Zenon
    <2>3. \A m \in 0 .. L : m < n => h[m] = Scanned(lines, key, m)
        <3> SUFFICES ASSUME NEW m \in 0 .. L, m < n, h[m] # Scanned(lines, key, m) PROVE FALSE
            BY Zenon
        <3>1. n <= m BY <2>1, Zenon
        <3> QED BY <1>5, <2>2, <3>1
    <2>4. h[n] = Scanned(lines, key, n) BY <1>4, <2>2, <2>3, ScanRoundIs, Zenon DEF L
    <2> QED BY <2>2, <2>4, Zenon
<1>7. L \in 0 .. L BY <1>5
<1>8. h[L] = Scanned(lines, key, L) BY <1>6, <1>7, Zenon
<1> QED BY <1>3, <1>8, Zenon DEF L

-----------------------------------------------------------------------------
(* The search for a pipe (skel.go:100-130). *)

Answers == {"yes", "no", "error"}

\* A line of a text.
Words == STRING \cup {Junk}

\* A from as the plugins make it.
IsFrom(f) ==
    /\ f.match \in Answers /\ f.test \in Answers
    /\ f.keys.lines \in Seq(Words) /\ f.cas.lines \in Seq(Words)

\* What the search for a key comes to is what the text lists.
LEMMA ListedIs ==
    ASSUME NEW text, text.lines \in Seq(Words), ~text.err, NEW key, key # Junk
    PROVE  ScanKeys(text.lines, key) = KeyListed(text, key)
<1> DEFINE l == text.lines
<1>1. /\ Len(l) \in Nat /\ DOMAIN l = 1 .. Len(l) /\ (Len(l) = 0 <=> l = <<>>)
      /\ Len(l) + 1 - Len(l) = 1
    OBVIOUS
<1>2. ScanKeys(l, key) = Scanned(l, key, Len(l)) BY <1>1, ScanIs, Zenon
<1>3. Len(l) = 0 => DOMAIN l = {} BY <1>1
<1>4. Scanned(l, key, Len(l)) =
        IF Len(l) = 0 THEN "no"
        ELSE IF \E i \in 1 .. Len(l) : l[i] = key THEN "yes"
        ELSE IF l[Len(l)] = Junk THEN "error" ELSE "no"
    BY <1>1, Zenon DEF Scanned
<1>5. KeyListed(text, key) =
        IF \E i \in DOMAIN l : l[i] = key THEN "yes"
        ELSE IF l # <<>> /\ l[Len(l)] = Junk THEN "error" ELSE "no"
    BY Zenon DEF KeyListed
<1> HIDE DEF l
<1>6. CASE Len(l) = 0 BY <1>1, <1>2, <1>3, <1>4, <1>5, <1>6, Zenon DEF l
<1>7. CASE Len(l) # 0 BY <1>1, <1>2, <1>4, <1>5, <1>7, Zenon DEF l
<1> QED BY <1>6, <1>7, Zenon

\* A text says yes, no or error.
LEMMA ListedAnswers ==
    ASSUME NEW text, NEW key PROVE KeyListed(text, key) \in Answers
BY DEF KeyListed, Answers

\* What verify finds is the opinion of a from that matches.
LEMMA VerifyIs ==
    ASSUME NEW f, IsFrom(f), NEW c \in Creds
    PROVE  /\ Opinion(f, c) \in Answers
           /\ f.match = "yes" => Verify(f, c) = Opinion(f, c)
           /\ f.match # "yes" => Opinion(f, c) = f.match
<1> DEFINE text == IF c.cert THEN f.cas ELSE f.keys
<1>1. c.method = "password" \/ c.method = "publickey" BY CredForms, Zenon
<1>2. f.match \in Answers /\ f.test \in Answers /\ text.lines \in Seq(Words)
    BY Zenon DEF IsFrom
<1>3. KeyListed(text, c.key) \in Answers BY ListedAnswers, Zenon
<1>4. "no" \in Answers BY DEF Answers
<1>5. f.match # "yes" => Opinion(f, c) = f.match BY Zenon DEF Opinion
<1>6. c.key # Junk BY CredForms, Zenon
<1>7. c.method = "publickey" => c.method # "password" OBVIOUS
<1>8. ASSUME f.match = "yes", c.method = "password"
      PROVE  Opinion(f, c) \in Answers /\ Verify(f, c) = Opinion(f, c)
    BY <1>2, <1>4, <1>8, Zenon DEF Opinion, Verify, VerifyPassword
<1>9. ASSUME f.match = "yes", c.method = "publickey"
      PROVE  Opinion(f, c) \in Answers /\ Verify(f, c) = Opinion(f, c)
    <2>1. Opinion(f, c) = IF f.kind # "publickey" THEN "no" ELSE KeyListed(text, c.key)
        BY <1>7, <1>9, Zenon DEF Opinion
    <2>2. Verify(f, c) = VerifyPublicKey(f, c) BY <1>7, <1>9, Zenon DEF Verify
    <2> HIDE DEF text
    <2>3. CASE f.kind # "publickey"
        BY <1>4, <2>1, <2>2, <2>3, Zenon DEF VerifyPublicKey
    <2>4. CASE f.kind = "publickey" /\ text.err
        <3>1. KeyListed(text, c.key) = "error" BY <2>4, Zenon DEF KeyListed
        <3>2. VerifyPublicKey(f, c) = "error" BY <2>4, Zenon DEF VerifyPublicKey, text
        <3> QED BY <1>3, <2>1, <2>2, <2>4, <3>1, <3>2, Zenon
    <2>5. CASE f.kind = "publickey" /\ ~text.err
        <3>1. ScanKeys(text.lines, c.key) = KeyListed(text, c.key)
            BY <1>2, <1>6, <2>5, ListedIs, Zenon
        <3>2. VerifyPublicKey(f, c) = ScanKeys(text.lines, c.key)
            BY <2>5, Zenon DEF VerifyPublicKey, text
        <3> QED BY <1>3, <2>1, <2>2, <2>5, <3>1, <3>2, Zenon
    <2> QED BY <2>3, <2>4, <2>5, Zenon
<1> QED BY <1>1, <1>2, <1>5, <1>8, <1>9, Zenon

\* What a from that has an opinion makes of a login.
Says(f, c) == IF Opinion(f, c) = "yes" THEN Routed(f.to) ELSE Failed

\* One round of the loop: the opinion of the from, or what comes after it.
LEMMA MatchOneIs ==
    ASSUME NEW f, IsFrom(f), NEW c \in Creds, NEW rest
    PROVE  MatchOne(f, c, rest) = IF Opinion(f, c) = "no" THEN rest ELSE Says(f, c)
<1> DEFINE o == Opinion(f, c)
<1>1. /\ o \in Answers
      /\ f.match = "yes" => Verify(f, c) = o
      /\ f.match # "yes" => o = f.match
    BY VerifyIs, Zenon
<1> HIDE DEF o
<1>2. (f.match = "yes" \/ f.match = "no" \/ f.match = "error") /\ (o = "yes" \/ o = "no" \/ o = "error")
    BY <1>1 DEF IsFrom, Answers
<1>3. "yes" # "no" /\ "yes" # "error" /\ "no" # "error" OBVIOUS
<1>4. CASE f.match = "error"
    BY <1>1, <1>3, <1>4, Zenon DEF MatchOne, Says, o
<1>5. CASE f.match = "no"
    BY <1>1, <1>3, <1>5, Zenon DEF MatchOne, Says, o
<1>6. CASE f.match = "yes"
    <2>1. Verify(f, c) = o BY <1>1, <1>6, Zenon
    <2>2. MatchOne(f, c, rest) = CASE o = "error" -> Failed
                                   [] o = "yes"   -> Routed(f.to)
                                   [] o = "no"    -> rest
        BY <1>3, <1>6, <2>1, Zenon DEF MatchOne
    <2> QED BY <1>2, <1>3, <2>2, Zenon DEF Says, o
<1> QED BY <1>2, <1>4, <1>5, <1>6, Zenon

\* What the last n froms come to: the first of them with an opinion decides.
Opining(froms, c, n) ==
    {i \in (Len(froms) + 1 - n) .. Len(froms) : Opinion(froms[i], c) # "no"}

Searched(froms, c, n) ==
    IF Opining(froms, c, n) = {} THEN Failed
    ELSE Says(froms[FirstOf(Opining(froms, c, n))], c)

\* The loop of Match with n froms left, g being what it comes to with fewer.
MatchRound(froms, c, n, g) ==
    IF n = 0 THEN Failed ELSE MatchOne(froms[Len(froms) + 1 - n], c, g[n - 1])

\* One round of the loop asks the next from.
LEMMA MatchRoundIs ==
    ASSUME NEW froms, NEW c \in Creds, Len(froms) \in Nat,
           \A i \in 1 .. Len(froms) : IsFrom(froms[i]),
           NEW n, NEW g, n \in 0 .. Len(froms),
           n # 0 => g[n - 1] = Searched(froms, c, n - 1)
    PROVE  MatchRound(froms, c, n, g) = Searched(froms, c, n)
<1> DEFINE L == Len(froms)
           i == L + 1 - n
           O(m) == Opining(froms, c, m)
<1>0. L \in Nat /\ n \in 0 .. L /\ n \in Nat OBVIOUS
<1>1. CASE n = 0
    <2>1. (L + 1 - n) .. L = {} BY <1>0, <1>1
    <2>2. O(n) = {} BY <2>1, Zenon DEF Opining
    <2> QED BY <1>1, <2>2, Zenon DEF MatchRound, Searched
<1>2. CASE n # 0
    <2>1. i \in 1 .. L /\ i \in (L + 1 - n) .. L BY <1>0, <1>2
    <2>2. MatchRound(froms, c, n, g)
            = IF Opinion(froms[i], c) = "no" THEN Searched(froms, c, n - 1) ELSE Says(froms[i], c)
        BY <1>2, <2>1, MatchOneIs, Zenon DEF MatchRound
    <2>3. CASE Opinion(froms[i], c) = "no"
        <3>1. ASSUME NEW j PROVE j \in O(n) <=> j \in O(n - 1)
            <4>1. j \in O(n) => j # i BY <2>3, Zenon DEF Opining
            <4>2. j # i => (j \in (L + 1 - n) .. L <=> j \in (L + 1 - (n - 1)) .. L)
                BY <1>0, <1>2
            <4>3. j \in (L + 1 - (n - 1)) .. L => j # i BY <1>0, <1>2
            <4> QED BY <4>1, <4>2, <4>3, Zenon DEF Opining
        <3>2. O(n) = O(n - 1) BY <3>1, ZenonT(40)
        <3> QED BY <2>2, <2>3, <3>2, Zenon DEF Searched
    <2>4. CASE Opinion(froms[i], c) # "no"
        <3>1. i \in O(n) BY <2>1, <2>4, Zenon DEF Opining
        <3>2. \A m \in O(n) : m \in (L + 1 - n) .. L BY Zenon DEF Opining
        <3>3. O(n) \subseteq Nat /\ \A m \in O(n) : i <= m BY <1>0, <2>1, <3>2
        <3>4. FirstOf(O(n)) = i
            <4> HIDE DEF i, O
            <4> QED BY <3>1, <3>3, FirstOfUnique, Zenon
        <3> QED BY <2>2, <2>4, <3>1, <3>4, Zenon DEF Searched
    <2> QED BY <2>3, <2>4, Zenon
<1> QED BY <1>1, <1>2, Zenon

\* The search comes to what the first from with an opinion says.
LEMMA MatchIs ==
    ASSUME NEW froms, NEW c \in Creds, Len(froms) \in Nat,
           \A i \in 1 .. Len(froms) : IsFrom(froms[i])
    PROVE  Match(froms, c) = Searched(froms, c, Len(froms))
<1> DEFINE L == Len(froms)
           Run(g) == g = [n \in 0 .. L |-> MatchRound(froms, c, n, g)]
           f == [n \in 0 .. L |-> Searched(froms, c, n)]
           h == CHOOSE g : Run(g)
<1>0. L \in Nat /\ \A n \in 0 .. L : n # 0 => n - 1 \in 0 .. L OBVIOUS
<1>1. Run(f)
    <2>1. \A n \in 0 .. L : f[n] = Searched(froms, c, n) BY Zenon
    <2>2. f = [n \in 0 .. L |-> f[n]] BY Zenon
    <2> HIDE DEF f
    <2>3. ASSUME NEW n \in 0 .. L PROVE MatchRound(froms, c, n, f) = f[n]
        <3>1. n # 0 => f[n - 1] = Searched(froms, c, n - 1) BY <1>0, <2>1, Zenon
        <3> QED BY <2>1, <3>1, MatchRoundIs, Zenon
    <2>4. [n \in 0 .. L |-> MatchRound(froms, c, n, f)] = [n \in 0 .. L |-> f[n]]
        BY <2>3, Zenon
    <2> QED BY <2>2, <2>4, Zenon
<1>2. Run(h)
    <2> HIDE DEF f, Run
    <2> QED BY <1>1, Zenon
<1>3. Match(froms, c) = h[L] BY Zenon DEF Match, MatchRound
<1>4. \A n \in 0 .. L : h[n] = MatchRound(froms, c, n, h)
    <2> HIDE DEF h
    <2> QED BY <1>2, Zenon
<1> HIDE DEF h, L, Run
<1> DEFINE S == {n \in 0 .. L : h[n] = Searched(froms, c, n)}
<1>5. ASSUME NEW n \in 0 .. L, n # 0 => n - 1 \in S PROVE n \in S
    <2>1. n # 0 => h[n - 1] = Searched(froms, c, n - 1) BY <1>5, Zenon
    <2>2. h[n] = Searched(froms, c, n) BY <1>4, <2>1, MatchRoundIs, Zenon DEF L
    <2> QED BY <2>2, Zenon
<1> HIDE DEF S
<1>6. 0 \in S /\ \A n \in 1 .. L : n - 1 \in S => n \in S BY <1>0, <1>5
<1>7. 0 .. L \subseteq S BY <1>0, <1>6, BoundedInduction, Zenon
<1>8. L \in 0 .. L BY <1>0
<1>9. h[L] = Searched(froms, c, L) BY <1>7, <1>8, Zenon DEF S
<1> QED BY <1>3, <1>9, Zenon DEF L

\* The search takes a login through the one from that admits it, and fails when
\* none does.
LEMMA MatchAdmits ==
    ASSUME NEW froms, NEW c \in Creds, Len(froms) \in Nat, DOMAIN froms = 1 .. Len(froms),
           \A i \in 1 .. Len(froms) : IsFrom(froms[i])
    PROVE  Match(froms, c) =
             IF \E i \in DOMAIN froms : Admits(froms, c, i)
             THEN Routed(froms[CHOOSE i \in DOMAIN froms : Admits(froms, c, i)].to)
             ELSE Failed
<1> DEFINE L == Len(froms)
           O == Opining(froms, c, L)
           k == FirstOf(O)
<1>0. L \in Nat /\ L + 1 - L = 1 OBVIOUS
<1>1. O = {i \in 1 .. L : Opinion(froms[i], c) # "no"} BY <1>0, Zenon DEF Opining
<1>2. Match(froms, c) = IF O = {} THEN Failed ELSE Says(froms[k], c)
    BY MatchIs, Zenon DEF Searched
<1>3. "yes" # "no" OBVIOUS
<1>4. CASE O = {}
    BY <1>1, <1>2, <1>3, <1>4, Zenon DEF Admits, Decides
<1>5. CASE O # {}
    <2>1. O \subseteq Nat /\ \A i \in 1 .. L : i \in Nat BY <1>0, <1>1
    <2>2. k \in O /\ \A m \in O : k <= m
        <3> HIDE DEF O
        <3> QED BY <1>5, <2>1, FirstOfIs, Zenon
    <2> HIDE DEF k, O
    <2>3. k \in 1 .. L /\ Opinion(froms[k], c) # "no" BY <1>1, <2>2, Zenon
    <2>4. ASSUME NEW j \in 1 .. (k - 1) PROVE Opinion(froms[j], c) = "no"
        <3>1. j \in 1 .. L /\ ~(k <= j) BY <1>0, <2>3
        <3> QED BY <1>1, <2>2, <3>1, Zenon
    <2>5. Decides(froms, c, k) BY <2>3, <2>4, Zenon DEF Decides
    <2>6. ASSUME NEW i \in 1 .. L, Decides(froms, c, i) PROVE i = k
        <3>1. i \in O BY <1>1, <2>6, Zenon DEF Decides
        <3>2. k <= i BY <2>2, <3>1, Zenon
        <3>3. k \notin 1 .. (i - 1) BY <2>3, <2>6, Zenon DEF Decides
        <3> QED BY <1>0, <2>3, <3>2, <3>3, SMTT(30)
    <2>7. CASE Opinion(froms[k], c) = "yes"
        <3>1. Admits(froms, c, k) BY <2>5, <2>7, Zenon DEF Admits
        <3>2. \A i \in DOMAIN froms : Admits(froms, c, i) => i = k BY <2>6, Zenon DEF Admits
        <3>3. (CHOOSE i \in DOMAIN froms : Admits(froms, c, i)) = k
            BY <2>3, <3>1, <3>2, Zenon
        <3> QED BY <1>2, <1>5, <2>3, <2>7, <3>1, <3>3, Zenon DEF Says
    <2>8. CASE Opinion(froms[k], c) # "yes"
        <3>1. \A i \in DOMAIN froms : ~Admits(froms, c, i) BY <2>6, <2>8, Zenon DEF Admits
        <3> QED BY <1>2, <1>5, <2>8, <3>1, Zenon DEF Says
    <2> QED BY <2>7, <2>8, Zenon
<1> HIDE DEF O
<1> QED BY <1>4, <1>5, Zenon

\* What a callback answers: the upstream of the one from that admits the login,
\* if a certificate it came with is good.
LEMMA CallbackIs ==
    ASSUME NEW froms, NEW c \in Creds, Len(froms) \in Nat, DOMAIN froms = 1 .. Len(froms),
           \A i \in 1 .. Len(froms) : IsFrom(froms[i])
    PROVE  IF Valid(c) /\ \E i \in DOMAIN froms : Admits(froms, c, i)
           THEN Callback(froms, user, c) =
                  CreateUpstream(froms[CHOOSE i \in DOMAIN froms : Admits(froms, c, i)].to,
                                 user, c.password)
           ELSE Callback(froms, user, c) = Failed
<1> DEFINE E == \E i \in DOMAIN froms : Admits(froms, c, i)
           k == CHOOSE i \in DOMAIN froms : Admits(froms, c, i)
<1>1. Match(froms, c) = IF E THEN Routed(froms[k].to) ELSE Failed BY MatchAdmits, Zenon
<1> HIDE DEF E, k
<1>2. ~Failed.ok BY DEF Failed
<1>3. Routed(froms[k].to).ok /\ Routed(froms[k].to).upstream = froms[k].to BY DEF Routed
<1>4. (c.method = "password" \/ c.method = "publickey") /\ (c.method = "publickey" => c.password = "")
      /\ (c.method = "password" => ~c.cert)
    BY CredForms, Zenon
<1>5. c.method = "publickey" => c.method # "password" OBVIOUS
<1>6. CASE c.method = "password"
    <2>1. Callback(froms, user, c)
            = IF E THEN CreateUpstream(froms[k].to, user, c.password) ELSE Failed
        BY <1>1, <1>2, <1>3, <1>6, Zenon DEF Callback, PasswordCallback
    <2> QED BY <1>4, <1>6, <2>1, Zenon DEF Valid, E, k
<1>7. CASE c.method = "publickey"
    <2>1. Callback(froms, user, c)
            = IF ~Valid(c) THEN Failed
              ELSE IF E THEN CreateUpstream(froms[k].to, user, "") ELSE Failed
        BY <1>1, <1>2, <1>3, <1>5, <1>7, Zenon DEF Callback, PublicKeyCallback, Valid
    <2> QED BY <1>4, <1>7, <2>1, Zenon DEF E, k
<1> QED BY <1>4, <1>6, <1>7, Zenon

-----------------------------------------------------------------------------
(* What the plugins load (bytes.Join of the files and the data). *)

\* Lines joined to lines are lines.
LEMMA JoinLinesKeeps ==
    ASSUME NEW chunks \in Seq(Seq(Words))
    PROVE  JoinLines(chunks) \in Seq(Words)
<1> DEFINE Line(i) == IF i = 1 THEN chunks[i] ELSE <<Junk>> \o chunks[i]
           lined == [i \in DOMAIN chunks |-> Line(i)]
<1>1. Junk \in Words BY Zenon DEF Words
<1>2. ASSUME NEW i \in DOMAIN chunks PROVE Line(i) \in Seq(Words)
    <2> HIDE DEF Junk, Words
    <2> QED BY <1>1
<1>3. Len(chunks) \in Nat /\ DOMAIN chunks = 1 .. Len(chunks) OBVIOUS
<1>4. lined \in [1 .. Len(chunks) -> Seq(Words)]
    <2> HIDE DEF Line
    <2> QED BY <1>2, <1>3, Zenon
<1> HIDE DEF lined
<1>5. lined \in Seq(Seq(Words)) BY <1>3, <1>4, MadeIn, Zenon
<1>6. Flatten(lined) \in Seq(Words) BY <1>5, FlattenKeeps
<1> QED BY <1>6, Zenon DEF JoinLines, lined

-----------------------------------------------------------------------------
(* The froms of the yaml plugin (plugin/yaml/yaml.go, skel.go). *)

\* What a field of the configuration loads is lines of text.
LEMMA YamlLoads ==
    ASSUME NEW l \in Y!ListOrString, NEW name
    PROVE  Y!LoadFileOrDecodeMany(l, name).lines \in Seq(Words)
<1> DEFINE it == l.items
           Load(i) == Y!LoadFileOrDecode(it[i], name)
           One(i) == IF it[i].state = "none" THEN <<>> ELSE <<Load(i).lines>>
           found == [i \in DOMAIN it |-> One(i)]
           chunks == Flatten(found)
<1>1. it \in Seq(Y!Source) BY DEF Y!ListOrString
<1>2. ASSUME NEW i \in DOMAIN it PROVE Load(i).lines \in Seq(Words)
    <2>1. it[i] \in Y!Source BY <1>1
    <2>2. it[i].lines \in Seq(Words) BY <2>1 DEF Y!Source, Words
    <2>3. <<>> \in Seq(Words) OBVIOUS
    <2>4. \/ Load(i) = Y!LoadError \/ Load(i) = Y!Text(<<>>) \/ Load(i) = Y!Text(it[i].lines)
        BY Zenon DEF Y!LoadFileOrDecode
    <2>5. /\ Y!LoadError.lines = <<>> /\ Y!Text(<<>>).lines = <<>>
          /\ Y!Text(it[i].lines).lines = it[i].lines
        BY DEF Y!LoadError, Y!Text
    <2> QED BY <2>2, <2>3, <2>4, <2>5, Zenon
<1>3. ASSUME NEW i \in DOMAIN it PROVE One(i) \in Seq(Seq(Words))
    <2> DEFINE x == Load(i).lines
    <2>1. x \in Seq(Words) BY <1>2, Zenon
    <2> HIDE DEF x
    <2>2. <<x>> \in Seq(Seq(Words)) /\ <<>> \in Seq(Seq(Words)) BY <2>1
    <2>3. One(i) = <<x>> \/ One(i) = <<>> BY Zenon DEF x
    <2> HIDE DEF One
    <2> QED BY <2>2, <2>3, Zenon
<1>4. found \in Seq(Seq(Seq(Words)))
    <2> HIDE DEF One, it
    <2> QED BY <1>1, <1>3
<1> HIDE DEF found
<1>5. chunks \in Seq(Seq(Words)) BY <1>4, FlattenKeeps
<1> HIDE DEF chunks
<1>7. JoinLines(chunks) \in Seq(Words) BY <1>5, JoinLinesKeeps
<1>8. Y!JoinLines(chunks) = JoinLines(chunks)
    BY Zenon DEF Y!JoinLines, JoinLines, Y!Flatten, Flatten, Y!Junk, Junk
<1>9. chunks = Y!Flatten(found) BY Zenon DEF chunks, Y!Flatten, Flatten
<1>10. \/ Y!LoadFileOrDecodeMany(l, name) = Y!LoadError
       \/ Y!LoadFileOrDecodeMany(l, name) = Y!Text(Y!JoinLines(chunks))
    BY <1>9, Zenon DEF Y!LoadFileOrDecodeMany, found
<1>11. /\ Y!LoadError.lines = <<>> /\ <<>> \in Seq(Words)
       /\ Y!Text(Y!JoinLines(chunks)).lines = Y!JoinLines(chunks)
    BY DEF Y!LoadError, Y!Text
<1> QED BY <1>7, <1>8, <1>10, <1>11, Zenon

YamlPipe == [from : Seq(Y!YamlFrom), to : Y!YamlTo]

\* MatchConn answers yes, no or error.
LEMMA YamlMatched == ASSUME NEW from, NEW u PROVE Y!Matched(from, u) \in Answers
<1>1. "yes" \in Answers /\ "no" \in Answers /\ "error" \in Answers BY Zenon DEF Answers
<1> HIDE DEF Answers
<1> QED BY <1>1, Zenon DEF Y!Matched

\* The froms of one pipe.
LEMMA YamlFromIs ==
    ASSUME NEW pipe \in YamlPipe, NEW u
    PROVE  /\ IsSlice(Y!From(pipe, u))
           /\ \A j \in 1 .. Len(Y!From(pipe, u)) :
                /\ IsFrom(Y!From(pipe, u)[j])
                /\ Y!From(pipe, u)[j].to = Y!MatchConn(pipe.from[j], pipe.to, u)
<1> DEFINE fs == pipe.from
           One(i) == [kind  |-> IF Y!SupportPublicKey(fs[i]) THEN "publickey" ELSE "password",
                      match |-> Y!Matched(fs[i], u), to |-> Y!MatchConn(fs[i], pipe.to, u),
                      test  |-> "yes",
                      keys  |-> Y!LoadFileOrDecodeMany(fs[i].keys, u),
                      cas   |-> Y!LoadFileOrDecodeMany(fs[i].cas, u)]
           s == [i \in DOMAIN fs |-> One(i)]
           T == {One(i) : i \in DOMAIN fs}
<1>1. fs \in Seq(Y!YamlFrom) BY DEF YamlPipe
<1>2. Len(fs) \in Nat /\ DOMAIN fs = 1 .. Len(fs) /\ \A i \in DOMAIN fs : fs[i] \in Y!YamlFrom
    <2> HIDE DEF fs
    <2> QED BY <1>1
<1>3. Y!From(pipe, u) = s BY Zenon DEF Y!From
<1>4. s \in [1 .. Len(fs) -> T]
    <2> HIDE DEF One, fs
    <2> QED BY <1>2, Zenon
<1>5. IsSlice(s) /\ Len(s) = Len(fs)
    <2> HIDE DEF s, T, fs
    <2> QED BY <1>2, <1>4, MadeIn, Zenon
<1>6. ASSUME NEW j \in DOMAIN fs PROVE IsFrom(One(j)) /\ One(j).to = Y!MatchConn(fs[j], pipe.to, u)
    <2>1. fs[j] \in Y!YamlFrom BY <1>2, Zenon
    <2>2. fs[j].keys \in Y!ListOrString /\ fs[j].cas \in Y!ListOrString
        <3> HIDE DEF fs
        <3> QED BY <2>1 DEF Y!YamlFrom
    <2>3. /\ Y!LoadFileOrDecodeMany(fs[j].keys, u).lines \in Seq(Words)
          /\ Y!LoadFileOrDecodeMany(fs[j].cas, u).lines \in Seq(Words)
        BY <2>2, YamlLoads, Zenon
    <2>4. Y!Matched(fs[j], u) \in Answers BY YamlMatched, Zenon
    <2>5. "yes" \in Answers BY Zenon DEF Answers
    <2>6. /\ One(j).match = Y!Matched(fs[j], u) /\ One(j).test = "yes"
          /\ One(j).keys = Y!LoadFileOrDecodeMany(fs[j].keys, u)
          /\ One(j).cas = Y!LoadFileOrDecodeMany(fs[j].cas, u)
          /\ One(j).to = Y!MatchConn(fs[j], pipe.to, u)
        BY Zenon
    <2> HIDE DEF One
    <2> QED BY <2>3, <2>4, <2>5, <2>6, Zenon DEF IsFrom
<1>7. \A j \in DOMAIN fs : s[j] = One(j)
    <2> HIDE DEF One, fs
    <2> QED BY Zenon
<1> HIDE DEF s, One, T
<1> QED BY <1>2, <1>3, <1>5, <1>6, <1>7, Zenon

\* The pipes of the configuration come from its files.
LEMMA YamlPipesOf ==
    ASSUME NEW files \in Y!Configs
    PROVE  /\ IsSlice(Y!LoadConfig(files).pipes)
           /\ \A k \in 1 .. Len(Y!LoadConfig(files).pipes) :
                /\ Y!LoadConfig(files).pipes[k] \in YamlPipe
                /\ \E a \in DOMAIN files : \E b \in DOMAIN files[a].pipes :
                     Y!LoadConfig(files).pipes[k] = files[a].pipes[b]
<1> DEFINE c == Y!LoadConfig(files)
           ss == [i \in DOMAIN files |-> files[i].pipes]
           all == Flatten(ss)
<1>1. /\ Len(files) \in Nat /\ DOMAIN files = 1 .. Len(files)
      /\ \A i \in DOMAIN files : files[i].pipes \in Seq(YamlPipe)
    <2> DEFINE F == [perm : STRING, pipes : Seq(YamlPipe)]
    <2>1. files \in Seq(F) BY Zenon DEF Y!Configs, YamlPipe
    <2>2. \A x \in F : x.pipes \in Seq(YamlPipe) BY Zenon
    <2> HIDE DEF F
    <2>3. Len(files) \in Nat /\ DOMAIN files = 1 .. Len(files) /\ \A i \in DOMAIN files : files[i] \in F
        BY <2>1
    <2> QED BY <2>2, <2>3, Zenon
<1>2. ss \in [1 .. Len(files) -> Seq(YamlPipe)] BY <1>1, Zenon
<1>3. ss \in Seq(Seq(YamlPipe)) /\ Len(ss) = Len(files) /\ IsSlice(ss)
    <2> HIDE DEF ss
    <2> QED BY <1>1, <1>2, MadeIn, Zenon
<1>4. \A i \in 1 .. Len(files) : ss[i] = files[i].pipes BY <1>1, Zenon
<1> HIDE DEF ss
<1>5. all \in Seq(YamlPipe) BY <1>3, FlattenKeeps
<1>6. ASSUME NEW s \in Seq(YamlPipe) PROVE IsSlice(s) /\ DOMAIN s = 1 .. Len(s)
    BY DEF IsSlice
<1>7. \A i \in 1 .. Len(all) :
        \E k \in 1 .. Len(ss) : \E j \in 1 .. Len(ss[k]) : all[i] = ss[k][j]
    <2>1. \A k \in 1 .. Len(ss) : IsSlice(ss[k]) BY <1>1, <1>3, <1>4, <1>6, Zenon
    <2> QED BY <1>3, <2>1, FlattenOf, Zenon
<1>8. CASE c.err
    <2>1. c.pipes = <<>> BY <1>8 DEF Y!LoadConfig
    <2>2. IsSlice(<<>>) /\ 1 .. Len(<<>>) = {} BY DEF IsSlice
    <2> QED BY <2>1, <2>2, Zenon
<1>9. CASE ~c.err
    <2>1. c.pipes = Y!Flatten([i \in DOMAIN files |-> files[i].pipes])
        BY <1>9 DEF Y!LoadConfig
    <2>2. c.pipes = all BY <2>1, Zenon DEF Y!Flatten, Flatten, ss
    <2>3. IsSlice(all) /\ \A i \in 1 .. Len(all) : all[i] \in YamlPipe BY <1>5 DEF IsSlice
    <2>4. ASSUME NEW i \in 1 .. Len(all)
          PROVE  \E a \in DOMAIN files : \E b \in DOMAIN files[a].pipes : all[i] = files[a].pipes[b]
        <3>1. PICK k \in 1 .. Len(ss) : \E j \in 1 .. Len(ss[k]) : all[i] = ss[k][j]
            BY <1>7, Zenon
        <3>2. PICK j \in 1 .. Len(ss[k]) : all[i] = ss[k][j] BY <3>1, Zenon
        <3>3. ss[k] = files[k].pipes /\ k \in DOMAIN files BY <1>1, <1>3, <1>4, Zenon
        <3>4. j \in DOMAIN files[k].pipes BY <1>1, <1>6, <3>3, Zenon
        <3> QED BY <3>2, <3>3, <3>4, Zenon
    <2> HIDE DEF all
    <2>5. /\ IsSlice(c.pipes) /\ \A k \in 1 .. Len(c.pipes) : c.pipes[k] \in YamlPipe
          /\ \A k \in 1 .. Len(c.pipes) : \E a \in DOMAIN files :
                \E b \in DOMAIN files[a].pipes : c.pipes[k] = files[a].pipes[b]
        BY <2>2, <2>3, <2>4, Zenon
    <2> QED BY <2>5, Zenon
<1> QED BY <1>8, <1>9, Zenon

\* A list of froms as the search takes it.
FromsOk(f) ==
    /\ Len(f) \in Nat /\ DOMAIN f = 1 .. Len(f)
    /\ \A i \in 1 .. Len(f) : IsFrom(f[i])

\* The froms of all the pipes, from those of each.
LEMMA FromsOf ==
    ASSUME NEW ss, IsSlice(ss),
           \A k \in 1 .. Len(ss) : IsSlice(ss[k]) /\ \A j \in 1 .. Len(ss[k]) : IsFrom(ss[k][j])
    PROVE  FromsOk(Flatten(ss))
<1>1. /\ Len(Flatten(ss)) \in Nat /\ DOMAIN Flatten(ss) = 1 .. Len(Flatten(ss))
      /\ \A i \in 1 .. Len(Flatten(ss)) :
            \E k \in 1 .. Len(ss) : \E j \in 1 .. Len(ss[k]) : Flatten(ss)[i] = ss[k][j]
    BY FlattenOf, Zenon
<1>2. ASSUME NEW i \in 1 .. Len(Flatten(ss)) PROVE IsFrom(Flatten(ss)[i])
    <2>1. PICK k \in 1 .. Len(ss) : \E j \in 1 .. Len(ss[k]) : Flatten(ss)[i] = ss[k][j]
        BY <1>1, Zenon
    <2>2. PICK j \in 1 .. Len(ss[k]) : Flatten(ss)[i] = ss[k][j] BY <2>1, Zenon
    <2> QED BY <2>2, Zenon
<1> QED BY <1>1, <1>2, Zenon DEF FromsOk

\* An upstream as one of the pipes of the configuration names it.
OfPipe(files, u, to) ==
    \E a \in DOMAIN files : \E b \in DOMAIN files[a].pipes : \E from :
        to = Y!MatchConn(from, files[a].pipes[b].to, u)

\* The froms of the yaml plugin, and the pipe each comes from.
LEMMA YamlFroms ==
    ASSUME NEW files \in Y!Configs, NEW u
    PROVE  /\ FromsOk(Y!ListPipe(files, u).froms)
           /\ \A i \in DOMAIN Y!ListPipe(files, u).froms :
                OfPipe(files, u, Y!ListPipe(files, u).froms[i].to)
<1> DEFINE ps == Y!LoadConfig(files).pipes
           ss == [k \in DOMAIN ps |-> Y!From(ps[k], u)]
           f == Y!ListPipe(files, u).froms
           all == Flatten(ss)
<1>1. /\ IsSlice(ps)
      /\ \A k \in 1 .. Len(ps) :
            /\ ps[k] \in YamlPipe
            /\ \E a \in DOMAIN files : \E b \in DOMAIN files[a].pipes : ps[k] = files[a].pipes[b]
    BY YamlPipesOf, Zenon
<1>2. f = Y!Flatten(ss) BY Zenon DEF Y!ListPipe
<1> HIDE DEF ps, f
<1>3. Len(ps) \in Nat /\ DOMAIN ps = 1 .. Len(ps)
    <2>1. Len(ps) \in Nat /\ ps = [i \in 1 .. Len(ps) |-> ps[i]] BY <1>1, Zenon DEF IsSlice
    <2> QED BY <2>1, Zenon
<1>4. ss \in [1 .. Len(ps) -> {ss[k] : k \in DOMAIN ps}] BY <1>3, Zenon
<1>5. \A k \in 1 .. Len(ps) : ss[k] = Y!From(ps[k], u) BY <1>3, Zenon
<1>6. f = all BY <1>2, Zenon DEF Y!Flatten, Flatten
<1> HIDE DEF ss
<1>7. IsSlice(ss) /\ Len(ss) = Len(ps) BY <1>3, <1>4, MadeIn, Zenon
<1>8. ASSUME NEW k \in 1 .. Len(ss)
      PROVE  /\ IsSlice(ss[k])
             /\ \A j \in 1 .. Len(ss[k]) :
                  IsFrom(ss[k][j]) /\ ss[k][j].to = Y!MatchConn(ps[k].from[j], ps[k].to, u)
    <2>1. k \in 1 .. Len(ps) BY <1>7, Zenon
    <2>2. ps[k] \in YamlPipe /\ ss[k] = Y!From(ps[k], u) BY <1>1, <1>5, <2>1, Zenon
    <2> DEFINE g == Y!From(ps[k], u)
    <2>3. /\ IsSlice(g)
          /\ \A j \in 1 .. Len(g) :
               IsFrom(g[j]) /\ g[j].to = Y!MatchConn(ps[k].from[j], ps[k].to, u)
        BY <2>2, YamlFromIs, Zenon
    <2>4. ss[k] = g BY <2>2, Zenon
    <2> HIDE DEF g
    <2> QED BY <2>3, <2>4, Zenon
<1>9. FromsOk(all) BY <1>7, <1>8, FromsOf, Zenon
<1>10. \A i \in 1 .. Len(all) :
         \E k \in 1 .. Len(ss) : \E j \in 1 .. Len(ss[k]) : all[i] = ss[k][j]
    BY <1>7, <1>8, FlattenOf, Zenon
<1> HIDE DEF all
<1>11. ASSUME NEW i \in DOMAIN all PROVE OfPipe(files, u, all[i].to)
    <2>1. i \in 1 .. Len(all) BY <1>9, Zenon DEF FromsOk
    <2>2. PICK k \in 1 .. Len(ss) : \E j \in 1 .. Len(ss[k]) : all[i] = ss[k][j] BY <1>10, <2>1, Zenon
    <2>3. PICK j \in 1 .. Len(ss[k]) : all[i] = ss[k][j] BY <2>2, Zenon
    <2>4. all[i].to = Y!MatchConn(ps[k].from[j], ps[k].to, u) BY <1>8, <2>3, Zenon
    <2>5. PICK a \in DOMAIN files : \E b \in DOMAIN files[a].pipes : ps[k] = files[a].pipes[b]
        BY <1>1, <1>7, Zenon
    <2>6. PICK b \in DOMAIN files[a].pipes : ps[k] = files[a].pipes[b] BY <2>5, Zenon
    <2> QED BY <2>4, <2>6, Zenon DEF OfPipe
<1> QED BY <1>6, <1>9, <1>11, Zenon DEF f

-----------------------------------------------------------------------------
(* The froms of the other plugins. *)

\* A decoded label is lines of text (docker/skel.go).
LEMMA DockerDecodes ==
    ASSUME NEW l \in D!Source PROVE D!Decode(l).lines \in Seq(Words)
<1>1. l.lines \in Seq(Words) BY DEF D!Source, Words
<1>2. <<>> \in Seq(Words) OBVIOUS
<1>3. D!Decode(l) = D!LoadError \/ D!Decode(l) = D!Text(<<>>) \/ D!Decode(l) = D!Text(l.lines)
    <2>1. "none" # "bad" OBVIOUS
    <2> QED BY <2>1, Zenon DEF D!Decode
<1>4. /\ D!LoadError.lines = <<>> /\ D!Text(<<>>).lines = <<>>
      /\ D!Text(l.lines).lines = l.lines
    BY DEF D!LoadError, D!Text
<1> QED BY <1>1, <1>2, <1>3, <1>4, Zenon

\* The froms of the docker plugin: one for each container that has a pipe.
LEMMA DockerFroms ==
    ASSUME NEW cs \in D!Configs, NEW u
    PROVE  FromsOk(D!ListPipe(cs, u).froms)
<1> DEFINE One(i) == D!From(D!ToPipe(cs[i]), u)
           Pick(i) == IF D!ListOne(cs[i]) = "pipe" THEN <<One(i)>> ELSE <<>>
           ss == [i \in DOMAIN cs |-> Pick(i)]
           C == [username : STRING, cuser : STRING, keys : D!Source, cas : D!Source,
                 private : STRING, exec : BOOLEAN, networks : Nat, network : STRING,
                 host : STRING]
<1>1. cs \in Seq(C) BY Zenon DEF D!Configs
<1>2. \A c \in C : c.keys \in D!Source /\ c.cas \in D!Source BY Zenon
<1>3. \A c \in C : D!ToPipe(c).keys = c.keys /\ D!ToPipe(c).cas = c.cas
    BY Zenon DEF D!ToPipe
<1> HIDE DEF C
<1>4. Len(cs) \in Nat /\ DOMAIN cs = 1 .. Len(cs) /\ \A i \in DOMAIN cs : cs[i] \in C
    BY <1>1
<1>5. ASSUME NEW i \in DOMAIN cs PROVE IsFrom(One(i))
    <2> DEFINE p == D!ToPipe(cs[i])
    <2>1. p.keys \in D!Source /\ p.cas \in D!Source BY <1>2, <1>3, <1>4, Zenon
    <2> HIDE DEF p
    <2>2. D!Decode(p.keys).lines \in Seq(Words) /\ D!Decode(p.cas).lines \in Seq(Words)
        BY <2>1, DockerDecodes, Zenon
    <2>3. "yes" \in Answers /\ "no" \in Answers BY Zenon DEF Answers
    <2> HIDE DEF Answers
    <2>4. /\ D!From(p, u).match = "yes" \/ D!From(p, u).match = "no"
          /\ D!From(p, u).test = "yes"
          /\ D!From(p, u).keys = D!Decode(p.keys) /\ D!From(p, u).cas = D!Decode(p.cas)
        BY Zenon DEF D!From
    <2>5. IsFrom(D!From(p, u)) BY <2>2, <2>3, <2>4, Zenon DEF IsFrom
    <2> QED BY <2>5, Zenon DEF p
<1> HIDE DEF One
<1>6. ASSUME NEW i \in DOMAIN cs
      PROVE  IsSlice(Pick(i)) /\ \A j \in 1 .. Len(Pick(i)) : IsFrom(Pick(i)[j])
    <2> DEFINE x == One(i)
    <2>1. IsFrom(x) BY <1>5, Zenon
    <2> HIDE DEF x
    <2>2. IsSlice(<<x>>) /\ \A j \in 1 .. Len(<<x>>) : j = 1 /\ <<x>>[1] = x BY DEF IsSlice
    <2>3. IsSlice(<<>>) /\ 1 .. Len(<<>>) = {} BY DEF IsSlice
    <2>4. Pick(i) = <<x>> \/ Pick(i) = <<>> BY Zenon DEF x
    <2> HIDE DEF Pick
    <2> QED BY <2>1, <2>2, <2>3, <2>4, Zenon
<1> HIDE DEF Pick
<1>7. ss \in [1 .. Len(cs) -> {Pick(i) : i \in DOMAIN cs}] BY <1>4, Zenon
<1>8. \A i \in DOMAIN cs : ss[i] = Pick(i) BY Zenon
<1>9. D!ListPipe(cs, u).froms = D!Flatten(ss) BY Zenon DEF D!ListPipe, Pick, One
<1>10. D!Flatten(ss) = Flatten(ss) BY Zenon DEF D!Flatten, Flatten
<1> HIDE DEF ss
<1>11. IsSlice(ss) /\ Len(ss) = Len(cs) BY <1>4, <1>7, MadeIn, Zenon
<1>12. FromsOk(Flatten(ss)) BY <1>4, <1>6, <1>8, <1>11, FromsOf, Zenon
<1> QED BY <1>9, <1>10, <1>12, Zenon

\* A file that is read is lines of text (workingdir/workingdir.go).
LEMMA WorkingdirReads ==
    ASSUME NEW file \in W!File PROVE W!Readfile(opts, file).lines \in Seq(Words)
<1>1. file.lines \in Seq(Words) BY DEF W!File, Words
<1>2. <<>> \in Seq(Words) OBVIOUS
<1>3. W!Readfile(opts, file) = W!LoadError \/ W!Readfile(opts, file) = W!Text(file.lines)
    BY Zenon DEF W!Readfile
<1>4. W!LoadError.lines = <<>> /\ W!Text(file.lines).lines = file.lines
    BY DEF W!LoadError, W!Text
<1> QED BY <1>1, <1>2, <1>3, <1>4, Zenon

\* The froms of the workingdir plugin: one for each directory that has a pipe.
LEMMA WorkingdirFroms ==
    ASSUME NEW root \in W!Configs, NEW u \in Users
    PROVE  FromsOk(W!ListPipe(opts, root, u).froms)
<1> DEFINE dirs == root[u]
           walk == IF opts.recursive \/ dirs = <<>> THEN dirs ELSE <<Head(dirs)>>
           Pick(i) == W!DirPipe(opts, walk[i])
           ss == [i \in DOMAIN walk |-> Pick(i)]
<1>1. dirs \in Seq(W!Dir) BY Zenon DEF W!Configs
<1>2. \A d \in W!Dir : d.keys \in W!File BY Zenon DEF W!Dir
<1>3. walk \in Seq(W!Dir)
    <2> HIDE DEF dirs
    <2>1. dirs # <<>> => <<Head(dirs)>> \in Seq(W!Dir) BY <1>1
    <2> QED BY <1>1, <2>1, Zenon
<1> HIDE DEF walk
<1>4. Len(walk) \in Nat /\ DOMAIN walk = 1 .. Len(walk) /\ \A i \in DOMAIN walk : walk[i] \in W!Dir
    BY <1>3
<1>6. ASSUME NEW i \in DOMAIN walk
      PROVE  IsSlice(Pick(i)) /\ \A j \in 1 .. Len(Pick(i)) : IsFrom(Pick(i)[j])
    <2> DEFINE d == walk[i]
               up == W!ParseUpstreamFile(W!Readfile(opts, d.upstream).lines, d.terminated)
               x == [kind |-> W!Kind(d), match |-> "yes", to |-> W!MatchConn(opts, d, up),
                     test |-> "yes", keys |-> W!Readfile(opts, d.keys), cas |-> W!Text(<<>>)]
    <2>1. Pick(i) = <<x>> \/ Pick(i) = <<>> BY Zenon DEF W!DirPipe
    <2>2. /\ x.match = "yes" /\ x.test = "yes" /\ x.keys = W!Readfile(opts, d.keys)
          /\ x.cas = W!Text(<<>>)
        BY Zenon
    <2> HIDE DEF x
    <2>3. W!Readfile(opts, d.keys).lines \in Seq(Words) BY <1>2, <1>4, WorkingdirReads, Zenon
    <2>4. W!Text(<<>>).lines = <<>> /\ <<>> \in Seq(Words) BY DEF W!Text
    <2>5. "yes" \in Answers BY Zenon DEF Answers
    <2>6. IsFrom(x) BY <2>2, <2>3, <2>4, <2>5, Zenon DEF IsFrom
    <2>7. IsSlice(<<x>>) /\ \A j \in 1 .. Len(<<x>>) : j = 1 /\ <<x>>[1] = x BY DEF IsSlice
    <2>8. IsSlice(<<>>) /\ 1 .. Len(<<>>) = {} BY DEF IsSlice
    <2> HIDE DEF Pick
    <2> QED BY <2>1, <2>6, <2>7, <2>8, Zenon
<1> HIDE DEF Pick
<1>7. ss \in [1 .. Len(walk) -> {Pick(i) : i \in DOMAIN walk}] BY <1>4, Zenon
<1>8. \A i \in DOMAIN walk : ss[i] = Pick(i) BY Zenon
<1>9. W!ListPipe(opts, root, u).froms = W!Flatten(ss) BY Zenon DEF W!ListPipe, Pick, walk
<1>10. W!Flatten(ss) = Flatten(ss) BY Zenon DEF W!Flatten, Flatten
<1> HIDE DEF ss
<1>11. IsSlice(ss) /\ Len(ss) = Len(walk) BY <1>4, <1>7, MadeIn, Zenon
<1>12. FromsOk(Flatten(ss)) BY <1>4, <1>6, <1>8, <1>11, FromsOf, Zenon
<1> QED BY <1>9, <1>10, <1>12, Zenon

\* Data and a file are loaded as chunks of lines (kubernetes/kubernetes.go).
LEMMA KubeChunks ==
    ASSUME NEW data \in K!Source, NEW file \in K!Source
    PROVE  K!LoadStringAndFile(data, file).chunks \in Seq(Seq(Words))
<1> DEFINE a == IF K!Given(data) THEN <<data.lines>> ELSE <<>>
           b == IF K!Given(file) THEN <<file.lines>> ELSE <<>>
<1>1. data.lines \in Seq(Words) /\ file.lines \in Seq(Words) BY DEF K!Source, Words
<1>2. <<data.lines>> \in Seq(Seq(Words)) /\ <<file.lines>> \in Seq(Seq(Words)) BY <1>1
<1>3. <<>> \in Seq(Seq(Words)) OBVIOUS
<1>4. a \in Seq(Seq(Words)) /\ b \in Seq(Seq(Words)) BY <1>2, <1>3, Zenon
<1>5. \/ K!LoadStringAndFile(data, file) = [err |-> TRUE, chunks |-> <<>>]
      \/ K!LoadStringAndFile(data, file) = [err |-> FALSE, chunks |-> a \o b]
    BY Zenon DEF K!LoadStringAndFile
<1> HIDE DEF a, b
<1>6. a \o b \in Seq(Seq(Words)) BY <1>4, SMTT(30)
<1>7. \/ K!LoadStringAndFile(data, file).chunks = <<>>
      \/ K!LoadStringAndFile(data, file).chunks = a \o b
    BY <1>5
<1> QED BY <1>3, <1>6, <1>7, Zenon

\* The keys of a from are lines of text.
LEMMA KubeKeys ==
    ASSUME NEW from \in K!KubeFrom PROVE K!AuthorizedKeys(from).lines \in Seq(Words)
<1> DEFINE l == K!LoadStringAndFile(from.keysData, from.keysFile).chunks
           s == IF from.keysSecret.state = "ok" THEN <<from.keysSecret.lines>> ELSE <<>>
<1>1. from.keysData \in K!Source /\ from.keysFile \in K!Source /\ from.keysSecret \in K!Source
    BY DEF K!KubeFrom
<1>2. l \in Seq(Seq(Words)) BY <1>1, KubeChunks, Zenon
<1>3. from.keysSecret.lines \in Seq(Words) BY <1>1 DEF K!Source, Words
<1>4. <<from.keysSecret.lines>> \in Seq(Seq(Words)) /\ <<>> \in Seq(Seq(Words)) BY <1>3
<1>5. s \in Seq(Seq(Words)) BY <1>4, Zenon
<1>6. \/ K!AuthorizedKeys(from) = K!LoadError
      \/ K!AuthorizedKeys(from) = K!Text(K!JoinLines(l \o s))
    BY Zenon DEF K!AuthorizedKeys
<1> HIDE DEF l, s
<1>7. l \o s \in Seq(Seq(Words)) BY <1>2, <1>5
<1>8. JoinLines(l \o s) \in Seq(Words) BY <1>7, JoinLinesKeeps, Zenon
<1>9. K!JoinLines(l \o s) = JoinLines(l \o s)
    BY Zenon DEF K!JoinLines, JoinLines, K!Flatten, Flatten, K!Junk, Junk
<1>10. /\ K!LoadError.lines = <<>> /\ <<>> \in Seq(Words)
       /\ K!Text(K!JoinLines(l \o s)).lines = K!JoinLines(l \o s)
    BY DEF K!LoadError, K!Text
<1> QED BY <1>6, <1>8, <1>9, <1>10, Zenon

\* The froms of the kubernetes plugin.
LEMMA KubeFroms ==
    ASSUME NEW pipes \in K!Configs, NEW u, NEW pw
    PROVE  FromsOk(K!ListPipe(pipes, u, pw).froms)
<1> DEFINE P == [from : Seq(K!KubeFrom), to : K!KubeTo, exec : STRING]
           ss == [i \in DOMAIN pipes |-> K!From(pipes[i], u, pw)]
<1>1. pipes \in Seq(P) BY Zenon DEF K!Configs
<1>2. \A p \in P : p.from \in Seq(K!KubeFrom) BY Zenon
<1> HIDE DEF P
<1>3. Len(pipes) \in Nat /\ DOMAIN pipes = 1 .. Len(pipes) /\ \A i \in DOMAIN pipes : pipes[i] \in P
    BY <1>1
<1>4. "yes" \in Answers /\ "no" \in Answers /\ "error" \in Answers BY Zenon DEF Answers
<1>5. ASSUME NEW pipe \in P
      PROVE  /\ IsSlice(K!From(pipe, u, pw))
             /\ \A j \in 1 .. Len(K!From(pipe, u, pw)) : IsFrom(K!From(pipe, u, pw)[j])
    <2> DEFINE fs == pipe.from
               Known(i) == K!Given(fs[i].keysData) \/ K!Given(fs[i].keysFile) \/ K!Given(fs[i].keysSecret)
               One(i) == [kind  |-> IF Known(i) THEN "publickey" ELSE "password",
                          match |-> K!Matched(pipe, fs[i], u), to |-> K!MatchConn(pipe, fs[i], u),
                          test  |-> K!TestPassword(fs[i], pw), keys |-> K!AuthorizedKeys(fs[i]),
                          cas   |-> K!Text(<<>>)]
               s == [i \in DOMAIN fs |-> One(i)]
               T == {One(i) : i \in DOMAIN fs}
    <2>1. fs \in Seq(K!KubeFrom) BY <1>2, Zenon
    <2>2. Len(fs) \in Nat /\ DOMAIN fs = 1 .. Len(fs) /\ \A i \in DOMAIN fs : fs[i] \in K!KubeFrom
        <3> HIDE DEF fs
        <3> QED BY <2>1
    <2>3. K!From(pipe, u, pw) = s BY Zenon DEF K!From
    <2>4. s \in [1 .. Len(fs) -> T]
        <3> HIDE DEF One, fs
        <3> QED BY <2>2, Zenon
    <2>5. IsSlice(s) /\ Len(s) = Len(fs)
        <3> HIDE DEF s, T, fs
        <3> QED BY <2>2, <2>4, MadeIn, Zenon
    <2>6. ASSUME NEW j \in DOMAIN fs PROVE IsFrom(One(j))
        <3>1. K!AuthorizedKeys(fs[j]).lines \in Seq(Words) BY <2>2, KubeKeys, Zenon
        <3>2. K!Text(<<>>).lines = <<>> /\ <<>> \in Seq(Words) BY DEF K!Text
        <3>3. /\ One(j).match = K!Matched(pipe, fs[j], u)
              /\ One(j).test = K!TestPassword(fs[j], pw)
              /\ One(j).keys = K!AuthorizedKeys(fs[j]) /\ One(j).cas = K!Text(<<>>)
            BY Zenon
        <3> HIDE DEF Answers
        <3>4. K!Matched(pipe, fs[j], u) \in Answers BY <1>4, Zenon DEF K!Matched
        <3>5. K!TestPassword(fs[j], pw) \in Answers BY <1>4, Zenon DEF K!TestPassword
        <3> HIDE DEF One
        <3> QED BY <3>1, <3>2, <3>3, <3>4, <3>5, ZenonT(40) DEF IsFrom
    <2>7. \A j \in DOMAIN fs : s[j] = One(j)
        <3> HIDE DEF One, fs
        <3> QED BY Zenon
    <2> HIDE DEF s, One, T
    <2> QED BY <2>2, <2>3, <2>5, <2>6, <2>7, Zenon
<1>6. ss \in [1 .. Len(pipes) -> {ss[i] : i \in DOMAIN pipes}] BY <1>3, Zenon
<1>7. \A i \in DOMAIN pipes : ss[i] = K!From(pipes[i], u, pw) BY Zenon
<1>8. K!ListPipe(pipes, u, pw).froms = K!Flatten(ss) BY Zenon DEF K!ListPipe
<1>9. K!Flatten(ss) = Flatten(ss) BY Zenon DEF K!Flatten, Flatten
<1> HIDE DEF ss
<1>10. IsSlice(ss) /\ Len(ss) = Len(pipes) BY <1>3, <1>6, MadeIn, Zenon
<1>11. ASSUME NEW k \in 1 .. Len(ss)
       PROVE  IsSlice(ss[k]) /\ \A j \in 1 .. Len(ss[k]) : IsFrom(ss[k][j])
    <2>1. pipes[k] \in P /\ ss[k] = K!From(pipes[k], u, pw) BY <1>3, <1>7, <1>10, Zenon
    <2>2. /\ IsSlice(K!From(pipes[k], u, pw))
          /\ \A j \in 1 .. Len(K!From(pipes[k], u, pw)) : IsFrom(K!From(pipes[k], u, pw)[j])
        BY <1>5, <2>1, Zenon
    <2> QED BY <2>1, <2>2, Zenon
<1>12. FromsOk(Flatten(ss)) BY <1>10, <1>11, FromsOf, Zenon
<1> QED BY <1>8, <1>9, <1>12, Zenon

-----------------------------------------------------------------------------
(* The answers of a login. *)

\* The froms of every plugin are as the search takes them.
LEMMA ListedFroms ==
    ASSUME plugin \in Plugins, NEW u \in Users, NEW w, w \in Configs(plugin), NEW pw
    PROVE  FromsOk(ListPipe(u, w, pw).froms)
<1>1. \/ plugin = "yaml" \/ plugin = "workingdir" \/ plugin = "docker" \/ plugin = "kubernetes"
    BY RoutesAssumption
<1>2. /\ "yaml" # "workingdir" /\ "yaml" # "docker" /\ "yaml" # "kubernetes"
      /\ "workingdir" # "docker" /\ "workingdir" # "kubernetes" /\ "docker" # "kubernetes"
    OBVIOUS
<1>3. CASE plugin = "yaml"
    <2>1. w \in Y!Configs /\ ListPipe(u, w, pw) = Y!ListPipe(w, u)
        BY <1>2, <1>3, Zenon DEF Configs, ListPipe
    <2> QED BY <2>1, YamlFroms, Zenon
<1>4. CASE plugin = "workingdir"
    <2>1. w \in W!Configs /\ ListPipe(u, w, pw) = W!ListPipe(opts, w, u)
        BY <1>2, <1>4, Zenon DEF Configs, ListPipe
    <2> QED BY <2>1, WorkingdirFroms, Zenon
<1>5. CASE plugin = "docker"
    <2>1. w \in D!Configs /\ ListPipe(u, w, pw) = D!ListPipe(w, u)
        BY <1>2, <1>5, Zenon DEF Configs, ListPipe
    <2> QED BY <2>1, DockerFroms, Zenon
<1>6. CASE plugin = "kubernetes"
    <2>1. w \in K!Configs /\ ListPipe(u, w, pw) = K!ListPipe(w, u, pw)
        BY <1>2, <1>6, Zenon DEF Configs, ListPipe
    <2> QED BY <2>1, KubeFroms, Zenon
<1> QED BY <1>1, <1>3, <1>4, <1>5, <1>6, ZenonT(40)

\* What the plugin answers to a login against a configuration.
Answered(u, w, c) ==
    IF ListPipe(u, w, c.password).err THEN Failed
    ELSE Callback(ListPipe(u, w, c.password).froms, u, c)

\* A plugin and its flags stay, and with them what it lists.
LEMMA ListStays ==
    ASSUME plugin' = plugin, opts' = opts, NEW u, user' = u, NEW w, at' = w, NEW pw, cred'.password = pw
    PROVE  ListPipe(user, at, cred.password)' = ListPipe(u, w, pw)
BY Zenon DEF ListPipe

\* The answer is that of the last attempt, against the configuration it met.
RouteInv ==
    /\ plugin \in Plugins /\ world \in Configs(plugin) /\ user \in Users
    /\ cred # NoCred => cred \in Creds /\ at \in Configs(plugin) /\ answer = Answered(user, at, cred)
    /\ answer.ok => cred # NoCred

\* Every callback and every edit keeps it (skel.go:62-98).
LEMMA RouteStep == RouteInv /\ [RouteNext]_routeVars => RouteInv'
<1> SUFFICES ASSUME RouteInv, [RouteNext]_routeVars PROVE RouteInv'
    BY Zenon
<1>1. /\ plugin \in Plugins /\ world \in Configs(plugin) /\ user \in Users
      /\ (cred # NoCred => cred \in Creds /\ at \in Configs(plugin) /\ answer = Answered(user, at, cred))
      /\ (answer.ok => cred # NoCred)
    BY Zenon DEF RouteInv
<1>2. plugin' = plugin /\ opts' = opts
    BY Zenon DEF RouteNext, Offer, EditConfig, Try, EnterCode, routeVars
<1>3. ASSUME NEW w PROVE w \in Configs(plugin)' <=> w \in Configs(plugin)
    BY <1>2, Zenon DEF Configs
<1>4. (plugin \in Plugins)' BY <1>1, <1>2, Zenon
<1>5. ASSUME UNCHANGED <<user, at, cred, answer>>, world' = world \/ world' \in Later[plugin]
      PROVE  RouteInv'
    <2>1. user' = user /\ at' = at /\ cred' = cred /\ answer' = answer BY <1>5, Zenon
    <2>2. ListPipe(user, at, cred.password)' = ListPipe(user, at, cred.password)
        BY <1>2, <2>1, ListStays, Zenon
    <2>3. Answered(user, at, cred)' = Answered(user, at, cred)
        BY <1>2, <2>1, <2>2, Zenon DEF Answered
    <2>4. world' \in Configs(plugin)
        <3>1. Later[plugin] \subseteq Configs(plugin) BY <1>1, RoutesAssumption, Zenon
        <3> QED BY <1>1, <1>5, <3>1, Zenon
    <2> QED BY <1>1, <1>3, <1>4, <2>1, <2>3, <2>4, Zenon DEF RouteInv, NoCred
<1>6. ASSUME NEW u \in Users, NEW c \in Creds, Try(u, c) PROVE RouteInv'
    <2>1. /\ answer' = IF ListPipe(u, world, c.password).err THEN Failed
                       ELSE Callback(ListPipe(u, world, c.password).froms, u, c)
          /\ user' = u /\ cred' = c /\ at' = world /\ world' = world
        BY <1>6, Zenon DEF Try
    <2>2. ListPipe(user, at, cred.password)' = ListPipe(u, world, c.password)
        BY <1>2, <2>1, ListStays, Zenon
    <2>3. answer' = Answered(user, at, cred)'
        BY <1>2, <2>1, <2>2, Zenon DEF Answered
    <2>4. c # NoCred
        <3>1. NoCred.method = "none" BY Zenon DEF NoCred
        <3>2. c.method = "password" \/ c.method = "publickey" BY CredForms, Zenon
        <3>3. "none" # "password" /\ "none" # "publickey" OBVIOUS
        <3> QED BY <3>1, <3>2, <3>3, Zenon
    <2> QED BY <1>1, <1>3, <1>4, <2>1, <2>3, <2>4, ZenonT(40) DEF RouteInv, NoCred
<1>7. CASE UNCHANGED routeVars BY <1>5, <1>7, Zenon DEF routeVars
<1>8. CASE Offer BY <1>5, <1>8, Zenon DEF Offer
<1>9. CASE \E w \in Later[plugin] : EditConfig(w) BY <1>5, <1>9, Zenon DEF EditConfig
<1>10. ASSUME NEW u \in Users, NEW code, EnterCode(u, code) PROVE RouteInv'
    <2>1. user' = u /\ world' = world /\ cred' = NoCred /\ answer' = answer /\ ~answer.ok
        BY <1>10, Zenon DEF EnterCode
    <2> QED BY <1>1, <1>3, <1>4, <2>1, Zenon DEF RouteInv, NoCred
<1> QED BY <1>6, <1>7, <1>8, <1>9, <1>10, Zenon DEF RouteNext

\* It holds from the first callback on.
LEMMA RouteInvariant == RouteSpec => []RouteInv
<1>1. RouteInit => RouteInv
    <2> SUFFICES ASSUME RouteInit PROVE RouteInv BY Zenon
    <2>1. ~Failed.ok BY DEF Failed
    <2>2. plugin \in Plugins /\ user \in Users /\ world \in Worlds[plugin] /\ cred = NoCred /\ answer = Failed
        BY Zenon DEF RouteInit
    <2>3. Worlds[plugin] \subseteq Configs(plugin) BY <2>2, RoutesAssumption, Zenon
    <2> QED BY <2>1, <2>2, <2>3, Zenon DEF RouteInv
<1> QED BY <1>1, RouteStep, PTL DEF RouteSpec

\* The froms of the last attempt, and the one that admits it.
Listed == ListPipe(user, at, cred.password).froms
Admitted == \E i \in DOMAIN Listed : Admits(Listed, cred, i)
Admitting == CHOOSE i \in DOMAIN Listed : Admits(Listed, cred, i)

\* The answer is the upstream of the from that admits the login, or a failure.
LEMMA AnswerIs ==
    ASSUME RouteInv, cred # NoCred
    PROVE  IF ~ListPipe(user, at, cred.password).err /\ Valid(cred) /\ Admitted
           THEN answer = CreateUpstream(Listed[Admitting].to, user, cred.password)
           ELSE answer = Failed
<1> DEFINE e == ListPipe(user, at, cred.password).err
           made == CreateUpstream(Listed[Admitting].to, user, cred.password)
<1>1. /\ plugin \in Plugins /\ user \in Users /\ cred \in Creds /\ at \in Configs(plugin)
      /\ answer = IF e THEN Failed ELSE Callback(Listed, user, cred)
    BY Zenon DEF RouteInv, Answered, Listed
<1>2. FromsOk(Listed) BY <1>1, ListedFroms, Zenon DEF Listed
<1>3. IF Valid(cred) /\ Admitted THEN Callback(Listed, user, cred) = made
      ELSE Callback(Listed, user, cred) = Failed
    BY <1>1, <1>2, CallbackIs, Zenon DEF FromsOk, Admitted, Admitting
<1> HIDE DEF made, e
<1>4. IF ~e /\ Valid(cred) /\ Admitted THEN answer = made ELSE answer = Failed
    BY <1>1, <1>3, Zenon
<1> QED BY <1>4, Zenon DEF made, e

\* Whatever the configurations, the flags and the logins, and however an
\* operator edits the configuration between the callbacks: a login is routed
\* by the first from that has anything to say about it (skel.go:100-130,
\* 154-233).
THEOREM FirstOpinionTheorem == RouteSpec => []RoutedByFirstOpinion
<1>1. RouteInv => RoutedByFirstOpinion
    <2> SUFFICES ASSUME RouteInv, cred # NoCred PROVE RoutedByFirstOpinion
        BY Zenon DEF RoutedByFirstOpinion
    <2>1. IF ~ListPipe(user, at, cred.password).err /\ Valid(cred) /\ Admitted
          THEN answer = CreateUpstream(Listed[Admitting].to, user, cred.password)
          ELSE answer = Failed
        BY AnswerIs, Zenon
    <2>2. ~Failed.ok BY DEF Failed
    <2>3. IF ~ListPipe(user, at, cred.password).err /\ Valid(cred) /\ Admitted
          THEN answer = CreateUpstream(Listed[Admitting].to, user, cred.password)
          ELSE ~answer.ok
        BY <2>1, <2>2, Zenon
    <2> QED BY <2>3, Zenon DEF RoutedByFirstOpinion, Listed, Admitted, Admitting
<1> QED BY <1>1, RouteInvariant, PTL

\* An upstream is made with the host and the known hosts of the pipe.
LEMMA MadeOf ==
    ASSUME NEW to, NEW u, NEW pw, CreateUpstream(to, u, pw).ok
    PROVE  /\ ~to.known.err
           /\ CreateUpstream(to, u, pw).upstream.host = to.host
           /\ CreateUpstream(to, u, pw).upstream.known = to.known.lines
<1> DEFINE auth == IF to.kind = "privatekey" THEN <<"privatekey", to.private>>
                   ELSE IF to.override # "none" THEN <<"password", to.override>>
                   ELSE <<"password", pw>>
           r == [host |-> to.host, user |-> IF to.user = "" THEN u ELSE to.user,
                 known |-> to.known.lines, auth |-> auth]
           bad == \/ ~SplitHostPortForSSH(to.host) \/ to.known.err
                  \/ to.kind = "password" /\ to.override = "error"
                  \/ to.kind = "privatekey" /\ to.private = "error"
<1>1. CreateUpstream(to, u, pw) = IF bad THEN Failed ELSE Routed(r) BY Zenon DEF CreateUpstream
<1>2. ~Failed.ok BY DEF Failed
<1>3. to.known.err => bad BY Zenon
<1>4. r.host = to.host /\ r.known = to.known.lines BY Zenon
<1> HIDE DEF r, bad
<1>5. Routed(r).upstream = r BY SMTT(30) DEF Routed
<1> QED BY <1>1, <1>2, <1>3, <1>4, <1>5, ZenonT(40)

\* However the files are edited meanwhile: the route to a host carries known
\* hosts, when every pipe to that host has known_hosts configured
\* (yaml/skel.go:84-97).
THEOREM KnownHostsTheorem == RouteSpec => []KnownHostsKept
<1>1. RouteInv => KnownHostsKept
    <2> SUFFICES ASSUME RouteInv, answer.ok, plugin = "yaml" PROVE KnownHostsKept
        BY Zenon DEF KnownHostsKept
    <2> DEFINE to == Listed[Admitting].to
    <2>1. cred # NoCred BY Zenon DEF RouteInv
    <2>2. ~Failed.ok BY DEF Failed
    <2>3. Admitted /\ answer = CreateUpstream(to, user, cred.password)
        BY <2>1, <2>2, AnswerIs, Zenon
    <2>4. /\ ~to.known.err /\ answer.upstream.host = to.host
          /\ answer.upstream.known = to.known.lines
        <3> HIDE DEF to
        <3>1. CreateUpstream(to, user, cred.password).ok BY <2>3, Zenon
        <3>2. /\ ~to.known.err
              /\ CreateUpstream(to, user, cred.password).upstream.host = to.host
              /\ CreateUpstream(to, user, cred.password).upstream.known = to.known.lines
            BY <3>1, MadeOf
        <3> QED BY <2>3, <3>2, Zenon
    <2>5. Admitting \in DOMAIN Listed BY <2>3, Zenon DEF Admitted, Admitting
    <2>6. at \in Y!Configs /\ Listed = Y!ListPipe(at, user).froms
        <3>1. at \in Configs(plugin) BY <2>1, Zenon DEF RouteInv
        <3>2. /\ "yaml" # "workingdir" /\ "yaml" # "docker" /\ "yaml" # "kubernetes"
            OBVIOUS
        <3> QED BY <3>1, <3>2, Zenon DEF Configs, ListPipe, Listed
    <2>7. OfPipe(at, user, to) BY <2>5, <2>6, YamlFroms, Zenon
    <2> HIDE DEF to
    <2>8. PICK a \in DOMAIN at : \E b \in DOMAIN at[a].pipes : \E from :
              to = Y!MatchConn(from, at[a].pipes[b].to, user)
        BY <2>7, Zenon DEF OfPipe
    <2>9. PICK b \in DOMAIN at[a].pipes : \E from :
              to = Y!MatchConn(from, at[a].pipes[b].to, user)
        BY <2>8, Zenon
    <2> DEFINE end == at[a].pipes[b].to
    <2>10. PICK from : to = Y!MatchConn(from, end, user) BY <2>9, Zenon
    <2> DEFINE name == Y!TargetUser(from, end, user)
               data == Y!LoadFileOrDecodeMany(end.known, name)
    <2>11. to.host = end.host /\ to.known = Y!KnownHosts(end, name)
        BY <2>10, Zenon DEF Y!MatchConn
    <2>12. CASE ~Y!Configured(end.known)
        BY <2>4, <2>11, <2>12, Zenon DEF KnownHostsKept
    <2>13. CASE Y!Configured(end.known)
        <3>1. to.known = IF data.lines = <<>> THEN Y!LoadError ELSE data
            BY <2>11, <2>13, Zenon DEF Y!KnownHosts
        <3>2. Y!LoadError.err BY DEF Y!LoadError
        <3> HIDE DEF data
        <3>3. to.known.lines # <<>> BY <2>4, <3>1, <3>2, Zenon
        <3> QED BY <2>4, <3>3, Zenon DEF KnownHostsKept
    <2> QED BY <2>12, <2>13, Zenon
<1> QED BY <1>1, RouteInvariant, PTL
=============================================================================
