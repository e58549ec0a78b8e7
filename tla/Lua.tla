-------------------------------- MODULE Lua --------------------------------
(***************************************************************************)
(* The lua plugin (plugin/lua): the callbacks of the daemon are answered   *)
(* by functions of a Lua script.  All of them run in one interpreter, the  *)
(* state CreateConfig primed, under stateMu; SIGHUP makes a goroutine      *)
(* reload the script.                                                      *)
(*                                                                         *)
(* A call is one callback of one connection.  The interpreter is its       *)
(* global functions, one global counter that the script raises in every    *)
(* call, and the value stack on which a call leaves what it returns.  A    *)
(* returned value is the class of values the handlers tell apart.          *)
(***************************************************************************)
EXTENDS Integers, Sequences

CONSTANTS Calls,     \* calls of the plugin, each for a connection of its own
          Scripts,   \* contents the script file may have
          Functions, \* Functions[s]: the callbacks script s defines
          OneShot,   \* callbacks whose function clears its own global
          Tables,    \* upstream tables a script returns
          MaxCalls,  \* bound on the calls
          MaxHup,    \* bound on the signals
          MaxEdits,  \* bound on the edits of the script
          None

Callbacks == {"noauth", "password", "publickey", "keyboard", "newconn", "next",
              "authfailure", "banner", "hostkey", "createerror", "start", "error"}

ASSUME LuaConstants ==
    /\ Functions \in [Scripts -> SUBSET Callbacks]
    /\ OneShot \subseteq Callbacks
    /\ MaxCalls \in Nat /\ MaxHup \in Nat /\ MaxEdits \in Nat
    /\ None \notin Scripts \cup Calls

VARIABLES
    disk,     \* the script file; None when it is missing or does not load
    edits,    \* how often it was edited
    main,     \* CreateConfig: "start", "primed", "serving", or "dead"
    shared,   \* sharedState: the script it was loaded from
    wired,    \* the callbacks of the config
    defined,  \* the callbacks the globals of the shared state hold
    stateMu,  \* its owner
    mu,       \* p.mu (and reloadMu, which is taken with it)
    pool,     \* statePool exists
    hup, hups, \* SIGHUP is pending (sigChan has room for one); signals sent
    reload,   \* reloadScript: "wait", "test", "drain"
    tested,   \* the script reloadScript found valid
    closing,  \* closing[d]: the call whose user the daemon disconnects once the
              \* notice d, that the login grace time is over, has returned
    pc, cb,   \* of a call: control, callback
    seen,     \* the counter a script has read
    count,    \* the global counter
    stack,    \* the value stack of the shared state
    got,      \* what a handler took from the stack
    res,      \* what it answered
    begun, ran \* history: calls made; scripts that raised the counter

hostVars == <<disk, edits, main, shared, wired, pool, closing>>
upVars   == <<mu, hup, hups, reload, tested>>
runVars  == <<defined, stateMu, seen, count, stack>>
callVars == <<pc, cb, got, res, begun, ran>>
vars     == <<hostVars, upVars, runVars, callVars>>

Init ==
    /\ disk \in Scripts \cup {None} /\ edits = 0 /\ main = "start" /\ shared = None
    /\ wired = {} /\ defined = {} /\ stateMu = None /\ mu = None /\ pool = FALSE
    /\ hup = FALSE /\ hups = 0 /\ reload = "wait" /\ tested = None
    /\ closing = [c \in Calls |-> None]
    /\ pc = [c \in Calls |-> "idle"] /\ cb = [c \in Calls |-> None]
    /\ seen = [c \in Calls |-> 0] /\ count = 0 /\ stack = <<>>
    /\ got = [c \in Calls |-> None] /\ res = [c \in Calls |-> None]
    /\ begun = 0 /\ ran = 0

Loads(s) == s # None

-----------------------------------------------------------------------------
(* What the handlers make of the value a script returns. *)

Val(type)   == [type |-> type]
Table(t)    == [type |-> "table", t |-> t]
Reject      == [ok |-> FALSE]
Accept(v)   == [ok |-> TRUE, val |-> v]

\* parseUpstreamTable, of call c whose client gave the password pw, or None.
\* A field is "nil", "string", "empty" or "other" (a value of another type),
\* the host also "unparsable", env also "pairs".  A password of the script that
\* is no string leaves the method unset, an empty one does not.
ParseUpstream(v, c, pw) ==
    IF v.type # "table" THEN Reject
    ELSE LET t == v.t IN
      IF \/ t.host # "string" \/ t.known = "other" \/ t.env \in {"other", "string"}
         \/ t.key \in {"other", "empty"}
         \/ t.key = "nil" /\ t.password = "nil" /\ pw = None
      THEN Reject
      ELSE Accept([user  |-> CASE t.user = "nil" -> c [] t.user = "string" -> "script"
                               [] OTHER -> "",
                   known |-> t.known = "string",
                   env   |-> t.env = "pairs",
                   auth  |-> IF t.key = "string" THEN "privatekey"
                             ELSE CASE t.password = "string" -> "scriptpassword"
                                    [] t.password = "empty"  -> "emptypassword"
                                    [] t.password = "other"  -> "unset"
                                    [] OTHER                 -> pw])

HandlePassword(vs, c)            == ParseUpstream(vs[1], c, c)
HandlePublicKey(vs, c)           == ParseUpstream(vs[1], c, None)
HandleNoAuth(vs, c)              == ParseUpstream(vs[1], c, None)
HandleKeyboardInteractive(vs, c) == ParseUpstream(vs[1], c, None)

\* nil and true admit the connection; false, a string, anything else do not.
HandleNewConnection(vs) ==
    IF vs[1].type \in {"nil", "true"} THEN Accept(None) ELSE Reject

\* A list of names, up to its first hole.
HandleNextAuthMethods(vs) ==
    IF vs[1].type = "names" THEN Accept("names") ELSE Reject

\* Only a string is a banner; everything else is none.
HandleBanner(vs) == IF vs[1].type = "string" THEN Accept("banner") ELSE Accept("")

\* true, and no second value.
HandleVerifyHostKey(vs) ==
    IF vs[2].type = "nil" /\ vs[1].type = "true" THEN Accept(None) ELSE Reject

\* The notices return nothing.
HandleUpstreamAuthFailure == Accept(None)
HandlePipeCreateError     == Accept(None)
HandlePipeStart           == Accept(None)
HandlePipeError           == Accept(None)

\* handleX from the return of CallByParam; vs are the values popped.
Handle(x, vs, c) ==
    CASE x = "noauth"      -> HandleNoAuth(vs, c)
      [] x = "password"    -> HandlePassword(vs, c)
      [] x = "publickey"   -> HandlePublicKey(vs, c)
      [] x = "keyboard"    -> HandleKeyboardInteractive(vs, c)
      [] x = "newconn"     -> HandleNewConnection(vs)
      [] x = "next"        -> HandleNextAuthMethods(vs)
      [] x = "banner"      -> HandleBanner(vs)
      [] x = "hostkey"     -> HandleVerifyHostKey(vs)
      [] x = "authfailure" -> HandleUpstreamAuthFailure
      [] x = "createerror" -> HandlePipeCreateError
      [] x = "start"       -> HandlePipeStart
      [] x = "error"       -> HandlePipeError

Notices  == {"authfailure", "createerror", "start", "error"}
NRet(x)  == CASE x \in Notices -> 0 [] x = "hostkey" -> 2 [] OTHER -> 1

\* The answer when there is nothing to pop: the notices and the banner are
\* logged, the others fail.
OnError(x) == IF x \in Notices \cup {"banner"} THEN Accept("") ELSE Reject

\* What a script may return to a callback.
Returns(x) ==
    CASE x \in Notices -> {<<>>}
      [] x = "hostkey" -> {<<Val(a), Val(b)>> : a \in {"true", "false"}, b \in {"nil", "string"}}
      [] x = "newconn" -> {<<Val(a)>> : a \in {"nil", "true", "false", "string"}}
      [] x = "next"    -> {<<Val(a)>> : a \in {"nil", "names"}}
      [] x = "banner"  -> {<<Val(a)>> : a \in {"nil", "string"}}
      [] OTHER         -> {<<Val("nil")>>} \cup {<<Table(t)>> : t \in Tables}

-----------------------------------------------------------------------------
(* Startup and reload. *)

Alive == main # "dead"

\* CreateConfig loads the script and finds its functions; without any, or
\* without a script that loads, the plugin exits.
Prime ==
    /\ main = "start"
    /\ IF Loads(disk) /\ Functions[disk] # {}
       THEN /\ main' = "primed" /\ shared' = disk
            /\ wired' = Functions[disk] /\ defined' = Functions[disk]
       ELSE /\ main' = "dead"
            /\ UNCHANGED <<shared, wired, defined>>
    /\ UNCHANGED <<disk, edits, pool, closing, upVars, stateMu, seen, count, stack, callVars>>

\* CreateConfig ends with initPool and the shared state; calls come in.
InitPool ==
    /\ main = "primed"
    /\ main' = "serving" /\ pool' = TRUE
    /\ UNCHANGED <<disk, edits, shared, wired, closing, upVars, runVars, callVars>>

\* The operator edits the script.
Edit(s) ==
    /\ Alive /\ disk # s /\ edits < MaxEdits
    /\ disk' = s /\ edits' = edits + 1
    /\ UNCHANGED <<main, shared, wired, pool, closing, upVars, runVars, callVars>>

\* SIGHUP; the second one finds the channel full.
Sighup ==
    /\ Alive /\ hups < MaxHup
    /\ hup' = TRUE /\ hups' = hups + 1
    /\ UNCHANGED <<hostVars, mu, reload, tested, runVars, callVars>>

\* The goroutine takes the signal, reloadMu and mu.
ReloadBegin ==
    /\ Alive /\ reload = "wait" /\ hup /\ mu = None
    /\ hup' = FALSE /\ mu' = "reloader" /\ reload' = "test"
    /\ UNCHANGED <<hostVars, hups, tested, runVars, callVars>>

\* reloadScript.  A script that does not load is reported and the locks are
\* released.  Otherwise the pool is replaced and the old one drained: without
\* an old one (CreateConfig has not got that far) Get dereferences nil; with
\* one, Get finds it empty, as no handler puts a state back while there is a
\* shared one, and calls New, whose mu.RLock() waits for the mu this goroutine
\* holds.  There is no step from "drain".
ReloadTest ==
    /\ Alive /\ reload = "test"
    /\ IF ~Loads(disk)
       THEN /\ reload' = "wait" /\ mu' = None
            /\ UNCHANGED <<main, pool, tested>>
       ELSE /\ reload' = "drain" /\ pool' = TRUE /\ tested' = disk
            /\ main' = IF pool THEN main ELSE "dead"
            /\ UNCHANGED mu
    /\ UNCHANGED <<disk, edits, shared, wired, closing, hup, hups, runVars, callVars>>

-----------------------------------------------------------------------------
(* A call. *)

\* A call is free for another connection, when its own is closed.
Free(c) == pc[c] \in {"idle", "done"} /\ closing[c] = None /\ \A d \in Calls : closing[d] # c

\* The daemon calls a callback the config has.
Calling(c, x) ==
    /\ main = "serving" /\ Free(c) /\ x \in wired /\ begun < MaxCalls
    /\ pc' = [pc EXCEPT ![c] = "lock"] /\ cb' = [cb EXCEPT ![c] = x]
    /\ got' = [got EXCEPT ![c] = None] /\ res' = [res EXCEPT ![c] = None]
    /\ begun' = begun + 1
    /\ UNCHANGED <<disk, edits, main, shared, wired, pool, upVars, runVars, ran>>

Begin(c, x) == Calling(c, x) /\ UNCHANGED closing

\* Mutant of GetLuaState: the shared state is handed out without its lock.
GetLuaState_Unlocked(c) ==
    /\ Alive /\ pc[c] = "lock"
    /\ stateMu' = c
    /\ pc' = [pc EXCEPT ![c] = "enter"]
    /\ UNCHANGED <<hostVars, upVars, defined, seen, count, stack, cb, got, res, begun, ran>>

\* getLuaState: the lock stays held with the shared state.
GetLuaState(c) ==
    /\ Alive /\ pc[c] = "lock" /\ stateMu = None
    /\ stateMu' = c
    /\ pc' = [pc EXCEPT ![c] = "enter"]
    /\ UNCHANGED <<hostVars, upVars, defined, seen, count, stack, cb, got, res, begun, ran>>

\* Mutant of NotDefined: the handler returns before its deferred putLuaState.
NotDefined_Leaks(c) ==
    /\ Alive /\ pc[c] = "enter" /\ cb[c] \notin defined
    /\ pc' = [pc EXCEPT ![c] = "done"] /\ res' = [res EXCEPT ![c] = OnError(cb[c])]
    /\ UNCHANGED <<hostVars, upVars, runVars, cb, got, begun, ran>>

\* The global is gone (the script has cleared it): the handler gives up, and
\* its deferred putLuaState unlocks.
NotDefined(c) ==
    /\ Alive /\ pc[c] = "enter" /\ cb[c] \notin defined
    /\ pc' = [pc EXCEPT ![c] = "done"] /\ res' = [res EXCEPT ![c] = OnError(cb[c])]
    /\ stateMu' = None
    /\ UNCHANGED <<hostVars, upVars, defined, seen, count, stack, cb, got, begun, ran>>

\* CallByParam: the script reads its counter.
EnterScript(c) ==
    /\ Alive /\ pc[c] = "enter" /\ cb[c] \in defined
    /\ seen' = [seen EXCEPT ![c] = count]
    /\ pc' = [pc EXCEPT ![c] = "run"]
    /\ UNCHANGED <<hostVars, upVars, defined, stateMu, count, stack, cb, got, res, begun, ran>>

\* Mutant of Challenge: the state is released while the user types.
Challenge_Unlocks(c) ==
    /\ Alive /\ pc[c] = "run" /\ cb[c] = "keyboard"
    /\ stateMu' = None
    /\ pc' = [pc EXCEPT ![c] = "ask"]
    /\ UNCHANGED <<hostVars, upVars, defined, seen, count, stack, cb, got, res, begun, ran>>

\* The script of handleKeyboardInteractive asks the user, inside the call.
Challenge(c) ==
    /\ Alive /\ pc[c] = "run" /\ cb[c] = "keyboard"
    /\ pc' = [pc EXCEPT ![c] = "ask"]
    /\ UNCHANGED <<hostVars, upVars, runVars, cb, got, res, begun, ran>>

\* The user answers, or goes away and the challenge fails: the script goes on.
UserAnswers(c) ==
    /\ Alive /\ pc[c] = "ask"
    /\ pc' = [pc EXCEPT ![c] = "asked"]
    /\ UNCHANGED <<hostVars, upVars, runVars, cb, got, res, begun, ran>>

\* The login grace time of that user is over.  The daemon first tells the
\* plugins that listen for it, this one by a call of its own ...
GraceNotice(c, d) ==
    /\ pc[c] = "ask" /\ \A e \in Calls : closing[e] # c
    /\ Calling(d, "createerror")
    /\ closing' = [closing EXCEPT ![d] = c]

\* ... and closes the connection only when they have returned: the challenge,
\* if it still waits, fails.
GraceCloses(d) ==
    /\ Alive /\ closing[d] # None /\ pc[d] = "done"
    /\ closing' = [closing EXCEPT ![d] = None]
    /\ pc' = IF pc[closing[d]] = "ask" THEN [pc EXCEPT ![closing[d]] = "asked"] ELSE pc
    /\ UNCHANGED <<disk, edits, main, shared, wired, pool, upVars, runVars, cb, got, res, begun, ran>>

\* Without a function for the notice there is nobody to tell.
GraceClosesAtOnce(c) == "createerror" \notin wired /\ UserAnswers(c)

\* The script raises the counter and returns: the values are left on the stack.
ScriptReturns(c, vs) ==
    /\ Alive /\ pc[c] \in {"run", "asked"}
    /\ vs \in Returns(cb[c])
    /\ count' = seen[c] + 1 /\ ran' = ran + 1
    /\ stack' = <<[call |-> c, vals |-> vs]>> \o stack
    /\ defined' = defined \ (OneShot \cap {cb[c]})
    /\ pc' = [pc EXCEPT ![c] = "return"]
    /\ UNCHANGED <<hostVars, upVars, stateMu, seen, cb, got, res, begun>>

\* The script raises an error, which Protect turns into an error of the call;
\* nothing is left on the stack.  The deferred putLuaState unlocks.
ScriptFails(c) ==
    /\ Alive /\ pc[c] \in {"run", "asked"}
    /\ pc' = [pc EXCEPT ![c] = "done"] /\ res' = [res EXCEPT ![c] = OnError(cb[c])]
    /\ stateMu' = None
    /\ UNCHANGED <<hostVars, upVars, defined, seen, count, stack, cb, got, begun, ran>>

\* The handler pops what is on top of the stack (handlers without return
\* values pop nothing), makes its answer of it, and unlocks.
PutLuaState(c) ==
    /\ Alive /\ pc[c] = "return"
    /\ stack' = Tail(stack) /\ got' = [got EXCEPT ![c] = Head(stack).call]
    /\ res' = [res EXCEPT ![c] =
                  IF Len(Head(stack).vals) = NRet(cb[c])
                  THEN Handle(cb[c], Head(stack).vals, c) ELSE OnError(cb[c])]
    /\ stateMu' = None
    /\ pc' = [pc EXCEPT ![c] = "done"]
    /\ UNCHANGED <<hostVars, upVars, defined, seen, count, cb, begun, ran>>

CallStep(c) ==
    \/ GetLuaState(c) \/ NotDefined(c) \/ EnterScript(c)
    \/ ScriptFails(c) \/ PutLuaState(c)
    \/ \E vs \in Returns(cb[c]) : ScriptReturns(c, vs)

Next ==
    \/ Prime \/ InitPool \/ Sighup \/ ReloadBegin \/ ReloadTest
    \/ \E s \in Scripts \cup {None} : Edit(s)
    \/ \E c \in Calls : Challenge(c) \/ UserAnswers(c) \/ GraceCloses(c) \/ GraceClosesAtOnce(c)
    \/ \E c, d \in Calls : GraceNotice(c, d)
    \/ \E c \in Calls, x \in Callbacks : Begin(c, x)
    \/ \E c \in Calls : pc[c] \notin {"idle", "done"} /\ CallStep(c)

Spec == Init /\ [][Next]_vars

\* A Lua function ends, a goroutine runs, and sync.Mutex hands the lock to one
\* who waits long enough.  Nothing makes a user answer or leave; the daemon's
\* timer ends the login, by way of the plugin's own notice when it has one.
Fairness ==
    /\ WF_vars(Prime \/ InitPool) /\ WF_vars(ReloadBegin \/ ReloadTest)
    /\ \A c \in Calls :
        /\ SF_vars(GetLuaState(c))
        /\ WF_vars(\/ pc[c] \notin {"idle", "lock", "done"} /\ CallStep(c)
                   \/ GraceCloses(c) \/ GraceClosesAtOnce(c)
                   \/ \E d \in Calls : GraceNotice(c, d))

LiveSpec == Spec /\ Fairness

-----------------------------------------------------------------------------
(* Properties. *)

\* Calls of different connections in the one shared state are isolated.  No
\* call's update of a global is lost (lua.go:99, "Reuse the primed state so
\* globals (counters, etc.) stay consistent across callbacks"), also when a
\* script waits for its user in the middle of one (lua.go:667-683).  And a
\* handler answers with what the script returned to this very call, never
\* with a value left on the shared stack for another one (lua.go:427-428).
CallsAreIsolated ==
    /\ count = ran
    /\ \A c \in Calls : got[c] \in {None, c}

\* A user is being asked whom the end of the grace time will not disconnect:
\* the notice of it waits for the stateMu the challenge holds, and the daemon
\* closes the connection only after the notice (daemon.go:530, 556-562,
\* lua.go:834).
GraceIsHeldUp == "createerror" \in wired /\ \E c \in Calls : pc[c] = "ask"

\* Every call of the plugin returns, whatever SIGHUP and edits of the script
\* do meanwhile: no path through a handler keeps stateMu, and a reload that
\* is stuck with mu and reloadMu does not touch it (lua.go:112-137, 175-212).
\* The one thing that holds up the calls of all connections is a user who
\* neither answers nor leaves, of a script that wants to know of failed pipes.
CallsReturn == \A c \in Calls : pc[c] = "lock" ~> (pc[c] = "done" \/ []GraceIsHeldUp)

\* README.md:50, "New connections will use the reloaded script": once a
\* reload has found the script valid, callbacks come to run in it.
ReloadTakesEffect == (main = "serving" /\ tested # None) ~> (shared = tested)
=============================================================================
