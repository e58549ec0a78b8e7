------------------------------- MODULE Daemon -------------------------------
(***************************************************************************)
(* One client connection of sshpiperd, from Accept to Close                *)
(* (cmd/sshpiperd/daemon.go, run), with the plugin chain that routes it    *)
(* (internal/plugin/chain.go, grpc.go) and the admin registry entry it     *)
(* lives behind (internal/admin/registry.go).                              *)
(*                                                                         *)
(* Two goroutines serve a connection.  The handshake (`ipc`) runs          *)
(* ssh.NewSSHPiperConn: it asks the plugins and offers its result on an    *)
(* unbuffered channel.  The connection goroutine (`opc`) takes the result  *)
(* or gives up after the login grace time, runs the pipe and unwinds.  A   *)
(* plugin is another process and may answer anything, late or never.  The  *)
(* SSH library's part of the handshake is external: it asks the current    *)
(* plugin again after a refusal, up to MaxTries times.                     *)
(***************************************************************************)
EXTENDS Integers, FiniteSets

CONSTANTS Conns,      \* client connections; their unique ids
          Killers,    \* KillSession calls
          N,          \* plugins on the command line
          Methods,    \* authentication methods
          Has,        \* Has[i]: the methods plugin i implements
          MetaKeys,   \* metadata keys plugins hand on
          Vars, Vals, \* environment variables and their values
          injectEnv,  \* --inject-env
          MaxTries,   \* bound on authentication attempts
          Admin,      \* the admin API is enabled
          Recording,  \* screen recording is enabled
          None

Env   == [Vars -> Vals \cup {None}]
NoEnv == [x \in Vars |-> None]

ASSUME DaemonConstants ==
    /\ N \in Nat \ {0} /\ MaxTries \in Nat
    /\ Has \in [1..N -> SUBSET Methods]
    /\ injectEnv \in Env
    /\ Admin \in BOOLEAN /\ Recording \in BOOLEAN
    /\ None \notin Conns \cup Vals

VARIABLES
    opc,      \* the connection goroutine
    ipc,      \* the handshake goroutine
    grace,    \* the login grace time ran out
    at,       \* plugins told NewConnection
    cur,      \* chainConnMeta.current, counted from 1
    meta,     \* ConnMeta.Metadata: the plugin that wrote each key, 0 if none
    env,      \* PluginConnMeta.Env
    asked,    \* history: the env of the plugin reply behind the upstream
    tries,    \* refused authentication attempts
    injected, \* the env of the installed injector
    told,     \* notices the plugins were sent, by kind
    recorder, \* the screen recorder
    phase, pipe, once, kpc, kses  \* as in AdminSessions

inVars   == <<ipc, at, cur, meta, env, asked, tries>>
outVars  == <<opc, grace, injected, recorder>>
regVars  == <<phase, once>>
killVars == <<kpc, kses>>
vars     == <<inVars, outVars, told, regVars, pipe, killVars>>

Notices == [create : Nat, start : Nat, error : Nat, refused : Nat]

Init ==
    /\ opc = [c \in Conns |-> "new"] /\ ipc = [c \in Conns |-> "idle"]
    /\ grace = [c \in Conns |-> FALSE]
    /\ at = [c \in Conns |-> 0] /\ cur = [c \in Conns |-> 1]
    /\ meta = [c \in Conns |-> [x \in MetaKeys |-> 0]]
    /\ env = [c \in Conns |-> NoEnv] /\ asked = [c \in Conns |-> NoEnv]
    /\ tries = [c \in Conns |-> 0]
    /\ injected = [c \in Conns |-> NoEnv]
    /\ told = [c \in Conns |-> [create |-> 0, start |-> 0, error |-> 0, refused |-> 0]]
    /\ recorder = [c \in Conns |-> "none"]
    /\ phase = [c \in Conns |-> "new"] /\ pipe = [c \in Conns |-> "none"]
    /\ once = [c \in Conns |-> FALSE]
    /\ kpc = [k \in Killers |-> "idle"] /\ kses = [k \in Killers |-> None]

-----------------------------------------------------------------------------
(* The handshake goroutine. *)

\* The connection is accepted; both goroutines start.
Accept(c) ==
    /\ opc[c] = "new"
    /\ opc' = [opc EXCEPT ![c] = "select"]
    /\ ipc' = [ipc EXCEPT ![c] = "context"]
    /\ UNCHANGED <<grace, at, cur, meta, env, asked, tries, injected, recorder, told,
                   regVars, pipe, killVars>>

\* CreateChallengeContext: the next plugin is told of the connection; one
\* that objects ends the handshake.
NewConnection(c, ok) ==
    /\ ipc[c] = "context"
    /\ at' = [at EXCEPT ![c] = @ + 1]
    /\ ipc' = [ipc EXCEPT ![c] = IF ~ok THEN "error" ELSE IF at[c] + 1 = N THEN "auth" ELSE @]
    /\ UNCHANGED <<cur, meta, env, asked, tries, outVars, told, regVars, pipe, killVars>>

\* The client is asked to try again.
Refuse(c) ==
    /\ ipc' = [ipc EXCEPT ![c] = "auth"]
    /\ tries' = [tries EXCEPT ![c] = @ + 1]

\* The current plugin refuses: its own error, a method it does not
\* implement, or an upstream that cannot be dialled.
PluginRefuses(c) ==
    /\ ipc[c] = "auth" /\ tries[c] < MaxTries
    /\ Refuse(c)
    /\ UNCHANGED <<at, cur, meta, env, asked, outVars, told, regVars, pipe, killVars>>

\* The metadata of a connection after its current plugin set the keys K.
WithMeta(c, K) ==
    [meta EXCEPT ![c] = [x \in MetaKeys |-> IF x \in K THEN cur[c] ELSE @[x]]]

\* The current plugin answers RetryCurrentPlugin.
RetryCurrentPlugin(c, m, K) ==
    /\ ipc[c] = "auth" /\ tries[c] < MaxTries
    /\ m \in Has[cur[c]]
    /\ meta' = WithMeta(c, K)
    /\ Refuse(c)
    /\ UNCHANGED <<at, cur, env, asked, outVars, told, regVars, pipe, killVars>>

\* onNextPlugin: there is a plugin after the current one.
HasNext(c) == cur[c] < N

\* The current plugin answers NextPlugin (createUpstream, onNextPlugin): the
\* next one becomes current and the client goes on with it, or there is none
\* and only the metadata is kept.  A plugin that is alone is not in a chain.
NextPlugin(c, m, K) ==
    /\ ipc[c] = "auth" /\ tries[c] < MaxTries
    /\ m \in Has[cur[c]]
    /\ meta' = IF N = 1 THEN meta ELSE WithMeta(c, K)
    /\ cur' = [cur EXCEPT ![c] = IF HasNext(c) THEN @ + 1 ELSE @]
    /\ Refuse(c)
    /\ UNCHANGED <<at, env, asked, outVars, told, regVars, pipe, killVars>>

\* Mutant of setUpstreamEnv: a reply without env leaves the earlier one.
setUpstreamEnv_IfAny(c, e) == env' = IF e = NoEnv THEN env ELSE [env EXCEPT ![c] = e]

setUpstreamEnv(c, e) == env' = [env EXCEPT ![c] = e]

\* The current plugin answers with an upstream that can be dialled
\* (createUpstream).
CreateUpstream(c, m, e) ==
    /\ ipc[c] = "auth" /\ tries[c] < MaxTries
    /\ m \in Has[cur[c]]
    /\ setUpstreamEnv(c, e)
    /\ asked' = [asked EXCEPT ![c] = e]
    /\ ipc' = [ipc EXCEPT ![c] = "upstream"]
    /\ UNCHANGED <<at, cur, meta, tries, outVars, told, regVars, pipe, killVars>>

\* The upstream rejects the login: every plugin is told, the client is asked
\* again.
UpstreamAuthFailure(c) ==
    /\ ipc[c] = "upstream"
    /\ told' = [told EXCEPT ![c].refused = @ + 1]
    /\ Refuse(c)
    /\ UNCHANGED <<at, cur, meta, env, asked, outVars, regVars, pipe, killVars>>

\* NewSSHPiperConn succeeds.
Established(c) ==
    /\ ipc[c] = "upstream"
    /\ ipc' = [ipc EXCEPT ![c] = "pipe"]
    /\ pipe' = [pipe EXCEPT ![c] = "open"]
    /\ UNCHANGED <<at, cur, meta, env, asked, tries, outVars, told, regVars, killVars>>

\* NewSSHPiperConn fails: no more attempts, or a side hangs up.
HandshakeFails(c) ==
    /\ ipc[c] \in {"auth", "upstream"}
    /\ ipc' = [ipc EXCEPT ![c] = "error"]
    /\ UNCHANGED <<at, cur, meta, env, asked, tries, outVars, told, regVars, pipe, killVars>>

-----------------------------------------------------------------------------
(* The connection goroutine: the select, and the two ways it fails. *)

Goto(c, l) == opc' = [opc EXCEPT ![c] = l]

\* p = <-pipec
TakePipe(c) ==
    /\ opc[c] = "select" /\ ipc[c] = "pipe"
    /\ ipc' = [ipc EXCEPT ![c] = "done"]
    /\ Goto(c, "register")
    /\ UNCHANGED <<grace, at, cur, meta, env, asked, tries, injected, recorder, told,
                   regVars, pipe, killVars>>

\* err := <-errorc
TakeError(c) ==
    /\ opc[c] = "select" /\ ipc[c] = "error"
    /\ ipc' = [ipc EXCEPT ![c] = "done"]
    /\ Goto(c, "createError")
    /\ UNCHANGED <<grace, at, cur, meta, env, asked, tries, injected, recorder, told,
                   regVars, pipe, killVars>>

\* Mutant of GraceExpires: the timer starts once the plugins know of the
\* connection.
GraceExpires_Late(c) ==
    /\ opc[c] = "select" /\ ipc[c] # "context"
    /\ grace' = [grace EXCEPT ![c] = TRUE]
    /\ Goto(c, "createError")
    /\ UNCHANGED <<inVars, injected, recorder, told, regVars, pipe, killVars>>

\* <-time.After(d.loginGraceTime): whatever the handshake is doing.
GraceExpires(c) ==
    /\ opc[c] = "select"
    /\ grace' = [grace EXCEPT ![c] = TRUE]
    /\ Goto(c, "createError")
    /\ UNCHANGED <<inVars, injected, recorder, told, regVars, pipe, killVars>>

\* PipeCreateErrorCallback: every plugin is told; then c.Close().
PipeCreateError(c) ==
    /\ opc[c] = "createError"
    /\ told' = [told EXCEPT ![c].create = @ + 1]
    /\ Goto(c, "closeConn")
    /\ UNCHANGED <<inVars, grace, injected, recorder, regVars, pipe, killVars>>

-----------------------------------------------------------------------------
(* The connection goroutine: the pipe. *)

\* adminRegistry.Add
RegisterSession(c) ==
    /\ opc[c] = "register"
    /\ phase' = IF Admin THEN [phase EXCEPT ![c] = "live"] ELSE phase
    /\ Goto(c, "record")
    /\ UNCHANGED <<inVars, grace, injected, recorder, told, once, pipe, killVars>>

\* setupScreenRecording; the connection is dropped when it fails.
SetupRecording(c, ok) ==
    /\ opc[c] = "record" /\ (ok \/ Recording)
    /\ recorder' = IF ~Recording THEN recorder
                   ELSE [recorder EXCEPT ![c] = IF ok THEN "open" ELSE "refused"]
    /\ Goto(c, IF ok THEN "start" ELSE "remove")
    /\ UNCHANGED <<inVars, grace, injected, told, regVars, pipe, killVars>>

\* What the injector is given: "Plugin-provided env wins on collision."
MergedEnv(c) == [x \in Vars |-> IF env[c][x] # None THEN env[c][x] ELSE injectEnv[x]]

\* Mutant of PipeStart: the plugins are not told.
PipeStart_Silent(c) ==
    /\ opc[c] = "start"
    /\ injected' = [injected EXCEPT ![c] = MergedEnv(c)]
    /\ Goto(c, "wait")
    /\ UNCHANGED <<inVars, grace, recorder, told, regVars, pipe, killVars>>

\* The injector is installed and PipeStartCallback tells every plugin.
PipeStart(c) ==
    /\ opc[c] = "start"
    /\ injected' = [injected EXCEPT ![c] = MergedEnv(c)]
    /\ told' = [told EXCEPT ![c].start = @ + 1]
    /\ Goto(c, "wait")
    /\ UNCHANGED <<inVars, grace, recorder, regVars, pipe, killVars>>

\* WaitWithHook returns: a side hung up, a hook failed, or the pipe was
\* closed under it.
PipeEnds(c) ==
    /\ opc[c] = "wait"
    /\ Goto(c, "pipeError")
    /\ UNCHANGED <<inVars, grace, injected, recorder, told, regVars, pipe, killVars>>

\* PipeErrorCallback: every plugin is told.
PipeError(c) ==
    /\ opc[c] = "pipeError"
    /\ told' = [told EXCEPT ![c].error = @ + 1]
    /\ Goto(c, "closeRecorder")
    /\ UNCHANGED <<inVars, grace, injected, recorder, regVars, pipe, killVars>>

-----------------------------------------------------------------------------
(* The connection goroutine: the deferred calls, last first. *)

CloseRecorder(c) ==
    /\ opc[c] = "closeRecorder"
    /\ recorder' = IF recorder[c] = "open" THEN [recorder EXCEPT ![c] = "closed"] ELSE recorder
    /\ Goto(c, "remove")
    /\ UNCHANGED <<inVars, grace, injected, told, regVars, pipe, killVars>>

\* Mutant of RemoveSession: the broadcaster is closed with the entry still
\* registered.
RemoveSession_Closes(c) ==
    /\ opc[c] = "remove"
    /\ phase' = IF Admin THEN [phase EXCEPT ![c] = "closed"] ELSE phase
    /\ Goto(c, "closePipe")
    /\ UNCHANGED <<inVars, grace, injected, recorder, told, once, pipe, killVars>>

\* adminRegistry.Remove, under its lock ...
RemoveSession(c) ==
    /\ opc[c] = "remove"
    /\ phase' = IF Admin THEN [phase EXCEPT ![c] = "removed"] ELSE phase
    /\ Goto(c, IF Admin THEN "closeBroadcaster" ELSE "closePipe")
    /\ UNCHANGED <<inVars, grace, injected, recorder, told, once, pipe, killVars>>

\* ... and after it.
CloseBroadcaster(c) ==
    /\ opc[c] = "closeBroadcaster"
    /\ phase' = [phase EXCEPT ![c] = "closed"]
    /\ Goto(c, "closePipe")
    /\ UNCHANGED <<inVars, grace, injected, recorder, told, once, pipe, killVars>>

\* Mutant of ClosePipe: the deferred p.Close() is missing.
ClosePipe_Missing(c) ==
    /\ opc[c] = "closePipe"
    /\ Goto(c, "closeConn")
    /\ UNCHANGED <<inVars, grace, injected, recorder, told, regVars, pipe, killVars>>

\* p.Close()
ClosePipe(c) ==
    /\ opc[c] = "closePipe"
    /\ pipe' = [pipe EXCEPT ![c] = "closed"]
    /\ Goto(c, "closeConn")
    /\ UNCHANGED <<inVars, grace, injected, recorder, told, regVars, killVars>>

\* c.Close()
CloseConn(c) ==
    /\ opc[c] = "closeConn"
    /\ Goto(c, "closed")
    /\ UNCHANGED <<inVars, grace, injected, recorder, told, regVars, pipe, killVars>>

-----------------------------------------------------------------------------
(* KillSession (internal/admin/server.go, registry.go). *)

KillLookup(k, c) ==
    /\ kpc[k] = "idle"
    /\ kpc' = [kpc EXCEPT ![k] = IF phase[c] = "live" THEN "close" ELSE "done"]
    /\ kses' = [kses EXCEPT ![k] = IF phase[c] = "live" THEN c ELSE None]
    /\ UNCHANGED <<inVars, outVars, told, regVars, pipe>>

KillClose(k) ==
    LET c == kses[k]
    IN /\ kpc[k] = "close"
       /\ pipe' = IF once[c] THEN pipe ELSE [pipe EXCEPT ![c] = "closed"]
       /\ once' = [once EXCEPT ![c] = TRUE]
       /\ kpc' = [kpc EXCEPT ![k] = "done"]
       /\ UNCHANGED <<inVars, outVars, told, phase, kses>>

-----------------------------------------------------------------------------

HandshakeStep(c) ==
    \/ \E ok \in BOOLEAN : NewConnection(c, ok)
    \/ \E m \in Methods, K \in SUBSET MetaKeys : NextPlugin(c, m, K) \/ RetryCurrentPlugin(c, m, K)
    \/ \E m \in Methods, e \in Env : CreateUpstream(c, m, e)
    \/ PluginRefuses(c) \/ UpstreamAuthFailure(c) \/ Established(c) \/ HandshakeFails(c)

\* The steps the connection goroutine takes on its own.
ConnStep(c) ==
    \/ TakePipe(c) \/ TakeError(c) \/ GraceExpires(c) \/ RegisterSession(c)
    \/ \E ok \in BOOLEAN : SetupRecording(c, ok)
    \/ CloseRecorder(c) \/ RemoveSession(c) \/ CloseBroadcaster(c) \/ ClosePipe(c) \/ CloseConn(c)

\* Its calls of the plugins: they have no deadline.
Notice(c) == PipeCreateError(c) \/ PipeStart(c) \/ PipeError(c)

KillStep(k) == KillClose(k) \/ \E c \in Conns : KillLookup(k, c)

\* Every connection is over and every call answered; a handshake may be
\* stranded.
Finished ==
    /\ \A c \in Conns : opc[c] = "closed" /\ ipc[c] \in {"pipe", "error", "done"}
    /\ \A k \in Killers : kpc[k] = "done"

Next ==
    \/ \E c \in Conns : Accept(c) \/ HandshakeStep(c) \/ ConnStep(c) \/ Notice(c) \/ PipeEnds(c)
    \/ \E k \in Killers : KillStep(k)
    \/ Finished /\ UNCHANGED vars

Spec == Init /\ [][Next]_vars

\* The connection goroutine runs and its timer fires, a closed pipe makes
\* WaitWithHook return, a kill is carried out.  Nothing is asked of the
\* client, the upstream or the plugins.
RunSpec ==
    /\ Spec
    /\ \A c \in Conns : WF_vars(ConnStep(c)) /\ WF_vars(pipe[c] = "closed" /\ PipeEnds(c))
    /\ \A k \in Killers : WF_vars(KillClose(k))

\* Moreover the plugins answer the notices, though not the questions of the
\* handshake.
LiveSpec == RunSpec /\ \A c \in Conns : WF_vars(Notice(c))

-----------------------------------------------------------------------------
(* Properties. *)

\* Plugins that count on the notices can: PipeError follows PipeStart one for
\* one, a connection is never reported both as piped and as not created, and
\* a closed one has been reported exactly once, unless it was the recorder
\* that refused it (daemon.go:547-563, 599-605, 658-666).
NoticesAddUp ==
    \A c \in Conns :
        LET n == told[c]
        IN /\ n.create + n.start <= 1 /\ n.error <= n.start
           /\ opc[c] = "closed" => n.create + n.error = IF recorder[c] = "refused" THEN 0 ELSE 1

\* grpc.go:373-375: the env injected into a session is the one of the plugin
\* reply its upstream came from, whatever earlier attempts and earlier plugins
\* asked for, over the one of the command line (daemon.go:640-650).
EnvOfPipe ==
    \A c \in Conns : told[c].start = 1 =>
        \A x \in Vars : injected[c][x] = IF asked[c][x] # None THEN asked[c][x] ELSE injectEnv[x]

\* A connection that is closed leaves nothing behind (its handshake has
\* ended, its pipe and recorder are closed and its entry is gone) unless the
\* grace time cut its handshake off (daemon.go:535-543, 556-562).
OnlyGraceStrands ==
    \A c \in Conns : opc[c] = "closed" /\ ~grace[c] =>
        /\ ipc[c] = "done" /\ pipe[c] # "open"
        /\ recorder[c] # "open" /\ phase[c] \in {"new", "closed"}

\* A connection whose handshake hangs, in a plugin or anywhere else, is
\* reported and closed after the login grace time (daemon.go:556-562).
PipedOrClosed ==
    \A c \in Conns : opc[c] = "select" ~> opc[c] \in {"wait", "closed"}

\* main.go:169: "sshpiperd forcely close the connection after this time if the
\* pipe has not successfully established", whatever the plugins do.
ClosedAfterGrace ==
    \A c \in Conns : grace[c] ~> opc[c] = "closed"

\* A session that KillSession found ends, at whatever point of its setup or
\* of its life it was found (registry.go:118-133).
KilledSessionEnds ==
    \A k \in Killers : \A c \in Conns : (kpc[k] = "close" /\ kses[k] = c) ~> opc[c] = "closed"

\* A connection that hangs in its handshake or is killed comes to its end.
ConnectionsEnd == PipedOrClosed /\ KilledSessionEnds

\* The registry's view of a connection is that of AdminSessions, of which
\* only the sessions and the kills are of interest here.
AdminView == INSTANCE AdminSessions WITH
    Sessions <- Conns, Viewers <- {}, Channels <- {}, Capacity <- 1, MaxFrames <- 0,
    closed <- [c \in Conns |-> phase[c] = "closed"],
    subs <- [c \in Conns |-> {}], history <- [c \in Conns |-> <<>>],
    log <- [c \in Conns |-> <<>>], mapped <- [c \in Conns |-> {}],
    started <- [c \in Conns |-> {}], running <- [c \in Conns |-> {}],
    up <- [c \in Conns |-> None], down <- [c \in Conns |-> None],
    vpc <- [v \in {} |-> "idle"], vses <- [v \in {} |-> None],
    vreplay <- [v \in {} |-> FALSE], chan <- [v \in {} |-> "none"],
    buf <- [v \in {} |-> <<>>], sent <- [v \in {} |-> <<>>], lost <- [v \in {} |-> {}]

\* The connection goroutine uses the registry as AdminSessions specifies it:
\* Add, Remove and Close once each and in this order, around an open pipe.
ImplementsAdmin == AdminView!Spec
=============================================================================
