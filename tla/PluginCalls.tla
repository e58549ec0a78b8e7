----------------------------- MODULE PluginCalls -----------------------------
(***************************************************************************)
(* The calls between sshpiperd and one plugin process, for the life of one *)
(* connection: internal/plugin/grpc.go on the daemon's side (a chain of    *)
(* one plugin), libplugin/pluginbase.go on the plugin's.  Each unary call  *)
(* is a request, the plugin's handler and a reply; keyboard-interactive is *)
(* a stream on which both sides take turns.  What an authentication        *)
(* callback answers becomes an upstream connection, dialled directly or    *)
(* through a tunnel of ConnTunnel; handlers log through PluginLogs.        *)
(*                                                                         *)
(* The SSH library decides what is called when and is external: it is      *)
(* modelled by the order of the places "at" goes through.                  *)
(***************************************************************************)
EXTENDS ConnTunnel, PluginLogs

CONSTANTS
  Configs,      \* sets of callbacks a plugin may implement
  Replies,      \* upstreams an authentication callback may answer, see Reply
  NoReply,      \* the nil upstream
  MethodLists,  \* what NextAuthMethodsCallback may answer
  Attempts,     \* 1 .. n: authentication attempts (bound)
  MaxPrompts    \* prompts per keyboard-interactive exchange (bound)

\* An answer of an authentication callback.  keys: metadata it sets; key:
\* whether the private key or certificate parses; uri: whether it can be
\* dialled; known: the known_hosts data in relation to the upstream's key.
Reply == [kind : {"upstream", "retry", "next"}, keys : SUBSET {"k"},
          key : {"none", "ok", "bad"}, uri : {"ok", "bad"},
          known : {"empty", "match", "other", "garbled"}]

\* Only the answers that hand over or retry have metadata (plugin.proto).
ASSUME CallsAssumption ==
  /\ Replies \subseteq Reply /\ NoReply \notin Replies
  /\ \A r \in Replies : r.kind = "upstream" => r.keys = {}
  /\ Tunnels \subseteq Attempts /\ MaxPrompts \in Nat

VARIABLES
  impl,       \* callbacks the plugin implements; "ConfigLogger": it logs to the pipe
  installed,  \* callbacks the daemon found in ListCallbacks
  at,         \* where the connection stands
  attempt,    \* number of the authentication attempt
  meta,       \* keys of ConnMeta.Metadata in the daemon
  promised,   \* keys that the plugin has asked the daemon to set
  methods,    \* methods the client is offered
  call,       \* the outstanding unary call
  ki,         \* the keyboard-interactive stream
  reply,      \* the upstream that was answered in this attempt
  approved,   \* attempts in which the plugin accepted the upstream's host key
  direct      \* attempts whose upstream connection is a plain open one

cvars == <<impl, installed, at, attempt, meta, promised, methods, call, ki, reply, approved, direct>>
vars == <<cvars, tvars, lvars>>

----------------------------------------------------------------------------
(* libplugin/util.go: the names of the methods and their numbers.          *)

AuthMethodNames == <<"none", "password", "publickey", "keyboard-interactive">>

\* The number of a name, -1 for one without.
AuthMethodFromName(n) ==
  IF \E i \in 1 .. 4 : AuthMethodNames[i] = n
  THEN (CHOOSE i \in 1 .. 4 : AuthMethodNames[i] = n) - 1
  ELSE -1

\* The name of a number, "" for one without.
AuthMethodTypeToName(a) == IF a \in 0 .. 3 THEN AuthMethodNames[a + 1] ELSE ""

AuthCallback == [m \in {"none", "password", "publickey", "keyboard-interactive"} |->
  CASE m = "none" -> "NoneAuth"
    [] m = "password" -> "PasswordAuth"
    [] m = "publickey" -> "PublicKeyAuth"
    [] m = "keyboard-interactive" -> "KeyboardInteractiveAuth"]

----------------------------------------------------------------------------

Idle == [rpc |-> "", meta |-> {}, st |-> "idle", ok |-> TRUE, up |-> NoReply, methods |-> <<>>]

NoStream == [daemon |-> "off", plugin |-> "off", down |-> <<>>, up |-> <<>>, question |-> 0,
             asked |-> 0, answer |-> 0, status |-> "none", meta |-> {}, closed |-> FALSE, broken |-> FALSE]

CInit ==
  /\ impl \in Configs
  /\ installed = {}
  /\ at = "boot"
  /\ attempt = 0
  /\ meta = {} /\ promised = {}
  /\ methods = {}
  /\ call = Idle
  /\ ki = NoStream
  /\ reply = NoReply
  /\ approved = {} /\ direct = {}

Init == TInit /\ LInit /\ CInit

\* The callbacks the plugin reports: those its configuration has.
ListCallbacks == impl \ {"ConfigLogger"}

\* InstallPiperConfig: every callback that is listed is installed.
InstallPiperConfig ==
  /\ at = "boot"
  /\ installed' = ListCallbacks
  /\ at' = "new"
  /\ UNCHANGED <<impl, attempt, meta, promised, methods, call, ki, reply, approved, direct, tvars, lvars>>

----------------------------------------------------------------------------
(* A unary call.                                                           *)

\* Where each callback is due, and where the connection goes when it is not
\* installed.
Due == [new |-> "NewConnection", banner |-> "Banner", methods |-> "NextAuthMethods",
        verify |-> "VerifyHostKey", rejected |-> "UpstreamAuthFailure", piped |-> "PipeStart",
        ended |-> "PipeError", failed |-> "PipeCreateError"]

After == [new |-> "banner", banner |-> "methods", methods |-> "choose", verify |-> "login",
          rejected |-> "methods", piped |-> "copy", ended |-> "done", failed |-> "done"]

\* toMeta: a request carries the metadata the connection has collected.
ToMeta == meta

Send(r, ms) == call' = [Idle EXCEPT !.rpc = r, !.meta = ToMeta, !.st = "sent", !.methods = ms]

\* The methods that go with the notice of an upstream's refusal: the list is
\* made with one zero for each method and the numbers are appended to it.
UpstreamAuthFailureCallbackRemote(allowed) ==
  LET numbers == SelectSeq([i \in DOMAIN allowed |-> AuthMethodFromName(allowed[i])], LAMBDA a : a # -1)
  IN [i \in DOMAIN allowed |-> 0] \o numbers

\* The daemon calls the callback that is due at this place.
Invoke ==
  /\ at \in DOMAIN Due /\ Due[at] \in installed /\ call = Idle
  /\ Send(Due[at], IF at = "rejected" THEN UpstreamAuthFailureCallbackRemote(<<"publickey">>) ELSE <<>>)
  /\ UNCHANGED <<impl, installed, at, attempt, meta, promised, methods, ki, reply, approved, direct, tvars, lvars>>

\* The methods the chain offers by itself: those that have a callback.
ChainMethods == {m \in DOMAIN AuthCallback : AuthCallback[m] \in installed}

\* Nothing is installed for this place.
Skip ==
  /\ at \in DOMAIN Due \ {"verify"} /\ Due[at] \notin installed
  /\ at' = After[at]
  /\ methods' = IF at = "methods" THEN ChainMethods ELSE methods
  /\ UNCHANGED <<impl, installed, attempt, meta, promised, call, ki, reply, approved, direct, tvars, lvars>>

\* A handler that decides to log waits for room in the pipe, then writes.
HandlerLogs ==
  /\ call.st = "sent" /\ "ConfigLogger" \in impl
  /\ call' = [call EXCEPT !.st = "writing"]
  /\ UNCHANGED <<impl, installed, at, attempt, meta, promised, methods, ki, reply, approved, direct, tvars, lvars>>

HandlerWrites ==
  /\ call.st = "writing"
  /\ WriteLine
  /\ call' = [call EXCEPT !.st = "logged"]
  /\ UNCHANGED <<impl, installed, at, attempt, meta, promised, methods, ki, reply, approved, direct, tvars>>

Answering == call.st \in {"sent", "logged"}

Answers(ok, up, ms) ==
  call' = [call EXCEPT !.st = "answered", !.ok = ok, !.up = up, !.methods = ms]

\* NewConnection, VerifyHostKey: the callback accepts or returns an error.
HandleVerdict ==
  /\ Answering /\ call.rpc \in {"NewConnection", "VerifyHostKey"}
  /\ \E ok \in BOOLEAN :
       /\ Answers(ok /\ call.rpc \in impl, NoReply, <<>>)
       /\ approved' = IF ok /\ call.rpc = "VerifyHostKey" THEN approved \cup {attempt} ELSE approved
  /\ UNCHANGED promised

\* NextAuthMethods: an unknown name fails the call.
HandleNextAuthMethods ==
  /\ Answering /\ call.rpc = "NextAuthMethods"
  /\ \/ Answers(FALSE, NoReply, <<>>)
     \/ \E l \in MethodLists :
          LET numbers == [i \in DOMAIN l |-> AuthMethodFromName(l[i])]
          IN IF \E i \in DOMAIN l : numbers[i] = -1
             THEN Answers(FALSE, NoReply, <<>>)
             ELSE Answers(call.rpc \in impl, NoReply, numbers)
  /\ UNCHANGED <<promised, approved>>

\* NoneAuth, PasswordAuth, PublicKeyAuth: an error or an upstream, which
\* may be nil.
HandleAuth ==
  /\ Answering /\ call.rpc \in {"NoneAuth", "PasswordAuth", "PublicKeyAuth"}
  /\ \/ Answers(FALSE, NoReply, <<>>) /\ UNCHANGED promised
     \/ \E r \in Replies \cup {NoReply} :
          /\ Answers(call.rpc \in impl, r, <<>>)
          /\ promised' = IF r = NoReply THEN promised ELSE promised \cup r.keys
  /\ UNCHANGED approved

\* Banner and the notices: the callback returns no error.
HandleNotice ==
  /\ Answering
  /\ call.rpc \in {"Banner", "UpstreamAuthFailure", "PipeStart", "PipeError", "PipeCreateError"}
  /\ Answers(call.rpc \in impl, NoReply, <<>>)
  /\ UNCHANGED <<promised, approved>>

Handle ==
  /\ HandleVerdict \/ HandleNextAuthMethods \/ HandleAuth \/ HandleNotice
  /\ UNCHANGED <<impl, installed, at, attempt, meta, methods, ki, reply, direct, tvars, lvars>>

----------------------------------------------------------------------------
(* What an authentication callback answers.                                *)

\* An attempt fails: the SSH library offers the methods again.
AttemptFails == at' = "methods" /\ UNCHANGED <<direct, reply, tvars>>

\* dialUpstream: through the plugin if it has CreateConn, whose outcome
\* shows on the stream; otherwise the address must parse and answer.
DialUpstream(r) ==
  \/ /\ "CreateConn" \in installed
     /\ DialContext(attempt)
     /\ UNCHANGED direct
  \/ /\ "CreateConn" \notin installed /\ r.uri = "ok"
     /\ direct' = direct \cup {attempt}
     /\ UNCHANGED tvars

\* The dial fails, and with it the attempt.
DialFails ==
  /\ IF "CreateConn" \in installed THEN DialContextFails(attempt) ELSE UNCHANGED tvars
  /\ at' = "methods" /\ UNCHANGED <<direct, reply>>

\* A createUpstream that dials before it looks at the key.
CreateUpstream_DialsFirst(r) ==
  \/ /\ r.kind \in {"next", "retry"}
     /\ meta' = meta \cup r.keys
     /\ AttemptFails
  \/ /\ r.kind = "upstream"
     /\ DialFails
     /\ UNCHANGED meta
  \/ /\ r.kind = "upstream"
     /\ DialUpstream(r)
     /\ reply' = r
     /\ at' = IF r.key = "bad" THEN "methods" ELSE "kex"
     /\ UNCHANGED meta

\* A createUpstream that forgets the metadata of a retry.
CreateUpstream_ForgetsMeta(r) ==
  \/ /\ r.kind \in {"next", "retry"} \/ r.key = "bad"
     /\ AttemptFails /\ UNCHANGED meta
  \/ /\ r.kind = "upstream" /\ r.key # "bad"
     /\ DialFails
     /\ UNCHANGED meta
  \/ /\ r.kind = "upstream" /\ r.key # "bad"
     /\ DialUpstream(r)
     /\ reply' = r
     /\ at' = "kex"
     /\ UNCHANGED meta

\* createUpstream: metadata of a retry and of a hand-over is kept and the
\* attempt fails (there is no next plugin); a key that does not parse fails
\* it before anything is dialled.
CreateUpstream(r) ==
  \/ /\ r.kind \in {"next", "retry"}
     /\ meta' = meta \cup r.keys
     /\ AttemptFails
  \/ /\ r.kind = "upstream" /\ r.key = "bad"
     /\ AttemptFails /\ UNCHANGED meta
  \/ /\ r.kind = "upstream" /\ r.key # "bad"
     /\ DialFails
     /\ UNCHANGED meta
  \/ /\ r.kind = "upstream" /\ r.key # "bad"
     /\ DialUpstream(r)
     /\ reply' = r
     /\ at' = "kex"
     /\ UNCHANGED meta

\* The client chooses a method with a callback; each begins an attempt.
Choose(m) ==
  /\ at = "choose" /\ call = Idle /\ ki.plugin \in {"off", "end"}
  /\ m \in methods /\ AuthCallback[m] \in installed
  /\ attempt + 1 \in (IF "CreateConn" \in installed THEN Tunnels ELSE Attempts)
  /\ attempt' = attempt + 1
  /\ reply' = NoReply
  /\ IF m = "keyboard-interactive"
     THEN at' = "ki" /\ ki' = [NoStream EXCEPT !.daemon = "recv", !.plugin = "start"] /\ UNCHANGED call
     ELSE at' = "auth" /\ Send(AuthCallback[m], <<>>) /\ ki' = NoStream
  /\ UNCHANGED <<impl, installed, meta, promised, methods, approved, direct, tvars, lvars>>

\* The client leaves, or the library refuses it another attempt.
Leave ==
  /\ at = "choose"
  /\ at' = "failed"
  /\ UNCHANGED <<impl, installed, attempt, meta, promised, methods, call, ki, reply, approved, direct, tvars, lvars>>

\* NextAuthMethodsRemote: the names of the numbers that have one.
NextAuthMethodsRemote(numbers) == {AuthMethodTypeToName(numbers[i]) : i \in DOMAIN numbers} \ {""}

----------------------------------------------------------------------------
(* buildHostKeyCallback, called in the handshake with the upstream.        *)

\* Data that does not parse is taken for none.
BuildHostKeyCallback_Lenient(r) == r.known \in {"empty", "match", "garbled"}

\* The verdict of a callback that needs no call to the plugin.
BuildHostKeyCallback(r) == r.known \in {"empty", "match"}

\* The connection of this attempt is a tunnel.
Tunnelled(t) == t \in Tunnels /\ client[t] = "open"

\* The library gives up an upstream and closes its connection.
CloseUpstream ==
  IF Tunnelled(attempt)
  THEN /\ Close(attempt) /\ UNCHANGED direct
  ELSE /\ direct' = direct \ {attempt} /\ UNCHANGED tvars

\* The upstream shows its host key, or its connection breaks before.
KeyExchange ==
  /\ at = "kex"
  /\ \/ /\ Tunnelled(attempt) => got[attempt]["back"] # <<>>
        /\ at' = "verify" /\ UNCHANGED <<direct, tvars>>
     \/ at' = "methods" /\ CloseUpstream
  /\ UNCHANGED <<impl, installed, attempt, meta, promised, methods, call, ki, reply, approved, lvars>>

\* Without a VerifyHostKey callback the known_hosts data decides.
CheckHostKey ==
  /\ at = "verify" /\ "VerifyHostKey" \notin installed
  /\ IF BuildHostKeyCallback(reply)
     THEN at' = "login" /\ UNCHANGED <<direct, tvars>>
     ELSE at' = "methods" /\ CloseUpstream
  /\ UNCHANGED <<impl, installed, attempt, meta, promised, methods, call, ki, reply, approved, lvars>>

\* The upstream accepts or refuses the credentials.
Login ==
  /\ at = "login"
  /\ \/ at' = "piped" /\ UNCHANGED <<direct, tvars>>
     \/ at' = "rejected" /\ CloseUpstream
  /\ UNCHANGED <<impl, installed, attempt, meta, promised, methods, call, ki, reply, approved, lvars>>

\* The pipe ends; both of its connections are closed.
PipeEnds ==
  /\ at = "copy"
  /\ at' = "ended"
  /\ CloseUpstream
  /\ UNCHANGED <<impl, installed, attempt, meta, promised, methods, call, ki, reply, approved, lvars>>

----------------------------------------------------------------------------

\* The reply of a unary call reaches the daemon.  A nil upstream without an
\* error is dereferenced by createUpstream, and the process ends.
Receive ==
  /\ call.st = "answered"
  /\ call' = Idle
  /\ methods' = IF at = "methods" THEN NextAuthMethodsRemote(call.methods) ELSE methods
  /\ \/ /\ at = "auth" /\ call.ok /\ call.up # NoReply
        /\ CreateUpstream(call.up)
     \/ /\ at = "auth" /\ call.ok /\ call.up = NoReply
        /\ at' = "crashed"
        /\ UNCHANGED <<meta, direct, reply, tvars>>
     \/ /\ at = "auth" /\ ~call.ok
        /\ AttemptFails /\ UNCHANGED meta
     \/ /\ at = "verify" /\ ~call.ok
        /\ at' = "methods" /\ CloseUpstream
        /\ UNCHANGED <<meta, reply>>
     \/ /\ at \in {"new", "methods"} /\ ~call.ok
        /\ at' = "failed"
        /\ UNCHANGED <<meta, direct, reply, tvars>>
     \/ /\ at # "auth" /\ (call.ok \/ at \notin {"new", "methods", "verify"})
        /\ at' = After[at]
        /\ UNCHANGED <<meta, direct, reply, tvars>>
  /\ UNCHANGED <<impl, installed, attempt, promised, ki, approved, lvars>>

----------------------------------------------------------------------------
(* Keyboard-interactive: KeyboardInteractiveCallback in the daemon, the    *)
(* handler KeyboardInteractiveAuth in the plugin, a queue each way.        *)

Msg(m, q, n, u) == [m |-> m, q |-> q, n |-> n, up |-> u]

\* The daemon leaves the exchange: the deferred CloseSend.
Left(k) == [k EXCEPT !.daemon = "off", !.closed = TRUE]

\* Its loop receives a message: a prompt is put to the client, a request
\* for the metadata answered, and a finish turned into an upstream.
KIRecv ==
  /\ ki.daemon = "recv" /\ ki.down # <<>>
  /\ LET msg == Head(ki.down)
         k == [ki EXCEPT !.down = Tail(@)]
     IN \/ /\ msg.m = "prompt"
           /\ ki' = [k EXCEPT !.daemon = "asking", !.question = msg.q]
           /\ UNCHANGED <<at, meta, reply, direct, tvars>>
        \/ /\ msg.m = "meta"
           /\ ki' = IF ki.plugin = "end" THEN Left(k)
                    ELSE [k EXCEPT !.up = Append(@, Msg("meta", 0, 0, NoReply)), !.meta = ToMeta]
           /\ IF ki.plugin = "end" THEN AttemptFails ELSE UNCHANGED <<at, reply, direct, tvars>>
           /\ UNCHANGED meta
        \/ /\ msg.m = "finish"
           /\ ki' = Left(k)
           /\ IF msg.up = NoReply THEN AttemptFails /\ UNCHANGED meta ELSE CreateUpstream(msg.up)
  /\ UNCHANGED <<impl, installed, attempt, promised, methods, call, approved, lvars>>

\* The stream has ended without a finish: an error, or nil and no error
\* when the handler returned none, which the chain takes for a success.
KIEnds ==
  /\ ki.daemon = "recv" /\ ki.down = <<>> /\ ki.plugin = "end"
  /\ ki' = [Left(ki) EXCEPT !.broken = @ \/ ki.status = "ok"]
  /\ AttemptFails
  /\ UNCHANGED <<impl, installed, attempt, meta, promised, methods, call, approved, lvars>>

\* A daemon that responds to every prompt.
KIAnswer_Always ==
  /\ ki.daemon = "asking"
  /\ ki' = [ki EXCEPT !.daemon = "recv",
                      !.up = Append(@, Msg("answer", ki.question, IF ki.question = 0 THEN 0 ELSE 1, NoReply))]
  /\ UNCHANGED <<impl, installed, at, attempt, meta, promised, methods, call, reply, approved, direct, tvars, lvars>>

\* The client answers; a prompt without a question has no response.
KIAnswer ==
  /\ ki.daemon = "asking"
  /\ IF ki.question # 0 /\ ki.plugin = "end"
     THEN ki' = Left(ki) /\ AttemptFails
     ELSE /\ ki' = [ki EXCEPT !.daemon = "recv",
                             !.up = IF ki.question = 0 THEN @ ELSE Append(@, Msg("answer", ki.question, 1, NoReply))]
          /\ UNCHANGED <<at, reply, direct, tvars>>
  /\ UNCHANGED <<impl, installed, attempt, meta, promised, methods, call, approved, lvars>>

\* The client is gone or breaks off: its error ends the exchange.
KIClientFails ==
  /\ ki.daemon = "asking"
  /\ ki' = Left(ki)
  /\ at' = "failed"
  /\ UNCHANGED <<impl, installed, attempt, meta, promised, methods, call, reply, approved, direct, tvars, lvars>>

\* The handler returns, with an error or without.
KIReturn(k, s) == ki' = [k EXCEPT !.plugin = "end", !.status = s]

\* The handler first asks for the metadata ...
KIStart ==
  /\ ki.plugin = "start"
  /\ ki' = [ki EXCEPT !.plugin = "meta", !.down = Append(@, Msg("meta", 0, 0, NoReply))]
  /\ UNCHANGED promised

\* ... and must be given it; Recv fails once the daemon has closed.
KIMeta ==
  /\ ki.plugin = "meta" /\ (ki.up # <<>> \/ ki.closed)
  /\ IF ki.up # <<>> /\ Head(ki.up).m = "meta"
     THEN ki' = [ki EXCEPT !.plugin = "callback", !.up = Tail(@)]
     ELSE KIReturn([ki EXCEPT !.broken = ki.up # <<>>], "error")
  /\ UNCHANGED promised

\* The callback prompts, with a question or only with an instruction (0).
KIPrompt(q) ==
  /\ ki.plugin = "callback" /\ ki.asked < MaxPrompts
  /\ ki' = [ki EXCEPT !.plugin = IF q = 0 THEN "callback" ELSE "await",
                      !.asked = IF q = 0 THEN @ + 1 ELSE q,
                      !.down = Append(@, Msg("prompt", q, 0, NoReply))]
  /\ UNCHANGED promised

\* It waits for the response to its question: one answer, or an error that
\* it returns.
KIAwait ==
  /\ ki.plugin = "await"
  /\ \/ /\ ki.up # <<>>
        /\ LET msg == Head(ki.up)
           IN IF msg.m = "answer" /\ msg.n = 1
              THEN ki' = [ki EXCEPT !.plugin = "callback", !.up = Tail(@), !.answer = msg.q]
              ELSE KIReturn([ki EXCEPT !.broken = TRUE], "error")
     \/ /\ ki.up = <<>> /\ ki.closed
        /\ KIReturn(ki, "error")
  /\ UNCHANGED promised

\* The callback returns: an error, or a finish with what it answered, which
\* may be nil.
KIFinish ==
  /\ ki.plugin = "callback"
  /\ \/ KIReturn(ki, "error") /\ UNCHANGED promised
     \/ \E r \in Replies \cup {NoReply} :
          /\ KIReturn([ki EXCEPT !.down = Append(@, Msg("finish", 0, 0, r))], "ok")
          /\ promised' = IF r = NoReply THEN promised ELSE promised \cup r.keys

\* The handler of the stream.
KeyboardInteractiveAuth ==
  /\ \/ KIStart \/ KIMeta \/ KIAwait \/ KIFinish
     \/ \E q \in {0, ki.asked + 1} : KIPrompt(q)
  /\ UNCHANGED <<impl, installed, at, attempt, meta, methods, call, reply, approved, direct, tvars, lvars>>

----------------------------------------------------------------------------

LogSteps ==
  /\ "ConfigLogger" \in impl /\ at # "crashed"
  /\ Scan \/ Drain \/ RecvLogs \/ LogStreamBreaks \/ Logs
  /\ UNCHANGED <<cvars, tvars>>

ServeTunnel == \E t \in Tunnels : Serve(t) /\ UNCHANGED <<cvars, lvars>>

TunnelTraffic == \E t \in Tunnels : Traffic(t) /\ UNCHANGED <<cvars, lvars>>

\* The daemon's steps: its loop over a stream, its calls and what it does
\* with their replies.
KeyboardInteractiveCallback == KIRecv \/ KIEnds \/ KIAnswer

DaemonStep == InstallPiperConfig \/ Invoke \/ Skip \/ Receive \/ KeyExchange \/ CheckHostKey

World == Login \/ PipeEnds \/ Leave \/ KIClientFails \/ \E m \in DOMAIN AuthCallback : Choose(m)

Next ==
  \/ DaemonStep \/ KeyboardInteractiveCallback \/ World
  \/ HandlerLogs \/ HandlerWrites \/ Handle \/ KeyboardInteractiveAuth
  \/ LogSteps \/ ServeTunnel \/ TunnelTraffic

Spec == Init /\ [][Next]_vars

\* The goroutines of both processes are scheduled, callbacks return, and a
\* client that is asked answers or breaks off.  Nobody needs to log in, to
\* end a pipe, to send a byte, to read one or to open the log stream.
Fairness ==
  /\ WF_vars(DaemonStep)
  /\ WF_vars(KeyboardInteractiveCallback \/ KIClientFails)
  /\ WF_vars(HandlerWrites) /\ WF_vars(Handle)
  /\ WF_vars(KeyboardInteractiveAuth)
  /\ WF_vars(at # "crashed" /\ (Scan \/ Drain) /\ UNCHANGED <<cvars, tvars>>)
  /\ \A t \in Tunnels : WF_vars(ServeAlone(t) /\ UNCHANGED <<cvars, lvars>>)

LiveSpec == Spec /\ Fairness

----------------------------------------------------------------------------
(* Properties.                                                             *)

\* The upstream connection of an attempt that is still open at the daemon.
Opened(t) == t \in direct \/ Tunnelled(t)

\* The two loops of keyboard-interactive agree on whose turn it is: the
\* handler never receives anything but the response it waits for, the answer
\* is to the question asked last, and a stream never ends without error and
\* without a finish, which the daemon would take for nil, nil.
KeyboardAgrees ==
  /\ ~ki.broken
  /\ ki.plugin = "callback" /\ ki.answer # 0 => ki.answer <= ki.asked
  /\ ki.plugin = "await" => \A i \in DOMAIN ki.up : ki.up[i].q = ki.asked

\* Every call carries the metadata that all retry and hand-over answers so
\* far have asked for, however the attempts between them ended.  (The
\* notice of a failed pipe carries none.)
MetaReachesPlugin ==
  /\ call.st = "sent" /\ call.rpc # "PipeCreateError" => call.meta = promised
  /\ ki.plugin \in {"callback", "await"} => ki.meta = promised

\* A client is logged in only over an upstream whose host key was checked
\* as the plugin wants it: by its VerifyHostKey callback in this very
\* attempt, or else against the known_hosts data of the answer in use.
HostKeyChecked ==
  at \in {"login", "piped", "copy"} =>
    IF "VerifyHostKey" \in impl THEN attempt \in approved ELSE reply.known \in {"empty", "match"}

\* A connection that is open at the daemon is the current attempt's, in use
\* by the SSH library; one that is open at the plugin has its handler.
DaemonConnsUsed ==
  \A t \in Attempts : Opened(t) => t = attempt /\ at \in {"kex", "verify", "login", "piped", "copy"}

PluginConnsUsed == \A t \in Tunnels : upconn[t] \in {"open", "eof"} => handler[t] = "copying"

\* No error path of this code leaves a connection behind: createUpstream
\* fails before it dials (grpc.go:320-345, 366-369), a DialContext that fails
\* has cancelled its stream (service.go:107-118), and a handler that returns
\* closes its upstream (service.go:65).  From the dial on the SSH library has
\* the connection and closes it (KeyExchange to PipeEnds, external).
NoConnLeaks == DaemonConnsUsed /\ PluginConnsUsed

\* Every call of the daemon returns, however full the log pipe and whether
\* or not anyone reads the logs, and a keyboard-interactive handler ends
\* once the daemon has left the exchange.
CallsReturn ==
  /\ (call.st # "idle") ~> (call.st = "idle")
  /\ (ki.daemon # "off") ~> (ki.daemon = "off")
  /\ (ki.closed) ~> (ki.plugin \in {"off", "end"})
============================================================================
