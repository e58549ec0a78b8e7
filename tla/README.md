# A TLA+ verification of sshpiper

sshpiper is a reverse proxy for SSH. A client (the *downstream*) connects to the
daemon `sshpiperd`; plugins, which are processes the daemon talks gRPC with, say
which server (the *upstream*) the connection goes to and how to log in there; the
daemon then copies packets between the two connections, which together are a
*pipe*. This directory models the parts of it that are concurrent, keep state or
search a configuration, model-checks them with TLC and proves the central safety
properties with TLAPS.

## 1. The system

| Part | Source | State it keeps | Who touches it | Modelled in |
|---|---|---|---|---|
| Connection life cycle | `cmd/sshpiperd/daemon.go` | two goroutines per connection, the pipe, the deferred calls | accept loop, handshake goroutine, grace timer, kills | `Daemon` |
| Plugin chain | `cmd/sshpiperd/internal/plugin/chain.go` | current plugin, metadata, env of a connection | handshake callbacks | `Daemon` |
| Plugin calls | `cmd/sshpiperd/internal/plugin/grpc.go`, `libplugin/pluginbase.go` | one call or stream at a time, the upstream of an attempt, the log pipe | handshake callbacks, plugin handlers, log goroutines | `PluginCalls`, `PluginLogs` |
| Connections over gRPC | `libplugin/connovergrpc` | a stream, two copiers, buffers | daemon and plugin | `ConnTunnel` |
| Forwarding filter | `cmd/sshpiperd/forwarding.go`, `hook.go` | two counters under a mutex and a condition variable | the two packet goroutines of a pipe | `ForwardingFilter` |
| Admin registry, broadcaster, stream hook | `cmd/sshpiperd/internal/admin/` | sessions, subscribers, header history, Go channels | daemon, packet goroutines, gRPC handlers | `AdminSessions`, `Daemon` |
| Aggregator | `libadmin/aggregator.go` | clients by address, infos by id | every caller concurrently | `Aggregator` |
| Web admin | `cmd/sshpiperd-webadmin` | one aggregator | refresh loop, HTTP handlers, exit | `WebAdmin` |
| Admin shell | `cmd/sshpiperd-admin` | input multiplexer, running command | reader and shell goroutine of a channel | `AdminShell` |
| revtunnel registry | `plugin/revtunnel/registry.go`, `store*.go` | live tunnels, persisted records, channels | all registrar connections, connectors, sweeper | `TunnelRegistry` |
| revtunnel server | `plugin/revtunnel/server.go` | per registrar: tunnels, binds, notification queue, session env | three goroutines per registrar | `RegisterServer` |
| failtoban | `plugin/failtoban/main.go` | a cache of failure counts with expiry | concurrent callbacks, SIGHUP | `FailToBan` |
| lua | `plugin/lua` | one interpreter, a state pool, three locks | concurrent callbacks, SIGHUP goroutine | `Lua` |
| Exec bridges | `plugin/docker/dockersshd_bridge.go`, `plugin/kubernetes/kubectl_exec_bridge.go` | a listener, tables of keys and targets | concurrent callbacks, bridge connections | `BridgeListener`, `DockerBridge`, `KubeBridge`, `ExecBridges` |
| Route matching | `libplugin/skel` and the yaml, workingdir, docker and kubernetes plugins | none: a search over a configuration that is read anew every time | | `Texts`, `Skel`, `YamlPipes`, `WorkingdirPipes`, `DockerPipes`, `KubePipes`, `Routes` |
| Screen recording | `cmd/sshpiperd/asciicast.go`, `typescript.go` | files per channel | packet goroutines | opened and closed in `Daemon` |
| Command lines, simple plugins, metrics, generated code, tests | the rest | none that changes after start-up, or counters only | | not modelled |

How the parts interact. `daemon.go` accepts a connection and starts a handshake
goroutine, in which the SSH library calls the plugin chain; each of its callbacks is a
gRPC call to a plugin process, where `pluginbase.go` calls the plugin's own function. An
upstream is dialled by the daemon, or by the plugin with the bytes carried over a gRPC
stream. When the handshake yields a pipe, the connection goroutine enters it in the
admin registry, sets up recording, filters and env injection as packet hooks, tells the
plugins of the pipe and waits for its end; deferred calls undo all this. The admin gRPC
service kills sessions and streams them to viewers through the broadcaster the stream
hook publishes to. The web admin and the admin shell are clients of the admin services
of several daemons, through one aggregator each. Of the plugins, four search a
configuration for the pipe of a login with the code of `skel`; docker and kubernetes
may also run an SSH server of their own, the exec bridge, and hand the daemon a key with
which it finds the container or pod; lua runs a script; revtunnel has an SSH server
inside with which machines without a public address register reverse tunnels, which
connectors reach through sshpiperd by the tunnel's guid; failtoban sits in the chain and
counts the failures the daemon notifies.

What is hard to get right here is listed line by line under "hazards" in
`PROJECT.json`: the grace timer against a handshake that is just finishing; values
checked under a lock and used after it; the bounded channels between a publisher and
slow viewers; replies that must keep the order of their requests although two goroutines
produce them; tunnels registered while their connection goes away; store failures
between the live and the persisted half of a record; restarts; check-then-act on a
cache; one interpreter for all connections, and a user who keeps it waiting; keys generated
outside the lock that guards their table; turns on a stream; a copier blocked on a peer that
stopped reading; a refresh that asks without its lock.

## 2. The modules

Every module names the Go functions it translates, action by action; "map" in
`PROJECT.json` gives the lines. One action is one critical section, one call of another
goroutine or process, or one channel operation, so that everything Go can interleave is
interleaved. Data is reduced to what the properties tell apart: guids, keys, addresses
and connections are model values, packets are their kind. A module `MCx` gives `x` its
constants for TLC.

### ForwardingFilter

`down` (client to upstream) and `up` (upstream to client) are the hooks of a pipe,
called by one goroutine each. `down` reserves a number for each request that wants a
reply (`DownReserve`), and for a blocked request waits on the condition variable
(`DownSleep`) until all earlier ones are counted, then counts its own and answers
(`DownProceed`, `WriteAnswer`). `up` counts a reply (`UpHook`) before the pipe
writes it (`WriteReply`): this gap is in the code and in the model. The client and the
upstream are external: the client sends any packets, up to `MaxPackets`; the upstream
answers in order (`UpstreamReplies`). `PipeCloses` ends the pipe at any time.

### TunnelRegistry

The abstract specification of what the rest of the revtunnel plugin may do with the
registry: `Put`, `UpdateConnectorKeyWire`, `UpdateAllowPassword`, `Touch`, `Remove`,
`EvictIdle`, and the connector channels (`OpenChannel`, `TrackChannel`,
`CloseChannel`). Methods are atomic because each holds the registry's mutex
throughout; what they do *after* unlocking is separate (`CloseConn`, `CloseTaken`).
A live tunnel has two halves, the entry in `live` and the record in `store`; a store
operation may fail. Time is abstracted to "idle since before the cutoff" (`AgeLive`,
`AgeStored`). `Restart` loses everything in memory, and the store unless `Durable`.

### RegisterServer

Extends `TunnelRegistry` with its real callers: for each registrar connection the
goroutine of `HandleConn` (start, wait, `cleanup`), the one of
`handleGlobalRequests` (`tcpip-forward` in the steps pre-check, `Put`, record,
enqueue, or revoke; `cancel-tcpip-forward`) and the one of `serveSession` (env until
`shell`, then one tunnel after the other from the queue: overrides, lookup, block).
Each registry change is a call of a `TunnelRegistry` action, as the code changes the
registry only through its methods. The queue of notices `guidCh` has the capacity
`notificationQueueCapacity` gives it (`QueueCap`), and a notice stays in it when its tunnel
goes. Channels are left out here (`Chans = {}`): the server does not touch them. A restart is in `TunnelRegistry` only: it leaves no
goroutine of the server behind.

### AdminSessions

The registry entry of a session, its broadcaster, the stream hook in both packet
directions, `StreamSession` calls (*viewers*) and `KillSession` calls (*killers*).
A viewer's Go channel is modelled with its buffer and with what Go does on misuse: a
send on a closed channel or a second close puts it in state `"panic"`.

### Daemon

The two goroutines of a connection in `run`, the chain of `N` plugins the handshake
consults, the login grace time, and the deferred calls in their order. Plugin
answers are nondeterministic: refuse, retry the same plugin, go on to the next one
(both with metadata), or an upstream with an env. The handshake goroutine offers its
result on an unbuffered channel (`Established`, `TakePipe`). The admin registry is
used through the interface `AdminSessions` specifies, and `ImplementsAdmin` checks
that against `AdminSessions` itself, without viewers.

### FailToBan

`NewConnection` makes two calls of the cache (`NewConnection`, `AddEntry`); notices
increment; entries expire by `Tick`; SIGHUP flushes. The cache (go-cache) is
external: each call of it is atomic.

### PluginCalls, ConnTunnel, PluginLogs

`PluginCalls` follows one connection through the calls of `grpc.go`, with the handler
of `pluginbase.go` at the other end. A unary call is a record with the place it has
reached; a callback that the plugin did not register is answered as gRPC answers it.
Keyboard-interactive is a stream on which the two sides take turns (`KI...`); a plugin
asks up to `MaxPrompts` questions and may send instructions without one. An answer
of the plugin becomes an upstream (`CreateUpstream`: metadata, key, URI, known hosts,
then dialling, each of which may fail), after which the host key is checked. An answer of a
unary callback that is neither an error nor an upstream ends the daemon (`at = "crashed"`,
section 3). The SSH library, which decides what is called when, is external. `ConnTunnel` is
an upstream that the plugin dials: the `net.Conn` at the daemon, with the two ways in which
`DialContext` fails (`DialContextFails`: no stream, or a stream that is cancelled because
its `DialRequest` cannot be sent), and `ServeCreateConn` with its two copiers at the plugin,
bytes numbered as they are written, packets split and joined by the read buffers of both
ends. A copier's write goes through when its peer reads, which a peer need not do. `PluginLogs` is
the pipe into which every handler may write, the goroutine that scans it, the bounded
channel, and the stream the daemon may or may not have opened. `PluginCalls` extends
both: an upstream it creates is a tunnel when the plugin has a `CreateConn` callback,
and a handler that logs waits for room in the pipe before it answers.

### Lua

A call is one callback of one connection in the shared interpreter: it takes `stateMu`
(`GetLuaState`), enters the script, may wait for its user in the middle (`Challenge`,
`UserAnswers`), leaves its values on the shared stack and puts the state back. The
script is a set of global functions (some clear their own global), a counter that every
call raises, and a nondeterministic result of the class the handlers tell apart;
`ParseUpstream` and the twelve `Handle...` operators are what the plugin makes of it.
When the login grace time of a user who is being asked runs out, the daemon calls the plugin
first (`GraceNotice`, if the script has a function for it) and closes the connection when
that call has returned (`GraceCloses`, the deferred `c.Close` of `daemon.go:529`); without
such a function it closes it at once. `Prime`, `InitPool`, `Sighup`, `ReloadBegin` and
`ReloadTest` are start-up and `reloadScript`, with `mu` and `reloadMu` as the code holds
them.

### BridgeListener, DockerBridge, KubeBridge, ExecBridges

Both plugins open the listener of their bridge in the same way: look under the lock,
listen without it, adopt or give up under it (`EnsureLook`, `EnsureListen`,
`EnsureAdopt`). Their tables differ. A docker callback lists the containers, registers a
key for each that asks for one (`RegisterLook`, key generation, `RegisterStore`) and
drops those that its own list lacks (`SyncDockerSshdState`). A kubernetes callback
brings the tables in line with its list first (`SyncKubectlExecState`) and registers the
pipe it matches. The bridge finds the target by the key the daemon presents
(`PublicKeyCallback`, `SelectTarget`), possibly long after the callback. `ExecBridges`
is either plugin over one listener.

### Texts, Skel, YamlPipes, WorkingdirPipes, DockerPipes, KubePipes, Routes

Operators, not actions: `Texts` is what a plugin loads, a sequence of lines or an error;
`Skel` has the search (`SupportedMethods`, `Match`, the key and
certificate check, `CreateUpstream`), the four `...Pipes` modules turn the configuration
of a plugin into the sequence of *froms* that the search goes through, errors of
loading, file permissions and base64 included. Regular expressions, bcrypt, TOTP and
certificates are their verdicts. `Routes` is a login: `Offer` (the methods), `Try` (a
credential), `EnterCode` (the second factor of workingdir) and `EditConfig`, because every
callback reads the configuration anew. Each request names a user of its own, as every
callback takes `conn.User()` anew (`grpc.go:209-216`); `codes` is a history variable with the
users whose right code was entered, where the code itself keeps only a mark in the metadata
of the connection (`checked`). `Configs` is the type of a plugin's configuration:
the theorems quantify over all of them, the run has some.

### Scans

The three loops over a slice that several modules share: `Filter` (keep what is in a
set), `Flatten` (append slice after slice) and `FirstOf` (the first position of a set).
They are recursive functions, so that `Scans_proofs` can say what they compute;
`ScansAssumption` of `MCRoutes` compares them with the library's operators.

### Aggregator, WebAdmin, AdminShell, AdminTools

`Aggregator` has `Refresh` and `ListAllSessions` with their goroutines (the lock is held
only at their ends), `ClientFor`, `KillSession`, `StreamSession` and `Close`, over
instances that go down, come back and report identifiers, two of them possibly the
same one. A discovery returns a list (`EndpointLists`), which may name an address more than
once; a refresh asks once for each position of it. `WebAdmin` adds the start, the refresh loop and the HTTP handlers, all on one
aggregator. `AdminShell` is a session channel of `sshpiperd-admin serve`: exec, shell
with and without terminal, `splitArgs`, the input multiplexer, the commands, each with an
aggregator of its own, and the handler that turns a stream into an asciicast.
`AdminTools` is either tool over the same instances.

## 3. The runs

| Run | Instance | What it shows |
|---|---|---|
| `forwarding_filter` | 5 packets of any kind, both directions blocked | a local failure overtakes at most the reply `up` holds (`OvertakesAtMostTheHeldReply`); a goroutine asleep in `down`, also one that a closing pipe leaves behind, waits for a reply that is really outstanding (`SleeperIsOwed`); every request is answered in an open pipe (`EventuallyAnswered`) |
| `tunnel_registry` | 3 guids under a cap of 2, one connection, one channel, durable store | live and persisted halves agree (`HalvesAgree`), an open channel is tracked or about to be closed (`NoChannelForgotten`), channels and stale records do not outlive their tunnel for good (`NothingOutlivesItsTunnel`) |
| `register_server` | 2 guids, one bind, per-connection cap 1, global cap 2, one key | `EveryTunnelHasAnOwner`, `OverridesBeforeAnnouncement`, a forward within the caps finds the queue of notices full only behind the notice of a tunnel that is gone (`AllowedForwardsFit`), and tunnels of an ended connection or session, or under an invalid key, go away (`TunnelsAreRevoked`) |
| `admin_sessions` | one session with 2 channels, a viewer, a kill, buffers of 2, 3 frames | no Go channel panics (`NeverPanics`), frames come in order and behind their header (`StreamFaithful`), every viewer's call returns (`ViewersEnd`) |
| `daemon` | one connection, 2 plugins, 3 attempts, 2 methods, 2 env variables, 2 kills, recording | notices pair up (`NoticesAddUp`), the env is that of the accepted attempt (`EnvOfPipe`), only the grace time strands a goroutine (`OnlyGraceStrands`), the admin registry is used as specified (`ImplementsAdmin`), hanging handshakes and killed sessions end (`ConnectionsEnd`) |
| `fail_to_ban` | 3 connections, 2 addresses (one ignored), 2 failures, 4 ticks | a ban holds while it lasts and no failure is lost to a race (`BansHold`); every ban ends (`BansEnd`) |
| `lua` | 3 calls of 2 connections, 3 scripts (one asks users and is told of failed pipes), one edit, one SIGHUP | no update of a global is lost and nobody gets another call's value (`CallsAreIsolated`); every call returns, a stuck reload or not, or else a silent user of a script with a create-error function is being asked for ever (`CallsReturn`) |
| `routes` | one or two pipes of each plugin with the fields that decide a branch varied, 3 users, 5 credentials, 2 attempts, an edit | the first pipe with an opinion decides, errors included (`RoutedByFirstOpinion`); yaml never takes configured known_hosts data for none (`KnownHostsKept`); with `--check-totp` no upstream before a right code was entered on the connection, whatever user names the client goes through (`CodeBeforeUpstream`) |
| `exec_bridges` | 2 callbacks, 2 containers or 2 pipes, 2 keys, 2 listeners | the tables agree with each other (`TablesAgree`), a key opens what it was made for or nothing (`KeyOpensItsTarget`), an address given out is served or its bridge has failed (`BridgeIsServed`) |
| `plugin_calls` | 3 plugins of different callbacks, 2 attempts, one tunnel, 3 bytes out and 2 back, buffers of one | both ends of keyboard-interactive agree (`KeyboardAgrees`), metadata of an answer is in every later call (`MetaReachesPlugin`), the host key is checked as the attempt in use says (`HostKeyChecked`), no error path of the dialling code and of the handler leaves a connection or a stream behind (`NoConnLeaks`), a tunnel delivers a prefix of what was written, and all of it before an EOF (`TunnelDelivers`), calls return whatever the log pipe does (`CallsReturn`), a closed tunnel is torn down unless a copier is blocked for good on a peer that does not read (`TunnelsEnd`) |
| `admin_tools` | 3 instances with 2 identifiers, one of them ambiguous or not, lists with and without a repeated address, one HTTP handler, one session, 8 command lines, 2 keys typed, 3 frames of 2 channels | routing is by the last refresh, identifiers of more than one entry of the list left out, in whatever order the answers came (`RoutesTheUnambiguous`); a recording is one channel (`CastIsOneChannel`); once the instances stay as they are, the web page routes by what they are (`WebConverges`); Ctrl-C ends the command it was taken for (`InterruptEnds`); the reader ends with its shell (`ReaderEnds`) |

Each property has a mutant of the code in `PROJECT.json` that breaks it. A conjunction
(`BansHold`, `StreamFaithful`, `TunnelsAreRevoked`, `CallsAreIsolated`, `NoConnLeaks`) has one
for each half.

### Disagreements between the code and what the repository says

`lua_reload` is expected to fail: `plugin/lua/README.md:50` says that after a SIGHUP "New
connections will use the reloaded script", but `reloadScript` empties the old pool with
`mu` held, and the pool's `New` takes `mu` (`lua.go:201`): a reload that has found the
script valid never returns (`ReloadTakesEffect`).

Five more are stated in the modules as properties that do not hold. To see the
counterexample, check the property under the constants given.

| Property | Module, specification, constants | What is said | What happens |
|---|---|---|---|
| `RepliesInRequestOrder` | `ForwardingFilter`, `FilterSpec`; `disableLocal = FALSE`, `disableRemote = TRUE`, `MaxPackets = 2` | `forwarding.go:144-147`: the wait is there "so replies reach the client in the same order the requests were sent." | `up` counts a reply before the pipe has written it; the local failure that was waiting for it can be written first |
| `BlocksAreWritten` | `RegisterServer`, `RSpec`; `maxTotal = 0`, two ports, `maxPerConn = 2` | `server.go:798-802`: serveSession "streams every guid registered on this connection" | after one failed override the channel is closed for writing and the loop goes on: later tunnels are live and unannounced |
| `ClosesOnlyUnused` | as above | `registry.go:323-326`: "Close a registrar connection only once none of its forwards remain live" | unused is decided under the lock and acted on after it; a forward registered in between loses its connection |
| `ClosedAfterGrace` | `Daemon`, `RunSpec`; `Killers = {}`, `N = 1`, one method, one variable and value, `MaxTries = 1`, `Recording = FALSE` | `main.go:169`: "sshpiperd forcely close the connection after this time if the pipe has not successfully established" | the plugins are notified first, by a call without deadline |
| `RefusesOnlyBanned` | `FailToBan`, `BanSpec`; two connections of one address, nothing ignored | `failtoban/README.md:3`: "put ip to jail for a while after failed to login for several times." | of two first connections of an address, `cache.Add` refuses one |

Others were met while modelling and have no property:

- the notice of a tunnel that was cancelled or evicted keeps its place in the queue of
  `server.go:635`, so a registrar within its cap may find it full and its new tunnel revoked,
  although `server.go:260-262` sizes it "so all allowed forwards can be queued".
  `AllowedForwardsFit` is what holds: live tunnels alone never fill it;
- a ban of failtoban runs from the *first contact* of the address
  (`failtoban/main.go:96`), so it can be shorter than `--ban-duration`. `BansEnd` only says
  that it ends;
- a lua script that asks its user keeps `stateMu` meanwhile. With a create-error function in
  the script, the notice at the end of the grace time waits for that mutex
  (`lua.go:834`), and the daemon closes the connection only after the notice. So the
  connection is not closed as `main.go:169` (quoted above) says, and the callbacks of all other
  connections wait until the user answers or leaves. `CallsReturn` of `Lua` has this case as
  its only exception;
- a copier of a tunnel that is writing to a peer which does not read keeps the handler after
  the other end has closed, since `service.go:96` waits for the first copier, where the
  comment at `service.go:34-38` has it tunnel bytes "until either side closes". It is the
  exception in `TunnelsEnd`;
- `workingdir/README.md:92`: "`--check-totp` will check the TOTP 2FA before connecting to the
  upstream". The mark it leaves in the metadata (`workingdir/main.go:115`) does not say whose
  code was checked, and the user name is that of the latest request, so the code belongs to
  the user who is routed only as long as the client names no other. `CodeBeforeUpstream`
  says what holds without that condition;
- an endpoint that is listed twice is asked twice and loses its own identifier, where the
  comment at `aggregator.go:149-152` speaks of "Two different endpoints".
  `RoutesTheUnambiguous` counts entries of the list accordingly;
- a none, password or public-key callback that returns neither an upstream nor an error makes
  `createUpstream` dereference nil (`grpc.go:303`), which ends the daemon; keyboard-interactive
  has a check for it. Nothing is claimed of the calls of other connections then;
- `UpstreamAuthFailureCallbackRemote` (`grpc.go:259-268`) makes a slice of
  `len(Allowed)` zeros and appends to it, so the plugin is told the method "none"
  first, where `plugin/lua/README.md:128` says that "`allowed` is a table of remaining
  method names";
- `Aggregator.Refresh` removes a vanished endpoint's info by its address although infos
  are keyed by id; with a discovery that changes, a later list would use a client that is
  gone. Both tools use a static discovery, for which `RoutesTheUnambiguous` holds;
- the first refresh of the web admin (`main.go:152`) has no deadline: an endpoint that
  accepts and does not answer keeps it from starting;
- in the admin shell, a key read after a line was entered and before its command is set
  up blocks the reader in the editor's pipe while the command runs, so a Ctrl-C behind it
  is not seen until the command ends; and the stream of an idle session is not cancelled
  when the SSH client leaves, only at the next frame;
- `Close` of a connection over gRPC cancels the stream right after `CloseSend`, so bytes
  written just before may not arrive; on the way to the upstream `TunnelDelivers`
  promises a prefix only.

### Bounds

`Max...`, `Capacity`, `BufSize`, `PipeCap`, `LogCap` and `Burst` bound counters and
buffers, in the guards.

- `forwarding_filter`: five packets allow two replies in flight, one held and two
  requests that the filter answers itself.
- `tunnel_registry`: three guids under a cap of two let two tunnels share a connection
  while a third is refused. `register_server`: two guids under a per-connection cap of
  one let a second forward arrive while the first is being registered, announced or
  revoked, with room for one notice; a key is valid or not, so one of them suffices. For
  larger caps and other keys the proofs stand in.
- `admin_sessions`: three frames overflow a buffer of two, from two channels. One viewer:
  `Publish` gives each its own copy without waiting (a `select` with `default`), which the
  model takes over, so that no viewer holds up another is not a result of the run.
- `daemon`: connections share the admin registry, keyed by a unique id, and nothing else,
  so one suffices. Two kills race each other and the end of the session; three attempts
  let an env be overwritten and dropped.
- `fail_to_ban`: three connections, two of one address, and four ticks, so that a
  failure may come in before, during and after a ban.
- `lua`: three calls by two goroutines: one that leaves something behind, and two that
  could find it; one of them may be the notice of the grace time. Two scripts ask users, and
  only one of these is told of failed pipes. One edit and one SIGHUP.
- `routes`: at most two pipes (a search goes past one and stops at the next), with
  every field that decides a branch in each of its classes, and one edit and one change of
  the user between two attempts.
- `exec_bridges`: two callbacks, which is what a race takes, a container with a command
  and one without, two keys and two listeners. Callbacks and pipes are only compared, so
  they are permuted; the run checks invariants only.
- `plugin_calls`: the callbacks are split over three plugins such that each place has a
  plugin with and one without its callback. Three bytes in buffers of one give a packet
  that does not fit a read, and one after it, in both directions. Tunnels are numbered by attempt; a second
  one would be independent of the first.
- `admin_tools`: three endpoints, of which two or three may report the same identifier,
  and one change (an endpoint goes down, comes up or reports something else); a list of
  the shell with one address twice; two keys typed ahead; frames of two channels.

Only `exec_bridges` uses symmetry, since the other runs check liveness or have nothing to
permute.

### Fairness

- Goroutines that are not blocked run: weak fairness of the steps of `down`, `up`, the
  connection goroutine, `cleanup`, deferred closes, `StreamSession`, the plugin's handlers,
  the log goroutines, the copiers of a tunnel as far as they wait for nobody (`ServeAlone`),
  the refresh loop, the reader and the shell. This is what the Go scheduler gives.
- `ForwardingFilter` assumes an upstream that answers what it got; `Daemon` (`LiveSpec`,
  not `RunSpec`) plugins that return from notices; `PluginCalls` callbacks that return and a
  client that answers a prompt or breaks off; `Lua` functions that return and the daemon's
  grace timer, but no user who answers or leaves; `AdminTools` endpoints whose calls end,
  which their deadline gives.
- `SF(GlobalEnds)`: the select-free loop of `handleGlobalRequests` sees the closed
  request channel although requests may still be queued. `SF(EvictIdle({}))`: the
  sweeper's ticker fires again and again, and a store delete does not fail every time.
  `SF(GetLuaState)`: a Go mutex hands itself to a goroutine that has waited for long.
- Nothing is assumed of the two peers of a tunnel: a write to one that is open and does not
  read may block for ever, as `io.Copy` does. Nothing either of registrars, kills, the handshake, the log stream, viewers'
  cancellation, typing at the admin shell, or the operator's edits and signals.

## 4. The proofs

Eight modules hold proofs, for every value of the constants that satisfies the named
assumptions of the modules that declare them. The theorems with a property in
`PROJECT.json` state what a run checks on its instance. The others state the rest of an
inductive invariant.

**RegisterServer_proofs.** The module has two halves, since the server extends the
registry. *The registry:* `RegistryInv` is the conjunction of the safety invariants with
`TypeOK` and `Bookkeeping` (which connection a live tunnel belongs to, and which tunnel a
channel). One lemma per conjunct; `CapStep` needs finite-set cardinality, the others sets
and functions only. `UnusedStep` is the longest: a connection counts as unused only
after *all* the tunnels of a sweep are out.
*The server:* `ServerCalls` shows that every step of the server changes the
registry by a registry method or not at all; with the lemma `ServerUsesRegistry`, which
follows, `ServerKeepsRegistrySafe` carries the registry's theorems over.
`OwnerTheorem` says that at every moment somebody is answerable for each live tunnel: the
goroutine that is registering or removing it, or the connection's list, which cleanup
takes over. Its invariant `ServerInv` needs `Control` (what a goroutine holds at each
place). `OverridesTheorem` is about the session goroutine: a tunnel is announced with the
key and the password toggle of its session, or not at all. Its invariant `OverrideInv`
says that what one goroutine hands to the other belongs to their connection
(`HandOver`) and that the overrides already made are those of the env (`Announcing`).
The instance of the run has one key; the theorem covers an override by another one.
`ForwardsFitTheorem` is about the two goroutines and the queue between them. Its invariant
`FitInv` says that a tunnel has at most one notice (about to be queued, waiting, or in the
session's hands), and that once a forward has passed a cap, the live tunnels whose notices
wait are fewer than that cap: the cap counts live tunnels, of which those are some, and until
the forward is queued their number can only fall. A queue of live tunnels only is an
injection into that set, so it is shorter than the capacity (`LiveQueueIsShort`).

**ExecBridges_proofs.** One invariant for each of the three modules (`IBridge`, `IDocker`,
`IKube`), put together in `IInv`. For the tables it says that they agree with each other,
and that a key a callback has in its hand is in the table for the container or pipe it was
made for, or no longer in it: keys are never reused. For the listener, that one is served
exactly when its address is the plugin's, and that an open one belongs to a single
callback about to adopt or close it. `TablesTheorem`, `KeyTheorem` and `ServedTheorem` hold
for any number of callbacks, containers, pipes, keys and listeners.

**AdminSessions_proofs.** `NoPanicTheorem`: no interleaving of `Publish`, `Close`,
`Subscribe` and `unsubscribe` sends on a closed Go channel or closes one twice. The
invariant `ChanInv` adds that a subscribed channel is open (`SubscribedAreOpen`): every
operation that closes one takes it out of the subscribers in the same critical section.
`StreamFaithfulTheorem`: what a viewer gets is in the order of publication, and with the
replay no output comes before the header of its channel. Its invariant `StreamInv` says
that the history, which is filtered at every header, has the header of each channel that
runs, in order (`HistoryKept`); that only a channel whose shell has started sends output
(`UpIsOutput`); and, of each viewer, that what it was sent together with what is in its
channel is an increasing run of frames of the log, with the header of every running
channel in it or dropped at a full buffer (`Streams`). A replay is the history, so
`Subscribe` needs the first of these and `Publish` the last.

**Daemon_proofs.** *Connections:* `IInv` has three parts for each connection: which
notices were sent, by the place of the connection goroutine (`NoticesAt`); what the handshake goroutine may
still do, and that only the grace time leaves it with a result nobody takes
(`HandshakeAt`); and what is open, registered and recorded while there is a pipe
(`PipeAt`). `NoticesTheorem`, `EnvTheorem` and `StrandsTheorem` follow, for any number of
connections, plugins, attempts and kills. `AdminTheorem` is the refinement: every step
of a daemon is a step of `AdminSessions` on the variables they share, or none.
*The forwarding filter:* the inductive invariant `FilterInv` says that each request is
in one place (`OnePlace`: with `down`, at the upstream, on its way back, with `up`, or
delivered), that `counted` holds exactly what the counter `replied` has counted and only
requests whose reply was seen (`CountedWhenSeen`), and where the goroutines are
(`Position`). The key step is `AllEarlierCounted`: when `replied` equals the reservation
number, the counted requests are all the earlier ones, because a set of that cardinality
below that number has no gap. `OvertakeTheorem` follows, and `CountTheorem` and
`AnswerTheorem`. `SleepTheorem` adds `NoneLost` (every request that was reserved is somewhere
on its way or delivered) and `Awake` (what `up` has seen is counted, and whoever
sleeps waits for a count that has not been reached): together they exclude a lost wake-up.

**PluginCalls_proofs.** The first part is about `ConnTunnel`, with the invariant of a tunnel,
`TunnelInv`: the bytes that have arrived, those a copier holds, the rest of a packet and
the packets on the stream are one run of numbers without gap (`Run`, `Packet`, `Chain`).
A chain is stated packet by packet, each with its neighbour, since a sum over the queue
would need induction. The second part is about the calls, `CallsInv`: a call is the one due at its
place (`CallAt`, the crashed daemon included); what the plugin asked for is in the metadata or in the answer on its way
(`MetaAt`); a verdict on a host key belongs to the attempt in use (`HostAt`); one dialler
and one open upstream (`ConnAt`); and who has the turn on the keyboard-interactive
stream, by the place of the handler (`KiAt`). From these come `KeyboardTheorem`,
`MetaTheorem`, `HostKeyTheorem`, `LeaksTheorem` and `DeliversTheorem`. `LeaksTheorem` has a
half for each process: at the daemon, that a failed dial leaves nothing open and that nothing
fails between the dial and the SSH library's taking over (`ConnAt`, `ConnFails`); at the plugin,
that an upstream is open only while its handler copies, whose return closes it
(`TunnelsAlways`). That the SSH library closes what it was given is assumed of it
(`CloseUpstream`, `PipeEnds`, external). `MetaTheorem` needs
one thing that the instance of the run had by its choice of answers, now a conjunct of
`CallsAssumption`: only a retry or a hand-over carries metadata (`plugin.proto:50-73`).

**AdminTools_proofs.** `RouteInv` needs, besides the property, what a refresh has sorted so
far (`Sorted`): an identifier reported at one position of the list is in the new map, one
reported at several is among the duplicates and not in the map, and one not reported is in
neither. Positions and not addresses are counted, so repeated addresses are covered.
`AnswerSorted` is the key lemma: the third report of an identifier must not put it back.
For the clients it needs that no refresh loses one: webadmin has a fixed list of endpoints
(`WebAssumption`; `NewStaticDiscovery`, `cmd/sshpiperd-webadmin/main.go:141`), and a command
of the admin shell has an aggregator of its own that knows no route before its refresh
(`ShellAt`). `RoutesTheorem` holds for any lists of endpoints, identifiers and handlers.
The proof rests on that fixed list: when endpoints vanish, the step that removes a client
does not keep the second conjunct, which is the case described in section 3.

`CastTheorem` is about the recording of the same shell: what `streamHandler` has written is
`Recording` of the frames it has seen, the frames of the channel of the first header from
there on with later headers as resizes. `CastInv` adds that the handler is locked to that
channel exactly when there was a header, and that a new command starts with nothing seen;
the step is `FilterAppend`, one more frame at the end of a filtered slice.

**Plugins_proofs.** *lua:* `LuaInv` says that a call is between `getLuaState` and `putLuaState` exactly
when it holds the lock of the shared state (`Owner`), that what its script has read of
the counter is what there is (`Current`), and that the stack holds the values of the call
that is about to pop them and nothing else (`Stacked`). `IsolationTheorem` follows for any
number of calls, including those whose script asks the user something on the way and the
notices of the grace time.
*failtoban:* `BanInv` says that an entry that has expired counts nothing; with it every step
either keeps or raises a count, or the entry expires or is flushed, which is
`BansHoldTheorem`, an action property.
*Routes:* `CodeTheorem` follows from the meta of the connection alone: the mark is there only
if a code was entered, whoever the client has named since. The other two are
about the searches. `ScanIs` shows that the loop over the lines of a file says of a key
what its first position says, and `MatchIs` that the loop over the froms answers what the
first from with an opinion answers: each is shown by a closed form that satisfies the
recursion, and by a least counterexample that there is no other. The lemmas
`YamlFroms`, `DockerFroms`, `WorkingdirFroms` and `KubeFroms` show that whatever the
configuration is, the froms made of it are ones the search can judge. The invariant
`RouteInv` then only says that the answer is that of the last attempt against the
configuration it met, and `FirstOpinionTheorem` and `KnownHostsTheorem` follow for every
configuration of the four plugins and every edit. They assume of a credential what the
SSH protocol gives (`RoutesAssumption`): a password comes without a certificate, a key
without a password, and a key is not a comment.

**Scans_proofs.** Induction over a set of numbers (`SetInduction`, `BoundedInduction`) from
the well-foundedness of `<`, and what `Filter`, `Flatten` and `FirstOf` compute:
`FilterKeeps`, `FilterIncreasing`, `FilterAppend`, `FlattenKeeps`, `FlattenOf`. The library's
induction theorems are about a predicate, which the provers cannot instantiate; a set
they can.

Every safety property that a run checks is a theorem. Only model-checked is what must
eventually happen, since fairness and `ENABLED` are beyond the prover: `EventuallyAnswered`,
`NothingOutlivesItsTunnel`, `TunnelsAreRevoked`, `ViewersEnd`, `ConnectionsEnd`, `BansEnd`,
`CallsReturn`, `TunnelsEnd`, `WebConverges`, `InterruptEnds` and `ReaderEnds`; and the
counterexamples of section 3, which are about small instances by nature.

## 5. What is not modelled

External, and present only as what the code does with them: the SSH protocol (the forked
`x/crypto/ssh`), gRPC, gopher-lua, the docker engine and the kubernetes API, and the cache
of failtoban. Not modelled, with the reason:

- what the recorders write (`asciicast.go`, `typescript.go`): formatting of bytes into
  files; opening, failing and closing them is in `Daemon`;
- the packets of `envinject.go`: the hook keeps no state; which env it injects is in
  `Daemon`;
- the exec session behind a bridge once the target is known, `ioconn`, and the remote
  signer: they copy bytes or forward one call;
- the connector's side of revtunnel before it opens a channel (matching its key or
  password with the tunnel's);
- the handshake of `sshpiperd-admin serve`, before a session channel is open;
- the plugins without state (fixed, simplemath, username-router), the metrics plugin,
  command lines and start-up, generated code, packaging and tests.

"components" in `PROJECT.json` has the complete list.
