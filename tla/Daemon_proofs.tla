---------------------------- MODULE Daemon_proofs ---------------------------
(***************************************************************************)
(* The safety properties of a connection for any number of connections,    *)
(* plugins and kill calls, and the refinement of AdminSessions.  The       *)
(* inductive invariant says, for each place of the connection goroutine,   *)
(* what the plugins have been told, where the handshake is, and what has   *)
(* become of the recorder, the pipe and the registry's entry.              *)
(*                                                                         *)
(* Then the forwarding filter of a pipe, for either setting of its flags   *)
(* and any number of packets: every reply is counted once, every request   *)
(* is answered at most once, a failure the filter makes itself overtakes   *)
(* at most the one reply the up goroutine holds, and a goroutine that      *)
(* sleeps waits for a reply that is on its way.                            *)
(***************************************************************************)
EXTENDS Daemon, ForwardingFilter, FiniteSetTheorems, TLAPS

ConnPlaces == {"new", "select", "createError", "register", "record", "start", "wait", "pipeError",
               "closeRecorder", "remove", "closeBroadcaster", "closePipe", "closeConn", "closed"}
HandshakePlaces == {"idle", "context", "auth", "upstream", "pipe", "error", "done"}

\* The places of the connection goroutine between taking the pipe and closing it.
Piping == {"register", "record", "start", "wait", "pipeError", "closeRecorder", "remove",
           "closeBroadcaster", "closePipe"}

TypeOK ==
    /\ opc \in [Conns -> ConnPlaces] /\ ipc \in [Conns -> HandshakePlaces]
    /\ grace \in [Conns -> BOOLEAN]
    /\ env \in [Conns -> Env] /\ asked \in [Conns -> Env] /\ injected \in [Conns -> Env]
    /\ told \in [Conns -> Notices]
    /\ recorder \in [Conns -> {"none", "open", "refused", "closed"}]
    /\ phase \in [Conns -> {"new", "live", "removed", "closed"}]
    /\ pipe \in [Conns -> {"none", "open", "closed"}]
    /\ once \in [Conns -> BOOLEAN]
    /\ kpc \in [Killers -> {"idle", "close", "done"}]
    /\ kses \in [Killers -> Conns \cup {None}]

\* What the plugins have been told at each place, and the recorder there.
NoticesAt(c) ==
    LET n == told[c] IN
    /\ opc[c] \in {"new", "select", "createError", "register", "record", "start"} =>
         n.create = 0 /\ n.start = 0 /\ n.error = 0
    /\ opc[c] \in {"new", "select", "createError", "register", "record"} => recorder[c] = "none"
    /\ opc[c] \in {"start", "wait", "pipeError", "closeRecorder"} => recorder[c] # "refused"
    /\ opc[c] \in {"wait", "pipeError"} => n.create = 0 /\ n.start = 1 /\ n.error = 0
    /\ opc[c] = "closeRecorder" => n.create = 0 /\ n.start = 1 /\ n.error = 1
    /\ opc[c] \in {"remove", "closeBroadcaster", "closePipe", "closeConn", "closed"} =>
         /\ recorder[c] # "open" /\ n.error = n.start
         /\ n.create + n.start = IF recorder[c] = "refused" THEN 0 ELSE 1
    /\ opc[c] \in {"remove", "closeBroadcaster", "closePipe"} => n.create = 0

\* The handshake and the env of its last reply.
HandshakeAt(c) ==
    /\ opc[c] = "new" <=> ipc[c] = "idle"
    /\ opc[c] \in Piping => ipc[c] = "done"
    /\ opc[c] \in {"createError", "closeConn", "closed"} /\ ~grace[c] => ipc[c] = "done"
    /\ opc[c] = "select" => ipc[c] # "done"
    /\ env[c] = asked[c]
    /\ told[c].start > 0 =>
         ipc[c] = "done" /\ \A x \in Vars : injected[c][x] = IF asked[c][x] # None THEN asked[c][x] ELSE injectEnv[x]

\* The pipe and the entry of the registry.
PipeAt(c) ==
    /\ ipc[c] \in {"idle", "context", "auth", "upstream", "error"} => pipe[c] = "none"
    /\ ipc[c] = "pipe" => pipe[c] = "open"
    /\ opc[c] = "createError" /\ ~grace[c] => pipe[c] = "none"
    /\ opc[c] \in Piping => pipe[c] # "none"
    /\ opc[c] = "register" => pipe[c] = "open"
    /\ opc[c] \in {"closeConn", "closed"} /\ ~grace[c] => pipe[c] # "open"
    /\ opc[c] \in {"new", "select", "createError", "register"} => phase[c] = "new"
    /\ opc[c] \in {"record", "start", "wait", "pipeError", "closeRecorder", "remove"} =>
         phase[c] = IF Admin THEN "live" ELSE "new"
    /\ opc[c] = "closeBroadcaster" => phase[c] = "removed"
    /\ opc[c] \in {"closePipe", "closeConn", "closed"} => phase[c] \in {"new", "closed"}
    /\ phase[c] # "new" => ipc[c] = "done"

\* A kill closes the pipe of a connection that has been registered.
KillsAt(k) == kpc[k] = "close" => kses[k] \in Conns /\ phase[kses[k]] # "new"

IInv == /\ TypeOK
        /\ \A c \in Conns : NoticesAt(c) /\ HandshakeAt(c) /\ PipeAt(c)
        /\ \A k \in Killers : KillsAt(k)

-----------------------------------------------------------------------------
(* What all steps have in common. *)

\* A step of another connection.
Same(d) ==
    /\ opc'[d] = opc[d] /\ ipc'[d] = ipc[d] /\ grace'[d] = grace[d] /\ env'[d] = env[d]
    /\ asked'[d] = asked[d] /\ injected'[d] = injected[d] /\ told'[d] = told[d]
    /\ recorder'[d] = recorder[d] /\ phase'[d] = phase[d] /\ pipe'[d] = pipe[d]

\* A connection nothing happens to keeps its part of the invariant.
LEMMA SameKeeps ==
    ASSUME NEW d \in Conns, Same(d), NoticesAt(d), HandshakeAt(d), PipeAt(d)
    PROVE  NoticesAt(d)' /\ HandshakeAt(d)' /\ PipeAt(d)'
<1>1. NoticesAt(d)'
    BY ZenonT(40) DEF Same, NoticesAt
<1>2. HandshakeAt(d)'
    BY ZenonT(40) DEF Same, HandshakeAt
<1>3. PipeAt(d)'
    BY ZenonT(40) DEF Same, PipeAt
<1>4. QED
    BY <1>1, <1>2, <1>3, ZenonT(40)

\* A step of connection c alone.
LEMMA ConnKeeps ==
    ASSUME IInv, NEW c \in Conns, TypeOK', \A d \in Conns : d # c => Same(d),
           NoticesAt(c)', HandshakeAt(c)', PipeAt(c)', UNCHANGED killVars,
           phase[c] # "new" => phase'[c] # "new"
    PROVE  IInv'
<1>1. ASSUME NEW d \in Conns
      PROVE  NoticesAt(d)' /\ HandshakeAt(d)' /\ PipeAt(d)'
    <2>1. CASE d = c
        BY <2>1, Zenon
    <2>2. CASE d # c
        BY <2>2, SameKeeps, Zenon DEF IInv
    <2>3. QED
        BY <2>1, <2>2, Zenon
<1>2. ASSUME NEW k \in Killers
      PROVE  KillsAt(k)'
    <2>1. kpc'[k] = kpc[k] /\ kses'[k] = kses[k] /\ KillsAt(k)
        BY Zenon DEF IInv, killVars
    <2>2. \A d \in Conns : phase[d] # "new" => phase'[d] # "new"
        BY Zenon DEF Same
    <2>3. QED
        BY <2>1, <2>2, Zenon DEF KillsAt
<1>3. QED
    BY <1>1, <1>2, Zenon DEF IInv

\* The env to inject is one.
LEMMA MergedType == ASSUME TypeOK, NEW c \in Conns PROVE MergedEnv(c) \in Env
<1>1. env[c] \in Env /\ injectEnv \in Env
    BY DaemonConstants, Zenon DEF TypeOK
<1>2. QED
    BY <1>1, Zenon DEF MergedEnv, Env

\* A notice more is counted.
LEMMA NoticeTypes ==
    ASSUME NEW n \in Notices
    PROVE  /\ [n EXCEPT !.create = @ + 1] \in Notices /\ [n EXCEPT !.start = @ + 1] \in Notices
           /\ [n EXCEPT !.error = @ + 1] \in Notices /\ [n EXCEPT !.refused = @ + 1] \in Notices
BY SMT DEF Notices

\* Both goroutines start.
LEMMA AcceptKeeps ==
    ASSUME IInv, NEW c \in Conns, Accept(c)
    PROVE  IInv'
<1> USE DaemonConstants DEF IInv
<1>1. TypeOK'
    <2>1. opc' \in [Conns -> ConnPlaces]
        BY Zenon DEF Accept, Goto, TypeOK, ConnPlaces, HandshakePlaces
    <2>2. ipc' \in [Conns -> HandshakePlaces]
        BY Zenon DEF Accept, Goto, TypeOK, ConnPlaces, HandshakePlaces
    <2>3. UNCHANGED <<grace, env, asked, injected, told, recorder, phase, pipe, once, kpc, kses>>
        BY Zenon DEF Accept, inVars, outVars, regVars, killVars
    <2>4. QED
        BY <2>1, <2>2, <2>3, Zenon DEF TypeOK
<1>2. \A d \in Conns : d # c => Same(d)
    BY ZenonT(40) DEF Accept, Goto, inVars, outVars, regVars, TypeOK, Same
<1>3. /\ opc'[c] = "select" /\ ipc'[c] = "context"
      /\ grace'[c] = grace[c] /\ env'[c] = env[c] /\ asked'[c] = asked[c] /\ injected'[c] = injected[c]
      /\ told'[c] = told[c] /\ recorder'[c] = recorder[c] /\ phase'[c] = phase[c] /\ pipe'[c] = pipe[c]
    BY ZenonT(40) DEF Accept, Goto, inVars, outVars, regVars, TypeOK
<1>4. UNCHANGED killVars
    BY Zenon DEF Accept
<1>5. NoticesAt(c)'
    BY <1>3, Zenon DEF Accept, NoticesAt, TypeOK, Notices
<1>6. HandshakeAt(c)'
    BY <1>3, Zenon DEF Accept, HandshakeAt, NoticesAt, TypeOK, Notices, Piping
<1>7. PipeAt(c)'
    BY <1>3, ZenonT(40) DEF Accept, PipeAt, HandshakeAt, Piping
<1>8. QED
    BY <1>1, <1>2, <1>3, <1>4, <1>5, <1>6, <1>7, ConnKeeps, ZenonT(40)

\* The select takes the pipe: the handshake is done, its env final.
LEMMA TakePipeKeeps ==
    ASSUME IInv, NEW c \in Conns, TakePipe(c)
    PROVE  IInv'
<1> USE DaemonConstants DEF IInv
<1>1. TypeOK'
    <2>1. opc' \in [Conns -> ConnPlaces]
        BY Zenon DEF TakePipe, Goto, TypeOK, ConnPlaces, HandshakePlaces
    <2>2. ipc' \in [Conns -> HandshakePlaces]
        BY Zenon DEF TakePipe, Goto, TypeOK, ConnPlaces, HandshakePlaces
    <2>3. UNCHANGED <<grace, env, asked, injected, told, recorder, phase, pipe, once, kpc, kses>>
        BY Zenon DEF TakePipe, inVars, outVars, regVars, killVars
    <2>4. QED
        BY <2>1, <2>2, <2>3, Zenon DEF TypeOK
<1>2. \A d \in Conns : d # c => Same(d)
    BY ZenonT(40) DEF TakePipe, Goto, inVars, outVars, regVars, TypeOK, Same
<1>3. /\ opc'[c] = "register" /\ ipc'[c] = "done"
      /\ grace'[c] = grace[c] /\ env'[c] = env[c] /\ asked'[c] = asked[c] /\ injected'[c] = injected[c]
      /\ told'[c] = told[c] /\ recorder'[c] = recorder[c] /\ phase'[c] = phase[c] /\ pipe'[c] = pipe[c]
    BY ZenonT(40) DEF TakePipe, Goto, inVars, outVars, regVars, TypeOK
<1>4. UNCHANGED killVars
    BY Zenon DEF TakePipe
<1>5. NoticesAt(c)'
    BY <1>3, Zenon DEF TakePipe, NoticesAt, TypeOK, Notices
<1>6. HandshakeAt(c)'
    BY <1>3, Zenon DEF TakePipe, HandshakeAt, NoticesAt, TypeOK, Notices, Piping
<1>7. PipeAt(c)'
    BY <1>3, ZenonT(40) DEF TakePipe, PipeAt, HandshakeAt, Piping
<1>8. QED
    BY <1>1, <1>2, <1>3, <1>4, <1>5, <1>6, <1>7, ConnKeeps, ZenonT(40)

\* The select takes the error: no pipe was made.
LEMMA TakeErrorKeeps ==
    ASSUME IInv, NEW c \in Conns, TakeError(c)
    PROVE  IInv'
<1> USE DaemonConstants DEF IInv
<1>1. TypeOK'
    <2>1. opc' \in [Conns -> ConnPlaces]
        BY Zenon DEF TakeError, Goto, TypeOK, ConnPlaces, HandshakePlaces
    <2>2. ipc' \in [Conns -> HandshakePlaces]
        BY Zenon DEF TakeError, Goto, TypeOK, ConnPlaces, HandshakePlaces
    <2>3. UNCHANGED <<grace, env, asked, injected, told, recorder, phase, pipe, once, kpc, kses>>
        BY Zenon DEF TakeError, inVars, outVars, regVars, killVars
    <2>4. QED
        BY <2>1, <2>2, <2>3, Zenon DEF TypeOK
<1>2. \A d \in Conns : d # c => Same(d)
    BY ZenonT(40) DEF TakeError, Goto, inVars, outVars, regVars, TypeOK, Same
<1>3. /\ opc'[c] = "createError" /\ ipc'[c] = "done"
      /\ grace'[c] = grace[c] /\ env'[c] = env[c] /\ asked'[c] = asked[c] /\ injected'[c] = injected[c]
      /\ told'[c] = told[c] /\ recorder'[c] = recorder[c] /\ phase'[c] = phase[c] /\ pipe'[c] = pipe[c]
    BY ZenonT(40) DEF TakeError, Goto, inVars, outVars, regVars, TypeOK
<1>4. UNCHANGED killVars
    BY Zenon DEF TakeError
<1>5. NoticesAt(c)'
    BY <1>3, Zenon DEF TakeError, NoticesAt, TypeOK, Notices
<1>6. HandshakeAt(c)'
    BY <1>3, ZenonT(40) DEF TakeError, HandshakeAt, NoticesAt, TypeOK, Notices, Piping
<1>7. PipeAt(c)'
    BY <1>3, ZenonT(40) DEF TakeError, PipeAt, HandshakeAt, Piping
<1>8. QED
    BY <1>1, <1>2, <1>3, <1>4, <1>5, <1>6, <1>7, ConnKeeps, ZenonT(40)

\* The timer fires: nothing is known of the handshake.
LEMMA GraceExpiresKeeps ==
    ASSUME IInv, NEW c \in Conns, GraceExpires(c)
    PROVE  IInv'
<1> USE DaemonConstants DEF IInv
<1>1. TypeOK'
    <2>1. opc' \in [Conns -> ConnPlaces]
        BY Zenon DEF GraceExpires, Goto, TypeOK, ConnPlaces, HandshakePlaces
    <2>2. grace' \in [Conns -> BOOLEAN]
        BY Zenon DEF GraceExpires, Goto, TypeOK, ConnPlaces, HandshakePlaces
    <2>3. UNCHANGED <<ipc, env, asked, injected, told, recorder, phase, pipe, once, kpc, kses>>
        BY Zenon DEF GraceExpires, inVars, outVars, regVars, killVars
    <2>4. QED
        BY <2>1, <2>2, <2>3, Zenon DEF TypeOK
<1>2. \A d \in Conns : d # c => Same(d)
    BY ZenonT(40) DEF GraceExpires, Goto, inVars, outVars, regVars, TypeOK, Same
<1>3. /\ opc'[c] = "createError" /\ grace'[c] = TRUE
      /\ ipc'[c] = ipc[c] /\ env'[c] = env[c] /\ asked'[c] = asked[c] /\ injected'[c] = injected[c]
      /\ told'[c] = told[c] /\ recorder'[c] = recorder[c] /\ phase'[c] = phase[c] /\ pipe'[c] = pipe[c]
    BY ZenonT(40) DEF GraceExpires, Goto, inVars, outVars, regVars, TypeOK
<1>4. UNCHANGED killVars
    BY Zenon DEF GraceExpires
<1>5. NoticesAt(c)'
    BY <1>3, Zenon DEF GraceExpires, NoticesAt, TypeOK, Notices
<1>6. HandshakeAt(c)'
    BY <1>3 DEF GraceExpires, HandshakeAt, NoticesAt, TypeOK, Notices, Piping
<1>7. PipeAt(c)'
    BY <1>3, ZenonT(40) DEF GraceExpires, PipeAt, HandshakeAt, Piping
<1>8. QED
    BY <1>1, <1>2, <1>3, <1>4, <1>5, <1>6, <1>7, ConnKeeps, Zenon

\* The plugins are told that there is no pipe.
LEMMA PipeCreateErrorKeeps ==
    ASSUME IInv, NEW c \in Conns, PipeCreateError(c)
    PROVE  IInv'
<1> USE DaemonConstants DEF IInv
<1>1. TypeOK'
    <2>1. opc' \in [Conns -> ConnPlaces]
        BY Zenon DEF PipeCreateError, Goto, TypeOK, ConnPlaces, HandshakePlaces
    <2>2. told' \in [Conns -> Notices]
        BY NoticeTypes, Zenon DEF PipeCreateError, TypeOK
    <2>3. UNCHANGED <<ipc, grace, env, asked, injected, recorder, phase, pipe, once, kpc, kses>>
        BY Zenon DEF PipeCreateError, inVars, outVars, regVars, killVars
    <2>4. QED
        BY <2>1, <2>2, <2>3, Zenon DEF TypeOK
<1>2. \A d \in Conns : d # c => Same(d)
    BY ZenonT(40) DEF PipeCreateError, Goto, inVars, outVars, regVars, TypeOK, Same
<1>3. /\ opc'[c] = "closeConn" /\ told'[c] = [told[c] EXCEPT !.create = @ + 1]
      /\ ipc'[c] = ipc[c] /\ grace'[c] = grace[c] /\ env'[c] = env[c] /\ asked'[c] = asked[c]
      /\ injected'[c] = injected[c] /\ recorder'[c] = recorder[c] /\ phase'[c] = phase[c] /\ pipe'[c] = pipe[c]
    BY ZenonT(40) DEF PipeCreateError, Goto, inVars, outVars, regVars, TypeOK
<1>4. UNCHANGED killVars
    BY Zenon DEF PipeCreateError
<1>5. NoticesAt(c)'
    BY <1>3, SMTT(30) DEF PipeCreateError, NoticesAt, TypeOK, Notices
<1>6. HandshakeAt(c)'
    BY <1>3 DEF PipeCreateError, HandshakeAt, NoticesAt, TypeOK, Notices, Piping
<1>7. PipeAt(c)'
    BY <1>3, ZenonT(40) DEF PipeCreateError, PipeAt, HandshakeAt, Piping
<1>8. QED
    BY <1>1, <1>2, <1>3, <1>4, <1>5, <1>6, <1>7, ConnKeeps, Zenon

\* WaitWithHook returns.
LEMMA PipeEndsKeeps ==
    ASSUME IInv, NEW c \in Conns, PipeEnds(c)
    PROVE  IInv'
<1> USE DaemonConstants DEF IInv
<1>1. TypeOK'
    <2>1. opc' \in [Conns -> ConnPlaces]
        BY Zenon DEF PipeEnds, Goto, TypeOK, ConnPlaces, HandshakePlaces
    <2>2. UNCHANGED <<ipc, grace, env, asked, injected, told, recorder, phase, pipe, once, kpc, kses>>
        BY Zenon DEF PipeEnds, inVars, outVars, regVars, killVars
    <2>3. QED
        BY <2>1, <2>2, Zenon DEF TypeOK
<1>2. \A d \in Conns : d # c => Same(d)
    BY ZenonT(40) DEF PipeEnds, Goto, inVars, outVars, regVars, TypeOK, Same
<1>3. /\ opc'[c] = "pipeError"
      /\ ipc'[c] = ipc[c] /\ grace'[c] = grace[c] /\ env'[c] = env[c] /\ asked'[c] = asked[c]
      /\ injected'[c] = injected[c] /\ told'[c] = told[c] /\ recorder'[c] = recorder[c] /\ phase'[c] = phase[c] /\ pipe'[c] = pipe[c]
    BY ZenonT(40) DEF PipeEnds, Goto, inVars, outVars, regVars, TypeOK
<1>4. UNCHANGED killVars
    BY Zenon DEF PipeEnds
<1>5. NoticesAt(c)'
    BY <1>3, Zenon DEF PipeEnds, NoticesAt, TypeOK, Notices
<1>6. HandshakeAt(c)'
    BY <1>3 DEF PipeEnds, HandshakeAt, NoticesAt, TypeOK, Notices, Piping
<1>7. PipeAt(c)'
    BY <1>3, ZenonT(40) DEF PipeEnds, PipeAt, HandshakeAt, Piping
<1>8. QED
    BY <1>1, <1>2, <1>3, <1>4, <1>5, <1>6, <1>7, ConnKeeps, Zenon

\* The env of the last reply is injected and the plugins are told.
LEMMA PipeStartKeeps ==
    ASSUME IInv, NEW c \in Conns, PipeStart(c)
    PROVE  IInv'
<1> USE DaemonConstants DEF IInv
<1>1. TypeOK'
    <2>1. opc' \in [Conns -> ConnPlaces]
        BY Zenon DEF PipeStart, Goto, TypeOK, ConnPlaces, HandshakePlaces
    <2>2. injected' \in [Conns -> Env]
        BY MergedType, Zenon DEF PipeStart, TypeOK
    <2>3. told' \in [Conns -> Notices]
        BY NoticeTypes, Zenon DEF PipeStart, TypeOK
    <2>4. UNCHANGED <<ipc, grace, env, asked, recorder, phase, pipe, once, kpc, kses>>
        BY Zenon DEF PipeStart, inVars, outVars, regVars, killVars
    <2>5. QED
        BY <2>1, <2>2, <2>3, <2>4, Zenon DEF TypeOK
<1>2. \A d \in Conns : d # c => Same(d)
    BY ZenonT(40) DEF PipeStart, Goto, inVars, outVars, regVars, TypeOK, Same
<1>3. /\ opc'[c] = "wait" /\ injected'[c] = MergedEnv(c) /\ told'[c] = [told[c] EXCEPT !.start = @ + 1]
      /\ ipc'[c] = ipc[c] /\ grace'[c] = grace[c] /\ env'[c] = env[c] /\ asked'[c] = asked[c]
      /\ recorder'[c] = recorder[c] /\ phase'[c] = phase[c] /\ pipe'[c] = pipe[c]
    BY ZenonT(40) DEF PipeStart, Goto, inVars, outVars, regVars, TypeOK
<1>4. UNCHANGED killVars
    BY Zenon DEF PipeStart
<1>5. NoticesAt(c)'
    BY <1>3 DEF PipeStart, NoticesAt, TypeOK, Notices
<1>6. HandshakeAt(c)'
    <2>1. \A x \in Vars : injected'[c][x] = IF asked'[c][x] # None THEN asked'[c][x] ELSE injectEnv[x]
        <3>1. env[c] = asked[c]
            BY Zenon DEF HandshakeAt
        <3>2. \A x \in Vars : MergedEnv(c)[x] = IF env[c][x] # None THEN env[c][x] ELSE injectEnv[x]
            BY Zenon DEF MergedEnv
        <3>3. QED
            BY <1>3, <3>1, <3>2, ZenonT(40)
    <2>2. ipc[c] = "done" /\ env[c] = asked[c]
        BY Zenon DEF PipeStart, HandshakeAt, Piping
    <2>3. QED
        BY <1>3, <2>1, <2>2, Zenon DEF HandshakeAt, Piping
<1>7. PipeAt(c)'
    BY <1>3, ZenonT(40) DEF PipeStart, PipeAt, HandshakeAt, Piping
<1>8. QED
    BY <1>1, <1>2, <1>3, <1>4, <1>5, <1>6, <1>7, ConnKeeps, Zenon

\* The plugins are told that the pipe ended.
LEMMA PipeErrorKeeps ==
    ASSUME IInv, NEW c \in Conns, PipeError(c)
    PROVE  IInv'
<1> USE DaemonConstants DEF IInv
<1>1. TypeOK'
    <2>1. opc' \in [Conns -> ConnPlaces]
        BY Zenon DEF PipeError, Goto, TypeOK, ConnPlaces, HandshakePlaces
    <2>2. told' \in [Conns -> Notices]
        BY NoticeTypes, Zenon DEF PipeError, TypeOK
    <2>3. UNCHANGED <<ipc, grace, env, asked, injected, recorder, phase, pipe, once, kpc, kses>>
        BY Zenon DEF PipeError, inVars, outVars, regVars, killVars
    <2>4. QED
        BY <2>1, <2>2, <2>3, Zenon DEF TypeOK
<1>2. \A d \in Conns : d # c => Same(d)
    BY ZenonT(40) DEF PipeError, Goto, inVars, outVars, regVars, TypeOK, Same
<1>3. /\ opc'[c] = "closeRecorder" /\ told'[c] = [told[c] EXCEPT !.error = @ + 1]
      /\ ipc'[c] = ipc[c] /\ grace'[c] = grace[c] /\ env'[c] = env[c] /\ asked'[c] = asked[c]
      /\ injected'[c] = injected[c] /\ recorder'[c] = recorder[c] /\ phase'[c] = phase[c] /\ pipe'[c] = pipe[c]
    BY ZenonT(40) DEF PipeError, Goto, inVars, outVars, regVars, TypeOK
<1>4. UNCHANGED killVars
    BY Zenon DEF PipeError
<1>5. NoticesAt(c)'
    BY <1>3, SMTT(30) DEF PipeError, NoticesAt, TypeOK, Notices
<1>6. HandshakeAt(c)'
    BY <1>3 DEF PipeError, HandshakeAt, NoticesAt, TypeOK, Notices, Piping
<1>7. PipeAt(c)'
    BY <1>3, ZenonT(40) DEF PipeError, PipeAt, HandshakeAt, Piping
<1>8. QED
    BY <1>1, <1>2, <1>3, <1>4, <1>5, <1>6, <1>7, ConnKeeps, Zenon

\* The connection is registered, if there is a registry.
LEMMA RegisterSessionKeeps ==
    ASSUME IInv, NEW c \in Conns, RegisterSession(c)
    PROVE  IInv'
<1> USE DaemonConstants DEF IInv
<1>1. TypeOK'
    <2>1. opc' \in [Conns -> ConnPlaces]
        BY Zenon DEF RegisterSession, Goto, TypeOK, ConnPlaces, HandshakePlaces
    <2>2. phase' \in [Conns -> {"new", "live", "removed", "closed"}]
        BY Zenon DEF RegisterSession, Goto, TypeOK, ConnPlaces, HandshakePlaces
    <2>3. UNCHANGED <<ipc, grace, env, asked, injected, told, recorder, pipe, once, kpc, kses>>
        BY Zenon DEF RegisterSession, inVars, outVars, regVars, killVars
    <2>4. QED
        BY <2>1, <2>2, <2>3, Zenon DEF TypeOK
<1>2. \A d \in Conns : d # c => Same(d)
    BY ZenonT(40) DEF RegisterSession, Goto, inVars, outVars, regVars, TypeOK, Same
<1>3. /\ opc'[c] = "record" /\ phase'[c] = (IF Admin THEN "live" ELSE phase[c])
      /\ ipc'[c] = ipc[c] /\ grace'[c] = grace[c] /\ env'[c] = env[c] /\ asked'[c] = asked[c]
      /\ injected'[c] = injected[c] /\ told'[c] = told[c] /\ recorder'[c] = recorder[c] /\ pipe'[c] = pipe[c]
    BY ZenonT(40) DEF RegisterSession, Goto, inVars, outVars, regVars, TypeOK
<1>4. UNCHANGED killVars
    BY Zenon DEF RegisterSession
<1>5. NoticesAt(c)'
    BY <1>3, ZenonT(40) DEF RegisterSession, NoticesAt, TypeOK, Notices
<1>6. HandshakeAt(c)'
    BY <1>3 DEF RegisterSession, HandshakeAt, NoticesAt, TypeOK, Notices, Piping
<1>7. PipeAt(c)'
    BY <1>3, ZenonT(40) DEF RegisterSession, PipeAt, HandshakeAt, Piping
<1>8. QED
    BY <1>1, <1>2, <1>3, <1>4, <1>5, <1>6, <1>7, ConnKeeps, Zenon

\* An open recorder is closed.
LEMMA CloseRecorderKeeps ==
    ASSUME IInv, NEW c \in Conns, CloseRecorder(c)
    PROVE  IInv'
<1> USE DaemonConstants DEF IInv
<1>1. TypeOK'
    <2>1. opc' \in [Conns -> ConnPlaces]
        BY Zenon DEF CloseRecorder, Goto, TypeOK, ConnPlaces, HandshakePlaces
    <2>2. recorder' \in [Conns -> {"none", "open", "refused", "closed"}]
        BY Zenon DEF CloseRecorder, Goto, TypeOK, ConnPlaces, HandshakePlaces
    <2>3. UNCHANGED <<ipc, grace, env, asked, injected, told, phase, pipe, once, kpc, kses>>
        BY Zenon DEF CloseRecorder, inVars, outVars, regVars, killVars
    <2>4. QED
        BY <2>1, <2>2, <2>3, Zenon DEF TypeOK
<1>2. \A d \in Conns : d # c => Same(d)
    BY ZenonT(40) DEF CloseRecorder, Goto, inVars, outVars, regVars, TypeOK, Same
<1>3. /\ opc'[c] = "remove" /\ recorder'[c] = (IF recorder[c] = "open" THEN "closed" ELSE recorder[c])
      /\ ipc'[c] = ipc[c] /\ grace'[c] = grace[c] /\ env'[c] = env[c] /\ asked'[c] = asked[c]
      /\ injected'[c] = injected[c] /\ told'[c] = told[c] /\ phase'[c] = phase[c] /\ pipe'[c] = pipe[c]
    BY ZenonT(40) DEF CloseRecorder, Goto, inVars, outVars, regVars, TypeOK
<1>4. UNCHANGED killVars
    BY Zenon DEF CloseRecorder
<1>5. NoticesAt(c)'
    BY <1>3, SMTT(30) DEF CloseRecorder, NoticesAt, TypeOK, Notices
<1>6. HandshakeAt(c)'
    BY <1>3 DEF CloseRecorder, HandshakeAt, NoticesAt, TypeOK, Notices, Piping
<1>7. PipeAt(c)'
    BY <1>3, ZenonT(40) DEF CloseRecorder, PipeAt, HandshakeAt, Piping
<1>8. QED
    BY <1>1, <1>2, <1>3, <1>4, <1>5, <1>6, <1>7, ConnKeeps, ZenonT(40)

\* The entry is taken out.
LEMMA RemoveSessionKeeps ==
    ASSUME IInv, NEW c \in Conns, RemoveSession(c)
    PROVE  IInv'
<1> USE DaemonConstants DEF IInv
<1>1. TypeOK'
    <2>1. opc' \in [Conns -> ConnPlaces]
        BY Zenon DEF RemoveSession, Goto, TypeOK, ConnPlaces, HandshakePlaces
    <2>2. phase' \in [Conns -> {"new", "live", "removed", "closed"}]
        BY Zenon DEF RemoveSession, Goto, TypeOK, ConnPlaces, HandshakePlaces
    <2>3. UNCHANGED <<ipc, grace, env, asked, injected, told, recorder, pipe, once, kpc, kses>>
        BY Zenon DEF RemoveSession, inVars, outVars, regVars, killVars
    <2>4. QED
        BY <2>1, <2>2, <2>3, Zenon DEF TypeOK
<1>2. \A d \in Conns : d # c => Same(d)
    BY ZenonT(40) DEF RemoveSession, Goto, inVars, outVars, regVars, TypeOK, Same
<1>3. /\ opc'[c] = (IF Admin THEN "closeBroadcaster" ELSE "closePipe") /\ phase'[c] = (IF Admin THEN "removed" ELSE phase[c])
      /\ ipc'[c] = ipc[c] /\ grace'[c] = grace[c] /\ env'[c] = env[c] /\ asked'[c] = asked[c]
      /\ injected'[c] = injected[c] /\ told'[c] = told[c] /\ recorder'[c] = recorder[c] /\ pipe'[c] = pipe[c]
    BY ZenonT(40) DEF RemoveSession, Goto, inVars, outVars, regVars, TypeOK
<1>4. UNCHANGED killVars
    BY Zenon DEF RemoveSession
<1>5. NoticesAt(c)'
    BY <1>3, ZenonT(40) DEF RemoveSession, NoticesAt, TypeOK, Notices
<1>6. HandshakeAt(c)'
    BY <1>3 DEF RemoveSession, HandshakeAt, NoticesAt, TypeOK, Notices, Piping
<1>7. PipeAt(c)'
    BY <1>3, ZenonT(40) DEF RemoveSession, PipeAt, HandshakeAt, Piping
<1>8. QED
    BY <1>1, <1>2, <1>3, <1>4, <1>5, <1>6, <1>7, ConnKeeps, ZenonT(40)

\* The broadcaster is closed after the entry is gone.
LEMMA CloseBroadcasterKeeps ==
    ASSUME IInv, NEW c \in Conns, CloseBroadcaster(c)
    PROVE  IInv'
<1> USE DaemonConstants DEF IInv
<1>1. TypeOK'
    <2>1. opc' \in [Conns -> ConnPlaces]
        BY Zenon DEF CloseBroadcaster, Goto, TypeOK, ConnPlaces, HandshakePlaces
    <2>2. phase' \in [Conns -> {"new", "live", "removed", "closed"}]
        BY Zenon DEF CloseBroadcaster, Goto, TypeOK, ConnPlaces, HandshakePlaces
    <2>3. UNCHANGED <<ipc, grace, env, asked, injected, told, recorder, pipe, once, kpc, kses>>
        BY Zenon DEF CloseBroadcaster, inVars, outVars, regVars, killVars
    <2>4. QED
        BY <2>1, <2>2, <2>3, Zenon DEF TypeOK
<1>2. \A d \in Conns : d # c => Same(d)
    BY ZenonT(40) DEF CloseBroadcaster, Goto, inVars, outVars, regVars, TypeOK, Same
<1>3. /\ opc'[c] = "closePipe" /\ phase'[c] = "closed"
      /\ ipc'[c] = ipc[c] /\ grace'[c] = grace[c] /\ env'[c] = env[c] /\ asked'[c] = asked[c]
      /\ injected'[c] = injected[c] /\ told'[c] = told[c] /\ recorder'[c] = recorder[c] /\ pipe'[c] = pipe[c]
    BY ZenonT(40) DEF CloseBroadcaster, Goto, inVars, outVars, regVars, TypeOK
<1>4. UNCHANGED killVars
    BY Zenon DEF CloseBroadcaster
<1>5. NoticesAt(c)'
    BY <1>3, ZenonT(40) DEF CloseBroadcaster, NoticesAt, TypeOK, Notices
<1>6. HandshakeAt(c)'
    BY <1>3, SMTT(30) DEF CloseBroadcaster, HandshakeAt, NoticesAt, TypeOK, Notices, Piping
<1>7. PipeAt(c)'
    BY <1>3 DEF CloseBroadcaster, PipeAt, HandshakeAt, Piping
<1>8. QED
    BY <1>1, <1>2, <1>3, <1>4, <1>5, <1>6, <1>7, ConnKeeps, ZenonT(40)

\* The pipe is closed.
LEMMA ClosePipeKeeps ==
    ASSUME IInv, NEW c \in Conns, ClosePipe(c)
    PROVE  IInv'
<1> USE DaemonConstants DEF IInv
<1>1. TypeOK'
    <2>1. opc' \in [Conns -> ConnPlaces]
        BY Zenon DEF ClosePipe, Goto, TypeOK, ConnPlaces, HandshakePlaces
    <2>2. pipe' \in [Conns -> {"none", "open", "closed"}]
        BY Zenon DEF ClosePipe, Goto, TypeOK, ConnPlaces, HandshakePlaces
    <2>3. UNCHANGED <<ipc, grace, env, asked, injected, told, recorder, phase, once, kpc, kses>>
        BY Zenon DEF ClosePipe, inVars, outVars, regVars, killVars
    <2>4. QED
        BY <2>1, <2>2, <2>3, Zenon DEF TypeOK
<1>2. \A d \in Conns : d # c => Same(d)
    BY ZenonT(40) DEF ClosePipe, Goto, inVars, outVars, regVars, TypeOK, Same
<1>3. /\ opc'[c] = "closeConn" /\ pipe'[c] = "closed"
      /\ ipc'[c] = ipc[c] /\ grace'[c] = grace[c] /\ env'[c] = env[c] /\ asked'[c] = asked[c]
      /\ injected'[c] = injected[c] /\ told'[c] = told[c] /\ recorder'[c] = recorder[c] /\ phase'[c] = phase[c]
    BY ZenonT(40) DEF ClosePipe, Goto, inVars, outVars, regVars, TypeOK
<1>4. UNCHANGED killVars
    BY Zenon DEF ClosePipe
<1>5. NoticesAt(c)'
    BY <1>3, ZenonT(40) DEF ClosePipe, NoticesAt, TypeOK, Notices
<1>6. HandshakeAt(c)'
    BY <1>3 DEF ClosePipe, HandshakeAt, NoticesAt, TypeOK, Notices, Piping
<1>7. PipeAt(c)'
    BY <1>3, ZenonT(40) DEF ClosePipe, PipeAt, HandshakeAt, Piping
<1>8. QED
    BY <1>1, <1>2, <1>3, <1>4, <1>5, <1>6, <1>7, ConnKeeps, ZenonT(40)

\* The connection is closed.
LEMMA CloseConnKeeps ==
    ASSUME IInv, NEW c \in Conns, CloseConn(c)
    PROVE  IInv'
<1> USE DaemonConstants DEF IInv
<1>1. TypeOK'
    <2>1. opc' \in [Conns -> ConnPlaces]
        BY Zenon DEF CloseConn, Goto, TypeOK, ConnPlaces, HandshakePlaces
    <2>2. UNCHANGED <<ipc, grace, env, asked, injected, told, recorder, phase, pipe, once, kpc, kses>>
        BY Zenon DEF CloseConn, inVars, outVars, regVars, killVars
    <2>3. QED
        BY <2>1, <2>2, Zenon DEF TypeOK
<1>2. \A d \in Conns : d # c => Same(d)
    BY ZenonT(40) DEF CloseConn, Goto, inVars, outVars, regVars, TypeOK, Same
<1>3. /\ opc'[c] = "closed"
      /\ ipc'[c] = ipc[c] /\ grace'[c] = grace[c] /\ env'[c] = env[c] /\ asked'[c] = asked[c]
      /\ injected'[c] = injected[c] /\ told'[c] = told[c] /\ recorder'[c] = recorder[c] /\ phase'[c] = phase[c] /\ pipe'[c] = pipe[c]
    BY ZenonT(40) DEF CloseConn, Goto, inVars, outVars, regVars, TypeOK
<1>4. UNCHANGED killVars
    BY Zenon DEF CloseConn
<1>5. NoticesAt(c)'
    BY <1>3, ZenonT(40) DEF CloseConn, NoticesAt, TypeOK, Notices
<1>6. HandshakeAt(c)'
    BY <1>3 DEF CloseConn, HandshakeAt, NoticesAt, TypeOK, Notices, Piping
<1>7. PipeAt(c)'
    BY <1>3, ZenonT(40) DEF CloseConn, PipeAt, HandshakeAt, Piping
<1>8. QED
    BY <1>1, <1>2, <1>3, <1>4, <1>5, <1>6, <1>7, ConnKeeps, ZenonT(40)

\* The recorder is set up or refuses the connection.
LEMMA SetupRecordingKeeps ==
    ASSUME IInv, NEW c \in Conns, NEW ok \in BOOLEAN, SetupRecording(c, ok)
    PROVE  IInv'
<1> USE DaemonConstants DEF IInv
<1> DEFINE r == IF ~Recording THEN recorder[c] ELSE IF ok THEN "open" ELSE "refused"
           l == IF ok THEN "start" ELSE "remove"
<1>1. opc' = [opc EXCEPT ![c] = l] /\ recorder' = [recorder EXCEPT ![c] = r]
    BY Zenon DEF SetupRecording, Goto, TypeOK
<1>2. UNCHANGED <<inVars, grace, injected, told, regVars, pipe, killVars>>
    BY Zenon DEF SetupRecording
<1>3. TypeOK'
    <2>1. opc' \in [Conns -> ConnPlaces]
        BY <1>1, Zenon DEF TypeOK, ConnPlaces
    <2>2. recorder' \in [Conns -> {"none", "open", "refused", "closed"}]
        BY <1>1, Zenon DEF TypeOK
    <2>3. QED
        BY <1>2, <2>1, <2>2, Zenon DEF TypeOK, inVars, regVars, killVars
<1>4. \A d \in Conns : d # c => Same(d)
    BY <1>1, <1>2, ZenonT(40) DEF TypeOK, Same, inVars, regVars
<1>5. /\ opc[c] = "record" /\ opc'[c] = l /\ recorder'[c] = r
      /\ (ok => r # "refused") /\ (~ok => r = "refused")
    BY <1>1, recorder[c] = "none", SMTT(30) DEF SetupRecording, TypeOK, NoticesAt
<1>6. /\ ipc'[c] = ipc[c] /\ grace'[c] = grace[c] /\ env'[c] = env[c] /\ asked'[c] = asked[c]
      /\ injected'[c] = injected[c] /\ told'[c] = told[c] /\ phase'[c] = phase[c] /\ pipe'[c] = pipe[c]
    BY <1>2, Zenon DEF inVars, regVars
<1> HIDE DEF r, l
<1>7. (ok /\ l = "start") \/ (~ok /\ l = "remove" /\ r = "refused")
    BY <1>5, ZenonT(40) DEF l
<1>8. NoticesAt(c)'
    BY <1>5, <1>6, <1>7, SMTT(30) DEF NoticesAt, TypeOK, Notices
<1>9. HandshakeAt(c)'
    BY <1>5, <1>6, <1>7, ZenonT(40) DEF HandshakeAt, Piping
<1>10. PipeAt(c)'
    BY <1>5, <1>6, <1>7, ZenonT(40) DEF PipeAt, Piping
<1>11. QED
    BY <1>2, <1>3, <1>4, <1>6, <1>8, <1>9, <1>10, ConnKeeps, ZenonT(40)

-----------------------------------------------------------------------------
(* The handshake. *)

\* What every step of a handshake in progress does: it goes on or it ends,
\* with a pipe or with an error; the env of the connection stays that of the
\* last reply.
HandshakeMove(c) ==
    /\ ipc[c] \in {"context", "auth", "upstream"}
    /\ ipc' \in [Conns -> HandshakePlaces] /\ ipc'[c] \notin {"idle", "done"}
    /\ env' \in [Conns -> Env] /\ asked' \in [Conns -> Env] /\ env'[c] = asked'[c]
    /\ told' \in [Conns -> Notices] /\ told'[c].create = told[c].create
    /\ told'[c].start = told[c].start /\ told'[c].error = told[c].error
    /\ pipe' \in [Conns -> {"none", "open", "closed"}]
    /\ pipe'[c] = IF ipc'[c] = "pipe" THEN "open" ELSE pipe[c]
    /\ \A d \in Conns : d # c => /\ ipc'[d] = ipc[d] /\ env'[d] = env[d] /\ asked'[d] = asked[d]
                                 /\ told'[d] = told[d] /\ pipe'[d] = pipe[d]
    /\ UNCHANGED <<outVars, regVars, killVars>>

\* The connection goroutine waits or has given the handshake up.
LEMMA HandshakeKeeps ==
    ASSUME IInv, NEW c \in Conns, HandshakeMove(c)
    PROVE  IInv'
<1> USE DEF IInv
<1>1. UNCHANGED <<opc, grace, injected, recorder, phase, once, kpc, kses>>
    BY Zenon DEF HandshakeMove, outVars, regVars, killVars
<1>2. TypeOK'
    BY <1>1, Zenon DEF TypeOK, HandshakeMove
<1>3. \A d \in Conns : d # c => Same(d)
    BY <1>1, Zenon DEF HandshakeMove, Same
<1>4. /\ opc[c] \notin Piping \cup {"new"} /\ phase[c] = "new" /\ pipe[c] = "none"
      /\ (opc[c] \in {"createError", "closeConn", "closed"} => grace[c])
      /\ ~(told[c].start > 0)
    BY Zenon DEF HandshakeMove, HandshakeAt, PipeAt
<1>5. NoticesAt(c)'
    BY <1>1, ZenonT(40) DEF HandshakeMove, NoticesAt
<1>6. HandshakeAt(c)'
    <2>1. ~(told'[c].start > 0) /\ opc'[c] = opc[c] /\ grace'[c] = grace[c]
        BY <1>1, <1>4, Zenon DEF HandshakeMove
    <2>2. ipc'[c] \notin {"idle", "done"} /\ env'[c] = asked'[c]
        BY Zenon DEF HandshakeMove
    <2>3. QED
        BY <1>4, <2>1, <2>2, ZenonT(40) DEF HandshakeAt
<1>7. PipeAt(c)'
    <2>1. /\ ipc'[c] \notin {"idle", "done"} /\ pipe'[c] = IF ipc'[c] = "pipe" THEN "open" ELSE "none"
          /\ opc'[c] = opc[c] /\ grace'[c] = grace[c] /\ phase'[c] = "new"
        BY <1>1, <1>4, Zenon DEF HandshakeMove
    <2>2. QED
        BY <1>4, <2>1, ZenonT(40) DEF PipeAt, Piping
<1>8. QED
    BY <1>1, <1>2, <1>3, <1>5, <1>6, <1>7, ConnKeeps, ZenonT(40) DEF killVars

\* Every step of the handshake is such a move.
LEMMA HandshakeMoves ==
    ASSUME IInv, NEW c \in Conns, HandshakeStep(c)
    PROVE  HandshakeMove(c)
<1> USE DEF IInv, HandshakePlaces
<1>1. env[c] = asked[c]
    BY Zenon DEF HandshakeAt
<1>2. ASSUME NEW w \in {"context", "auth", "upstream", "error"},
             ipc[c] \in {"context", "auth", "upstream"}, ipc' = [ipc EXCEPT ![c] = w],
             UNCHANGED <<env, asked, told, pipe, outVars, regVars, killVars>>
      PROVE  HandshakeMove(c)
    BY <1>1, <1>2, ZenonT(40) DEF HandshakeMove, TypeOK
<1>3. ASSUME NEW ok \in BOOLEAN, NewConnection(c, ok)
      PROVE  HandshakeMove(c)
    <2>1. ipc' = [ipc EXCEPT ![c] = IF ~ok THEN "error" ELSE IF at[c] + 1 = N THEN "auth" ELSE "context"]
        BY <1>3, Zenon DEF NewConnection, TypeOK
    <2>2. QED
        BY <1>2, <1>3, <2>1, Zenon DEF NewConnection
<1>4. ASSUME NEW m \in Methods, NEW K \in SUBSET MetaKeys, NextPlugin(c, m, K) \/ RetryCurrentPlugin(c, m, K)
      PROVE  HandshakeMove(c)
    BY <1>2, <1>4, Zenon DEF NextPlugin, RetryCurrentPlugin, Refuse
<1>5. ASSUME NEW m \in Methods, NEW e \in Env, CreateUpstream(c, m, e)
      PROVE  HandshakeMove(c)
    BY <1>5, ZenonT(40) DEF CreateUpstream, setUpstreamEnv, HandshakeMove, TypeOK
<1>6. CASE PluginRefuses(c) \/ HandshakeFails(c)
    BY <1>2, <1>6, Zenon DEF PluginRefuses, HandshakeFails, Refuse
<1>7. CASE UpstreamAuthFailure(c)
    <2>1. told' \in [Conns -> Notices]
        BY <1>7, NoticeTypes, Zenon DEF UpstreamAuthFailure, TypeOK
    <2>2. /\ told'[c].create = told[c].create /\ told'[c].start = told[c].start
          /\ told'[c].error = told[c].error
        BY <1>7 DEF UpstreamAuthFailure, TypeOK, Notices
    <2>3. \A d \in Conns : d # c => told'[d] = told[d]
        BY <1>7, Zenon DEF UpstreamAuthFailure, TypeOK
    <2>4. QED
        BY <1>1, <1>7, <2>1, <2>2, <2>3, ZenonT(40) DEF UpstreamAuthFailure, Refuse, HandshakeMove, TypeOK
<1>8. CASE Established(c)
    BY <1>1, <1>8, ZenonT(40) DEF Established, HandshakeMove, TypeOK
<1>9. QED
    BY <1>3, <1>4, <1>5, <1>6, <1>7, <1>8, ZenonT(40) DEF HandshakeStep

-----------------------------------------------------------------------------
(* The kills. *)

\* A lookup finds connections that are registered.
LEMMA KillLookupKeeps ==
    ASSUME IInv, NEW k \in Killers, NEW c \in Conns, KillLookup(k, c)
    PROVE  IInv'
<1> USE DEF IInv
<1>1. UNCHANGED <<inVars, outVars, told, regVars, pipe>>
    BY Zenon DEF KillLookup
<1>2. TypeOK'
    <2>1. kpc' \in [Killers -> {"idle", "close", "done"}] /\ kses' \in [Killers -> Conns \cup {None}]
        BY Zenon DEF KillLookup, TypeOK
    <2>2. QED
        BY <1>1, <2>1, Zenon DEF TypeOK, inVars, outVars, regVars
<1>3. ASSUME NEW d \in Conns
      PROVE  NoticesAt(d)' /\ HandshakeAt(d)' /\ PipeAt(d)'
    <2>1. Same(d)
        BY <1>1, Zenon DEF Same, inVars, outVars, regVars
    <2>2. QED
        BY <2>1, SameKeeps, Zenon
<1>4. ASSUME NEW j \in Killers
      PROVE  KillsAt(j)'
    <2>1. CASE j = k
        BY <1>1, <2>1, Zenon DEF KillLookup, KillsAt, TypeOK, regVars
    <2>2. CASE j # k
        BY <1>1, <2>2, ZenonT(40) DEF KillLookup, KillsAt, TypeOK, regVars
    <2>3. QED
        BY <2>1, <2>2, Zenon
<1>5. QED
    BY <1>2, <1>3, <1>4, Zenon

\* A kill closes the pipe of a connection that is past its registration.
LEMMA KillCloseKeeps ==
    ASSUME IInv, NEW k \in Killers, KillClose(k)
    PROVE  IInv'
<1> USE DEF IInv
<1>0. PICK c \in Conns : c = kses[k]
    BY Zenon DEF KillClose, KillsAt
<1>1. phase[c] # "new" /\ ipc[c] = "done" /\ pipe' \in {pipe, [pipe EXCEPT ![c] = "closed"]}
    BY <1>0, Zenon DEF KillClose, KillsAt, PipeAt
<1>2. UNCHANGED <<inVars, outVars, told, phase, kses>> /\ once' = [once EXCEPT ![c] = TRUE]
      /\ kpc' = [kpc EXCEPT ![k] = "done"]
    BY <1>0, Zenon DEF KillClose
<1>3. TypeOK'
    <2>1. pipe' \in [Conns -> {"none", "open", "closed"}]
        BY <1>1, Zenon DEF TypeOK
    <2>2. once' \in [Conns -> BOOLEAN] /\ kpc' \in [Killers -> {"idle", "close", "done"}]
        BY <1>2, Zenon DEF TypeOK
    <2>3. QED
        BY <1>2, <2>1, <2>2, Zenon DEF TypeOK, inVars, outVars
<1>4. \A d \in Conns : d # c => Same(d)
    BY <1>1, <1>2, ZenonT(40) DEF TypeOK, Same, inVars, outVars
<1>5. NoticesAt(c)' /\ HandshakeAt(c)'
    BY <1>2, ZenonT(40) DEF NoticesAt, HandshakeAt, inVars, outVars
<1>6. PipeAt(c)'
    <2>1. /\ opc'[c] = opc[c] /\ ipc'[c] = "done" /\ grace'[c] = grace[c] /\ phase'[c] = phase[c]
          /\ pipe'[c] \in {pipe[c], "closed"}
        BY <1>1, <1>2, Zenon DEF TypeOK, inVars, outVars
    <2>2. QED
        BY <1>1, <2>1, ZenonT(40) DEF PipeAt
<1>7. ASSUME NEW d \in Conns
      PROVE  NoticesAt(d)' /\ HandshakeAt(d)' /\ PipeAt(d)'
    BY <1>4, <1>5, <1>6, SameKeeps, Zenon
<1>8. ASSUME NEW j \in Killers
      PROVE  KillsAt(j)'
    BY <1>2, Zenon DEF KillsAt, TypeOK
<1>9. QED
    BY <1>3, <1>7, <1>8, Zenon

-----------------------------------------------------------------------------
\* The invariant holds at the start ...
LEMMA InitHolds == Init => IInv
<1> SUFFICES ASSUME Init PROVE IInv
    BY Zenon
<1> USE DaemonConstants
<1>1. TypeOK
    BY Zenon DEF Init, TypeOK, ConnPlaces, HandshakePlaces, Notices, Env, NoEnv
<1>2. \A c \in Conns : NoticesAt(c)
    BY ZenonT(40) DEF Init, NoticesAt
<1>3. \A c \in Conns : HandshakeAt(c) /\ PipeAt(c)
    BY DEF Init, HandshakeAt, PipeAt, Piping
<1>4. \A k \in Killers : KillsAt(k)
    BY Zenon DEF Init, KillsAt
<1>5. QED
    BY <1>1, <1>2, <1>3, <1>4, Zenon DEF IInv

\* ... and every step keeps it.
LEMMA StepHolds == IInv /\ [Next]_vars => IInv'
<1> SUFFICES ASSUME IInv, [Next]_vars PROVE IInv'
    BY Zenon
<1>1. ASSUME NEW c \in Conns, Accept(c) \/ HandshakeStep(c) \/ ConnStep(c) \/ Notice(c) \/ PipeEnds(c)
      PROVE  IInv'
    <2>1. CASE HandshakeStep(c)
        BY <2>1, HandshakeMoves, HandshakeKeeps, Zenon
    <2>2. CASE ConnStep(c)
        BY <2>2, TakePipeKeeps, TakeErrorKeeps, GraceExpiresKeeps, RegisterSessionKeeps,
           SetupRecordingKeeps, CloseRecorderKeeps, RemoveSessionKeeps, CloseBroadcasterKeeps,
           ClosePipeKeeps, CloseConnKeeps, ZenonT(40) DEF ConnStep
    <2>3. CASE Accept(c) \/ Notice(c) \/ PipeEnds(c)
        BY <2>3, AcceptKeeps, PipeCreateErrorKeeps, PipeStartKeeps, PipeErrorKeeps, PipeEndsKeeps,
           Zenon DEF Notice
    <2>4. QED
        BY <1>1, <2>1, <2>2, <2>3, Zenon
<1>2. ASSUME NEW k \in Killers, KillStep(k)
      PROVE  IInv'
    BY <1>2, KillLookupKeeps, KillCloseKeeps, Zenon DEF KillStep
<1>3. CASE UNCHANGED vars
    <2>1. UNCHANGED <<inVars, outVars, told, regVars, pipe, killVars>>
        BY <1>3, Zenon DEF vars
    <2>2. TypeOK'
        BY <2>1, Zenon DEF IInv, TypeOK, inVars, outVars, regVars, killVars
    <2>3. \A d \in Conns : Same(d)
        BY <2>1, Zenon DEF Same, inVars, outVars, regVars
    <2>4. \A d \in Conns : NoticesAt(d)' /\ HandshakeAt(d)' /\ PipeAt(d)'
        BY <2>3, SameKeeps, Zenon DEF IInv
    <2>5. \A k \in Killers : KillsAt(k)'
        BY <2>1, Zenon DEF IInv, KillsAt, regVars, killVars
    <2>6. QED
        BY <2>2, <2>4, <2>5, Zenon DEF IInv
<1>4. QED
    BY <1>1, <1>2, <1>3, Zenon DEF Next

-----------------------------------------------------------------------------
(* The theorems. *)

\* Every behaviour of the daemon keeps the invariant.
LEMMA InvariantHolds == Spec => []IInv
<1>1. QED
    BY InitHolds, StepHolds, PTL DEF Spec

\* Whatever the plugins, the two sides of the pipe, the grace timer and the
\* kills do, a connection is reported to the plugins as failed or as started,
\* never as both and never twice, its end is reported only after its start,
\* and a closed one was reported to its end unless recording refused it
\* (daemon.go:547-563, 599-605, 658-666).
THEOREM NoticesTheorem == Spec => []NoticesAddUp
<1>1. IInv => NoticesAddUp
    <2> SUFFICES ASSUME IInv, NEW c \in Conns
                 PROVE  LET n == told[c]
                        IN /\ n.create + n.start <= 1 /\ n.error <= n.start
                           /\ opc[c] = "closed" => n.create + n.error = IF recorder[c] = "refused" THEN 0 ELSE 1
        BY Zenon DEF NoticesAddUp
    <2>2. opc[c] \in ConnPlaces /\ NoticesAt(c)
        BY Zenon DEF IInv, TypeOK
    <2>3. told[c].create \in Nat /\ told[c].start \in Nat /\ told[c].error \in Nat
        BY ZenonT(40) DEF IInv, TypeOK, Notices
    <2>4. QED
        BY <2>2, <2>3 DEF NoticesAt, ConnPlaces
<1>2. QED
    BY <1>1, InvariantHolds, PTL

\* The env a session starts with is, variable by variable, the one of the last
\* reply of a plugin over the one of the command line, however many plugins
\* and attempts came before (grpc.go:373-375, daemon.go:640-650).
THEOREM EnvTheorem == Spec => []EnvOfPipe
<1>1. IInv => EnvOfPipe
    BY SMTT(30) DEF IInv, EnvOfPipe, HandshakeAt
<1>2. QED
    BY <1>1, InvariantHolds, PTL

\* A connection is closed with its handshake over and its pipe, its recorder
\* and its entry of the registry gone, unless the login grace time cut it off
\* (daemon.go:535-543, 556-562).
THEOREM StrandsTheorem == Spec => []OnlyGraceStrands
<1>1. IInv => OnlyGraceStrands
    BY Zenon DEF IInv, OnlyGraceStrands, NoticesAt, HandshakeAt, PipeAt
<1>2. QED
    BY <1>1, InvariantHolds, PTL

-----------------------------------------------------------------------------
(* The connection goroutine keeps the protocol of the admin registry. *)

\* What AdminSessions has besides the sessions and the kills does not change
\* here as long as no broadcaster is closed.
LEMMA ViewRest ==
    ASSUME \A c \in Conns : phase'[c] = "closed" <=> phase[c] = "closed"
    PROVE  UNCHANGED <<AdminView!bcVars, AdminView!hookVars, AdminView!viewVars>>
<1>1. [c \in Conns |-> phase'[c] = "closed"] = [c \in Conns |-> phase[c] = "closed"]
    BY Zenon
<1>2. QED
    BY <1>1, Zenon DEF AdminView!bcVars, AdminView!hookVars, AdminView!viewVars

\* A step that touches no session and no kill is invisible there.
LEMMA ViewStutters ==
    ASSUME UNCHANGED <<phase, pipe, once, kpc, kses>>
    PROVE  UNCHANGED AdminView!adminVars
<1>1. UNCHANGED <<AdminView!bcVars, AdminView!hookVars, AdminView!viewVars>>
    BY ViewRest, Zenon
<1>2. QED
    BY <1>1, Zenon DEF AdminView!adminVars, AdminView!sesVars, AdminView!killVars

\* The handshake opens the pipe once, or is invisible.
LEMMA HandshakeImplements ==
    ASSUME IInv, NEW c \in Conns, HandshakeStep(c)
    PROVE  AdminView!OpenPipe(c) \/ UNCHANGED AdminView!adminVars
<1>1. CASE Established(c)
    <2>1. pipe[c] = "none" /\ UNCHANGED <<phase, once, kpc, kses>> /\ pipe' = [pipe EXCEPT ![c] = "open"]
        BY <1>1, Zenon DEF Established, regVars, killVars, IInv, PipeAt
    <2>2. UNCHANGED <<AdminView!bcVars, AdminView!hookVars, AdminView!viewVars>>
        BY <2>1, ViewRest, Zenon
    <2>3. QED
        BY <2>1, <2>2, Zenon DEF AdminView!OpenPipe, AdminView!killVars
<1>2. CASE ~Established(c)
    <2>1. UNCHANGED <<phase, pipe, once, kpc, kses>>
        BY <1>2, Zenon DEF HandshakeStep, NewConnection, PluginRefuses, RetryCurrentPlugin, NextPlugin,
           CreateUpstream, UpstreamAuthFailure, HandshakeFails, regVars, killVars
    <2>2. QED
        BY <2>1, ViewStutters, Zenon
<1>3. QED
    BY <1>1, <1>2, Zenon

\* The connection goroutine adds, removes and closes in this order, the pipe
\* last.
LEMMA ConnImplements ==
    ASSUME IInv, NEW c \in Conns, ConnStep(c)
    PROVE  AdminView!SessionStep(c) \/ UNCHANGED AdminView!adminVars
<1> USE DEF IInv
<1>1. CASE RegisterSession(c) /\ Admin
    <2>1. /\ phase[c] = "new" /\ pipe[c] = "open" /\ UNCHANGED <<pipe, once, kpc, kses>>
          /\ phase' = [phase EXCEPT ![c] = "live"]
        BY <1>1, Zenon DEF RegisterSession, killVars, PipeAt
    <2>2. \A d \in Conns : phase'[d] = "closed" <=> phase[d] = "closed"
        BY <2>1, Zenon DEF TypeOK
    <2>3. AdminView!Add(c)
        BY <2>1, <2>2, ViewRest, Zenon DEF AdminView!Add, AdminView!killVars
    <2>4. QED
        BY <2>3, Zenon DEF AdminView!SessionStep
<1>2. CASE RemoveSession(c) /\ Admin
    <2>1. /\ phase[c] = "live" /\ UNCHANGED <<pipe, once, kpc, kses>>
          /\ phase' = [phase EXCEPT ![c] = "removed"]
        BY <1>2, Zenon DEF RemoveSession, killVars, PipeAt
    <2>2. \A d \in Conns : phase'[d] = "closed" <=> phase[d] = "closed"
        BY <2>1, Zenon DEF TypeOK
    <2>3. AdminView!RemoveEntry(c)
        BY <2>1, <2>2, ViewRest, Zenon DEF AdminView!RemoveEntry, AdminView!killVars
    <2>4. QED
        BY <2>3, Zenon DEF AdminView!SessionStep
<1>3. CASE CloseBroadcaster(c)
    <2>1. /\ phase[c] = "removed" /\ UNCHANGED <<pipe, once, kpc, kses>>
          /\ phase' = [phase EXCEPT ![c] = "closed"]
        BY <1>3, Zenon DEF CloseBroadcaster, killVars, PipeAt
    <2>2. [d \in Conns |-> phase'[d] = "closed"] = [[d \in Conns |-> phase[d] = "closed"] EXCEPT ![c] = TRUE]
        BY <2>1, Zenon DEF TypeOK
    <2>3. /\ [d \in Conns |-> {}] = [[d \in Conns |-> {}] EXCEPT ![c] = {}]
          /\ [v \in {} |-> "none"] = [v \in {} |-> IF v \in [d \in Conns |-> {}][c]
                                                    THEN AdminView!AfterClose([w \in {} |-> "none"][v])
                                                    ELSE [w \in {} |-> "none"][v]]
        BY Zenon
    <2>4. AdminView!CloseBroadcaster(c)
        BY <2>1, <2>2, <2>3, Zenon DEF AdminView!CloseBroadcaster, AdminView!hookVars, AdminView!killVars
    <2>5. QED
        BY <2>4, Zenon DEF AdminView!SessionStep
<1>4. CASE ClosePipe(c)
    <2>1. /\ phase[c] # "live" /\ pipe[c] # "none" /\ UNCHANGED <<phase, once, kpc, kses>>
          /\ pipe' = [pipe EXCEPT ![c] = "closed"]
        BY <1>4, Zenon DEF ClosePipe, regVars, killVars, PipeAt, Piping
    <2>2. CASE pipe[c] = "open"
        <3>1. AdminView!ClosePipe(c)
            BY <2>1, <2>2, ViewRest, Zenon DEF AdminView!ClosePipe, AdminView!killVars
        <3>2. QED
            BY <3>1, Zenon DEF AdminView!SessionStep
    <2>3. CASE pipe[c] # "open"
        <3>1. pipe[c] = "closed" /\ pipe' = pipe
            BY <2>1, <2>3, ZenonT(40) DEF TypeOK
        <3>2. QED
            BY <2>1, <3>1, ViewStutters, Zenon
    <2>4. QED
        BY <2>2, <2>3, Zenon
<1>5. CASE ~(RegisterSession(c) /\ Admin) /\ ~(RemoveSession(c) /\ Admin) /\ ~CloseBroadcaster(c) /\ ~ClosePipe(c)
    <2>1. UNCHANGED <<phase, pipe, once, kpc, kses>>
        BY <1>5, Zenon DEF ConnStep, TakePipe, TakeError, GraceExpires, RegisterSession, SetupRecording,
           CloseRecorder, RemoveSession, CloseConn, regVars, killVars
    <2>2. QED
        BY <2>1, ViewStutters, Zenon
<1>6. QED
    BY <1>1, <1>2, <1>3, <1>4, <1>5, Zenon

\* A kill is a kill of the registry.
LEMMA KillImplements ==
    ASSUME IInv, NEW k \in Killers, KillStep(k)
    PROVE  AdminView!KillStep(k)
<1>1. UNCHANGED phase
    BY Zenon DEF KillStep, KillLookup, KillClose, regVars
<1>2. UNCHANGED <<AdminView!bcVars, AdminView!hookVars, AdminView!viewVars>>
    BY <1>1, ViewRest, Zenon
<1>3. ASSUME NEW c \in Conns, KillLookup(k, c)
      PROVE  AdminView!KillLookup(k, c)
    BY <1>2, <1>3, Zenon DEF KillLookup, AdminView!KillLookup, AdminView!sesVars, regVars
<1>4. ASSUME KillClose(k)
      PROVE  AdminView!KillClose(k)
    BY <1>2, <1>4, Zenon DEF KillClose, AdminView!KillClose
<1>5. QED
    BY <1>3, <1>4, Zenon DEF KillStep, AdminView!KillStep

\* Step by step.
LEMMA StepImplements ==
    IInv /\ [Next]_vars => [AdminView!Next]_(AdminView!adminVars)
<1> SUFFICES ASSUME IInv, [Next]_vars PROVE AdminView!Next \/ UNCHANGED AdminView!adminVars
    BY Zenon
<1>1. ASSUME NEW c \in Conns, HandshakeStep(c)
      PROVE  AdminView!Next \/ UNCHANGED AdminView!adminVars
    BY <1>1, HandshakeImplements, Zenon DEF AdminView!Next, AdminView!SessionStep
<1>2. ASSUME NEW c \in Conns, ConnStep(c)
      PROVE  AdminView!Next \/ UNCHANGED AdminView!adminVars
    BY <1>2, ConnImplements, Zenon DEF AdminView!Next
<1>3. ASSUME NEW c \in Conns, Accept(c) \/ Notice(c) \/ PipeEnds(c)
      PROVE  UNCHANGED AdminView!adminVars
    <2>1. UNCHANGED <<phase, pipe, once, kpc, kses>>
        BY <1>3, Zenon DEF Accept, Notice, PipeCreateError, PipeStart, PipeError, PipeEnds, regVars, killVars
    <2>2. QED
        BY <2>1, ViewStutters, Zenon
<1>4. ASSUME NEW k \in Killers, KillStep(k)
      PROVE  AdminView!Next
    BY <1>4, KillImplements, Zenon DEF AdminView!Next
<1>5. CASE UNCHANGED vars
    BY <1>5, ViewStutters, Zenon DEF vars, regVars, killVars
<1>6. QED
    BY <1>1, <1>2, <1>3, <1>4, <1>5, Zenon DEF Next

\* The connection goroutine uses the registry of the admin service as
\* AdminSessions assumes it is used: for every number of connections and of
\* kills it adds a session only while its pipe is open, removes it once,
\* closes its broadcaster after that and its pipe only then
\* (daemon.go:530, 565, 582-597).
THEOREM AdminTheorem == Spec => ImplementsAdmin
<1>1. Init => AdminView!Init
    BY ZenonT(40) DEF Init, AdminView!Init
<1>2. QED
    BY <1>1, InvariantHolds, StepImplements, PTL DEF Spec, ImplementsAdmin, AdminView!Spec

-----------------------------------------------------------------------------
(* The forwarding filter (forwarding.go). *)

Held(r) == {r} \ {NoReq}

\* Each request is in one place: in the hands of the down goroutine, at the
\* upstream, on its way back, in the hands of the up goroutine, or answered.
OnePlace ==
    /\ IsInjective(toUp) /\ IsInjective(fromUp) /\ IsInjective(delivered)
    /\ Range(toUp) \cap Range(fromUp) = {}
    /\ Range(toUp) \cap Reached = {}
    /\ Range(fromUp) \cap Reached = {}
    /\ ureq \notin Range(delivered)
    /\ Held(dreq) \cap (Range(toUp) \cup Range(fromUp) \cup Reached) = {}
    /\ \A k \in Range(toUp) \cup Range(fromUp) \cup Reached \cup Held(dreq) : k < seq

\* A request is counted when `up` or the waiting `down` has seen its reply,
\* and not before.
CountedWhenSeen ==
    /\ counted \subseteq Reached \cup (IF dpc = "answer" THEN {dreq} ELSE {})
    /\ \A k \in counted : k < seq
    /\ IsFiniteSet(counted)
    /\ replied = Cardinality(counted)

\* Only the request reserved last waits for its turn.
Position ==
    /\ dpc \in {"check", "asleep", "answer"} => dreq = seq - 1 /\ seq > 0
    /\ dpc \in {"read", "refuse"} => dreq = NoReq
    /\ upc = "read" => ureq = NoReq
    /\ upc = "write" => ureq # NoReq

FilterInv ==
    /\ FilterTypeOK
    /\ OnePlace
    /\ CountedWhenSeen
    /\ Position
    /\ OvertakesAtMostTheHeldReply

-----------------------------------------------------------------------------
(* Sequences as the sets of their elements. *)

\* Appending a fresh element adds it to the set of elements and keeps them
\* distinct: a write to the client or to the upstream.
LEMMA AppendElements ==
    ASSUME NEW s \in Seq(Nat), NEW e \in Nat
    PROVE  /\ Append(s, e) \in Seq(Nat)
           /\ Range(Append(s, e)) = Range(s) \cup {e}
           /\ IsInjective(s) /\ e \notin Range(s) => IsInjective(Append(s, e))
<1>1. Append(s, e) \in Seq(Nat) OBVIOUS
<1>2. /\ Len(Append(s, e)) = Len(s) + 1
      /\ \A i \in 1..Len(s) : Append(s, e)[i] = s[i]
      /\ Append(s, e)[Len(s) + 1] = e
      /\ DOMAIN s = 1..Len(s)
      /\ DOMAIN Append(s, e) = 1..(Len(s) + 1)
      /\ Len(s) \in Nat
    OBVIOUS
<1>3. Range(Append(s, e)) = Range(s) \cup {e}
    BY <1>2 DEF Range
<1>4. ASSUME IsInjective(s), e \notin Range(s) PROVE IsInjective(Append(s, e))
    BY <1>2, <1>4, SMTT(30) DEF IsInjective, Range
<1> QED BY <1>1, <1>3, <1>4, Zenon

\* Taking the head of a sequence removes that element and no other: a read
\* of the upstream or of its replies.
LEMMA TailElements ==
    ASSUME NEW s \in Seq(Nat), s # <<>>
    PROVE  /\ Tail(s) \in Seq(Nat) /\ Head(s) \in Nat
           /\ Range(s) = Range(Tail(s)) \cup {Head(s)}
           /\ IsInjective(s) => IsInjective(Tail(s)) /\ Head(s) \notin Range(Tail(s))
<1>1. /\ Len(s) \in Nat /\ Len(s) > 0
      /\ Head(s) = s[1]
      /\ DOMAIN s = 1..Len(s)
      /\ DOMAIN Tail(s) = 1..(Len(s) - 1)
      /\ Len(Tail(s)) = Len(s) - 1
      /\ \A i \in 1..(Len(s) - 1) : Tail(s)[i] = s[i + 1]
      /\ Tail(s) \in Seq(Nat) /\ Head(s) \in Nat
    OBVIOUS
<1>2. Range(s) = Range(Tail(s)) \cup {Head(s)}
    <2>1. Range(Tail(s)) \cup {Head(s)} \subseteq Range(s)
        BY <1>1, SMTT(30) DEF Range
    <2>2. ASSUME NEW i \in 1..Len(s) PROVE s[i] \in Range(Tail(s)) \cup {Head(s)}
        <3>1. CASE i = 1 BY <1>1, <3>1, Zenon
        <3>2. CASE i # 1
            <4>1. i - 1 \in 1..(Len(s) - 1) /\ (i - 1) + 1 = i BY <1>1, <3>2
            <4>2. Tail(s)[i - 1] = s[i] BY <1>1, <4>1, Zenon
            <4> QED BY <1>1, <4>1, <4>2, Zenon DEF Range
        <3> QED BY <3>1, <3>2, Zenon
    <2>3. Range(s) = {s[i] : i \in 1..Len(s)} BY <1>1, Zenon DEF Range
    <2>4. Range(s) \subseteq Range(Tail(s)) \cup {Head(s)} BY <2>2, <2>3, Zenon
    <2> QED BY <2>1, <2>4, Zenon
<1>3. ASSUME IsInjective(s) PROVE IsInjective(Tail(s)) /\ Head(s) \notin Range(Tail(s))
    <2>1. ASSUME NEW i \in 1..(Len(s) - 1), NEW j \in 1..(Len(s) - 1), Tail(s)[i] = Tail(s)[j]
          PROVE  i = j
        <3>1. i + 1 \in 1..Len(s) /\ j + 1 \in 1..Len(s) BY <1>1
        <3>2. i + 1 = j + 1 BY <1>1, <1>3, <2>1, <3>1, SMTT(30) DEF IsInjective
        <3> QED BY <3>2
    <2>2. ASSUME NEW i \in 1..(Len(s) - 1), Tail(s)[i] = Head(s) PROVE FALSE
        <3>1. i + 1 \in 1..Len(s) /\ 1 \in 1..Len(s) BY <1>1
        <3>2. i + 1 = 1 BY <1>1, <1>3, <2>2, <3>1, SMTT(30) DEF IsInjective
        <3> QED BY <3>2
    <2>3. IsInjective(Tail(s)) BY <1>1, <2>1, Zenon DEF IsInjective
    <2>4. Head(s) \notin Range(Tail(s)) BY <1>1, <2>2, Zenon DEF Range
    <2> QED BY <2>3, <2>4, Zenon
<1> QED BY <1>1, <1>2, <1>3, Zenon

-----------------------------------------------------------------------------
\* The filter starts well formed, with neither goroutine holding a reply
\* (newForwardingFilter, forwarding.go:47-56).
LEMMA FilterTypeInit == FilterInit => FilterTypeOK /\ Position
<1> SUFFICES ASSUME FilterInit PROVE FilterTypeOK /\ Position
    BY Zenon
<1>1. <<>> \in Seq(Nat) OBVIOUS
<1>2. pipeClosed \in BOOLEAN BY Zenon DEF FilterInit
<1>3. packets \in 0..MaxPackets BY FilterConstants DEF FilterInit
<1>4. FilterTypeOK BY <1>1, <1>2, <1>3, FilterConstants, Zenon DEF FilterInit, FilterTypeOK
<1>5. Position BY Zenon DEF FilterInit, Position
<1> QED BY <1>4, <1>5, Zenon

\* Types and positions are inductive together: a goroutine that is about to
\* write a reply holds one.
LEMMA FilterTypeStep ==
    FilterTypeOK /\ Position /\ [FilterNext]_filterVars => FilterTypeOK' /\ Position'
<1> SUFFICES ASSUME FilterTypeOK, Position, [FilterNext]_filterVars PROVE FilterTypeOK' /\ Position'
    BY Zenon
<1> USE FilterConstants DEF FilterTypeOK, Position
<1>1. ASSUME NEW p \in Packet, DownReserve(p) PROVE FilterTypeOK' /\ Position'
    BY <1>1 DEF DownReserve, ReadDown
<1>2. ASSUME NEW p \in Packet, DownPass(p) PROVE FilterTypeOK' /\ Position'
    BY <1>2, SMTT(30) DEF DownPass, ReadDown
<1>3. CASE DownSleep BY <1>3, Zenon DEF DownSleep
<1>4. CASE DownProceed BY <1>4 DEF DownProceed
<1>5. CASE WriteAnswer
    <2>1. dreq \in Nat BY <1>5 DEF WriteAnswer
    <2> QED BY <1>5, <2>1, AppendElements, Zenon DEF WriteAnswer
<1>6. CASE WriteRefusal BY <1>6, Zenon DEF WriteRefusal
<1>7. CASE WriteUpstream
    <2>1. toUp' \in Seq(Nat) BY <1>7, AppendElements, Zenon DEF WriteUpstream
    <2> QED BY <1>7, <2>1, Zenon DEF WriteUpstream
<1>8. CASE UpstreamReplies BY <1>8, TailElements, AppendElements, Zenon DEF UpstreamReplies
<1>9. CASE UpHook
    <2>1. ureq' \in Nat /\ fromUp' \in Seq(Nat) BY <1>9, TailElements, Zenon DEF UpHook
    <2>2. ureq' # NoReq BY <2>1, Zenon
    <2>3. CASE disableRemote
        <3>1. counted' = counted \cup {ureq'} /\ replied' = replied + 1
            BY <1>9, <2>3, Zenon DEF UpHook
        <3>2. counted' \in SUBSET Nat /\ replied' \in Nat BY <2>1, <3>1
        <3> QED BY <1>9, <2>1, <2>2, <2>3, <3>2, Zenon DEF UpHook
    <2>4. CASE ~disableRemote BY <1>9, <2>1, <2>2, <2>4, Zenon DEF UpHook
    <2> QED BY <2>3, <2>4, Zenon
<1>10. CASE WriteReply
    <2>1. ureq \in Nat BY <1>10, Zenon DEF WriteReply
    <2> QED BY <1>10, <2>1, AppendElements, Zenon DEF WriteReply
<1>11. CASE PipeCloses BY <1>11, ZenonT(40) DEF PipeCloses
<1>12. CASE UNCHANGED filterVars BY <1>12, ZenonT(40) DEF filterVars
<1> QED BY <1>1, <1>2, <1>3, <1>4, <1>5, <1>6, <1>7, <1>8, <1>9, <1>10, <1>11, <1>12, ZenonT(40)
        DEF FilterNext, Down, Up, Rest

\* The state of the filter and of its two goroutines stays well formed
\* (forwarding.go:37-45).
THEOREM FilterTypeCorrect == FilterSpec => []FilterTypeOK
BY FilterTypeInit, FilterTypeStep, PTL DEF FilterSpec

-----------------------------------------------------------------------------
\* The heart of the argument: the wait ends only when every earlier request
\* has been counted.
LEMMA AllEarlierCounted ==
    ASSUME NEW n \in Nat, NEW S \in SUBSET Nat, IsFiniteSet(S),
           \A k \in S : k < n, Cardinality(S) >= n
    PROVE  S = 0..(n - 1)
<1>1. S \subseteq 0..(n - 1) OBVIOUS
<1>2. IsFiniteSet(0..(n - 1)) /\ Cardinality(0..(n - 1)) = n
    <2>1. 0 \in Int /\ n - 1 \in Int /\ (0 > n - 1 <=> n = 0) OBVIOUS
    <2>2. /\ IsFiniteSet(0..(n - 1))
          /\ Cardinality(0..(n - 1)) = IF 0 > n - 1 THEN 0 ELSE (n - 1) - 0 + 1
        BY <2>1, FS_Interval, Zenon
    <2> QED BY <2>1, <2>2
<1>3. Cardinality(S) \in Nat BY FS_CardinalityType, Zenon
<1>4. Cardinality(S) <= n BY <1>1, <1>2, FS_Subset, ZenonT(60)
<1>5. Cardinality(S) = Cardinality(0..(n - 1)) BY <1>2, <1>3, <1>4
<1> QED BY <1>1, <1>2, <1>5, FS_Subset, Zenon

\* The accounting holds of a new filter (forwarding.go:47-56).
LEMMA FilterInvInit == FilterInit => FilterInv
<1> SUFFICES ASSUME FilterInit PROVE FilterInv
    BY Zenon
<1>1. Range(<<>>) = {} /\ IsInjective(<<>>) BY DEF Range, IsInjective
<1>2. OnePlace BY <1>1, FilterConstants, Zenon DEF FilterInit, OnePlace, Reached, Held
<1>3. CountedWhenSeen BY FS_EmptySet, Zenon DEF FilterInit, CountedWhenSeen
<1>4. OvertakesAtMostTheHeldReply BY Zenon DEF FilterInit, OvertakesAtMostTheHeldReply
<1> QED BY FilterTypeInit, <1>2, <1>3, <1>4, ZenonT(40) DEF FilterInv

\* Every step of the two hooks, of the goroutines around them and of the
\* upstream keeps the accounting (forwarding.go:110-195).
LEMMA FilterInvStep == FilterInv /\ [FilterNext]_filterVars => FilterInv'
<1> SUFFICES ASSUME FilterInv, [FilterNext]_filterVars PROVE FilterInv'
    BY Zenon
<1> USE FilterConstants DEF FilterInv
<1>0. FilterTypeOK' /\ Position' BY FilterTypeStep, Zenon
<1> DEFINE Rest3 == OnePlace' /\ CountedWhenSeen' /\ OvertakesAtMostTheHeldReply'
<1>1. ASSUME NEW p \in Packet, DownReserve(p) PROVE Rest3
    <2>1. /\ dreq = NoReq /\ dreq' = seq /\ seq' = seq + 1
          /\ UNCHANGED <<toUp, fromUp, ureq, delivered, counted, replied>>
          /\ dpc' # "answer" /\ dpc # "answer"
        BY <1>1, Zenon DEF DownReserve, ReadDown, Position
    <2>2. OnePlace'
        <3>1. Reached' = Reached BY <2>1, Zenon DEF Reached
        <3>2. seq \in Nat /\ Held(dreq)' = {seq} /\ Held(dreq) = {}
            BY <2>1, Zenon DEF Held, FilterTypeOK
        <3>3. \A k \in Range(toUp) \cup Range(fromUp) \cup Reached : k < seq
            BY Zenon DEF OnePlace
        <3>4. Range(toUp) \cup Range(fromUp) \cup Reached \subseteq Nat
            BY SMTT(30) DEF FilterTypeOK, Range, Reached
        <3>5. {seq} \cap (Range(toUp) \cup Range(fromUp) \cup Reached) = {}
            BY <3>2, <3>3
        <3>6. \A k \in Range(toUp) \cup Range(fromUp) \cup Reached \cup {seq} : k < seq + 1
            BY <3>2, <3>3, <3>4
        <3> QED BY <2>1, <3>1, <3>2, <3>5, <3>6, Zenon DEF OnePlace
    <2>3. CountedWhenSeen' BY <2>1 DEF CountedWhenSeen, Reached, FilterTypeOK
    <2> QED BY <2>1, <2>2, <2>3, Zenon DEF OvertakesAtMostTheHeldReply
<1>2. ASSUME NEW p \in Packet, DownPass(p) PROVE Rest3
    <2>1. /\ UNCHANGED <<seq, dreq, toUp, fromUp, ureq, delivered, counted, replied>>
          /\ dpc' # "answer" /\ dpc # "answer"
        BY <1>2, Zenon DEF DownPass, ReadDown
    <2> QED BY <2>1, Zenon DEF OnePlace, CountedWhenSeen, Reached, OvertakesAtMostTheHeldReply
<1>3. CASE DownSleep \/ WriteRefusal
    <2>1. /\ UNCHANGED <<seq, dreq, toUp, fromUp, ureq, delivered, counted, replied>>
          /\ dpc' # "answer" /\ dpc # "answer"
        BY <1>3, Zenon DEF DownSleep, WriteRefusal
    <2> QED BY <1>0, <2>1, Zenon DEF OnePlace, CountedWhenSeen, Reached, OvertakesAtMostTheHeldReply
<1>4. CASE DownProceed
    <2>1. /\ UNCHANGED <<seq, dreq, toUp, fromUp, ureq, delivered>>
          /\ dpc = "check" /\ dpc' = "answer" /\ dreq \in Nat /\ dreq = seq - 1
          /\ counted' = counted \cup {dreq} /\ replied' = replied + 1
          /\ replied >= dreq
        BY <1>4 DEF DownProceed, Position, FilterTypeOK
    <2>2. dreq \notin Reached BY <2>1, Zenon DEF OnePlace, Held, FilterTypeOK
    <2>3. counted \subseteq Reached BY <2>1, Zenon DEF CountedWhenSeen
    <2>4. \A k \in counted : k < dreq
        <3>1. seq \in Nat /\ counted \subseteq Nat BY Zenon DEF FilterTypeOK
        <3>2. \A k \in counted : k < seq /\ k # dreq BY <2>2, <2>3, Zenon DEF CountedWhenSeen
        <3> QED BY <2>1, <3>1, <3>2
    <2>5. counted = 0..(dreq - 1)
        BY <2>1, <2>4, AllEarlierCounted, Zenon DEF CountedWhenSeen, FilterTypeOK
    <2>6. OvertakesAtMostTheHeldReply'
        BY <2>1, <2>3, <2>5, Zenon DEF OvertakesAtMostTheHeldReply, Reached
    <2>7. OnePlace' BY <2>1, Zenon DEF OnePlace, Reached
    <2>8. IsFiniteSet(counted') /\ Cardinality(counted') = Cardinality(counted) + 1
        BY <2>1, <2>2, <2>3, FS_AddElement, Zenon DEF CountedWhenSeen
    <2>9. CountedWhenSeen'
        BY <2>1, <2>3, <2>8, SMTT(30) DEF CountedWhenSeen, Reached, FilterTypeOK
    <2> QED BY <1>0, <2>6, <2>7, <2>9, Zenon
<1>5. CASE WriteAnswer
    <2>1. /\ UNCHANGED <<seq, toUp, fromUp, ureq, counted, replied>>
          /\ dpc = "answer" /\ dpc' = "read" /\ dreq \in Nat /\ dreq' = NoReq
          /\ delivered' = Append(delivered, dreq)
        BY <1>5 DEF WriteAnswer, Position, FilterTypeOK
    <2>2. dreq \notin Reached BY <2>1, Zenon DEF OnePlace, Held, FilterTypeOK
    <2>3. /\ Range(delivered') = Range(delivered) \cup {dreq}
          /\ IsInjective(delivered')
        BY <2>1, <2>2, AppendElements, Zenon DEF OnePlace, Reached, FilterTypeOK
    <2>4. Reached' = Reached \cup {dreq} BY <2>1, <2>3, Zenon DEF Reached
    <2>5. OnePlace'
        <3>1. Range(toUp) \cap {dreq} = {} /\ Range(fromUp) \cap {dreq} = {}
            BY <2>1, Zenon DEF OnePlace, Held, FilterTypeOK
        <3>2. ureq # dreq BY <2>1, <2>2, Zenon DEF Reached, FilterTypeOK
        <3>3. dreq < seq BY <2>1, Zenon DEF OnePlace, Held, FilterTypeOK
        <3> QED BY <2>1, <2>3, <2>4, <3>1, <3>2, <3>3, Zenon DEF OnePlace, Held
    <2>6. CountedWhenSeen' BY <2>1, <2>4, Zenon DEF CountedWhenSeen
    <2> QED BY <1>0, <2>1, <2>5, <2>6, Zenon DEF OvertakesAtMostTheHeldReply
<1>6. CASE WriteUpstream
    <2>1. /\ UNCHANGED <<seq, fromUp, ureq, delivered, counted, replied>>
          /\ dpc' # "answer" /\ dpc # "answer" /\ dreq' = NoReq
          /\ toUp' = IF dreq = NoReq THEN toUp ELSE Append(toUp, dreq)
        BY <1>6, Zenon DEF WriteUpstream
    <2>2. Reached' = Reached BY <2>1, Zenon DEF Reached
    <2>3. Range(toUp') = Range(toUp) \cup Held(dreq) /\ IsInjective(toUp')
        <3>1. CASE dreq = NoReq BY <2>1, <3>1, Zenon DEF Held, OnePlace
        <3>2. CASE dreq # NoReq
            <4>1. dreq \in Nat /\ Held(dreq) = {dreq} BY <3>2, Zenon DEF FilterTypeOK, Held
            <4>2. dreq \notin Range(toUp) BY <4>1, Zenon DEF OnePlace
            <4> QED BY <2>1, <3>2, <4>1, <4>2, AppendElements, Zenon DEF FilterTypeOK, OnePlace
        <3> QED BY <3>1, <3>2, Zenon
    <2>4. Held(dreq)' = {} BY <2>1, Zenon DEF Held
    <2>5. OnePlace' BY <2>1, <2>2, <2>3, <2>4, ZenonT(40) DEF OnePlace
    <2>6. CountedWhenSeen' BY <2>1, <2>2, Zenon DEF CountedWhenSeen
    <2> QED BY <1>0, <2>1, <2>5, <2>6, Zenon DEF OvertakesAtMostTheHeldReply
<1>7. CASE UpstreamReplies
    <2>1. /\ UNCHANGED <<seq, dpc, dreq, ureq, delivered, counted, replied>>
          /\ toUp # <<>> /\ toUp \in Seq(Nat) /\ fromUp \in Seq(Nat)
          /\ fromUp' = Append(fromUp, Head(toUp)) /\ toUp' = Tail(toUp)
        BY <1>7, Zenon DEF UpstreamReplies, FilterTypeOK
    <2>2. /\ Range(toUp) = Range(toUp') \cup {Head(toUp)}
          /\ Head(toUp) \in Nat
          /\ IsInjective(toUp') /\ Head(toUp) \notin Range(toUp')
        BY <2>1, TailElements, Zenon DEF OnePlace
    <2>3. Head(toUp) \notin Range(fromUp) BY <2>2, Zenon DEF OnePlace
    <2>4. Range(fromUp') = Range(fromUp) \cup {Head(toUp)} /\ IsInjective(fromUp')
        BY <2>1, <2>2, <2>3, AppendElements, ZenonT(40) DEF OnePlace
    <2>5. Reached' = Reached BY <2>1, Zenon DEF Reached
    <2>6. OnePlace' BY <2>1, <2>2, <2>4, <2>5, ZenonT(40) DEF OnePlace
    <2>7. CountedWhenSeen' /\ OvertakesAtMostTheHeldReply'
        BY <2>1, <2>5, Zenon DEF CountedWhenSeen, OvertakesAtMostTheHeldReply
    <2> QED BY <1>0, <2>6, <2>7, Zenon
<1>8. CASE UpHook
    <2>1. /\ UNCHANGED <<seq, dreq, toUp, delivered>>
          /\ fromUp # <<>> /\ fromUp \in Seq(Nat)
          /\ ureq = NoReq /\ ureq' = Head(fromUp) /\ fromUp' = Tail(fromUp)
        BY <1>8, Zenon DEF UpHook, Position, FilterTypeOK
    <2>2. /\ Range(fromUp) = Range(fromUp') \cup {ureq'}
          /\ ureq' \in Nat
          /\ IsInjective(fromUp') /\ ureq' \notin Range(fromUp')
        BY <2>1, TailElements, Zenon DEF OnePlace
    <2>3. Reached' = Reached \cup {ureq'} BY <2>1, <2>2, Zenon DEF Reached
    <2>4. ureq' \notin Reached /\ ureq' \notin Held(dreq) /\ ureq' \notin Range(toUp) /\ ureq' < seq
        BY <2>2, Zenon DEF OnePlace
    <2>5. OnePlace'
        BY <2>1, <2>2, <2>3, <2>4, SMTT(30) DEF OnePlace, Reached
    <2>6. dpc' = "answer" <=> dpc = "answer" BY <1>8, Zenon DEF UpHook
    <2>7. OvertakesAtMostTheHeldReply'
        BY <2>1, <2>3, <2>6, Zenon DEF OvertakesAtMostTheHeldReply
    <2>8. CASE disableRemote
        <3>1. counted' = counted \cup {ureq'} /\ replied' = replied + 1
            BY <1>8, <2>8, Zenon DEF UpHook
        <3>2. ureq' \notin counted
            BY <2>2, <2>4, Zenon DEF CountedWhenSeen, Held, FilterTypeOK
        <3>3. IsFiniteSet(counted') /\ Cardinality(counted') = Cardinality(counted) + 1
            BY <3>1, <3>2, FS_AddElement, ZenonT(40) DEF CountedWhenSeen
        <3>4. CountedWhenSeen'
            BY <2>1, <2>3, <2>4, <2>6, <3>1, <3>3, ZenonT(40) DEF CountedWhenSeen
        <3> QED BY <1>0, <2>5, <2>7, <3>4, Zenon
    <2>9. CASE ~disableRemote
        <3>1. UNCHANGED <<counted, replied>> BY <1>8, <2>9, Zenon DEF UpHook
        <3>2. CountedWhenSeen'
            BY <2>1, <2>3, <2>6, <3>1, ZenonT(40) DEF CountedWhenSeen
        <3> QED BY <1>0, <2>5, <2>7, <3>2, Zenon
    <2> QED BY <2>8, <2>9, Zenon
<1>9. CASE WriteReply
    <2>1. /\ UNCHANGED <<seq, dpc, dreq, toUp, fromUp, counted, replied>>
          /\ ureq \in Nat /\ ureq' = NoReq /\ delivered \in Seq(Nat)
          /\ delivered' = Append(delivered, ureq)
        BY <1>9, Zenon DEF WriteReply, Position, FilterTypeOK
    <2>2. Range(delivered') = Range(delivered) \cup {ureq} /\ IsInjective(delivered')
        BY <2>1, AppendElements, Zenon DEF OnePlace
    <2>3. Reached' = Reached BY <2>1, <2>2, Zenon DEF Reached
    <2>4. NoReq \notin Range(delivered') BY <1>0, SMTT(30) DEF FilterTypeOK, Range
    <2>5. OnePlace' BY <2>1, <2>2, <2>3, <2>4, Zenon DEF OnePlace
    <2>6. CountedWhenSeen' /\ OvertakesAtMostTheHeldReply'
        BY <2>1, <2>3, Zenon DEF CountedWhenSeen, OvertakesAtMostTheHeldReply
    <2> QED BY <1>0, <2>5, <2>6, Zenon
<1>10. CASE PipeCloses \/ UNCHANGED filterVars
    <2>1. UNCHANGED <<seq, replied, dpc, dreq, toUp, fromUp, ureq, delivered, counted>>
        BY <1>10, Zenon DEF PipeCloses, filterVars
    <2> QED BY <1>0, <2>1, Zenon DEF OnePlace, CountedWhenSeen, Reached, OvertakesAtMostTheHeldReply
<1> QED BY <1>0, <1>1, <1>2, <1>3, <1>4, <1>5, <1>6, <1>7, <1>8, <1>9, <1>10, Zenon
        DEF FilterNext, Down, Up, Rest

-----------------------------------------------------------------------------
(* The theorems. *)

\* The inductive invariant, from which the theorems below follow.
THEOREM FilterInvariance == FilterSpec => []FilterInv
BY FilterInvInit, FilterInvStep, PTL DEF FilterSpec

\* `replied` counts every reply once and never runs ahead of the requests
\* reserved, so the wait of `down` is for the right number of replies
\* (forwarding.go:135-138, 148-153, 186-193).
THEOREM CountTheorem == FilterSpec => []CountsEachReplyOnce
<1>1. FilterInv => CountsEachReplyOnce
    <2> SUFFICES ASSUME FilterInv PROVE CountsEachReplyOnce
        BY Zenon
    <2>1. seq \in Nat /\ counted \subseteq Nat /\ (\A k \in counted : k < seq)
        BY Zenon DEF FilterInv, FilterTypeOK, CountedWhenSeen
    <2>2. counted \subseteq 0..(seq - 1) BY <2>1
    <2>3. 0 \in Int /\ seq - 1 \in Int /\ (0 > seq - 1 <=> seq = 0) BY <2>1
    <2>4. /\ IsFiniteSet(0..(seq - 1))
          /\ Cardinality(0..(seq - 1)) = IF 0 > seq - 1 THEN 0 ELSE (seq - 1) - 0 + 1
        BY <2>3, FS_Interval, Zenon
    <2>5. Cardinality(0..(seq - 1)) = seq BY <2>1, <2>3, <2>4
    <2>6. Cardinality(counted) <= seq BY <2>2, <2>4, <2>5, FS_Subset, ZenonT(30)
    <2> QED BY <2>6, Zenon DEF FilterInv, CountedWhenSeen, CountsEachReplyOnce
<1> QED BY <1>1, FilterInvariance, PTL

\* The client gets at most one reply to a request and none to a request it
\* did not send (forwarding.go:110-156).
THEOREM AnswerTheorem == FilterSpec => []AnsweredOnce
<1>1. FilterInv => AnsweredOnce BY Zenon DEF FilterInv, OnePlace, Reached, AnsweredOnce
<1> QED BY <1>1, FilterInvariance, PTL

\* A failure the filter makes itself can overtake the one reply that the up
\* goroutine holds between its hook and its write, and no other
\* (forwarding.go:144-156).
THEOREM OvertakeTheorem == FilterSpec => []OvertakesAtMostTheHeldReply
<1>1. FilterInv => OvertakesAtMostTheHeldReply BY Zenon DEF FilterInv
<1> QED BY <1>1, FilterInvariance, PTL

-----------------------------------------------------------------------------
(* The sleeper. *)

\* No request gets lost between the goroutines.
NoneLost ==
    \A k \in 0..(seq - 1) : k \in Range(toUp) \cup Range(fromUp) \cup Reached \cup Held(dreq)

\* Only a filter that counts replies waits for them; what it has seen is
\* counted, and a count that ends the wait wakes the sleeper.
Awake ==
    /\ dpc \in {"check", "asleep", "answer"} => disableRemote
    /\ disableRemote => Reached \subseteq counted
    /\ dpc = "answer" => dreq \in counted
    /\ dpc = "asleep" => replied < dreq

\* A new filter has lost nothing and nobody sleeps (forwarding.go:47-56).
LEMMA SleepInit == FilterInit => NoneLost /\ Awake
<1> SUFFICES ASSUME FilterInit PROVE NoneLost /\ Awake
    BY Zenon
<1>1. Range(<<>>) = {} BY DEF Range
<1>2. Reached = {} BY <1>1, Zenon DEF FilterInit, Reached
<1>3. NoneLost BY DEF FilterInit, NoneLost
<1> QED BY <1>2, <1>3, Zenon DEF FilterInit, Awake

\* No step loses a request: a packet that leaves one place is in the next
\* (forwarding.go:110-195).
LEMMA NoneLostStep == FilterInv /\ NoneLost /\ [FilterNext]_filterVars => NoneLost'
<1> SUFFICES ASSUME FilterInv, NoneLost, [FilterNext]_filterVars PROVE NoneLost'
    BY Zenon
<1> USE FilterConstants DEF FilterInv
<1>1. ASSUME NEW p \in Packet, DownReserve(p) PROVE NoneLost'
    <2>1. /\ dreq = NoReq /\ dreq' = seq /\ seq' = seq + 1 /\ seq \in Nat
          /\ UNCHANGED <<toUp, fromUp, ureq, delivered>>
        BY <1>1, Zenon DEF DownReserve, ReadDown, Position, FilterTypeOK
    <2>2. Reached' = Reached /\ Held(dreq)' = {seq} /\ Held(dreq) = {}
        BY <2>1, Zenon DEF Reached, Held
    <2>3. \A k \in 0..seq : k \in 0..(seq - 1) \/ k = seq BY <2>1
    <2>4. (seq + 1) - 1 = seq BY <2>1
    <2> QED BY <2>1, <2>2, <2>3, <2>4, Zenon DEF NoneLost
<1>2. CASE WriteAnswer
    <2>1. /\ UNCHANGED <<seq, toUp, fromUp, ureq>>
          /\ dreq \in Nat /\ dreq' = NoReq /\ delivered' = Append(delivered, dreq)
        BY <1>2 DEF WriteAnswer, Position, FilterTypeOK
    <2>2. Range(delivered') = Range(delivered) \cup {dreq}
        BY <2>1, AppendElements, Zenon DEF FilterTypeOK
    <2>3. Reached' = Reached \cup {dreq} BY <2>1, <2>2, Zenon DEF Reached
    <2> QED BY <2>1, <2>3, Zenon DEF NoneLost, Held
<1>3. CASE WriteUpstream
    <2>1. /\ UNCHANGED <<seq, fromUp, ureq, delivered>>
          /\ toUp' = IF dreq = NoReq THEN toUp ELSE Append(toUp, dreq)
        BY <1>3, Zenon DEF WriteUpstream
    <2>2. Range(toUp') = Range(toUp) \cup Held(dreq)
        <3>1. CASE dreq = NoReq BY <2>1, <3>1, Zenon DEF Held
        <3>2. CASE dreq # NoReq
            <4>1. dreq \in Nat /\ Held(dreq) = {dreq} BY <3>2, Zenon DEF FilterTypeOK, Held
            <4> QED BY <2>1, <3>2, <4>1, AppendElements, Zenon DEF FilterTypeOK
        <3> QED BY <3>1, <3>2, Zenon
    <2>3. Reached' = Reached BY <2>1, Zenon DEF Reached
    <2> QED BY <2>1, <2>2, <2>3, Zenon DEF NoneLost
<1>4. CASE UpstreamReplies
    <2>1. /\ UNCHANGED <<seq, dreq, ureq, delivered>>
          /\ toUp # <<>> /\ toUp \in Seq(Nat) /\ fromUp \in Seq(Nat)
          /\ fromUp' = Append(fromUp, Head(toUp)) /\ toUp' = Tail(toUp)
        BY <1>4, Zenon DEF UpstreamReplies, FilterTypeOK
    <2>2. Range(toUp) = Range(toUp') \cup {Head(toUp)} /\ Head(toUp) \in Nat
        BY <2>1, TailElements, Zenon
    <2>3. Range(fromUp') = Range(fromUp) \cup {Head(toUp)}
        BY <2>1, <2>2, AppendElements, Zenon
    <2>4. Reached' = Reached BY <2>1, Zenon DEF Reached
    <2> QED BY <2>1, <2>2, <2>3, <2>4, Zenon DEF NoneLost
<1>5. CASE UpHook
    <2>1. /\ UNCHANGED <<seq, dreq, toUp, delivered>>
          /\ fromUp # <<>> /\ fromUp \in Seq(Nat)
          /\ ureq = NoReq /\ ureq' = Head(fromUp) /\ fromUp' = Tail(fromUp)
        BY <1>5, Zenon DEF UpHook, Position, FilterTypeOK
    <2>2. Range(fromUp) = Range(fromUp') \cup {ureq'} /\ ureq' \in Nat
        BY <2>1, TailElements, Zenon
    <2>3. Reached' = Reached \cup {ureq'} BY <2>1, <2>2, Zenon DEF Reached
    <2> QED BY <2>1, <2>2, <2>3, Zenon DEF NoneLost
<1>6. CASE WriteReply
    <2>1. /\ UNCHANGED <<seq, dreq, toUp, fromUp>>
          /\ ureq \in Nat /\ ureq' = NoReq /\ delivered \in Seq(Nat)
          /\ delivered' = Append(delivered, ureq)
        BY <1>6, Zenon DEF WriteReply, Position, FilterTypeOK
    <2>2. Range(delivered') = Range(delivered) \cup {ureq} BY <2>1, AppendElements, Zenon
    <2>3. Reached' = Reached BY <2>1, <2>2, Zenon DEF Reached
    <2> QED BY <2>1, <2>3, Zenon DEF NoneLost
<1>7. ASSUME \/ \E p \in Packet : DownPass(p)
             \/ DownSleep \/ DownProceed \/ WriteRefusal \/ PipeCloses \/ UNCHANGED filterVars
      PROVE  NoneLost'
    <2>1. UNCHANGED <<seq, dreq, toUp, fromUp, ureq, delivered>>
        BY <1>7, ZenonT(40) DEF DownPass, ReadDown, DownSleep, DownProceed, WriteRefusal,
               PipeCloses, filterVars
    <2> QED BY <2>1, Zenon DEF NoneLost, Reached, Held
<1> QED BY <1>1, <1>2, <1>3, <1>4, <1>5, <1>6, <1>7, ZenonT(40) DEF FilterNext, Down, Up, Rest

\* `down` tests before it sleeps and `up` wakes it with every count
\* (forwarding.go:149-151, 186-193).
LEMMA AwakeStep == FilterInv /\ Awake /\ [FilterNext]_filterVars => Awake'
<1> SUFFICES ASSUME FilterInv, Awake, [FilterNext]_filterVars PROVE Awake'
    BY Zenon
<1> USE FilterConstants DEF FilterInv
<1>1. ASSUME NEW p \in Packet, DownReserve(p) PROVE Awake'
    <2>1. /\ UNCHANGED <<ureq, delivered, counted>>
          /\ dpc' = "check" => disableRemote
          /\ dpc' \in {"check", "forward"}
        BY <1>1, Zenon DEF DownReserve, ReadDown, BlockedGlobal
    <2> QED BY <2>1, Zenon DEF Awake, Reached
<1>2. ASSUME NEW p \in Packet, DownPass(p) PROVE Awake'
    <2>1. UNCHANGED <<ureq, delivered, counted>> /\ dpc' \in {"read", "refuse", "forward"}
        BY <1>2, Zenon DEF DownPass, ReadDown
    <2> QED BY <2>1, Zenon DEF Awake, Reached
<1>3. CASE DownSleep BY <1>3, Zenon DEF DownSleep, Awake, Reached
<1>4. CASE DownProceed BY <1>4, ZenonT(40) DEF DownProceed, Awake, Reached
<1>5. CASE WriteAnswer
    <2>1. /\ UNCHANGED <<ureq, counted>> /\ dpc = "answer" /\ dpc' = "read"
          /\ dreq \in Nat /\ delivered' = Append(delivered, dreq)
        BY <1>5 DEF WriteAnswer, Position, FilterTypeOK
    <2>2. Range(delivered') = Range(delivered) \cup {dreq}
        BY <2>1, AppendElements, ZenonT(40) DEF FilterTypeOK
    <2>3. Reached' = Reached \cup {dreq} BY <2>1, <2>2, Zenon DEF Reached
    <2> QED BY <2>1, <2>3, Zenon DEF Awake
<1>6. CASE WriteRefusal \/ WriteUpstream
    <2>1. UNCHANGED <<ureq, delivered, counted>> /\ dpc' = "read"
        BY <1>6, Zenon DEF WriteRefusal, WriteUpstream
    <2> QED BY <2>1, Zenon DEF Awake, Reached
<1>7. CASE UpHook
    <2>1. UNCHANGED <<dreq, delivered>> /\ ureq = NoReq
        BY <1>7, Zenon DEF UpHook, Position
    <2>2. Reached' \subseteq Reached \cup {ureq'} BY <2>1, Zenon DEF Reached
    <2>3. CASE disableRemote
        <3>1. counted' = counted \cup {ureq'} BY <1>7, <2>3, Zenon DEF UpHook
        <3>2. dpc' # "asleep" /\ (dpc' = "answer" => dpc = "answer")
            BY <1>7, <2>3, Zenon DEF UpHook
        <3> QED BY <2>1, <2>2, <2>3, <3>1, <3>2, Zenon DEF Awake
    <2>4. CASE ~disableRemote
        <3>1. dpc' = dpc BY <1>7, <2>4, Zenon DEF UpHook
        <3> QED BY <2>4, <3>1, Zenon DEF Awake
    <2> QED BY <2>3, <2>4, Zenon
<1>8. CASE WriteReply
    <2>1. /\ UNCHANGED <<dpc, dreq, counted, replied>>
          /\ ureq \in Nat /\ ureq' = NoReq /\ delivered \in Seq(Nat)
          /\ delivered' = Append(delivered, ureq)
        BY <1>8, ZenonT(40) DEF WriteReply, Position, FilterTypeOK
    <2>2. Range(delivered') = Range(delivered) \cup {ureq} BY <2>1, AppendElements, Zenon
    <2>3. Reached' = Reached BY <2>1, <2>2, Zenon DEF Reached
    <2> QED BY <2>1, <2>3, Zenon DEF Awake
<1>9. CASE UpstreamReplies \/ PipeCloses \/ UNCHANGED filterVars
    <2>1. UNCHANGED <<replied, dpc, dreq, ureq, delivered, counted>>
        BY <1>9, Zenon DEF UpstreamReplies, PipeCloses, filterVars
    <2> QED BY <2>1, Zenon DEF Awake, Reached
<1> QED BY <1>1, <1>2, <1>3, <1>4, <1>5, <1>6, <1>7, <1>8, <1>9, Zenon
    DEF FilterNext, Down, Up, Rest

\* Whoever sleeps in `down` waits for a reply that is really outstanding: if
\* none were, all the earlier requests would be counted, and there are as
\* many of them as the wait is for (forwarding.go:144-153).
THEOREM SleepTheorem == FilterSpec => []SleeperIsOwed
<1>1. FilterInv /\ NoneLost /\ Awake => SleeperIsOwed
    <2> SUFFICES ASSUME FilterInv, NoneLost, Awake, dpc = "asleep"
                 PROVE  /\ replied < dreq
                        /\ \E k \in Range(toUp) \cup Range(fromUp) : k < dreq /\ k \notin counted
        BY Zenon DEF SleeperIsOwed
    <2>1. disableRemote /\ Reached \subseteq counted /\ replied < dreq BY Zenon DEF Awake
    <2>2. dreq \in Nat /\ dreq = seq - 1 /\ seq \in Nat /\ replied \in Nat
        BY FilterConstants DEF FilterInv, FilterTypeOK, Position
    <2>3. counted \subseteq Reached BY Zenon DEF FilterInv, CountedWhenSeen
    <2>4. ASSUME \A k \in Range(toUp) \cup Range(fromUp) : ~(k < dreq) PROVE FALSE
        <3>1. ASSUME NEW k \in 0..(dreq - 1) PROVE k \in counted
            <4>1. k \in 0..(seq - 1) /\ k < dreq BY <2>2
            <4>2. k \notin Held(dreq) BY <2>2, <4>1 DEF Held
            <4>3. k \in Reached BY <2>4, <4>1, <4>2, Zenon DEF NoneLost
            <4> QED BY <2>1, <4>3, Zenon
        <3>2. 0..(dreq - 1) \subseteq counted BY <3>1, Zenon
        <3>3. IsFiniteSet(counted) /\ Cardinality(counted) = replied
            BY Zenon DEF FilterInv, CountedWhenSeen
        <3>4. 0 \in Int /\ dreq - 1 \in Int /\ (0 > dreq - 1 <=> dreq = 0) BY <2>2
        <3>5. Cardinality(0..(dreq - 1)) = IF 0 > dreq - 1 THEN 0 ELSE (dreq - 1) - 0 + 1
            BY <3>4, FS_Interval, Zenon
        <3>6. Cardinality(0..(dreq - 1)) = dreq BY <2>2, <3>4, <3>5, SMTT(30)
        <3>7. Cardinality(0..(dreq - 1)) <= Cardinality(counted)
            BY <3>2, <3>3, FS_Subset, ZenonT(30)
        <3> QED BY <2>1, <2>2, <3>3, <3>6, <3>7, SMTT(30)
    <2>5. PICK k \in Range(toUp) \cup Range(fromUp) : k < dreq BY <2>4, Zenon
    <2>6. k \notin Reached BY Zenon DEF FilterInv, OnePlace
    <2> QED BY <2>1, <2>3, <2>5, <2>6, Zenon
<1>2. FilterSpec => [](FilterInv /\ NoneLost /\ Awake)
    BY FilterInvInit, FilterInvStep, SleepInit, NoneLostStep, AwakeStep, PTL DEF FilterSpec
<1> QED BY <1>1, <1>2, PTL
=============================================================================
