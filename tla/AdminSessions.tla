---------------------------- MODULE AdminSessions ----------------------------
(***************************************************************************)
(* The admin side of sshpiperd (cmd/sshpiperd/internal/admin): the         *)
(* registry of live sessions, the broadcaster each session owns, the       *)
(* stream hook that feeds it from the two packet directions of the pipe,   *)
(* and the StreamSession and KillSession calls of remote viewers.          *)
(*                                                                         *)
(* Every critical section of Registry.mu, Broadcaster.mu or StreamHook.mu  *)
(* is one action; what a function does between two of them is a program    *)
(* counter.  A frame is its position in `log`, the frames the session has  *)
(* published so far, which records its kind and its channel.               *)
(*                                                                         *)
(* The life of the session itself is left free here (it may be removed at  *)
(* any time); Daemon constrains it to what the connection goroutine does.  *)
(***************************************************************************)
EXTENDS Integers, Sequences, Functions, Scans

CONSTANTS Sessions,  \* session ids, one per piped connection
          Viewers,   \* StreamSession calls
          Killers,   \* KillSession calls
          Channels,  \* ssh channels of a session
          Capacity,  \* buffer of a viewer's channel (256 in the code)
          MaxFrames, \* bound on the frames a session publishes
          None

ASSUME AdminConstants ==
    /\ Capacity \in Nat \ {0} /\ MaxFrames \in Nat
    /\ None \notin Sessions \cup Channels

Frame == [kind : {"header", "o", "r"}, ch : Channels]

VARIABLES
    phase,    \* of the session: "new", "live", "removed", "closed"
    pipe,     \* its PiperConn: "none", "open", "closed"
    once,     \* sessionEntry.closeOnce has run
    closed,   \* Broadcaster.closed
    subs,     \* Broadcaster.subscribers, by viewer
    history,  \* Broadcaster.history
    log,      \* history variable: the frames published
    mapped,   \* StreamHook.channelIDMap: channels whose open was confirmed
    started,  \* StreamHook.channels: channels with a shell or exec request
    running,  \* channels whose shell or exec request reached the upstream
    up, down, \* the hook's two directions: what it is about to publish
    vpc, vses, vreplay, \* StreamSession: control, session, request.replay
    chan,     \* its frame channel: "none", "open", "closed", "panic"
    buf,      \* the frames in that channel
    sent,     \* history variable: the frames sent to the viewer
    lost,     \* history variable: the frames dropped on the full channel
    kpc, kses \* KillSession: control, session

sesVars    == <<phase, pipe, once>>
bcVars     == <<closed, subs, history, log>>
hookVars   == <<mapped, started, running, up, down>>
viewVars   == <<vpc, vses, vreplay, chan, buf, sent, lost>>
killVars   == <<kpc, kses>>
adminVars  == <<sesVars, bcVars, hookVars, viewVars, killVars>>

Init ==
    /\ phase = [s \in Sessions |-> "new"] /\ pipe = [s \in Sessions |-> "none"]
    /\ once = [s \in Sessions |-> FALSE]
    /\ closed = [s \in Sessions |-> FALSE]
    /\ subs = [s \in Sessions |-> {}]
    /\ history = [s \in Sessions |-> <<>>] /\ log = [s \in Sessions |-> <<>>]
    /\ mapped = [s \in Sessions |-> {}] /\ started = [s \in Sessions |-> {}]
    /\ running = [s \in Sessions |-> {}]
    /\ up = [s \in Sessions |-> None] /\ down = [s \in Sessions |-> None]
    /\ vpc = [v \in Viewers |-> "idle"] /\ vses = [v \in Viewers |-> None]
    /\ vreplay = [v \in Viewers |-> FALSE]
    /\ chan = [v \in Viewers |-> "none"]
    /\ buf = [v \in Viewers |-> <<>>] /\ sent = [v \in Viewers |-> <<>>]
    /\ lost = [v \in Viewers |-> {}]
    /\ kpc = [k \in Killers |-> "idle"] /\ kses = [k \in Killers |-> None]

-----------------------------------------------------------------------------
(* Go channels: closing a closed channel, and sending on one, panic. *)

AfterClose(x) == IF x = "open" THEN "closed" ELSE "panic"
AfterSend(x)  == IF x = "open" THEN "open" ELSE "panic"

-----------------------------------------------------------------------------
(* Registry. *)

\* The pipe of a connection is up; Registry.Add enters it.
Add(s) ==
    /\ phase[s] = "new" /\ pipe[s] = "open"
    /\ phase' = [phase EXCEPT ![s] = "live"]
    /\ UNCHANGED <<pipe, once, bcVars, hookVars, viewVars, killVars>>

\* Registry.Remove, the part under Registry.mu.
RemoveEntry(s) ==
    /\ phase[s] = "live"
    /\ phase' = [phase EXCEPT ![s] = "removed"]
    /\ UNCHANGED <<pipe, once, bcVars, hookVars, viewVars, killVars>>

\* Registry.Remove goes on to Broadcaster.Close.
CloseBroadcaster(s) ==
    /\ phase[s] = "removed"
    /\ phase' = [phase EXCEPT ![s] = "closed"]
    /\ closed' = [closed EXCEPT ![s] = TRUE]
    /\ chan' = [v \in Viewers |-> IF v \in subs[s] THEN AfterClose(chan[v]) ELSE chan[v]]
    /\ subs' = [subs EXCEPT ![s] = {}]
    /\ UNCHANGED <<pipe, once, history, log, hookVars, vpc, vses, vreplay, buf, sent,
                   lost, killVars>>

\* The daemon establishes and closes the pipe.
OpenPipe(s) ==
    /\ pipe[s] = "none"
    /\ pipe' = [pipe EXCEPT ![s] = "open"]
    /\ UNCHANGED <<phase, once, bcVars, hookVars, viewVars, killVars>>

ClosePipe(s) ==
    /\ pipe[s] = "open" /\ phase[s] # "live"
    /\ pipe' = [pipe EXCEPT ![s] = "closed"]
    /\ UNCHANGED <<phase, once, bcVars, hookVars, viewVars, killVars>>

\* KillSession: Registry.Kill looks the entry up under the lock ...
KillLookup(k, s) ==
    /\ kpc[k] = "idle"
    /\ kpc' = [kpc EXCEPT ![k] = IF phase[s] = "live" THEN "close" ELSE "done"]
    /\ kses' = [kses EXCEPT ![k] = IF phase[s] = "live" THEN s ELSE None]
    /\ UNCHANGED <<sesVars, bcVars, hookVars, viewVars>>

\* ... and closes the pipe after it, once.
KillClose(k) ==
    LET s == kses[k]
    IN /\ kpc[k] = "close"
       /\ pipe' = IF once[s] THEN pipe ELSE [pipe EXCEPT ![s] = "closed"]
       /\ once' = [once EXCEPT ![s] = TRUE]
       /\ kpc' = [kpc EXCEPT ![k] = "done"]
       /\ UNCHANGED <<phase, bcVars, hookVars, viewVars, kses>>

-----------------------------------------------------------------------------
(* Broadcaster.Publish, called by the hook of session s for frame f. *)

\* The frames of s that are of other channels than ch.
OfOthers(s, ch) == {m \in DOMAIN log[s] : log[s][m].ch # ch}

\* Mutant of Remember: a header goes to the front of the replayed ones.
Remember_Front(s, f, n) ==
    IF f.kind # "header" THEN history[s]
    ELSE <<n>> \o Filter(history[s], OfOthers(s, f.ch))

\* One header per channel is kept, the latest, last.
Remember(s, f, n) ==
    IF f.kind # "header" THEN history[s]
    ELSE Append(Filter(history[s], OfOthers(s, f.ch)), n)

\* The subscribers whose channel has room.
Room(s) == {v \in subs[s] : Len(buf[v]) < Capacity}

\* The frame goes to every subscriber with room, and is dropped for others.
Publish(s, f) ==
    LET n == Len(log[s]) + 1
    IN IF closed[s] THEN UNCHANGED <<bcVars, chan, buf, lost>>
       ELSE /\ log' = [log EXCEPT ![s] = Append(@, f)]
            /\ history' = [history EXCEPT ![s] = Remember(s, f, n)]
            /\ chan' = [v \in Viewers |-> IF v \in subs[s] THEN AfterSend(chan[v]) ELSE chan[v]]
            /\ buf' = [v \in Viewers |-> IF v \in Room(s) THEN Append(buf[v], n) ELSE buf[v]]
            /\ lost' = [v \in Viewers |-> IF v \in subs[s] \ Room(s) THEN lost[v] \cup {n}
                                          ELSE lost[v]]
            /\ UNCHANGED <<closed, subs>>

-----------------------------------------------------------------------------
(* StreamHook.  The pipe runs each direction in a goroutine of its own,    *)
(* and forwards a packet once the hook has returned.                       *)

Hooked(s) == phase[s] = "live" /\ pipe[s] = "open" /\ Len(log[s]) < MaxFrames

\* Up, a channel-open confirmation.
UpConfirm(s, ch) ==
    /\ Hooked(s) /\ up[s] = None /\ ch \notin mapped[s]
    /\ mapped' = [mapped EXCEPT ![s] = @ \cup {ch}]
    /\ UNCHANGED <<sesVars, bcVars, started, running, up, down, viewVars, killVars>>

\* Up, output of a channel: without a viewer it is skipped.  A server sends
\* output once it has been asked to run something, so HasSubscribers is the
\* only test that can fail.
UpData(s, ch) ==
    /\ Hooked(s) /\ up[s] = None /\ ch \in running[s]
    /\ ~closed[s] /\ subs[s] # {} /\ ch \in started[s]
    /\ up' = [up EXCEPT ![s] = [kind |-> "o", ch |-> ch]]
    /\ UNCHANGED <<sesVars, bcVars, mapped, started, running, down, viewVars, killVars>>

UpPublish(s) ==
    /\ up[s] # None
    /\ Publish(s, up[s])
    /\ up' = [up EXCEPT ![s] = None]
    /\ UNCHANGED <<sesVars, mapped, started, running, down, vpc, vses, vreplay, sent, killVars>>

\* Mutant of DownShell: headers take the same short cut as output.
DownShell_OnlyWatched(s, ch) ==
    /\ Hooked(s) /\ down[s] = None /\ ch \in mapped[s]
    /\ started' = [started EXCEPT ![s] = @ \cup {ch}]
    /\ down' = [down EXCEPT ![s] = IF subs[s] = {} THEN None ELSE [kind |-> "header", ch |-> ch]]
    /\ running' = [running EXCEPT ![s] = IF subs[s] = {} THEN @ \cup {ch} ELSE @]
    /\ UNCHANGED <<sesVars, bcVars, mapped, up, viewVars, killVars>>

\* Down, shell or exec: the header is published whether or not anyone views.
DownShell(s, ch) ==
    /\ Hooked(s) /\ down[s] = None /\ ch \in mapped[s]
    /\ started' = [started EXCEPT ![s] = @ \cup {ch}]
    /\ down' = [down EXCEPT ![s] = [kind |-> "header", ch |-> ch]]
    /\ UNCHANGED <<sesVars, bcVars, mapped, running, up, viewVars, killVars>>

\* Down, window-change.
DownResize(s, ch) ==
    /\ Hooked(s) /\ down[s] = None /\ ch \in mapped[s]
    /\ down' = [down EXCEPT ![s] = [kind |-> "r", ch |-> ch]]
    /\ UNCHANGED <<sesVars, bcVars, mapped, started, running, up, viewVars, killVars>>

DownPublish(s) ==
    /\ down[s] # None
    /\ Publish(s, down[s])
    /\ down' = [down EXCEPT ![s] = None]
    /\ running' = [running EXCEPT ![s] = IF down[s].kind = "header" THEN @ \cup {down[s].ch} ELSE @]
    /\ UNCHANGED <<sesVars, mapped, started, up, vpc, vses, vreplay, sent, killVars>>

-----------------------------------------------------------------------------
(* StreamSession. *)

\* Registry.Get: an unknown session ends the call with NotFound.
StreamSession(v, s, replay) ==
    /\ vpc[v] = "idle"
    /\ vpc' = [vpc EXCEPT ![v] = IF phase[s] = "live" THEN "subscribe" ELSE "done"]
    /\ vses' = [vses EXCEPT ![v] = IF phase[s] = "live" THEN s ELSE None]
    /\ vreplay' = [vreplay EXCEPT ![v] = replay /\ phase[s] = "live"]
    /\ UNCHANGED <<sesVars, bcVars, hookVars, chan, buf, sent, lost, killVars>>

\* Mutant of Subscribe: a closed broadcaster takes subscribers too.
Subscribe_Closed(v) ==
    LET s == vses[v]
    IN /\ vpc[v] = "subscribe"
       /\ vpc' = [vpc EXCEPT ![v] = "stream"]
       /\ chan' = [chan EXCEPT ![v] = "open"]
       /\ subs' = [subs EXCEPT ![s] = @ \cup {v}]
       /\ buf' = [buf EXCEPT ![v] =
                    IF ~vreplay[v] THEN <<>>
                    ELSE SubSeq(history[s], 1, IF Len(history[s]) < Capacity THEN Len(history[s])
                                               ELSE Capacity)]
       /\ UNCHANGED <<sesVars, closed, history, log, hookVars, vses, vreplay, sent, lost, killVars>>

\* Broadcaster.Subscribe: on a closed broadcaster the channel is closed from
\* the start; otherwise the headers are replayed as far as the buffer goes.
Subscribe(v) ==
    LET s == vses[v]
        k == IF Len(history[s]) < Capacity THEN Len(history[s]) ELSE Capacity
        replayed == vreplay[v] /\ ~closed[s]
    IN /\ vpc[v] = "subscribe"
       /\ vpc' = [vpc EXCEPT ![v] = "stream"]
       /\ chan' = [chan EXCEPT ![v] = IF closed[s] THEN "closed" ELSE "open"]
       /\ subs' = IF closed[s] THEN subs ELSE [subs EXCEPT ![s] = @ \cup {v}]
       /\ buf' = [buf EXCEPT ![v] = IF replayed THEN SubSeq(history[s], 1, k) ELSE <<>>]
       /\ lost' = [lost EXCEPT ![v] =
                     IF replayed THEN Range(SubSeq(history[s], k + 1, Len(history[s]))) ELSE {}]
       /\ UNCHANGED <<sesVars, closed, history, log, hookVars, vses, vreplay, sent, killVars>>

\* A frame is received and sent on, or sending it fails.
Forward(v, ok) ==
    /\ vpc[v] = "stream" /\ buf[v] # <<>>
    /\ buf' = [buf EXCEPT ![v] = Tail(@)]
    /\ sent' = IF ok THEN [sent EXCEPT ![v] = Append(@, Head(buf[v]))] ELSE sent
    /\ vpc' = IF ok THEN vpc ELSE [vpc EXCEPT ![v] = "cancel"]
    /\ UNCHANGED <<sesVars, bcVars, hookVars, vses, vreplay, chan, lost, killVars>>

\* The channel is closed and drained.
StreamEnds(v) ==
    /\ vpc[v] = "stream" /\ buf[v] = <<>> /\ chan[v] = "closed"
    /\ vpc' = [vpc EXCEPT ![v] = "cancel"]
    /\ UNCHANGED <<sesVars, bcVars, hookVars, vses, vreplay, chan, buf, sent, lost, killVars>>

\* The viewer goes away.
ViewerGone(v) ==
    /\ vpc[v] = "stream"
    /\ vpc' = [vpc EXCEPT ![v] = "cancel"]
    /\ UNCHANGED <<sesVars, bcVars, hookVars, vses, vreplay, chan, buf, sent, lost, killVars>>

\* Mutant of Cancel: the channel is closed whether or not it is subscribed.
Cancel_Always(v) ==
    LET s == vses[v]
    IN /\ vpc[v] = "cancel"
       /\ vpc' = [vpc EXCEPT ![v] = "done"]
       /\ chan' = [chan EXCEPT ![v] = AfterClose(@)]
       /\ subs' = [subs EXCEPT ![s] = @ \ {v}]
       /\ UNCHANGED <<sesVars, closed, history, log, hookVars, vses, vreplay, buf, sent,
                      lost, killVars>>

\* The deferred cancel: Broadcaster.unsubscribe, or nothing when the
\* subscription found the broadcaster closed.
Cancel(v) ==
    LET s == vses[v]
    IN /\ vpc[v] = "cancel"
       /\ vpc' = [vpc EXCEPT ![v] = "done"]
       /\ chan' = IF v \in subs[s] THEN [chan EXCEPT ![v] = AfterClose(@)] ELSE chan
       /\ subs' = [subs EXCEPT ![s] = @ \ {v}]
       /\ UNCHANGED <<sesVars, closed, history, log, hookVars, vses, vreplay, buf, sent,
                      lost, killVars>>

-----------------------------------------------------------------------------

HookStep(s) ==
    \/ \E ch \in Channels : UpConfirm(s, ch) \/ UpData(s, ch)
                            \/ DownShell(s, ch) \/ DownResize(s, ch)
    \/ UpPublish(s) \/ DownPublish(s)

SessionStep(s) == Add(s) \/ RemoveEntry(s) \/ CloseBroadcaster(s) \/ OpenPipe(s) \/ ClosePipe(s)

ViewerStep(v) ==
    \/ \E s \in Sessions, r \in BOOLEAN : StreamSession(v, s, r)
    \/ Subscribe(v) \/ StreamEnds(v) \/ ViewerGone(v) \/ Cancel(v)
    \/ \E ok \in BOOLEAN : Forward(v, ok)

KillStep(k) == KillClose(k) \/ \E s \in Sessions : KillLookup(k, s)

\* Nothing is left to do: every session is over and every call answered.
Quiet ==
    /\ \A s \in Sessions : /\ phase[s] \in {"new", "closed"} /\ pipe[s] = "closed"
                          /\ up[s] = None /\ down[s] = None
    /\ \A v \in Viewers : vpc[v] = "done"
    /\ \A k \in Killers : kpc[k] = "done"

Next ==
    \/ \E s \in Sessions : HookStep(s) \/ SessionStep(s)
    \/ \E v \in Viewers : ViewerStep(v)
    \/ \E k \in Killers : KillStep(k)
    \/ Quiet /\ UNCHANGED adminVars

Spec == Init /\ [][Next]_adminVars

\* The goroutine that removes a session finishes, and a viewer's handler runs
\* until its call returns; a frame it receives is sent or its client is gone.
LiveSpec ==
    /\ Spec
    /\ \A s \in Sessions : WF_adminVars(CloseBroadcaster(s))
    /\ \A v \in Viewers :
        /\ WF_adminVars(Subscribe(v)) /\ WF_adminVars(StreamEnds(v)) /\ WF_adminVars(Cancel(v))
        /\ WF_adminVars(\E ok \in BOOLEAN : Forward(v, ok))

-----------------------------------------------------------------------------
(* Properties. *)

\* No order of Publish, Subscribe, unsubscribe and Close sends on a closed
\* channel or closes one twice: either would panic and take the daemon, with
\* every session, down (broadcaster.go:83-119, 130-141).
NeverPanics == \A v \in Viewers : chan[v] # "panic"

\* What the viewer has, and what waits for it while its call is running.
Received(v) == IF vpc[v] = "stream" THEN sent[v] \o buf[v] ELSE sent[v]

\* A viewer gets each frame once and in the order of publication, although
\* the replayed headers come from the history and the rest from Publish
\* (broadcaster.go:59-72, 101-117).
FramesInOrder ==
    \A v \in Viewers :
        LET got == Received(v)
        IN \A i, j \in DOMAIN got : i < j => got[i] < got[j]

\* broadcaster.go:48-51: a viewer that asked for the replay has the header of
\* a channel before any output of it, however late it joined, unless the
\* header was dropped because the viewer was too slow.
HeaderBeforeOutput ==
    \A v \in Viewers : vreplay[v] =>
        LET got == Received(v)
            frame(n) == log[vses[v]][n]
            HeaderOf(ch, N) == \E n \in N : frame(n).kind = "header" /\ frame(n).ch = ch
        IN \A j \in DOMAIN got : frame(got[j]).kind = "o" =>
              HeaderOf(frame(got[j]).ch, Range(SubSeq(got, 1, j - 1)) \cup lost[v])

\* What a viewer gets is the session as it was published, from its headers on.
StreamFaithful == FramesInOrder /\ HeaderBeforeOutput

\* Whatever the order of a viewer's Get and Subscribe and the session's
\* Remove and Close, the call of the viewer returns once the session is over
\* (server.go:100-116).
ViewersEnd ==
    \A v \in Viewers : \A s \in Sessions :
        (vses[v] = s /\ phase[s] = "removed") ~> (vpc[v] = "done")
=============================================================================
