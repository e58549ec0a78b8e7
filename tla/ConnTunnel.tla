----------------------------- MODULE ConnTunnel -----------------------------
(***************************************************************************)
(* libplugin/connovergrpc: an upstream connection that the plugin dials    *)
(* and the daemon uses through a CreateConn stream.  The daemon's end is   *)
(* the net.Conn of DialContext, the plugin's end the handler               *)
(* ServeCreateConn with its two copying goroutines: "out" carries the      *)
(* daemon's bytes to the upstream, "back" the upstream's to the daemon.    *)
(*                                                                         *)
(* The bytes of each direction are numbered as they are written, so that   *)
(* order and loss show.  gRPC is external: a stream delivers in order; a   *)
(* cancelled stream may fail a Recv whether or not packets are still       *)
(* buffered; the end of the handler follows what it sent.                  *)
(***************************************************************************)
EXTENDS Integers, Sequences

CONSTANTS
  Tunnels,   \* identities of the streams
  MaxOut,    \* bytes the daemon writes (bound)
  MaxBack,   \* bytes the upstream writes (bound)
  BufSize    \* bytes that one Read takes; a packet may hold more

ASSUME TunnelAssumption == MaxOut \in Nat /\ MaxBack \in Nat /\ BufSize \in Nat \ {0}

VARIABLES
  client,   \* [Tunnels -> "none", "open", "closed", "failed"]: the daemon's net.Conn;
            \* "failed": none was made, but a stream was opened for it
  handler,  \* [Tunnels -> "none", "recv", "creating", "copying", "returned"]
  status,   \* [Tunnels -> "none", "ok", "error"]: what the handler returned
  upconn,   \* [Tunnels -> "none", "open", "eof", "closed"]: the plugin's upstream
  copier,   \* [Tunnels -> [{"out", "back"} -> "none", "read", "write", "eof", "error"]]
  held,     \* [Tunnels -> [{"out", "back"} -> bytes a copier has read and not written]]
  readbuf,  \* [Tunnels -> [{"out", "back"} -> rest of the packet that did not fit a Read]]
  packets,  \* [Tunnels -> [{"out", "back"} -> packets on the stream]]
  wrote,    \* [Tunnels -> [{"out", "back"} -> number of bytes written at the source]]
  got,      \* [Tunnels -> [{"out", "back"} -> bytes that arrived at the other end]]
  ended     \* [Tunnels -> "no", "eof", "error"]: how reading ended for the daemon

tvars == <<client, handler, status, upconn, copier, held, readbuf, packets, wrote, got, ended>>

Ways == {"out", "back"}
Both(v) == [w \in Ways |-> v]

TInit ==
  /\ client = [t \in Tunnels |-> "none"]
  /\ handler = [t \in Tunnels |-> "none"]
  /\ status = [t \in Tunnels |-> "none"]
  /\ upconn = [t \in Tunnels |-> "none"]
  /\ copier = [t \in Tunnels |-> Both("none")]
  /\ held = [t \in Tunnels |-> Both(<<>>)]
  /\ readbuf = [t \in Tunnels |-> Both(<<>>)]
  /\ packets = [t \in Tunnels |-> Both(<<>>)]
  /\ wrote = [t \in Tunnels |-> Both(0)]
  /\ got = [t \in Tunnels |-> Both(<<>>)]
  /\ ended = [t \in Tunnels |-> "no"]

----------------------------------------------------------------------------
(* The daemon's end.                                                       *)

\* DialContext: the stream is opened, the DialRequest sent, and the
\* connection returned without waiting for what create makes of it.
DialContext(t) ==
  /\ client[t] = "none"
  /\ client' = [client EXCEPT ![t] = "open"]
  /\ handler' = [handler EXCEPT ![t] = "recv"]
  /\ UNCHANGED <<status, upconn, copier, held, readbuf, packets, wrote, got, ended>>

\* A DialContext that forgets the stream when its DialRequest cannot be sent.
DialContextFails_NoCancel(t) ==
  /\ client[t] = "none"
  /\ \/ UNCHANGED <<client, handler>>
     \/ /\ client' = [client EXCEPT ![t] = "open"]
        /\ handler' = [handler EXCEPT ![t] = "recv"]
  /\ UNCHANGED <<status, upconn, copier, held, readbuf, packets, wrote, got, ended>>

\* DialContext returns an error: there is no stream, or its DialRequest
\* cannot be sent and the stream is cancelled.
DialContextFails(t) ==
  /\ client[t] = "none"
  /\ \/ UNCHANGED <<client, handler>>
     \/ /\ client' = [client EXCEPT ![t] = "failed"]
        /\ handler' = [handler EXCEPT ![t] = "recv"]
  /\ UNCHANGED <<status, upconn, copier, held, readbuf, packets, wrote, got, ended>>

\* The next n bytes of way w, and the packet they make.
NextBytes(t, w, n) == [i \in 1 .. n |-> wrote[t][w] + i]

\* packetReadWriter.Write at the daemon: one packet for the n bytes of a Write.
Write(t, n) ==
  /\ client[t] = "open" /\ handler[t] # "returned"
  /\ wrote[t]["out"] + n <= MaxOut
  /\ wrote' = [wrote EXCEPT ![t]["out"] = @ + n]
  /\ packets' = [packets EXCEPT ![t]["out"] = Append(@, NextBytes(t, "out", n))]
  /\ UNCHANGED <<client, handler, status, upconn, copier, held, readbuf, got, ended>>

\* packetReadWriter.Read: the rest of the last packet first, then the next
\* packet.  The reader is given what fits its buffer; the rest is kept.
Rest(t, w) ==
  IF readbuf[t][w] # <<>> \/ packets[t][w] = <<>> THEN readbuf[t][w] ELSE Head(packets[t][w])

Fits(t, w) == IF Len(Rest(t, w)) < BufSize THEN Len(Rest(t, w)) ELSE BufSize

Given(t, w) == SubSeq(Rest(t, w), 1, Fits(t, w))

Keep(t, w) ==
  /\ Rest(t, w) # <<>>
  /\ readbuf' = [readbuf EXCEPT ![t][w] = SubSeq(Rest(t, w), Fits(t, w) + 1, Len(Rest(t, w)))]
  /\ packets' = [packets EXCEPT ![t][w] = IF readbuf[t][w] = <<>> THEN Tail(@) ELSE @]

\* A Read of the daemon.
Read(t) ==
  /\ client[t] = "open" /\ ended[t] = "no"
  /\ Keep(t, "back")
  /\ got' = [got EXCEPT ![t]["back"] = @ \o Given(t, "back")]
  /\ UNCHANGED <<client, handler, status, upconn, copier, held, wrote, ended>>

\* The handler has returned and all it sent is read: io.EOF, or its error.
ReadEnds(t) ==
  /\ client[t] = "open" /\ ended[t] = "no"
  /\ handler[t] = "returned" /\ readbuf[t]["back"] = <<>> /\ packets[t]["back"] = <<>>
  /\ ended' = [ended EXCEPT ![t] = IF status[t] = "ok" THEN "eof" ELSE "error"]
  /\ UNCHANGED <<client, handler, status, upconn, copier, held, readbuf, packets, wrote, got>>

\* conn.Close, whose onClose closes the sending side and cancels the stream.
Closes(t) == client' = [client EXCEPT ![t] = "closed"]

Close(t) ==
  /\ client[t] = "open"
  /\ Closes(t)
  /\ UNCHANGED <<handler, status, upconn, copier, held, readbuf, packets, wrote, got, ended>>

----------------------------------------------------------------------------
(* The plugin's end: ServeCreateConn.                                      *)

Cancelled(t) == client[t] \in {"closed", "failed"}

\* A handler that leaves its upstream open.
Return_NoDefer(t, s) ==
  /\ handler' = [handler EXCEPT ![t] = "returned"]
  /\ status' = [status EXCEPT ![t] = s]
  /\ UNCHANGED <<client, upconn, copier, held, readbuf, packets, wrote, got, ended>>

\* The handler returns: the deferred Close of the upstream, if there is one.
Return(t, s) ==
  /\ handler' = [handler EXCEPT ![t] = "returned"]
  /\ status' = [status EXCEPT ![t] = s]
  /\ upconn' = [upconn EXCEPT ![t] = IF @ = "none" THEN "none" ELSE "closed"]
  /\ UNCHANGED <<client, copier, held, readbuf, packets, wrote, got, ended>>

\* The first Recv: the DialRequest, unless the stream was cancelled before.
RecvDial(t) ==
  /\ handler[t] = "recv"
  /\ \/ /\ client[t] # "failed"
        /\ handler' = [handler EXCEPT ![t] = "creating"]
        /\ UNCHANGED <<client, status, upconn, copier, held, readbuf, packets, wrote, got, ended>>
     \/ Cancelled(t) /\ Return(t, "error")

\* create fails, or returns no connection.
CreateFails(t) ==
  /\ handler[t] = "creating"
  /\ Return(t, "error")

\* create returns the upstream connection and the two copiers start.
Create(t) ==
  /\ handler[t] = "creating"
  /\ handler' = [handler EXCEPT ![t] = "copying"]
  /\ upconn' = [upconn EXCEPT ![t] = "open"]
  /\ copier' = [copier EXCEPT ![t] = Both("read")]
  /\ UNCHANGED <<client, status, held, readbuf, packets, wrote, got, ended>>

\* A Read that forgets what did not fit.
ReadStream_DropsRest(t) ==
  /\ copier[t]["out"] = "read"
  /\ Rest(t, "out") # <<>>
  /\ held' = [held EXCEPT ![t]["out"] = Given(t, "out")]
  /\ packets' = [packets EXCEPT ![t]["out"] = Tail(@)]
  /\ copier' = [copier EXCEPT ![t]["out"] = "write"]
  /\ UNCHANGED <<client, handler, status, upconn, readbuf, wrote, got, ended>>

\* A Read of the copier.
ReadStream(t) ==
  /\ copier[t]["out"] = "read"
  /\ Keep(t, "out")
  /\ held' = [held EXCEPT ![t]["out"] = Given(t, "out")]
  /\ copier' = [copier EXCEPT ![t]["out"] = "write"]
  /\ UNCHANGED <<client, handler, status, upconn, wrote, got, ended>>

\* Recv ends: io.EOF once the daemon has closed its side and all is read, or
\* the error of a cancelled or finished stream, which may come earlier.
StreamEnds(t) ==
  /\ copier[t]["out"] = "read" /\ readbuf[t]["out"] = <<>>
  /\ \/ /\ Cancelled(t) /\ packets[t]["out"] = <<>>
        /\ copier' = [copier EXCEPT ![t]["out"] = "eof"]
     \/ /\ Cancelled(t) \/ handler[t] = "returned"
        /\ copier' = [copier EXCEPT ![t]["out"] = "error"]
  /\ UNCHANGED <<client, handler, status, upconn, held, readbuf, packets, wrote, got, ended>>

\* io.Copy writes what it has read to the upstream, which may be gone.  The
\* write blocks for as long as the upstream is there and does not read.
WriteUpstream(t) ==
  /\ copier[t]["out"] = "write"
  /\ held' = [held EXCEPT ![t]["out"] = <<>>]
  /\ \/ /\ upconn[t] = "open"
        /\ got' = [got EXCEPT ![t]["out"] = @ \o held[t]["out"]]
        /\ copier' = [copier EXCEPT ![t]["out"] = "read"]
     \/ /\ upconn[t] = "eof"    \* taken by the kernel, for nobody
        /\ copier' = [copier EXCEPT ![t]["out"] = "read"]
        /\ UNCHANGED got
     \/ /\ upconn[t] \in {"eof", "closed"}
        /\ copier' = [copier EXCEPT ![t]["out"] = "error"]
        /\ UNCHANGED got
  /\ UNCHANGED <<client, handler, status, upconn, readbuf, packets, wrote, ended>>

\* io.Copy reads n bytes that the upstream has sent.
ReadUpstream(t, n) ==
  /\ copier[t]["back"] = "read" /\ upconn[t] = "open"
  /\ wrote[t]["back"] + n <= MaxBack
  /\ wrote' = [wrote EXCEPT ![t]["back"] = @ + n]
  /\ held' = [held EXCEPT ![t]["back"] = NextBytes(t, "back", n)]
  /\ copier' = [copier EXCEPT ![t]["back"] = "write"]
  /\ UNCHANGED <<client, handler, status, upconn, readbuf, packets, got, ended>>

\* The upstream closes its connection.
UpstreamCloses(t) ==
  /\ upconn[t] = "open"
  /\ upconn' = [upconn EXCEPT ![t] = "eof"]
  /\ UNCHANGED <<client, handler, status, copier, held, readbuf, packets, wrote, got, ended>>

\* The upstream read ends: at its EOF, or because the handler closed it.
UpstreamEnds(t) ==
  /\ copier[t]["back"] = "read" /\ upconn[t] \in {"eof", "closed"}
  /\ copier' = [copier EXCEPT ![t]["back"] = IF upconn[t] = "eof" THEN "eof" ELSE "error"]
  /\ UNCHANGED <<client, handler, status, upconn, held, readbuf, packets, wrote, got, ended>>

\* packetReadWriter.Write in the copier: Send fails on a stream that is over,
\* and blocks as long as the flow control of an open one has no room.
WriteStream(t) ==
  /\ copier[t]["back"] = "write"
  /\ held' = [held EXCEPT ![t]["back"] = <<>>]
  /\ \/ /\ handler[t] = "copying"
        /\ packets' = [packets EXCEPT ![t]["back"] = Append(@, held[t]["back"])]
        /\ copier' = [copier EXCEPT ![t]["back"] = "read"]
     \/ /\ Cancelled(t) \/ handler[t] = "returned"
        /\ copier' = [copier EXCEPT ![t]["back"] = "error"]
        /\ UNCHANGED packets
  /\ UNCHANGED <<client, handler, status, upconn, readbuf, wrote, got, ended>>

Finished(t, w) == copier[t][w] \in {"eof", "error"}

\* A handler that waits for both copiers.
HandlerReturns_WaitsForBoth(t) ==
  /\ handler[t] = "copying"
  /\ \A w \in Ways : Finished(t, w)
  /\ \E w \in Ways : Return(t, IF copier[t][w] = "eof" THEN "ok" ELSE "error")

\* return <-errc: the result of the copier that is done first.
HandlerReturns(t) ==
  /\ handler[t] = "copying"
  /\ \E w \in Ways : Finished(t, w) /\ Return(t, IF copier[t][w] = "eof" THEN "ok" ELSE "error")

----------------------------------------------------------------------------

\* A copier waits for the reader at the other end.
Blocked(t) ==
  \/ copier[t]["out"] = "write" /\ upconn[t] = "open"
  \/ copier[t]["back"] = "write" /\ client[t] = "open" /\ handler[t] = "copying"

\* The steps of the plugin process for a tunnel that wait for nobody ...
ServeAlone(t) ==
  \/ RecvDial(t) \/ CreateFails(t) \/ Create(t) \/ HandlerReturns(t)
  \/ ReadStream(t) \/ StreamEnds(t) \/ UpstreamEnds(t)
  \/ upconn[t] # "open" /\ WriteUpstream(t)
  \/ (Cancelled(t) \/ handler[t] = "returned") /\ WriteStream(t)

\* ... and the writes to a peer that may not be reading.
Serve(t) == ServeAlone(t) \/ WriteUpstream(t) \/ WriteStream(t)

\* The steps of the world around it.
Traffic(t) ==
  \/ Read(t) \/ ReadEnds(t) \/ UpstreamCloses(t)
  \/ \E n \in 1 .. 2 : Write(t, n) \/ ReadUpstream(t, n)

\* Every way of a tunnel delivers a prefix of what was written into it, and
\* a daemon that reads io.EOF has read all that the upstream had written:
\* the packets, the rests that did not fit a Read and the order in which
\* the handler ends lose and reorder nothing.
TunnelDelivers ==
  \A t \in Tunnels :
    /\ \A w \in Ways :
         /\ Len(got[t][w]) <= wrote[t][w]
         /\ \A i \in 1 .. Len(got[t][w]) : got[t][w][i] = i
    /\ ended[t] = "eof" => Len(got[t]["back"]) = wrote[t]["back"]

\* Nothing of a tunnel is left in the plugin: the handler has returned, its
\* upstream connection is closed and both copiers are done.
Over(t) ==
  /\ handler[t] = "returned"
  /\ upconn[t] \in {"none", "closed"}
  /\ \A w \in Ways : copier[t][w] = "none" \/ Finished(t, w)

\* A tunnel that an end has closed, or that was never dialled to the end, is
\* torn down, and no copier is left behind, as the comment on the orphan
\* goroutine at service.go:75-80 promises.  Only a copier that is writing to
\* a peer which reads no more keeps it: the handler learns of an end from
\* the copier it waits for (service.go:96), never while that one is blocked.
TunnelsEnd == \A t \in Tunnels : (Cancelled(t) \/ upconn[t] = "eof") ~> (Over(t) \/ []Blocked(t))
============================================================================
