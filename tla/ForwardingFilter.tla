-------------------------- MODULE ForwardingFilter --------------------------
(***************************************************************************)
(* The forwarding filter of sshpiperd (cmd/sshpiperd/forwarding.go) and    *)
(* the two goroutines of a pipe that call it.                              *)
(*                                                                         *)
(* The down goroutine reads a packet of the client, runs `down` on it and  *)
(* then writes: upstream (the hook let the packet pass) or back to the     *)
(* client (the hook answered itself).  The up goroutine reads a packet of  *)
(* the upstream, runs `up` on it and writes it to the client.  A hook and  *)
(* the write that follows it are separate steps, so the two goroutines'    *)
(* writes to the client interleave with the hooks.                         *)
(*                                                                         *)
(* SSH matches global-request replies with requests by order alone.  The   *)
(* request with reservation number k is the k-th want-reply global request *)
(* of the client; a reply is the number of the request it answers.         *)
(***************************************************************************)
EXTENDS Integers, Sequences, FiniteSets, Functions

CONSTANTS disableLocal,   \* --disable-local-forwarding
          disableRemote,  \* --disable-remote-forwarding
          MaxPackets,     \* bound: packets the client sends
          NoReq           \* "no reservation number"

ASSUME FilterConstants ==
    /\ disableLocal \in BOOLEAN
    /\ disableRemote \in BOOLEAN
    /\ MaxPackets \in Nat
    /\ NoReq \notin Nat

VARIABLES
    packets,    \* how many packets the client has sent (bounded)
    seq,        \* forwardingFilter.seq: next reservation number
    replied,    \* forwardingFilter.replied: replies counted so far
    dpc,        \* where the down goroutine is
    dreq,       \* reservation number of the packet it holds, or NoReq
    toUp,       \* want-reply requests written to the upstream, not answered
    fromUp,     \* replies of the upstream the up goroutine has not read
    upc,        \* where the up goroutine is
    ureq,       \* the reply it holds, or NoReq
    delivered,  \* replies written to the client, in order
    counted,    \* history: requests whose reply `replied` has counted
    pipeClosed  \* the pipe is gone

filterVars == <<packets, seq, replied, dpc, dreq, toUp, fromUp, upc, ureq,
                delivered, counted, pipeClosed>>

(***************************************************************************)
(* The packets `down` tells apart: a global request (a remote-forward type *)
(* or another one, with or without want-reply), a channel open (a          *)
(* local-forward type or another one), and everything else, which includes *)
(* the empty and the malformed packets that down lets through.             *)
(***************************************************************************)
Packet ==
    [cls : {"global"}, forward : BOOLEAN, want : BOOLEAN]
        \cup [cls : {"open"}, forward : BOOLEAN, want : {FALSE}]
        \cup [cls : {"other"}, forward : {FALSE}, want : {FALSE}]

FilterInit ==
    /\ packets = 0
    /\ seq = 0 /\ replied = 0
    /\ dpc = "read" /\ dreq = NoReq
    /\ toUp = <<>> /\ fromUp = <<>>
    /\ upc = "read" /\ ureq = NoReq
    /\ delivered = <<>> /\ counted = {}
    /\ pipeClosed = FALSE

-----------------------------------------------------------------------------
(* The down goroutine. *)

BlockedGlobal(p) == disableRemote /\ p.cls = "global" /\ p.forward
BlockedOpen(p)   == disableLocal /\ p.cls = "open" /\ p.forward

\* Reading the next packet; shared by the outcomes of the hook.
ReadDown == /\ ~pipeClosed /\ dpc = "read" /\ packets < MaxPackets
            /\ packets' = packets + 1
            /\ UNCHANGED <<toUp, fromUp, upc, ureq, delivered, pipeClosed>>

\* The hook reserves a number for a global request that wants a reply, in the
\* order the client sent them; a blocked one goes on to wait for its turn.
DownReserve(p) ==
    /\ ReadDown
    /\ p.cls = "global" /\ p.want
    /\ dreq' = seq /\ seq' = seq + 1
    /\ dpc' = IF BlockedGlobal(p) THEN "check" ELSE "forward"
    /\ UNCHANGED <<replied, counted>>

\* Packets that carry no reply obligation: passed on, dropped (a blocked
\* request without want-reply), or refused at once (a blocked channel open,
\* whose answer names its channel and so needs no ordering).
DownPass(p) ==
    /\ ReadDown
    /\ ~(p.cls = "global" /\ p.want)
    /\ dpc' = CASE BlockedGlobal(p) -> "read"
                [] BlockedOpen(p)   -> "refuse"
                [] OTHER            -> "forward"
    /\ UNCHANGED <<seq, replied, dreq, counted>>

\* `for f.replied < mySeq { f.cond.Wait() }`: test, and sleep or go on.
DownSleep ==
    /\ dpc = "check" /\ replied < dreq
    /\ dpc' = "asleep"
    /\ UNCHANGED <<packets, seq, replied, dreq, toUp, fromUp, upc, ureq,
                   delivered, counted, pipeClosed>>

\* Mutant of DownProceed: the wait stops one reply early.
DownProceed_Early ==
    /\ dpc = "check" /\ replied + 1 >= dreq
    /\ replied' = replied + 1
    /\ counted' = counted \cup {dreq}
    /\ dpc' = "answer"
    /\ UNCHANGED <<packets, seq, dreq, toUp, fromUp, upc, ureq, delivered, pipeClosed>>

DownProceed ==
    /\ dpc = "check" /\ replied >= dreq
    /\ replied' = replied + 1
    /\ counted' = counted \cup {dreq}
    /\ dpc' = "answer"
    /\ UNCHANGED <<packets, seq, dreq, toUp, fromUp, upc, ureq, delivered, pipeClosed>>

-----------------------------------------------------------------------------
(* What the pipe's goroutines do around the hooks. *)

\* PipePacketHookReply: the failure is written back to the client.
WriteAnswer ==
    /\ ~pipeClosed /\ dpc = "answer"
    /\ delivered' = Append(delivered, dreq)
    /\ dpc' = "read" /\ dreq' = NoReq
    /\ UNCHANGED <<packets, seq, replied, toUp, fromUp, upc, ureq, counted, pipeClosed>>

\* The refusal of a channel open; it is not a global-request reply.
WriteRefusal ==
    /\ ~pipeClosed /\ dpc = "refuse"
    /\ dpc' = "read"
    /\ UNCHANGED <<packets, seq, replied, dreq, toUp, fromUp, upc, ureq,
                   delivered, counted, pipeClosed>>

\* PipePacketHookTransform with a packet: it is written upstream.  Only the
\* requests that owe a reply are kept in toUp.
WriteUpstream ==
    /\ ~pipeClosed /\ dpc = "forward"
    /\ toUp' = IF dreq = NoReq THEN toUp ELSE Append(toUp, dreq)
    /\ dpc' = "read" /\ dreq' = NoReq
    /\ UNCHANGED <<packets, seq, replied, fromUp, upc, ureq, delivered, counted, pipeClosed>>

\* The upstream server answers want-reply global requests in order.
UpstreamReplies ==
    /\ ~pipeClosed /\ toUp # <<>>
    /\ fromUp' = Append(fromUp, Head(toUp)) /\ toUp' = Tail(toUp)
    /\ UNCHANGED <<packets, seq, replied, dpc, dreq, upc, ureq, delivered, counted, pipeClosed>>

\* Mutant of UpHook: the waiter is not woken (no Broadcast).
UpHook_NoBroadcast ==
    /\ ~pipeClosed /\ upc = "read" /\ fromUp # <<>>
    /\ ureq' = Head(fromUp) /\ fromUp' = Tail(fromUp) /\ upc' = "write"
    /\ replied' = IF disableRemote THEN replied + 1 ELSE replied
    /\ counted' = IF disableRemote THEN counted \cup {ureq'} ELSE counted
    /\ UNCHANGED <<packets, seq, dpc, dreq, toUp, delivered, pipeClosed>>

\* `up` on a global-request reply.  It is installed only with
\* --disable-remote-forwarding; it counts the reply and wakes the waiter
\* before the packet is written to the client.
UpHook ==
    /\ ~pipeClosed /\ upc = "read" /\ fromUp # <<>>
    /\ ureq' = Head(fromUp) /\ fromUp' = Tail(fromUp) /\ upc' = "write"
    /\ replied' = IF disableRemote THEN replied + 1 ELSE replied
    /\ counted' = IF disableRemote THEN counted \cup {ureq'} ELSE counted
    /\ dpc' = IF disableRemote /\ dpc = "asleep" THEN "check" ELSE dpc
    /\ UNCHANGED <<packets, seq, dreq, toUp, delivered, pipeClosed>>

WriteReply ==
    /\ ~pipeClosed /\ upc = "write"
    /\ delivered' = Append(delivered, ureq)
    /\ upc' = "read" /\ ureq' = NoReq
    /\ UNCHANGED <<packets, seq, replied, dpc, dreq, toUp, fromUp, counted, pipeClosed>>

\* Either side hangs up or the session is killed: WaitWithHook returns.
PipeCloses ==
    /\ ~pipeClosed /\ pipeClosed' = TRUE
    /\ UNCHANGED <<packets, seq, replied, dpc, dreq, toUp, fromUp, upc, ureq,
                   delivered, counted>>

\* Nothing is left to do: the pipe is closed, or the client has sent all its
\* packets and every reply has been written.
Quiescent ==
    \/ pipeClosed /\ dpc # "check"
    \/ /\ packets = MaxPackets /\ dpc = "read"
       /\ toUp = <<>> /\ fromUp = <<>> /\ upc = "read"

Rest == Quiescent /\ UNCHANGED filterVars

Down == \/ \E p \in Packet : DownReserve(p) \/ DownPass(p)
        \/ DownSleep \/ DownProceed
        \/ WriteAnswer \/ WriteRefusal \/ WriteUpstream

Up == UpHook \/ WriteReply

FilterNext == Down \/ Up \/ UpstreamReplies \/ PipeCloses \/ Rest

FilterSpec == FilterInit /\ [][FilterNext]_filterVars

\* The two goroutines run, and the upstream answers what it is asked (RFC
\* 4254, section 4).  Nothing makes the client send or the pipe close.
HookSteps == DownSleep \/ DownProceed \/ WriteAnswer \/ WriteRefusal \/ WriteUpstream
FilterLiveSpec ==
    /\ FilterSpec
    /\ WF_filterVars(HookSteps) /\ WF_filterVars(Up) /\ WF_filterVars(UpstreamReplies)

-----------------------------------------------------------------------------
(* Properties. *)

\* The state of the filter and of the two goroutines is well formed; the
\* upstream is never taken to owe a reply to a packet that asked for none.
FilterTypeOK ==
    /\ packets \in 0..MaxPackets
    /\ seq \in Nat /\ replied \in Nat
    /\ dpc \in {"read", "check", "asleep", "answer", "refuse", "forward"}
    /\ dreq \in Nat \cup {NoReq}
    /\ toUp \in Seq(Nat) /\ fromUp \in Seq(Nat)
    /\ upc \in {"read", "write"}
    /\ ureq \in Nat \cup {NoReq}
    /\ delivered \in Seq(Nat)
    /\ counted \in SUBSET Nat
    /\ pipeClosed \in BOOLEAN

\* The requests whose reply the client has, or the up goroutine is about to
\* write.
Reached == Range(delivered) \cup ({ureq} \ {NoReq})

\* forwarding.go:148-153.  When `down` releases its own failure for request k,
\* every earlier request has its reply at the client, but for at most the
\* one reply the up goroutine holds between its hook and its write: a local
\* failure can overtake that reply and no other.
OvertakesAtMostTheHeldReply ==
    dpc = "answer" => \A k \in 0..(dreq - 1) : k \in Reached

\* The number of replies counted never passes the number of requests
\* reserved, and it is exactly the number of requests whose reply was seen:
\* no reply is counted twice, none is counted for a request that reserved
\* nothing (forwarding.go:135-138, 152, 186-193).
CountsEachReplyOnce ==
    /\ replied <= seq
    /\ replied = Cardinality(counted)
    /\ \A k \in counted : k < seq

\* The client gets at most one reply to a request, and only to a request it
\* sent: one the filter refused is not answered by the upstream as well
\* (forwarding.go:140-156).
AnsweredOnce ==
    /\ IsInjective(delivered)
    /\ \A k \in Range(delivered) : k < seq

\* Every want-reply request the filter has reserved a number for is answered,
\* unless the pipe closes: the waiter in `down` always wakes up.
EventuallyAnswered ==
    \A k \in 0..(MaxPackets - 1) :
        seq > k ~> (pipeClosed \/ k \in Range(delivered))

\* `down` sleeps only for a reply the upstream still owes or `up` has not read
\* (forwarding.go:149-151): when the pipe closes, which wakes nobody, the
\* goroutine it leaves behind is one whose turn had not come, never one that
\* missed its wake-up.
SleeperIsOwed ==
    dpc = "asleep" =>
        /\ replied < dreq
        /\ \E k \in Range(toUp) \cup Range(fromUp) : k < dreq /\ k \notin counted

\* forwarding.go:144-147: the failure is held back "so replies reach the
\* client in the same order the requests were sent".
RepliesInRequestOrder ==
    \A i \in 1..Len(delivered) : delivered[i] = i - 1
=============================================================================
