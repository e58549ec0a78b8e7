------------------------- MODULE AdminSessions_proofs ------------------------
(***************************************************************************)
(* Proofs about the broadcaster of the admin streams, for any number of    *)
(* sessions, viewers, kills and frames, and any buffer: it never misuses a *)
(* Go channel, since the sender and the two who may close a viewer's       *)
(* channel, unsubscribe and Close, are kept apart by the subscriber map,   *)
(* from which the one who closes removes it; and a viewer gets the headers *)
(* and a run of frames in the order the session made them.                 *)
(***************************************************************************)
EXTENDS AdminSessions, Scans_proofs, TLAPS

-----------------------------------------------------------------------------
(* The broadcaster and its viewers (broadcaster.go). *)

\* The state that the argument is about.
ChanTypeOK ==
    /\ closed \in [Sessions -> BOOLEAN]
    /\ subs \in [Sessions -> SUBSET Viewers]
    /\ chan \in [Viewers -> {"none", "open", "closed", "panic"}]
    /\ vpc \in [Viewers -> {"idle", "subscribe", "stream", "cancel", "done"}]
    /\ vses \in [Viewers -> Sessions \cup {None}]
    /\ \A v \in Viewers : vpc[v] \in {"subscribe", "stream", "cancel"} => vses[v] \in Sessions

\* A subscribed viewer has an open channel, is subscribed to the session its
\* call is about, and has not cancelled yet.
SubscribedAreOpen ==
    \A s \in Sessions : \A v \in subs[s] :
        chan[v] = "open" /\ vses[v] = s /\ vpc[v] \in {"stream", "cancel"}

ChanInv == ChanTypeOK /\ SubscribedAreOpen /\ NeverPanics

-----------------------------------------------------------------------------
\* There are no viewers at the start (NewBroadcaster, broadcaster.go:42-45).
LEMMA ChanInit == Init => ChanInv
BY DEF Init, ChanInv, ChanTypeOK, SubscribedAreOpen, NeverPanics

\* The steps that touch neither channels nor subscriptions.
LEMMA ChanKept ==
    ASSUME ChanInv, UNCHANGED <<closed, subs, chan, vpc, vses>>
    PROVE  ChanInv'
BY ZenonT(40) DEF ChanInv, ChanTypeOK, SubscribedAreOpen, NeverPanics

\* Publish sends to subscribers only, whose channels are open
\* (broadcaster.go:95-119).
LEMMA PublishKeeps ==
    ASSUME ChanInv, NEW s \in Sessions, NEW f, Publish(s, f), UNCHANGED <<vpc, vses>>
    PROVE  ChanInv'
<1>1. CASE closed[s]
    <2>1. UNCHANGED <<closed, subs, chan>> BY <1>1, Zenon DEF Publish, bcVars
    <2> QED BY <2>1, ChanKept, ZenonT(40)
<1>2. CASE ~closed[s]
    <2>1. /\ UNCHANGED <<closed, subs>>
          /\ chan' = [v \in Viewers |-> IF v \in subs[s] THEN AfterSend(chan[v]) ELSE chan[v]]
        BY <1>2, Zenon DEF Publish
    <2>2. \A v \in Viewers : chan'[v] = chan[v]
        BY <2>1, ZenonT(40) DEF ChanInv, SubscribedAreOpen, AfterSend
    <2>3. chan' = chan BY <2>1, <2>2, ZenonT(40) DEF ChanInv, ChanTypeOK
    <2> QED BY <2>1, <2>3, ChanKept, ZenonT(40)
<1> QED BY <1>1, <1>2, Zenon

\* Close closes the channels of the subscribers and forgets them in one
\* critical section (broadcaster.go:130-141).
LEMMA CloseKeeps ==
    ASSUME ChanInv, NEW s \in Sessions, CloseBroadcaster(s)
    PROVE  ChanInv'
<1>1. /\ closed' = [closed EXCEPT ![s] = TRUE]
      /\ chan' = [v \in Viewers |-> IF v \in subs[s] THEN AfterClose(chan[v]) ELSE chan[v]]
      /\ subs' = [subs EXCEPT ![s] = {}]
      /\ UNCHANGED <<vpc, vses>>
    BY ZenonT(40) DEF CloseBroadcaster
<1>2. \A v \in Viewers : v \in subs[s] => chan'[v] = "closed"
    BY <1>1, ZenonT(40) DEF ChanInv, SubscribedAreOpen, AfterClose
<1>3. \A v \in Viewers : v \notin subs[s] => chan'[v] = chan[v]
    BY <1>1, ZenonT(40)
<1>4. ChanTypeOK' BY <1>1, <1>2, <1>3, ZenonT(40) DEF ChanInv, ChanTypeOK
<1>5. NeverPanics' BY <1>2, <1>3, ZenonT(40) DEF ChanInv, NeverPanics
<1>6. SubscribedAreOpen'
    <2>1. \A t \in Sessions : t # s => subs'[t] = subs[t] /\ subs[t] \cap subs[s] = {}
        BY <1>1 DEF ChanInv, ChanTypeOK, SubscribedAreOpen
    <2>2. subs'[s] = {} BY <1>1, ZenonT(40) DEF ChanInv, ChanTypeOK
    <2>3. ASSUME NEW t \in Sessions, NEW v \in subs'[t]
          PROVE  chan'[v] = "open" /\ vses'[v] = t /\ vpc'[v] \in {"stream", "cancel"}
        <3>1. t # s /\ v \in subs[t] /\ v \notin subs[s] BY <2>1, <2>2, <2>3, ZenonT(40)
        <3>2. v \in Viewers BY <3>1, ZenonT(40) DEF ChanInv, ChanTypeOK
        <3> QED BY <1>1, <1>3, <3>1, <3>2 DEF ChanInv, SubscribedAreOpen
    <2> QED BY <2>3, Zenon DEF SubscribedAreOpen
<1> QED BY <1>4, <1>5, <1>6, ZenonT(40) DEF ChanInv

\* A subscription is new, with a channel of its own (broadcaster.go:52-72).
LEMMA SubscribeKeeps ==
    ASSUME ChanInv, NEW v \in Viewers, Subscribe(v)
    PROVE  ChanInv'
<1> DEFINE s == vses[v]
<1>1. /\ vpc[v] = "subscribe"
      /\ vpc' = [vpc EXCEPT ![v] = "stream"]
      /\ chan' = [chan EXCEPT ![v] = IF closed[s] THEN "closed" ELSE "open"]
      /\ subs' = IF closed[s] THEN subs ELSE [subs EXCEPT ![s] = @ \cup {v}]
      /\ UNCHANGED <<closed, vses>>
    BY Zenon DEF Subscribe
<1>2. s \in Sessions BY <1>1, Zenon DEF ChanInv, ChanTypeOK
<1>3. \A t \in Sessions : v \notin subs[t] BY <1>1, Zenon DEF ChanInv, SubscribedAreOpen
<1>4. /\ \A w \in Viewers : w # v => chan'[w] = chan[w] /\ vpc'[w] = vpc[w]
      /\ chan'[v] = IF closed[s] THEN "closed" ELSE "open"
      /\ vpc'[v] = "stream"
    BY <1>1, Zenon DEF ChanInv, ChanTypeOK
<1> HIDE DEF s
<1>5. ChanTypeOK'
    <2>1. chan' \in [Viewers -> {"none", "open", "closed", "panic"}]
        BY <1>1, ZenonT(40) DEF ChanInv, ChanTypeOK
    <2>2. vpc' \in [Viewers -> {"idle", "subscribe", "stream", "cancel", "done"}]
        BY <1>1, ZenonT(40) DEF ChanInv, ChanTypeOK
    <2>3. subs' \in [Sessions -> SUBSET Viewers] BY <1>1, <1>2, Zenon DEF ChanInv, ChanTypeOK
    <2>4. vses'[v] \in Sessions BY <1>1, <1>2, ZenonT(40) DEF s
    <2> QED BY <1>1, <1>4, <2>1, <2>2, <2>3, <2>4, Zenon DEF ChanInv, ChanTypeOK
<1>6. NeverPanics' BY <1>4, ZenonT(40) DEF ChanInv, NeverPanics
<1>7. SubscribedAreOpen'
    <2>1. ASSUME NEW t \in Sessions, NEW w \in subs'[t]
          PROVE  chan'[w] = "open" /\ vses'[w] = t /\ vpc'[w] \in {"stream", "cancel"}
        <3>1. CASE w \in subs[t]
            <4>1. w \in Viewers /\ w # v BY <1>3, <3>1, Zenon DEF ChanInv, ChanTypeOK
            <4> QED BY <1>1, <1>4, <3>1, <4>1 DEF ChanInv, SubscribedAreOpen
        <3>2. CASE w \notin subs[t]
            <4>1. ~closed[s] /\ t = s /\ w = v
                BY <1>1, <1>2, <2>1, <3>2, ZenonT(40) DEF ChanInv, ChanTypeOK
            <4> QED BY <1>1, <1>4, <4>1, ZenonT(40) DEF s
        <3> QED BY <3>1, <3>2, ZenonT(40)
    <2> QED BY <2>1, Zenon DEF SubscribedAreOpen
<1> QED BY <1>5, <1>6, <1>7, Zenon DEF ChanInv

\* unsubscribe closes a channel only if it takes it out of the map
\* (broadcaster.go:83-90).
LEMMA CancelKeeps ==
    ASSUME ChanInv, NEW v \in Viewers, Cancel(v)
    PROVE  ChanInv'
<1> DEFINE s == vses[v]
<1>1. /\ vpc[v] = "cancel"
      /\ vpc' = [vpc EXCEPT ![v] = "done"]
      /\ chan' = IF v \in subs[s] THEN [chan EXCEPT ![v] = AfterClose(chan[v])] ELSE chan
      /\ subs' = [subs EXCEPT ![s] = @ \ {v}]
      /\ UNCHANGED <<closed, vses>>
    BY Zenon DEF Cancel
<1>2. s \in Sessions BY <1>1, ZenonT(40) DEF ChanInv, ChanTypeOK
<1>3. \A t \in Sessions : v \in subs[t] => t = s /\ chan[v] = "open"
    BY Zenon DEF ChanInv, SubscribedAreOpen
<1> HIDE DEF s
<1>4. chan'[v] # "panic" /\ chan'[v] \in {"none", "open", "closed"}
    BY <1>1, <1>2, <1>3, ZenonT(40) DEF ChanInv, ChanTypeOK, NeverPanics, AfterClose
<1>5. \A w \in Viewers : w # v => chan'[w] = chan[w] /\ vpc'[w] = vpc[w]
    BY <1>1, ZenonT(40) DEF ChanInv, ChanTypeOK
<1>6. \A t \in Sessions : subs'[t] \subseteq subs[t] \ {v}
    BY <1>1, <1>2, <1>3, ZenonT(40) DEF ChanInv, ChanTypeOK
<1>7. ChanTypeOK'
    <2>1. chan' \in [Viewers -> {"none", "open", "closed", "panic"}]
        BY <1>1, <1>4, ZenonT(40) DEF ChanInv, ChanTypeOK
    <2>2. vpc' \in [Viewers -> {"idle", "subscribe", "stream", "cancel", "done"}]
        BY <1>1, ZenonT(40) DEF ChanInv, ChanTypeOK
    <2>3. subs' \in [Sessions -> SUBSET Viewers] BY <1>1, <1>2, ZenonT(40) DEF ChanInv, ChanTypeOK
    <2>4. vpc'[v] = "done" BY <1>1, ZenonT(40) DEF ChanInv, ChanTypeOK
    <2> QED BY <1>1, <1>5, <2>1, <2>2, <2>3, <2>4, ZenonT(40) DEF ChanInv, ChanTypeOK
<1>8. NeverPanics' BY <1>4, <1>5, ZenonT(40) DEF ChanInv, NeverPanics
<1>9. SubscribedAreOpen'
    <2>1. ASSUME NEW t \in Sessions, NEW w \in subs'[t]
          PROVE  chan'[w] = "open" /\ vses'[w] = t /\ vpc'[w] \in {"stream", "cancel"}
        <3>1. w \in subs[t] /\ w # v /\ w \in Viewers
            BY <1>6, <2>1, ZenonT(40) DEF ChanInv, ChanTypeOK
        <3> QED BY <1>1, <1>5, <3>1, ZenonT(40) DEF ChanInv, SubscribedAreOpen
    <2> QED BY <2>1, Zenon DEF SubscribedAreOpen
<1> QED BY <1>7, <1>8, <1>9, Zenon DEF ChanInv

\* The other steps of a StreamSession call move it on (server.go:96-116).
LEMMA ViewerKeeps ==
    ASSUME ChanInv, NEW v \in Viewers, UNCHANGED <<closed, subs, chan>>,
           \/ /\ vpc[v] = "idle"
              /\ \E s \in Sessions :
                    /\ vpc' = [vpc EXCEPT ![v] = IF phase[s] = "live" THEN "subscribe" ELSE "done"]
                    /\ vses' = [vses EXCEPT ![v] = IF phase[s] = "live" THEN s ELSE None]
           \/ /\ vpc[v] = "stream" /\ vses' = vses
              /\ vpc' = vpc \/ vpc' = [vpc EXCEPT ![v] = "cancel"]
    PROVE  ChanInv'
<1>1. CASE vpc[v] = "idle"
    <2>1. \A t \in Sessions : v \notin subs[t] BY <1>1, ZenonT(40) DEF ChanInv, SubscribedAreOpen
    <2>2. PICK s \in Sessions :
            /\ vpc' = [vpc EXCEPT ![v] = IF phase[s] = "live" THEN "subscribe" ELSE "done"]
            /\ vses' = [vses EXCEPT ![v] = IF phase[s] = "live" THEN s ELSE None]
        BY <1>1, Zenon
    <2>3. ChanTypeOK' BY <2>2, ZenonT(40) DEF ChanInv, ChanTypeOK
    <2>4. SubscribedAreOpen'
        BY <2>1, <2>2 DEF ChanInv, ChanTypeOK, SubscribedAreOpen
    <2> QED BY <2>3, <2>4, ZenonT(40) DEF ChanInv, NeverPanics
<1>2. CASE vpc[v] = "stream"
    <2>1. ChanTypeOK' BY <1>2, ZenonT(40) DEF ChanInv, ChanTypeOK
    <2>2. SubscribedAreOpen' BY <1>2 DEF ChanInv, ChanTypeOK, SubscribedAreOpen
    <2> QED BY <2>1, <2>2, ZenonT(40) DEF ChanInv, NeverPanics
<1> QED BY <1>1, <1>2, Zenon

\* Every step of sessions, hooks, viewers and kills keeps the invariant.
LEMMA ChanStep == ChanInv /\ [Next]_adminVars => ChanInv'
<1> SUFFICES ASSUME ChanInv, [Next]_adminVars PROVE ChanInv'
    BY Zenon
<1>1. ASSUME NEW s \in Sessions, HookStep(s) PROVE ChanInv'
    <2>1. ASSUME NEW ch \in Channels,
                 UpConfirm(s, ch) \/ UpData(s, ch) \/ DownShell(s, ch) \/ DownResize(s, ch)
          PROVE  ChanInv'
        <3>1. UNCHANGED <<closed, subs, chan, vpc, vses>>
            BY <2>1, ZenonT(40) DEF UpConfirm, UpData, DownShell, DownResize, bcVars, viewVars
        <3> QED BY <3>1, ChanKept, Zenon
    <2>2. CASE UpPublish(s) BY <2>2, PublishKeeps, Zenon DEF UpPublish
    <2>3. CASE DownPublish(s) BY <2>3, PublishKeeps, ZenonT(40) DEF DownPublish
    <2> QED BY <1>1, <2>1, <2>2, <2>3, ZenonT(40) DEF HookStep
<1>2. ASSUME NEW s \in Sessions, SessionStep(s) PROVE ChanInv'
    <2>1. CASE CloseBroadcaster(s) BY <2>1, CloseKeeps, ZenonT(40)
    <2>2. CASE Add(s) \/ RemoveEntry(s) \/ OpenPipe(s) \/ ClosePipe(s)
        <3>1. UNCHANGED <<closed, subs, chan, vpc, vses>>
            BY <2>2, Zenon DEF Add, RemoveEntry, OpenPipe, ClosePipe, bcVars, viewVars
        <3> QED BY <3>1, ChanKept, ZenonT(40)
    <2> QED BY <1>2, <2>1, <2>2, Zenon DEF SessionStep
<1>3. ASSUME NEW v \in Viewers, ViewerStep(v) PROVE ChanInv'
    <2>1. ASSUME NEW s \in Sessions, NEW r \in BOOLEAN, StreamSession(v, s, r) PROVE ChanInv'
        <3>1. /\ UNCHANGED <<closed, subs, chan>> /\ vpc[v] = "idle"
              /\ vpc' = [vpc EXCEPT ![v] = IF phase[s] = "live" THEN "subscribe" ELSE "done"]
              /\ vses' = [vses EXCEPT ![v] = IF phase[s] = "live" THEN s ELSE None]
            BY <2>1, ZenonT(40) DEF StreamSession, bcVars
        <3> QED BY <3>1, ViewerKeeps, Zenon
    <2>2. CASE Subscribe(v) BY <2>2, SubscribeKeeps, Zenon
    <2>3. CASE Cancel(v) BY <2>3, CancelKeeps, Zenon
    <2>4. CASE StreamEnds(v) \/ ViewerGone(v)
        BY <2>4, ViewerKeeps, ZenonT(40) DEF StreamEnds, ViewerGone, bcVars
    <2>5. ASSUME NEW ok \in BOOLEAN, Forward(v, ok) PROVE ChanInv'
        <3>1. /\ UNCHANGED <<closed, subs, chan>> /\ vpc[v] = "stream" /\ vses' = vses
              /\ vpc' = vpc \/ vpc' = [vpc EXCEPT ![v] = "cancel"]
            BY <2>5, ZenonT(40) DEF Forward, bcVars
        <3> QED BY <3>1, ViewerKeeps, Zenon
    <2> QED BY <1>3, <2>1, <2>2, <2>3, <2>4, <2>5, ZenonT(40) DEF ViewerStep
<1>4. ASSUME NEW k \in Killers, KillStep(k) PROVE ChanInv'
    <2>1. UNCHANGED <<closed, subs, chan, vpc, vses>>
        BY <1>4, ZenonT(40) DEF KillStep, KillClose, KillLookup, bcVars, viewVars
    <2> QED BY <2>1, ChanKept, Zenon
<1>5. CASE UNCHANGED adminVars
    <2>1. UNCHANGED <<closed, subs, chan, vpc, vses>>
        BY <1>5, Zenon DEF adminVars, bcVars, viewVars
    <2> QED BY <2>1, ChanKept, ZenonT(40)
<1> QED BY <1>1, <1>2, <1>3, <1>4, <1>5, ZenonT(40) DEF Next

\* No channel of a viewer is closed twice or sent on after its close, for any
\* number of sessions, viewers and frames (broadcaster.go:52-141).
THEOREM NoPanicTheorem == Spec => []NeverPanics
<1>1. ChanInv => NeverPanics BY Zenon DEF ChanInv
<1> QED BY ChanInit, ChanStep, <1>1, PTL DEF Spec

-----------------------------------------------------------------------------
(* What a viewer gets. *)

\* The header of a channel is among the frames N of the log l.
HasHeader(l, c, N) == \E n \in N : l[n].kind = "header" /\ l[n].ch = c

\* Before every output in got is a header of its channel, if it is not one of
\* those that were dropped.
Headed(got, l, dropped) ==
    \A j \in DOMAIN got : l[got[j]].kind = "o" =>
        HasHeader(l, l[got[j]].ch, Range(SubSeq(got, 1, j - 1)) \cup dropped)

\* What a viewer may have got of the log l.
Faithful(got, l, dropped, replay) ==
    /\ got \in Seq(Nat) /\ Increasing(got)
    /\ Range(got) \cup dropped \subseteq DOMAIN l
    /\ replay => Headed(got, l, dropped)

\* A frame is published: the log only grows.
LEMMA LogGrows ==
    ASSUME NEW l \in Seq(Frame), NEW f \in Frame
    PROVE  /\ Append(l, f) \in Seq(Frame)
           /\ DOMAIN Append(l, f) = DOMAIN l \cup {Len(l) + 1}
           /\ \A n \in DOMAIN l : n \in Nat /\ n < Len(l) + 1 /\ Append(l, f)[n] = l[n]
           /\ Append(l, f)[Len(l) + 1] = f
           /\ Len(l) + 1 \in Nat
OBVIOUS

\* A header in the log stays there.
LEMMA HeaderStays ==
    ASSUME NEW l \in Seq(Frame), NEW f \in Frame, NEW N, NEW M, N \subseteq DOMAIN l,
           N \subseteq M, NEW c, HasHeader(l, c, N)
    PROVE  HasHeader(Append(l, f), c, M)
BY LogGrows, Zenon DEF HasHeader

\* The frames before position j, and all of them.
LEMMA BeforeRange ==
    ASSUME NEW got \in Seq(Nat), NEW j \in 1 .. (Len(got) + 1)
    PROVE  /\ Range(SubSeq(got, 1, j - 1)) = {got[i] : i \in 1 .. (j - 1)}
           /\ Range(got) = {got[i] : i \in 1 .. Len(got)}
           /\ Range(SubSeq(got, 1, j - 1)) \subseteq Range(got)
<1>1. /\ DOMAIN SubSeq(got, 1, j - 1) = 1 .. (j - 1)
      /\ \A i \in 1 .. (j - 1) : SubSeq(got, 1, j - 1)[i] = got[i] /\ i \in 1 .. Len(got)
      /\ DOMAIN got = 1 .. Len(got)
    OBVIOUS
<1>2. Range(SubSeq(got, 1, j - 1)) = {got[i] : i \in 1 .. (j - 1)} BY <1>1, Zenon DEF Range
<1>3. Range(got) = {got[i] : i \in 1 .. Len(got)} BY <1>1, Zenon DEF Range
<1>4. {got[i] : i \in 1 .. (j - 1)} \subseteq {got[i] : i \in 1 .. Len(got)} BY <1>1, Zenon
<1> QED BY <1>2, <1>3, <1>4, Zenon

\* What was got before a frame is published is still as it should be after.
LEMMA FaithfulStays ==
    ASSUME NEW l \in Seq(Frame), NEW f \in Frame, NEW got, NEW dropped,
           NEW after, after = dropped \/ after = dropped \cup {Len(l) + 1}, NEW replay,
           Faithful(got, l, dropped, replay)
    PROVE  Faithful(got, Append(l, f), after, replay)
<1>1. got \in Seq(Nat) /\ Increasing(got) /\ Range(got) \cup dropped \subseteq DOMAIN l
    BY Zenon DEF Faithful
<1>2. Range(got) \cup after \subseteq DOMAIN Append(l, f)
    BY <1>1, LogGrows, ZenonT(40)
<1>3. ASSUME replay PROVE Headed(got, Append(l, f), after)
    <2>1. Headed(got, l, dropped) BY <1>3, Zenon DEF Faithful
    <2>2. ASSUME NEW j \in DOMAIN got, Append(l, f)[got[j]].kind = "o"
          PROVE  HasHeader(Append(l, f), Append(l, f)[got[j]].ch,
                           Range(SubSeq(got, 1, j - 1)) \cup after)
        <3>1. j \in 1 .. (Len(got) + 1) BY <1>1
        <3>2. Range(SubSeq(got, 1, j - 1)) \subseteq Range(got) BY <1>1, <3>1, BeforeRange, Zenon
        <3>3. got[j] \in DOMAIN l BY <1>1, Zenon DEF Range
        <3>4. Append(l, f)[got[j]] = l[got[j]] BY <3>3, LogGrows, ZenonT(40)
        <3>5. HasHeader(l, l[got[j]].ch, Range(SubSeq(got, 1, j - 1)) \cup dropped)
            BY <2>1, <2>2, <3>4, Zenon DEF Headed
        <3>6. Range(SubSeq(got, 1, j - 1)) \cup dropped \subseteq DOMAIN l
            BY <1>1, <3>2, Zenon
        <3>7. Range(SubSeq(got, 1, j - 1)) \cup dropped
                \subseteq Range(SubSeq(got, 1, j - 1)) \cup after
            BY Zenon
        <3> QED BY <3>4, <3>5, <3>6, <3>7, HeaderStays, Zenon
    <2> QED BY <2>2, Zenon DEF Headed
<1> QED BY <1>1, <1>2, <1>3, Zenon DEF Faithful

\* The frame that is published goes to the end of what a viewer gets, and is
\* output only if the viewer has the header.
LEMMA FaithfulTakes ==
    ASSUME NEW l \in Seq(Frame), NEW f \in Frame, NEW got, NEW dropped,
           NEW replay, Faithful(got, l, dropped, replay),
           replay /\ f.kind = "o" => HasHeader(l, f.ch, Range(got) \cup dropped)
    PROVE  Faithful(Append(got, Len(l) + 1), Append(l, f), dropped, replay)
<1> DEFINE n == Len(l) + 1
           m == Append(l, f)
           new == Append(got, n)
<1>1. got \in Seq(Nat) /\ Increasing(got) /\ Range(got) \cup dropped \subseteq DOMAIN l
    BY Zenon DEF Faithful
<1>2. /\ DOMAIN m = DOMAIN l \cup {n} /\ n \in Nat /\ m[n] = f
      /\ \A i \in DOMAIN l : i \in Nat /\ i < n /\ m[i] = l[i]
    BY LogGrows, Zenon
<1>3. /\ new \in Seq(Nat) /\ Len(new) = Len(got) + 1 /\ Len(got) \in Nat
      /\ DOMAIN new = 1 .. (Len(got) + 1) /\ new[Len(got) + 1] = n
      /\ \A i \in 1 .. Len(got) : new[i] = got[i] /\ i \in DOMAIN got
    BY <1>1, <1>2
<1>4. Faithful(got, m, dropped, replay)
    BY FaithfulStays, Zenon
<1>5. replay /\ f.kind = "o" => HasHeader(m, f.ch, Range(got) \cup dropped)
    <2>1. Range(got) \cup dropped \subseteq Range(got) \cup dropped BY Zenon
    <2> QED BY <1>1, <2>1, HeaderStays, Zenon
<1> HIDE DEF m, n
<1>6. Range(new) = Range(got) \cup {n} BY <1>1, <1>2, AppendRange
<1>7. Increasing(new)
    <2>1. \A y \in Range(got) : y < n BY <1>1, <1>2, Zenon
    <2> QED BY <1>1, <1>2, <2>1, AppendIncreasing, Zenon
<1>8. Range(new) \cup dropped \subseteq DOMAIN m BY <1>1, <1>2, <1>6, Zenon
<1>9. \A j \in 1 .. (Len(got) + 1) : Range(SubSeq(new, 1, j - 1)) = Range(SubSeq(got, 1, j - 1))
    <2> HIDE DEF new
    <2>1. ASSUME NEW j \in 1 .. (Len(got) + 1)
          PROVE  Range(SubSeq(new, 1, j - 1)) = Range(SubSeq(got, 1, j - 1))
        <3>1. j \in 1 .. (Len(new) + 1) /\ \A i \in 1 .. (j - 1) : i \in 1 .. Len(got)
            BY <1>3
        <3>2. Range(SubSeq(new, 1, j - 1)) = {new[i] : i \in 1 .. (j - 1)}
            BY <1>3, <3>1, BeforeRange, Zenon
        <3>3. Range(SubSeq(got, 1, j - 1)) = {got[i] : i \in 1 .. (j - 1)}
            BY <1>1, BeforeRange, Zenon
        <3> QED BY <1>3, <3>1, <3>2, <3>3
    <2> QED BY <2>1, Zenon
<1>10. Range(SubSeq(got, 1, Len(got))) = Range(got)
    <2>1. Len(got) + 1 \in 1 .. (Len(got) + 1) /\ (Len(got) + 1) - 1 = Len(got) BY <1>3
    <2>2. Range(SubSeq(got, 1, (Len(got) + 1) - 1)) = {got[i] : i \in 1 .. ((Len(got) + 1) - 1)}
          /\ Range(got) = {got[i] : i \in 1 .. Len(got)}
        BY <1>1, <2>1, BeforeRange, Zenon
    <2> QED BY <2>1, <2>2, Zenon
<1>11. ASSUME replay PROVE Headed(new, m, dropped)
    <2>1. ASSUME NEW j \in DOMAIN new, m[new[j]].kind = "o"
          PROVE  HasHeader(m, m[new[j]].ch, Range(SubSeq(new, 1, j - 1)) \cup dropped)
        <3>1. j \in 1 .. (Len(got) + 1) /\ (j \in 1 .. Len(got) \/ j = Len(got) + 1)
            BY <1>3, <2>1
        <3>2. CASE j \in 1 .. Len(got)
            <4>1. new[j] = got[j] /\ j \in DOMAIN got BY <1>3, <3>2, Zenon
            <4>2. Headed(got, m, dropped) BY <1>4, <1>11, Zenon DEF Faithful
            <4> QED BY <1>9, <2>1, <3>1, <4>1, <4>2, Zenon DEF Headed
        <3>3. CASE j = Len(got) + 1
            <4>1. new[j] = n /\ j - 1 = Len(got) BY <1>3, <3>3
            <4>2. m[new[j]] = f BY <1>2, <4>1, Zenon
            <4>3. Range(SubSeq(new, 1, j - 1)) = Range(got) BY <1>9, <1>10, <3>1, <4>1, Zenon
            <4> QED BY <1>5, <1>11, <2>1, <4>2, <4>3, Zenon
        <3> QED BY <3>1, <3>2, <3>3, Zenon
    <2> QED BY <2>1, Zenon DEF Headed
<1> QED BY <1>3, <1>7, <1>8, <1>11, Zenon DEF Faithful, m, n

\* What was sent when the call ends is the beginning of what was to be sent.
LEMMA FaithfulPrefix ==
    ASSUME NEW l, NEW a \in Seq(Nat), NEW b \in Seq(Nat), NEW dropped,
           NEW replay, Faithful(a \o b, l, dropped, replay)
    PROVE  Faithful(a, l, dropped, replay)
<1> DEFINE c == a \o b
<1>1. /\ c \in Seq(Nat) /\ Len(c) >= Len(a) /\ Len(a) \in Nat /\ Len(c) \in Nat
      /\ DOMAIN a = 1 .. Len(a) /\ DOMAIN c = 1 .. Len(c)
      /\ \A i \in 1 .. Len(a) : c[i] = a[i] /\ i \in 1 .. Len(c)
    OBVIOUS
<1> HIDE DEF c
<1>2. Faithful(c, l, dropped, replay) BY DEF c
<1>3. Increasing(a) BY <1>1, <1>2 DEF Faithful, Increasing
<1>4. Range(a) \subseteq Range(c) BY <1>1, Zenon DEF Range
<1>5. Range(a) \cup dropped \subseteq DOMAIN l BY <1>2, <1>4, Zenon DEF Faithful
<1>6. ASSUME replay PROVE Headed(a, l, dropped)
    <2>1. ASSUME NEW j \in DOMAIN a, l[a[j]].kind = "o"
          PROVE  HasHeader(l, l[a[j]].ch, Range(SubSeq(a, 1, j - 1)) \cup dropped)
        <3>1. /\ j \in 1 .. (Len(a) + 1) /\ j \in 1 .. (Len(c) + 1)
              /\ \A i \in 1 .. (j - 1) : i \in 1 .. Len(a)
            BY <1>1, SMTT(30)
        <3>2. c[j] = a[j] /\ j \in DOMAIN c BY <1>1, Zenon
        <3>3. Range(SubSeq(a, 1, j - 1)) = {a[i] : i \in 1 .. (j - 1)}
            BY <3>1, BeforeRange, Zenon
        <3>4. Range(SubSeq(c, 1, j - 1)) = {c[i] : i \in 1 .. (j - 1)}
            BY <1>1, <3>1, BeforeRange, Zenon
        <3>5. Range(SubSeq(a, 1, j - 1)) = Range(SubSeq(c, 1, j - 1))
            BY <1>1, <3>1, <3>3, <3>4
        <3>6. Headed(c, l, dropped) BY <1>2, <1>6, Zenon DEF Faithful
        <3> QED BY <2>1, <3>2, <3>5, <3>6, Zenon DEF Headed
    <2> QED BY <2>1, Zenon DEF Headed
<1> QED BY <1>3, <1>5, <1>6, Zenon DEF Faithful

-----------------------------------------------------------------------------
(* The invariant. *)

StreamTypeOK ==
    /\ log \in [Sessions -> Seq(Frame)] /\ history \in [Sessions -> Seq(Nat)]
    /\ running \in [Sessions -> SUBSET Channels]
    /\ up \in [Sessions -> Frame \cup {None}] /\ down \in [Sessions -> Frame \cup {None}]
    /\ vreplay \in [Viewers -> BOOLEAN]
    /\ buf \in [Viewers -> Seq(Nat)] /\ sent \in [Viewers -> Seq(Nat)]
    /\ lost \in [Viewers -> SUBSET Nat]

\* What a history h must be for the channels that run, until the broadcaster
\* is closed: headers of the log, in order, one of each of those channels.
Remembers(h, l, isClosed, run) ==
    /\ Increasing(h)
    /\ \A n \in Range(h) : n \in DOMAIN l /\ l[n].kind = "header"
    /\ ~isClosed => \A c \in run : HasHeader(l, c, Range(h))

HistoryKept == \A s \in Sessions : Remembers(history[s], log[s], closed[s], running[s])

\* Up goes output, of a channel whose shell or exec request has been
\* forwarded; down goes none.
UpIsOutput ==
    \A s \in Sessions :
        /\ up[s] # None => up[s].kind = "o" /\ up[s].ch \in running[s]
        /\ down[s] # None => down[s].kind # "o"

\* A viewer that is subscribed and asked for the replay has, or has been sent
\* and lost, the header of every running channel.
CaughtUp(got, l, dropped, run) == \A c \in run : HasHeader(l, c, Range(got) \cup dropped)

Streams(v) ==
    LET s == vses[v] IN
    /\ vpc[v] \in {"idle", "subscribe"} => sent[v] = <<>> /\ lost[v] = {}
    /\ s \notin Sessions => sent[v] = <<>> /\ vpc[v] # "stream"
    /\ s \in Sessions =>
        /\ Faithful(Received(v), log[s], lost[v], vreplay[v])
        /\ vreplay[v] /\ ~closed[s] /\ v \in subs[s] /\ vpc[v] = "stream"
             => CaughtUp(Received(v), log[s], lost[v], running[s])

Streamed == \A v \in Viewers : Streams(v)

StreamInv == ChanInv /\ StreamTypeOK /\ HistoryKept /\ UpIsOutput /\ Streamed

\* Nothing is published yet.
LEMMA StreamInit == Init => StreamInv
<1> SUFFICES ASSUME Init PROVE StreamInv OBVIOUS
<1>1. ChanInv BY ChanInit
<1>2. StreamTypeOK BY DEF Init, StreamTypeOK
<1>3. HistoryKept
    <2>1. Range(<<>>) = {} BY DEF Range
    <2>2. Increasing(<<>>) BY DEF Increasing
    <2>3. \A s \in Sessions : history[s] = <<>> /\ running[s] = {} BY Zenon DEF Init
    <2> QED BY <2>1, <2>2, <2>3, Zenon DEF HistoryKept, Remembers
<1>4. UpIsOutput BY Zenon DEF Init, UpIsOutput
<1>5. Streamed
    <2>1. \A v \in Viewers : sent[v] = <<>> /\ lost[v] = {} /\ vses[v] \notin Sessions
                            /\ vpc[v] = "idle"
        BY AdminConstants DEF Init
    <2>2. "idle" # "stream" OBVIOUS
    <2> QED BY <2>1, <2>2, Zenon DEF Streamed, Streams
<1> QED BY <1>1, <1>2, <1>3, <1>4, <1>5, Zenon DEF StreamInv

\* The channel that a frame is the start of.
Starts(f) == IF f.kind = "header" THEN {f.ch} ELSE {}

\* Output is of a running channel, and only the request that a header stands
\* for makes one run.
Forwards(s, f) ==
    /\ f.kind = "o" => f.ch \in running[s]
    /\ \A t \in Sessions :
          running'[t] \subseteq IF t = s THEN running[t] \cup Starts(f) ELSE running[t]

\* A frame goes into the history, which keeps a header of each channel that
\* had one, and gets one of the channel that starts (broadcaster.go:97-109).
LEMMA HistoryGrows ==
    ASSUME StreamInv, NEW s \in Sessions, NEW f \in Frame, ~closed[s],
           NEW run, run \subseteq running[s] \cup Starts(f)
    PROVE  /\ Remember(s, f, Len(log[s]) + 1) \in Seq(Nat)
           /\ Remembers(Remember(s, f, Len(log[s]) + 1), Append(log[s], f), FALSE, run)
<1> DEFINE l == log[s]
           h == history[s]
           n == Len(l) + 1
           m == Append(l, f)
           H == Remember(s, f, n)
<1>1. l \in Seq(Frame) /\ h \in Seq(Nat) BY DEF StreamInv, StreamTypeOK
<1>2. /\ Increasing(h)
      /\ \A i \in Range(h) : i \in DOMAIN l /\ l[i].kind = "header"
      /\ \A c \in running[s] : HasHeader(l, c, Range(h))
    BY Zenon DEF StreamInv, HistoryKept, Remembers
<1>3. /\ DOMAIN m = DOMAIN l \cup {n} /\ n \in Nat /\ m[n] = f
      /\ \A i \in DOMAIN l : i \in Nat /\ i < n /\ m[i] = l[i]
    BY <1>1, LogGrows, Zenon
<1>4. CASE f.kind # "header"
    <2>1. H = h BY <1>4, Zenon DEF Remember
    <2>2. run \subseteq running[s] BY <1>4 DEF Starts
    <2>3. \A i \in Range(h) : i \in DOMAIN m /\ m[i].kind = "header" BY <1>2, <1>3, Zenon
    <2>4. Range(h) \subseteq DOMAIN l /\ Range(h) \subseteq Range(h) BY <1>2, Zenon
    <2>5. \A c \in run : HasHeader(m, c, Range(h)) BY <1>1, <1>2, <2>2, <2>4, HeaderStays, Zenon
    <2> HIDE DEF H, m
    <2> QED BY <1>1, <1>2, <2>1, <2>3, <2>5, Zenon DEF Remembers, H, m
<1>5. CASE f.kind = "header"
    <2> DEFINE O == OfOthers(s, f.ch)
               F == Filter(h, O)
    <2>1. H = Append(F, n) BY <1>5, Zenon DEF Remember
    <2>2. F \in Seq(Nat) /\ Range(F) = Range(h) \cap O BY <1>1, FilterKeeps
    <2>3. Increasing(F) BY <1>1, <1>2, FilterIncreasing, Zenon
    <2>4. O = {i \in DOMAIN l : l[i].ch # f.ch} BY Zenon DEF OfOthers
    <2> HIDE DEF O, F, m, n, l, h, H
    <2>5. \A i \in Range(F) : i < n BY <1>2, <1>3, <2>2, Zenon
    <2>6. H \in Seq(Nat) BY <1>3, <2>1, <2>2
    <2>7. Increasing(H) BY <1>3, <2>1, <2>2, <2>3, <2>5, AppendIncreasing, Zenon
    <2>8. Range(H) = Range(F) \cup {n} BY <1>3, <2>1, <2>2, AppendRange
    <2>9. \A i \in Range(H) : i \in DOMAIN m /\ m[i].kind = "header"
        BY <1>2, <1>3, <1>5, <2>2, <2>8, Zenon
    <2>10. ASSUME NEW c \in run PROVE HasHeader(m, c, Range(H))
        <3>1. CASE c = f.ch BY <1>3, <1>5, <2>8, <3>1, Zenon DEF HasHeader
        <3>2. CASE c # f.ch
            <4>1. c \in running[s] BY <1>5, <3>2 DEF Starts
            <4>2. PICK i \in Range(h) : l[i].kind = "header" /\ l[i].ch = c
                BY <1>2, <4>1, Zenon DEF HasHeader
            <4>3. i \in DOMAIN l BY <1>2, Zenon
            <4>4. i \in O BY <2>4, <3>2, <4>2, <4>3, Zenon
            <4>5. i \in Range(H) BY <2>2, <2>8, <4>4, Zenon
            <4> QED BY <1>3, <4>2, <4>3, <4>5, Zenon DEF HasHeader
        <3> QED BY <3>1, <3>2, Zenon
    <2>11. Remembers(H, m, FALSE, run) BY <2>7, <2>9, <2>10, Zenon DEF Remembers
    <2> QED BY <2>6, <2>11, Zenon DEF H, m, n, l
<1> QED BY <1>4, <1>5, Zenon

\* A frame at the end of the channel is at the end of all there is to get ...
LEMMA ConcatAppend ==
    ASSUME NEW a \in Seq(Nat), NEW b \in Seq(Nat), NEW n \in Nat
    PROVE  a \o Append(b, n) = Append(a \o b, n)
OBVIOUS

\* ... and to send the first one on changes nothing of it.
LEMMA ConcatMove ==
    ASSUME NEW a \in Seq(Nat), NEW b \in Seq(Nat), b # <<>>
    PROVE  /\ Append(a, Head(b)) \o Tail(b) = a \o b
           /\ Append(a, Head(b)) \in Seq(Nat) /\ Tail(b) \in Seq(Nat)
<1>1. /\ Append(a, Head(b)) \in Seq(Nat) /\ Tail(b) \in Seq(Nat) /\ a \o b \in Seq(Nat)
      /\ Append(a, Head(b)) \o Tail(b) \in Seq(Nat)
      /\ Len(b) \in Nat /\ Len(b) > 0 /\ Len(Tail(b)) = Len(b) - 1 /\ Len(a) \in Nat
    OBVIOUS
<1>2. Len(Append(a, Head(b)) \o Tail(b)) = Len(a) + Len(b) /\ Len(a \o b) = Len(a) + Len(b)
    BY <1>1
<1>3. ASSUME NEW i \in 1 .. (Len(a) + Len(b))
      PROVE  (Append(a, Head(b)) \o Tail(b))[i] = (a \o b)[i]
    <2>1. CASE i <= Len(a) BY <1>1, <2>1
    <2>2. CASE i = Len(a) + 1 BY <1>1, <2>2
    <2>3. CASE i > Len(a) + 1 BY <1>1, <2>3
    <2>4. i <= Len(a) \/ i = Len(a) + 1 \/ i > Len(a) + 1 BY <1>1, SMTT(30)
    <2> QED BY <2>1, <2>2, <2>3, <2>4, Zenon
<1> QED BY <1>1, <1>2, <1>3, SMTT(30)

\* What a viewer has and is to get, whatever step is taken by others.
LEMMA ReceivedIs ==
    ASSUME StreamInv, NEW v \in Viewers
    PROVE  /\ vpc[v] = "stream" => Received(v) = sent[v] \o buf[v]
           /\ vpc[v] # "stream" => Received(v) = sent[v]
           /\ Received(v) \in Seq(Nat) /\ sent[v] \in Seq(Nat) /\ buf[v] \in Seq(Nat)
<1>1. sent[v] \in Seq(Nat) /\ buf[v] \in Seq(Nat) BY DEF StreamInv, StreamTypeOK
<1>2. sent[v] \o buf[v] \in Seq(Nat) BY <1>1
<1> QED BY <1>1, <1>2, Zenon DEF Received

\* A step that leaves what is published and what viewers have alone.
LEMMA StreamsKept ==
    ASSUME StreamInv, UNCHANGED <<closed, subs, history, log, running, up, down, vpc, vses,
                                  vreplay, buf, sent, lost>>
    PROVE  HistoryKept' /\ UpIsOutput' /\ Streamed'
<1>1. HistoryKept' BY Zenon DEF StreamInv, HistoryKept
<1>2. UpIsOutput' BY Zenon DEF StreamInv, UpIsOutput
<1>3. Streamed' BY ZenonT(40) DEF StreamInv, Streamed, Streams, Received
<1> QED BY <1>1, <1>2, <1>3, Zenon

\* Publish on an open broadcaster, for one viewer: the frame is the last it
\* gets, or it is dropped (broadcaster.go:110-118).
LEMMA ViewerTakes ==
    ASSUME StreamInv, NEW s \in Sessions, NEW f \in Frame, ~closed[s], Publish(s, f),
           UNCHANGED <<vpc, vses, vreplay, sent>>, Forwards(s, f), NEW v \in Viewers
    PROVE  Streams(v)'
<1> DEFINE l == log[s]
           n == Len(l) + 1
           m == Append(l, f)
           got == Received(v)
<1>1. /\ log' = [log EXCEPT ![s] = Append(@, f)]
      /\ buf' = [w \in Viewers |-> IF w \in Room(s) THEN Append(buf[w], n) ELSE buf[w]]
      /\ lost' = [w \in Viewers |-> IF w \in subs[s] \ Room(s) THEN lost[w] \cup {n} ELSE lost[w]]
      /\ UNCHANGED <<closed, subs, vpc, vses, vreplay, sent>>
    BY Zenon DEF Publish
<1>2. log \in [Sessions -> Seq(Frame)] /\ l \in Seq(Frame) /\ vreplay[v] \in BOOLEAN
    BY DEF StreamInv, StreamTypeOK
<1>3. log'[s] = m /\ \A t \in Sessions : t # s => log'[t] = log[t] BY <1>1, <1>2
<1>4. /\ DOMAIN m = DOMAIN l \cup {n} /\ n \in Nat /\ m[n] = f
      /\ \A i \in DOMAIN l : i \in Nat /\ i < n /\ m[i] = l[i]
    BY <1>2, LogGrows, Zenon
<1>5. Streams(v) BY Zenon DEF StreamInv, Streamed
<1>6. v \in subs[s] => vses[v] = s BY Zenon DEF StreamInv, ChanInv, SubscribedAreOpen
<1>7. /\ vpc[v] = "stream" => got = sent[v] \o buf[v] /\ Received(v)' = sent[v] \o buf'[v]
      /\ vpc[v] # "stream" => got = sent[v] /\ Received(v)' = sent[v]
    BY <1>1, Zenon DEF Received
<1>8. sent[v] \in Seq(Nat) /\ buf[v] \in Seq(Nat) BY ReceivedIs, Zenon
<1>9. vpc[v] \in {"idle", "subscribe"} => sent'[v] = <<>> /\ lost'[v] = {}
    <2>1. vpc[v] \in {"idle", "subscribe"} => v \notin subs[s]
        BY DEF StreamInv, ChanInv, SubscribedAreOpen
    <2> QED BY <1>1, <1>5, <2>1, Zenon DEF Streams
<1>10. CASE vses[v] \notin Sessions
    BY <1>1, <1>5, <1>10, <1>9, Zenon DEF Streams
<1>11. CASE vses[v] \in Sessions /\ vses[v] # s
    <2>1. v \notin subs[s] /\ v \notin Room(s) BY <1>6, <1>11, Zenon DEF Room
    <2>2. buf'[v] = buf[v] /\ lost'[v] = lost[v] BY <1>1, <2>1, Zenon
    <2>3. Received(v)' = got BY <1>7, <2>2, Zenon
    <2>4. log'[vses[v]] = log[vses[v]] /\ running'[vses[v]] \subseteq running[vses[v]]
        BY <1>3, <1>11, Zenon DEF Forwards
    <2> HIDE DEF got
    <2>5. Faithful(Received(v)', log'[vses'[v]], lost'[v], vreplay'[v])
        BY <1>1, <1>5, <1>11, <2>2, <2>3, <2>4, Zenon DEF Streams, got
    <2>6. vreplay[v] /\ ~closed[vses[v]] /\ v \in subs[vses[v]] /\ vpc[v] = "stream"
            => CaughtUp(Received(v)', log'[vses[v]], lost'[v], running'[vses[v]])
        BY <1>5, <1>11, <2>2, <2>3, <2>4, Zenon DEF Streams, got, CaughtUp
    <2> QED BY <1>1, <1>11, <1>9, <2>5, <2>6, Zenon DEF Streams
<1>12. CASE vses[v] = s
    <2> DEFINE new == Received(v)'
    <2>1. Faithful(got, l, lost[v], vreplay[v]) BY <1>5, <1>12, Zenon DEF Streams
    <2>2. CASE vpc[v] = "stream" /\ v \in Room(s)
        <3>1. v \in subs[s] BY <2>2, Zenon DEF Room
        <3>2. buf'[v] = Append(buf[v], n) /\ lost'[v] = lost[v] BY <1>1, <2>2, Zenon
        <3>3. new = Append(got, n)
            <4>1. sent[v] \o Append(buf[v], n) = Append(sent[v] \o buf[v], n)
                BY <1>4, <1>8, ConcatAppend, Zenon
            <4> QED BY <1>7, <2>2, <3>2, <4>1, Zenon
        <3> HIDE DEF got, new
        <3>4. vreplay[v] => CaughtUp(got, l, lost[v], running[s])
            BY <1>5, <1>12, <2>2, <3>1, Zenon DEF Streams, got
        <3>5. vreplay[v] /\ f.kind = "o" => HasHeader(l, f.ch, Range(got) \cup lost[v])
            BY <3>4, Zenon DEF CaughtUp, Forwards
        <3>6. Faithful(Append(got, n), m, lost[v], vreplay[v])
            BY <1>2, <2>1, <3>5, FaithfulTakes, Zenon
        <3>7. got \in Seq(Nat) /\ Range(got) \cup lost[v] \subseteq DOMAIN l BY <2>1, Zenon DEF Faithful
        <3>8. Range(new) = Range(got) \cup {n} BY <1>4, <3>3, <3>7, AppendRange
        <3>9. ASSUME vreplay[v], NEW c \in running'[s]
              PROVE  HasHeader(m, c, Range(new) \cup lost[v])
            <4>1. CASE c \in running[s]
                <5>1. Range(got) \cup lost[v] \subseteq Range(new) \cup lost[v] BY <3>8, Zenon
                <5> QED BY <1>2, <3>4, <3>7, <3>9, <4>1, <5>1, HeaderStays, Zenon DEF CaughtUp
            <4>2. CASE c \notin running[s]
                <5>1. c \in Starts(f) BY <3>9, <4>2, Zenon DEF Forwards
                <5>2. f.kind = "header" /\ c = f.ch BY <5>1 DEF Starts
                <5> QED BY <1>4, <3>8, <5>2, Zenon DEF HasHeader
            <4> QED BY <4>1, <4>2, Zenon
        <3>10. vreplay[v] => CaughtUp(new, m, lost[v], running'[s]) BY <3>9, Zenon DEF CaughtUp
        <3>11. ~(vpc[v] \in {"idle", "subscribe"}) BY <2>2
        <3> QED BY <1>1, <1>3, <1>12, <3>2, <3>3, <3>6, <3>10, <3>11, Zenon DEF Streams, new
    <2>3. CASE ~(vpc[v] = "stream" /\ v \in Room(s))
        <3>1. new = got BY <1>1, <1>7, <2>3, Zenon
        <3>2. /\ lost'[v] = lost[v] \/ lost'[v] = lost[v] \cup {n}
              /\ vpc[v] = "stream" /\ v \in subs[s] => lost'[v] = lost[v] \cup {n}
            BY <1>1, <2>3, Zenon
        <3> HIDE DEF got, new
        <3>3. Faithful(got, m, lost'[v], vreplay[v])
            BY <1>2, <2>1, <3>2, FaithfulStays, Zenon
        <3>4. Range(got) \cup lost[v] \subseteq DOMAIN l BY <2>1, Zenon DEF Faithful
        <3>5. ASSUME vreplay[v], ~closed[s], v \in subs[s], vpc[v] = "stream", NEW c \in running'[s]
              PROVE  HasHeader(m, c, Range(got) \cup lost'[v])
            <4>1. CaughtUp(got, l, lost[v], running[s])
                BY <1>5, <1>12, <3>5, Zenon DEF Streams, got
            <4>2. lost'[v] = lost[v] \cup {n} BY <3>2, <3>5, Zenon
            <4>3. CASE c \in running[s]
                <5>1. Range(got) \cup lost[v] \subseteq Range(got) \cup lost'[v] BY <3>2, Zenon
                <5> QED BY <1>2, <3>4, <4>1, <4>3, <5>1, HeaderStays, Zenon DEF CaughtUp
            <4>4. CASE c \notin running[s]
                <5>1. c \in Starts(f) BY <3>5, <4>4, Zenon DEF Forwards
                <5>2. f.kind = "header" /\ c = f.ch BY <5>1 DEF Starts
                <5> QED BY <1>4, <3>2, <4>2, <5>2, Zenon DEF HasHeader
            <4> QED BY <4>3, <4>4, Zenon
        <3>6. vreplay[v] /\ ~closed[s] /\ v \in subs[s] /\ vpc[v] = "stream"
                => CaughtUp(new, m, lost'[v], running'[s])
            BY <3>1, <3>5, Zenon DEF CaughtUp
        <3> QED BY <1>1, <1>3, <1>12, <1>9, <3>1, <3>2, <3>3, <3>6, Zenon DEF Streams, new
    <2> QED BY <2>2, <2>3, Zenon
<1> QED BY <1>10, <1>11, <1>12, Zenon

\* Publish keeps the history and what viewers get as they should be; a closed
\* broadcaster publishes nothing (broadcaster.go:88-119).
LEMMA PublishStreams ==
    ASSUME StreamInv, NEW s \in Sessions, NEW f \in Frame, Publish(s, f),
           UNCHANGED <<vpc, vses, vreplay, sent>>, Forwards(s, f)
    PROVE  /\ log' \in [Sessions -> Seq(Frame)] /\ history' \in [Sessions -> Seq(Nat)]
           /\ buf' \in [Viewers -> Seq(Nat)] /\ lost' \in [Viewers -> SUBSET Nat]
           /\ HistoryKept' /\ Streamed'
<1>1. CASE closed[s]
    <2>1. UNCHANGED <<closed, subs, history, log, buf, lost>>
        BY <1>1, Zenon DEF Publish, bcVars
    <2>2. \A t \in Sessions : t # s => running'[t] \subseteq running[t] BY Zenon DEF Forwards
    <2>3. HistoryKept'
        BY <1>1, <2>1, <2>2, ZenonT(40) DEF StreamInv, HistoryKept, Remembers
    <2>4. ASSUME NEW v \in Viewers PROVE Streams(v)'
        <3>1. Received(v)' = Received(v) BY <2>1, Zenon DEF Received
        <3>2. Streams(v) BY Zenon DEF StreamInv, Streamed
        <3>3. ASSUME vses[v] \in Sessions, ~closed[vses[v]],
                     CaughtUp(Received(v), log[vses[v]], lost[v], running[vses[v]])
              PROVE  CaughtUp(Received(v)', log'[vses[v]], lost'[v], running'[vses[v]])
            BY <1>1, <2>1, <2>2, <3>1, <3>3, Zenon DEF CaughtUp
        <3> QED BY <2>1, <3>1, <3>2, <3>3, ZenonT(40) DEF Streams
    <2>5. Streamed' BY <2>4, Zenon DEF Streamed
    <2> QED BY <2>1, <2>3, <2>5, ZenonT(40) DEF StreamInv, StreamTypeOK
<1>2. CASE ~closed[s]
    <2> DEFINE n == Len(log[s]) + 1
    <2>1. /\ log' = [log EXCEPT ![s] = Append(@, f)]
          /\ history' = [history EXCEPT ![s] = Remember(s, f, n)]
          /\ buf' = [w \in Viewers |-> IF w \in Room(s) THEN Append(buf[w], n) ELSE buf[w]]
          /\ lost' = [w \in Viewers |-> IF w \in subs[s] \ Room(s) THEN lost[w] \cup {n} ELSE lost[w]]
          /\ UNCHANGED <<closed, subs>>
        BY <1>2, Zenon DEF Publish
    <2>2. /\ log \in [Sessions -> Seq(Frame)] /\ history \in [Sessions -> Seq(Nat)]
          /\ buf \in [Viewers -> Seq(Nat)] /\ lost \in [Viewers -> SUBSET Nat]
        BY Zenon DEF StreamInv, StreamTypeOK
    <2>3. n \in Nat BY <2>2
    <2>4. running'[s] \subseteq running[s] \cup Starts(f) BY Zenon DEF Forwards
    <2>5. /\ Remember(s, f, n) \in Seq(Nat)
          /\ Remembers(Remember(s, f, n), Append(log[s], f), FALSE, running'[s])
        BY <1>2, <2>4, HistoryGrows, Zenon
    <2> HIDE DEF n
    <2>6. log' \in [Sessions -> Seq(Frame)] BY <2>1, <2>2
    <2>7. history' \in [Sessions -> Seq(Nat)] BY <2>1, <2>2, <2>5
    <2>8. buf' \in [Viewers -> Seq(Nat)] BY <2>1, <2>2, <2>3
    <2>9. lost' \in [Viewers -> SUBSET Nat] BY <2>1, <2>2, <2>3
    <2>10. ASSUME NEW t \in Sessions
           PROVE  Remembers(history'[t], log'[t], closed'[t], running'[t])
        <3>1. CASE t = s
            <4>1. history'[t] = Remember(s, f, n) /\ log'[t] = Append(log[s], f)
                BY <2>1, <2>2, <3>1, Zenon
            <4> QED BY <1>2, <2>1, <2>5, <3>1, <4>1, Zenon DEF Remembers
        <3>2. CASE t # s
            <4>1. history'[t] = history[t] /\ log'[t] = log[t] BY <2>1, <2>2, <3>2, Zenon
            <4>2. running'[t] \subseteq running[t] BY <3>2, Zenon DEF Forwards
            <4> QED BY <2>1, <4>1, <4>2, Zenon DEF StreamInv, HistoryKept, Remembers
        <3> QED BY <3>1, <3>2, Zenon
    <2>11. HistoryKept' BY <2>10, Zenon DEF HistoryKept
    <2>12. Streamed' BY <1>2, ViewerTakes, Zenon DEF Streamed
    <2> QED BY <2>6, <2>7, <2>8, <2>9, <2>11, <2>12, Zenon
<1> QED BY <1>1, <1>2, Zenon

\* Output is published, after a viewer was seen and without its being seen
\* again (streamhook.go, the up direction).
LEMMA UpPublishStreams ==
    ASSUME StreamInv, NEW s \in Sessions, UpPublish(s)
    PROVE  StreamInv'
<1> DEFINE f == up[s]
<1>1. /\ up[s] # None /\ Publish(s, f) /\ up' = [up EXCEPT ![s] = None]
      /\ UNCHANGED <<running, down, vpc, vses, vreplay, sent>>
    BY Zenon DEF UpPublish
<1>2. up \in [Sessions -> Frame \cup {None}] BY Zenon DEF StreamInv, StreamTypeOK
<1>3. f \in Frame BY <1>1, <1>2, Zenon
<1>4. f.kind = "o" /\ f.ch \in running[s] BY <1>1, Zenon DEF StreamInv, UpIsOutput
<1> HIDE DEF f
<1>5. Forwards(s, f)
    <2>1. running' = running BY <1>1, Zenon
    <2> QED BY <1>4, <2>1, Zenon DEF Forwards
<1>6. /\ log' \in [Sessions -> Seq(Frame)] /\ history' \in [Sessions -> Seq(Nat)]
      /\ buf' \in [Viewers -> Seq(Nat)] /\ lost' \in [Viewers -> SUBSET Nat]
      /\ HistoryKept' /\ Streamed'
    BY <1>1, <1>3, <1>5, PublishStreams, Zenon
<1>7. up' \in [Sessions -> Frame \cup {None}] BY <1>1, <1>2
<1>8. StreamTypeOK' BY <1>1, <1>6, <1>7, ZenonT(40) DEF StreamInv, StreamTypeOK
<1>9. UpIsOutput'
    <2>1. ASSUME NEW t \in Sessions, up'[t] # None
          PROVE  up'[t].kind = "o" /\ up'[t].ch \in running'[t]
        <3>1. up'[t] = up[t] BY <1>1, <1>2, <2>1, Zenon
        <3> QED BY <1>1, <2>1, <3>1, Zenon DEF StreamInv, UpIsOutput
    <2>2. ASSUME NEW t \in Sessions, down'[t] # None PROVE down'[t].kind # "o"
        BY <1>1, <2>2, Zenon DEF StreamInv, UpIsOutput
    <2> QED BY <2>1, <2>2, Zenon DEF UpIsOutput
<1>10. ChanInv' BY <1>1, PublishKeeps, Zenon DEF StreamInv
<1> QED BY <1>6, <1>8, <1>9, <1>10, Zenon DEF StreamInv

\* A header or a resize is published, and only then the request forwarded.
LEMMA DownPublishStreams ==
    ASSUME StreamInv, NEW s \in Sessions, DownPublish(s)
    PROVE  StreamInv'
<1> DEFINE f == down[s]
<1>1. /\ down[s] # None /\ Publish(s, f) /\ down' = [down EXCEPT ![s] = None]
      /\ running' = [running EXCEPT ![s] = IF f.kind = "header" THEN @ \cup {f.ch} ELSE @]
      /\ UNCHANGED <<up, vpc, vses, vreplay, sent>>
    BY Zenon DEF DownPublish
<1>2. down \in [Sessions -> Frame \cup {None}] /\ running \in [Sessions -> SUBSET Channels]
    BY Zenon DEF StreamInv, StreamTypeOK
<1>3. f \in Frame BY <1>1, <1>2, Zenon
<1>4. f.kind # "o" BY <1>1, Zenon DEF StreamInv, UpIsOutput
<1> HIDE DEF f
<1>5. \A t \in Sessions :
        running'[t] = IF t = s THEN running[t] \cup Starts(f) ELSE running[t]
    BY <1>1, <1>2 DEF Starts
<1>6. Forwards(s, f) BY <1>4, <1>5, Zenon DEF Forwards
<1>7. /\ log' \in [Sessions -> Seq(Frame)] /\ history' \in [Sessions -> Seq(Nat)]
      /\ buf' \in [Viewers -> Seq(Nat)] /\ lost' \in [Viewers -> SUBSET Nat]
      /\ HistoryKept' /\ Streamed'
    BY <1>1, <1>3, <1>6, PublishStreams, Zenon
<1>8. down' \in [Sessions -> Frame \cup {None}] BY <1>1, <1>2
<1>9. running' \in [Sessions -> SUBSET Channels] BY <1>1, <1>2, <1>3 DEF Frame
<1>10. StreamTypeOK' BY <1>1, <1>7, <1>8, <1>9, ZenonT(40) DEF StreamInv, StreamTypeOK
<1>11. UpIsOutput'
    <2>1. \A t \in Sessions : running[t] \subseteq running'[t] BY <1>5, Zenon
    <2>2. \A t \in Sessions : down'[t] # None => down'[t] = down[t] BY <1>1, <1>2, Zenon
    <2> QED BY <1>1, <2>1, <2>2, Zenon DEF StreamInv, UpIsOutput
<1>12. ChanInv' BY <1>1, PublishKeeps, Zenon DEF StreamInv
<1> QED BY <1>7, <1>10, <1>11, <1>12, Zenon DEF StreamInv

\* The history as a viewer that subscribes gets it: the first k headers into
\* its channel, the others dropped (broadcaster.go:62-72).
LEMMA ReplaySplits ==
    ASSUME NEW h \in Seq(Nat), NEW k \in 0 .. Len(h)
    PROVE  /\ SubSeq(h, 1, k) \in Seq(Nat)
           /\ Range(SubSeq(h, 1, k)) \cup Range(SubSeq(h, k + 1, Len(h))) = Range(h)
           /\ Increasing(h) => Increasing(SubSeq(h, 1, k))
<1> DEFINE a == SubSeq(h, 1, k)
           b == SubSeq(h, k + 1, Len(h))
<1>1. /\ a \in Seq(Nat) /\ DOMAIN a = 1 .. k /\ \A i \in 1 .. k : a[i] = h[i]
      /\ DOMAIN h = 1 .. Len(h) /\ Len(h) \in Nat
    OBVIOUS
<1>2. DOMAIN b = 1 .. (Len(h) - k) /\ \A i \in 1 .. (Len(h) - k) : b[i] = h[k + i]
    OBVIOUS
<1> HIDE DEF a, b
<1>3. Range(a) = {h[i] : i \in 1 .. k} BY <1>1, Zenon DEF Range
<1>4. Range(b) = {h[k + i] : i \in 1 .. (Len(h) - k)} BY <1>2, Zenon DEF Range
<1>5. Range(h) = {h[i] : i \in 1 .. Len(h)} BY <1>1, Zenon DEF Range
<1>6. ASSUME NEW i \in 1 .. Len(h) PROVE h[i] \in Range(a) \cup Range(b)
    <2>1. CASE i <= k BY <1>3, <2>1
    <2>2. CASE i > k
        <3>1. i - k \in 1 .. (Len(h) - k) /\ k + (i - k) = i BY <2>2
        <3> QED BY <1>4, <3>1
    <2> QED BY <2>1, <2>2
<1>7. Range(a) \subseteq Range(h)
    <2>1. \A i \in 1 .. k : i \in 1 .. Len(h) OBVIOUS
    <2> QED BY <1>3, <1>5, <2>1, Zenon
<1>8. Range(b) \subseteq Range(h)
    <2>1. \A i \in 1 .. (Len(h) - k) : k + i \in 1 .. Len(h) OBVIOUS
    <2> QED BY <1>4, <1>5, <2>1, Zenon
<1>9. Range(a) \cup Range(b) = Range(h) BY <1>5, <1>6, <1>7, <1>8, Zenon
<1>10. Increasing(h) => Increasing(a) BY <1>1 DEF Increasing
<1> QED BY <1>1, <1>9, <1>10, Zenon DEF a, b

\* Who has got nothing has got nothing wrong.
LEMMA NothingGot ==
    ASSUME NEW l, NEW dropped, dropped \subseteq DOMAIN l, NEW replay
    PROVE  Faithful(<<>>, l, dropped, replay)
<1>1. DOMAIN <<>> = {} /\ Range(<<>>) = {} /\ <<>> \in Seq(Nat) BY DEF Range
<1>2. Increasing(<<>>) BY DEF Increasing
<1> QED BY <1>1, <1>2, Zenon DEF Faithful, Headed

\* The replayed history is faithful, and leaves no running channel out.
LEMMA ReplayFaithful ==
    ASSUME NEW h \in Seq(Nat), NEW l \in Seq(Frame), NEW run, Remembers(h, l, FALSE, run),
           NEW k \in 0 .. Len(h), NEW replay
    PROVE  LET got == SubSeq(h, 1, k)
               rest == Range(SubSeq(h, k + 1, Len(h)))
           IN Faithful(got, l, rest, replay) /\ CaughtUp(got, l, rest, run)
<1> DEFINE got == SubSeq(h, 1, k)
           rest == Range(SubSeq(h, k + 1, Len(h)))
<1>1. /\ got \in Seq(Nat) /\ Range(got) \cup rest = Range(h)
      /\ Increasing(h) => Increasing(got)
    BY ReplaySplits, Zenon
<1> HIDE DEF got, rest
<1>2. /\ Increasing(h)
      /\ \A n \in Range(h) : n \in DOMAIN l /\ l[n].kind = "header"
      /\ \A c \in run : HasHeader(l, c, Range(h))
    BY Zenon DEF Remembers
<1>3. \A j \in DOMAIN got : l[got[j]].kind = "header" BY <1>1, <1>2, Zenon DEF Range
<1>4. Headed(got, l, rest)
    <2>1. "header" # "o" OBVIOUS
    <2> QED BY <1>3, <2>1, Zenon DEF Headed
<1>5. Faithful(got, l, rest, replay) BY <1>1, <1>2, <1>4, Zenon DEF Faithful
<1>6. CaughtUp(got, l, rest, run) BY <1>1, <1>2, Zenon DEF CaughtUp
<1> QED BY <1>5, <1>6, Zenon DEF got, rest

\* The steps of one viewer leave the others' streams alone.
LEMMA OthersStream ==
    ASSUME StreamInv, NEW v \in Viewers, NEW w \in Viewers, w # v,
           UNCHANGED <<closed, log, running>>,
           \A t \in Sessions : w \in subs'[t] => w \in subs[t],
           vpc'[w] = vpc[w], vses'[w] = vses[w], vreplay'[w] = vreplay[w],
           buf'[w] = buf[w], sent'[w] = sent[w], lost'[w] = lost[w]
    PROVE  Streams(w)'
<1>1. Streams(w) BY Zenon DEF StreamInv, Streamed
<1>2. Received(w)' = Received(w) BY Zenon DEF Received
<1> QED BY <1>1, <1>2, ZenonT(40) DEF Streams

\* A viewer subscribes, with or without the replay.
LEMMA SubscribeStreams ==
    ASSUME StreamInv, NEW v \in Viewers, Subscribe(v)
    PROVE  StreamInv'
<1> DEFINE s == vses[v]
           h == history[s]
           k == IF Len(h) < Capacity THEN Len(h) ELSE Capacity
           replayed == vreplay[v] /\ ~closed[s]
<1>1. /\ vpc[v] = "subscribe"
      /\ vpc' = [vpc EXCEPT ![v] = "stream"]
      /\ subs' = IF closed[s] THEN subs ELSE [subs EXCEPT ![s] = @ \cup {v}]
      /\ buf' = [buf EXCEPT ![v] = IF replayed THEN SubSeq(h, 1, k) ELSE <<>>]
      /\ lost' = [lost EXCEPT ![v] =
                    IF replayed THEN Range(SubSeq(h, k + 1, Len(h))) ELSE {}]
      /\ UNCHANGED <<closed, history, log, running, up, down, vses, vreplay, sent>>
    BY Zenon DEF Subscribe, hookVars
<1>2. s \in Sessions BY <1>1, Zenon DEF StreamInv, ChanInv, ChanTypeOK
<1>3. h \in Seq(Nat) /\ log[s] \in Seq(Frame) BY <1>2, Zenon DEF StreamInv, StreamTypeOK
<1>4. k \in 0 .. Len(h) BY <1>3, AdminConstants
<1>5. sent[v] = <<>> /\ sent'[v] = <<>>
    <2>1. vpc[v] \in {"idle", "subscribe"} BY <1>1
    <2> QED BY <1>1, <2>1, Zenon DEF StreamInv, Streamed, Streams
<1>6. /\ vpc \in [Viewers -> {"idle", "subscribe", "stream", "cancel", "done"}]
      /\ subs \in [Sessions -> SUBSET Viewers]
      /\ buf \in [Viewers -> Seq(Nat)] /\ lost \in [Viewers -> SUBSET Nat]
    BY Zenon DEF StreamInv, StreamTypeOK, ChanInv, ChanTypeOK
<1> HIDE DEF s, k, h
<1>7. /\ vpc'[v] = "stream"
      /\ buf'[v] = IF replayed THEN SubSeq(h, 1, k) ELSE <<>>
      /\ lost'[v] = IF replayed THEN Range(SubSeq(h, k + 1, Len(h))) ELSE {}
    BY <1>1, <1>6, Zenon
<1>8. Remembers(h, log[s], FALSE, running[s]) \/ closed[s]
    BY <1>2, Zenon DEF StreamInv, HistoryKept, Remembers, h
<1>9. ~closed[s] => /\ Faithful(SubSeq(h, 1, k), log[s], Range(SubSeq(h, k + 1, Len(h))), vreplay[v])
                    /\ CaughtUp(SubSeq(h, 1, k), log[s], Range(SubSeq(h, k + 1, Len(h))), running[s])
    BY <1>3, <1>4, <1>8, ReplayFaithful, Zenon
<1>10. buf'[v] \in Seq(Nat) BY <1>3, <1>4, <1>7
<1>11. Received(v)' = buf'[v]
    <2>1. Received(v)' = <<>> \o buf'[v] BY <1>5, <1>7, Zenon DEF Received
    <2> QED BY <1>10, <2>1
<1>12. lost'[v] \in SUBSET Nat /\ Faithful(buf'[v], log[s], lost'[v], vreplay[v])
       /\ (vreplay[v] /\ ~closed[s] => CaughtUp(buf'[v], log[s], lost'[v], running[s]))
    <2>1. DOMAIN log[s] \subseteq Nat BY <1>3
    <2>2. CASE replayed
        <3>1. Range(SubSeq(h, k + 1, Len(h))) \subseteq DOMAIN log[s]
            BY <1>9, <2>2, Zenon DEF Faithful
        <3> QED BY <1>7, <1>9, <2>1, <2>2, <3>1, Zenon
    <2>3. CASE ~replayed
        BY <1>7, <2>3, NothingGot, Zenon
    <2> QED BY <2>2, <2>3, Zenon
<1>13. Streams(v)'
    <2>1. vses'[v] = s /\ ~(vpc'[v] \in {"idle", "subscribe"}) BY <1>1, <1>7 DEF s
    <2> QED BY <1>1, <1>2, <1>11, <1>12, <2>1, Zenon DEF Streams
<1>14. ASSUME NEW w \in Viewers, w # v PROVE Streams(w)'
    <2>1. vpc'[w] = vpc[w] /\ buf'[w] = buf[w] /\ lost'[w] = lost[w] BY <1>1, <1>6, <1>14, Zenon
    <2>2. \A t \in Sessions : w \in subs'[t] => w \in subs[t] BY <1>1, <1>6, <1>14, Zenon
    <2> QED BY <1>1, <1>14, <2>1, <2>2, OthersStream, Zenon
<1>15. Streamed' BY <1>13, <1>14, Zenon DEF Streamed
<1>16. buf' \in [Viewers -> Seq(Nat)] BY <1>1, <1>6, <1>7, <1>10, SMTT(30)
<1>17. lost' \in [Viewers -> SUBSET Nat] BY <1>1, <1>6, <1>7, <1>12
<1>18. StreamTypeOK' BY <1>1, <1>16, <1>17, ZenonT(40) DEF StreamInv, StreamTypeOK
<1>19. HistoryKept' /\ UpIsOutput'
    BY <1>1, ZenonT(40) DEF StreamInv, HistoryKept, UpIsOutput
<1>20. ChanInv' BY SubscribeKeeps, Zenon DEF StreamInv
<1> QED BY <1>15, <1>18, <1>19, <1>20, Zenon DEF StreamInv

\* A step of viewer v that only moves its control and its frames on.
LEMMA ViewerStreams ==
    ASSUME StreamInv, ChanInv', NEW v \in Viewers, Streams(v)',
           UNCHANGED <<closed, history, log, running, up, down>>,
           \A t \in Sessions : subs'[t] \subseteq subs[t],
           vreplay' \in [Viewers -> BOOLEAN], buf' \in [Viewers -> Seq(Nat)],
           sent' \in [Viewers -> Seq(Nat)], lost' \in [Viewers -> SUBSET Nat],
           \A w \in Viewers : w # v =>
               /\ vpc'[w] = vpc[w] /\ vses'[w] = vses[w] /\ vreplay'[w] = vreplay[w]
               /\ buf'[w] = buf[w] /\ sent'[w] = sent[w] /\ lost'[w] = lost[w]
    PROVE  StreamInv'
<1>1. ASSUME NEW w \in Viewers, w # v PROVE Streams(w)'
    <2>1. /\ vpc'[w] = vpc[w] /\ vses'[w] = vses[w] /\ vreplay'[w] = vreplay[w]
          /\ buf'[w] = buf[w] /\ sent'[w] = sent[w] /\ lost'[w] = lost[w]
        BY <1>1, Zenon
    <2>2. \A t \in Sessions : w \in subs'[t] => w \in subs[t] BY Zenon
    <2> QED BY <1>1, <2>1, <2>2, OthersStream, Zenon
<1>2. Streamed' BY <1>1, Zenon DEF Streamed
<1>3. StreamTypeOK' BY ZenonT(40) DEF StreamInv, StreamTypeOK
<1>4. HistoryKept' /\ UpIsOutput' BY ZenonT(40) DEF StreamInv, HistoryKept, UpIsOutput
<1> QED BY <1>2, <1>3, <1>4, Zenon DEF StreamInv

\* A frame is sent on, or sending it fails and the call ends (server.go:107-114).
LEMMA ForwardStreams ==
    ASSUME StreamInv, NEW v \in Viewers, NEW ok \in BOOLEAN, Forward(v, ok), ChanInv'
    PROVE  StreamInv'
<1> DEFINE s == vses[v]
<1>1. /\ vpc[v] = "stream" /\ buf[v] # <<>>
      /\ buf' = [buf EXCEPT ![v] = Tail(@)]
      /\ sent' = IF ok THEN [sent EXCEPT ![v] = Append(@, Head(buf[v]))] ELSE sent
      /\ vpc' = IF ok THEN vpc ELSE [vpc EXCEPT ![v] = "cancel"]
      /\ UNCHANGED <<closed, subs, history, log, running, up, down, vses, vreplay, lost>>
    BY Zenon DEF Forward, bcVars, hookVars
<1>2. /\ vpc \in [Viewers -> {"idle", "subscribe", "stream", "cancel", "done"}]
      /\ vreplay \in [Viewers -> BOOLEAN] /\ lost \in [Viewers -> SUBSET Nat]
      /\ buf \in [Viewers -> Seq(Nat)] /\ sent \in [Viewers -> Seq(Nat)]
    BY Zenon DEF StreamInv, StreamTypeOK, ChanInv, ChanTypeOK
<1>3. sent[v] \in Seq(Nat) /\ buf[v] \in Seq(Nat) BY <1>2, Zenon
<1>4. s \in Sessions BY <1>1, Zenon DEF StreamInv, ChanInv, ChanTypeOK
<1>5. /\ Append(sent[v], Head(buf[v])) \o Tail(buf[v]) = sent[v] \o buf[v]
      /\ Append(sent[v], Head(buf[v])) \in Seq(Nat) /\ Tail(buf[v]) \in Seq(Nat)
    BY <1>1, <1>3, ConcatMove, Zenon
<1>6. buf' \in [Viewers -> Seq(Nat)] /\ buf'[v] = Tail(buf[v]) BY <1>1, <1>2, <1>5
<1>7. sent' \in [Viewers -> Seq(Nat)] BY <1>1, <1>2, <1>5
<1>8. Streams(v) /\ Received(v) = sent[v] \o buf[v]
    BY <1>1, Zenon DEF StreamInv, Streamed, Received
<1>9. Faithful(sent[v] \o buf[v], log[s], lost[v], vreplay[v])
    BY <1>4, <1>8, Zenon DEF Streams
<1>10. Streams(v)'
    <2>1. CASE ok
        <3>1. sent'[v] = Append(sent[v], Head(buf[v])) /\ vpc' = vpc BY <1>1, <1>2, <2>1, Zenon
        <3>2. Received(v)' = Received(v) BY <1>1, <1>5, <1>6, <1>8, <3>1, Zenon DEF Received
        <3>3. ~(vpc'[v] \in {"idle", "subscribe"}) BY <1>1, <3>1
        <3> QED BY <1>1, <1>4, <1>8, <3>1, <3>2, <3>3, Zenon DEF Streams
    <2>2. CASE ~ok
        <3>1. sent'[v] = sent[v] /\ vpc'[v] = "cancel" BY <1>1, <1>2, <2>2, Zenon
        <3>2. vpc'[v] # "stream" /\ ~(vpc'[v] \in {"idle", "subscribe"}) BY <3>1
        <3>3. Received(v)' = sent[v] BY <3>1, <3>2, Zenon DEF Received
        <3>4. Faithful(sent[v], log[s], lost[v], vreplay[v]) BY <1>3, <1>9, FaithfulPrefix, Zenon
        <3> QED BY <1>1, <1>4, <3>2, <3>3, <3>4, Zenon DEF Streams
    <2> QED BY <2>1, <2>2, Zenon
<1>11. \A w \in Viewers : w # v =>
          /\ vpc'[w] = vpc[w] /\ vses'[w] = vses[w] /\ vreplay'[w] = vreplay[w]
          /\ buf'[w] = buf[w] /\ sent'[w] = sent[w] /\ lost'[w] = lost[w]
    BY <1>1, <1>2, Zenon
<1>12. \A t \in Sessions : subs'[t] \subseteq subs[t] BY <1>1, Zenon
<1>13. vreplay' \in [Viewers -> BOOLEAN] /\ lost' \in [Viewers -> SUBSET Nat]
    BY <1>1, <1>2, Zenon
<1> QED BY <1>1, <1>6, <1>7, <1>10, <1>11, <1>12, <1>13, ViewerStreams, ZenonT(40)

\* The call ends: what counts from now on is what was sent.
LEMMA EndStreams ==
    ASSUME StreamInv, ChanInv', NEW v \in Viewers, vpc[v] \in {"stream", "cancel"},
           NEW p \in {"cancel", "done"}, vpc' = [vpc EXCEPT ![v] = p],
           \A t \in Sessions : subs'[t] \subseteq subs[t],
           UNCHANGED <<closed, history, log, running, up, down, vses, vreplay, buf, sent, lost>>
    PROVE  StreamInv'
<1> DEFINE s == vses[v]
<1>1. /\ vpc \in [Viewers -> {"idle", "subscribe", "stream", "cancel", "done"}]
      /\ vreplay \in [Viewers -> BOOLEAN] /\ lost \in [Viewers -> SUBSET Nat]
      /\ buf \in [Viewers -> Seq(Nat)] /\ sent \in [Viewers -> Seq(Nat)]
    BY Zenon DEF StreamInv, StreamTypeOK, ChanInv, ChanTypeOK
<1>2. s \in Sessions
    <2>1. vpc[v] \in {"subscribe", "stream", "cancel"} OBVIOUS
    <2> QED BY <2>1, Zenon DEF StreamInv, ChanInv, ChanTypeOK
<1>3. sent[v] \in Seq(Nat) /\ buf[v] \in Seq(Nat) BY <1>1, Zenon
<1>4. Faithful(Received(v), log[s], lost[v], vreplay[v])
    BY <1>2, Zenon DEF StreamInv, Streamed, Streams
<1>5. Faithful(sent[v], log[s], lost[v], vreplay[v])
    BY <1>3, <1>4, FaithfulPrefix, Zenon DEF Received
<1>6. vpc'[v] = p /\ p # "stream" /\ ~(p \in {"idle", "subscribe"}) BY <1>1
<1>7. Received(v)' = sent[v] BY <1>6, Zenon DEF Received
<1>8. Streams(v)' BY <1>2, <1>5, <1>6, <1>7, Zenon DEF Streams
<1>9. \A w \in Viewers : w # v => vpc'[w] = vpc[w] BY <1>1, Zenon
<1> QED BY <1>1, <1>8, <1>9, ViewerStreams, ZenonT(40)

\* A call begins, on a session or without one.
LEMMA BeginStreams ==
    ASSUME StreamInv, ChanInv', NEW v \in Viewers, NEW s \in Sessions, NEW r \in BOOLEAN,
           StreamSession(v, s, r)
    PROVE  StreamInv'
<1>1. /\ vpc[v] = "idle"
      /\ vpc' = [vpc EXCEPT ![v] = IF phase[s] = "live" THEN "subscribe" ELSE "done"]
      /\ vses' = [vses EXCEPT ![v] = IF phase[s] = "live" THEN s ELSE None]
      /\ vreplay' = [vreplay EXCEPT ![v] = r /\ phase[s] = "live"]
      /\ UNCHANGED <<closed, subs, history, log, running, up, down, buf, sent, lost>>
    BY Zenon DEF StreamSession, bcVars, hookVars
<1>2. /\ vpc \in [Viewers -> {"idle", "subscribe", "stream", "cancel", "done"}]
      /\ vses \in [Viewers -> Sessions \cup {None}]
      /\ vreplay \in [Viewers -> BOOLEAN] /\ lost \in [Viewers -> SUBSET Nat]
      /\ buf \in [Viewers -> Seq(Nat)] /\ sent \in [Viewers -> Seq(Nat)]
    BY Zenon DEF StreamInv, StreamTypeOK, ChanInv, ChanTypeOK
<1>3. sent[v] = <<>> /\ lost[v] = {}
    <2>1. vpc[v] \in {"idle", "subscribe"} BY <1>1
    <2> QED BY <2>1, Zenon DEF StreamInv, Streamed, Streams
<1>4. vpc'[v] # "stream" BY <1>1, <1>2
<1>5. Received(v)' = <<>> BY <1>1, <1>3, <1>4, Zenon DEF Received
<1>6. \A t \in Sessions : Faithful(<<>>, log[t], {}, vreplay'[v]) BY NothingGot, Zenon
<1>7. Streams(v)' BY <1>1, <1>3, <1>4, <1>5, <1>6, Zenon DEF Streams
<1>8. vreplay' \in [Viewers -> BOOLEAN] BY <1>1, <1>2
<1>9. \A w \in Viewers : w # v =>
          vpc'[w] = vpc[w] /\ vses'[w] = vses[w] /\ vreplay'[w] = vreplay[w]
    BY <1>1, <1>2, Zenon
<1>10. \A t \in Sessions : subs'[t] \subseteq subs[t] BY <1>1, Zenon
<1> QED BY <1>1, <1>2, <1>7, <1>8, <1>9, <1>10, ViewerStreams, ZenonT(40)

\* The broadcaster is closed: nothing is promised of what runs after it.
LEMMA CloseStreams ==
    ASSUME StreamInv, NEW s \in Sessions, CloseBroadcaster(s)
    PROVE  StreamInv'
<1>1. /\ closed' = [closed EXCEPT ![s] = TRUE] /\ subs' = [subs EXCEPT ![s] = {}]
      /\ UNCHANGED <<history, log, running, up, down, vpc, vses, vreplay, buf, sent, lost>>
    BY Zenon DEF CloseBroadcaster, hookVars
<1>2. closed \in [Sessions -> BOOLEAN] /\ subs \in [Sessions -> SUBSET Viewers]
    BY Zenon DEF StreamInv, ChanInv, ChanTypeOK
<1>3. \A t \in Sessions : ~closed'[t] => ~closed[t] /\ subs'[t] = subs[t] BY <1>1, <1>2, Zenon
<1>4. ChanInv' BY CloseKeeps, Zenon DEF StreamInv
<1>5. StreamTypeOK' BY <1>1, ZenonT(40) DEF StreamInv, StreamTypeOK
<1>6. HistoryKept' BY <1>1, <1>3, ZenonT(40) DEF StreamInv, HistoryKept, Remembers
<1>7. UpIsOutput' BY <1>1, ZenonT(40) DEF StreamInv, UpIsOutput
<1>8. ASSUME NEW v \in Viewers PROVE Streams(v)'
    <2>1. Streams(v) BY Zenon DEF StreamInv, Streamed
    <2>2. Received(v)' = Received(v) BY <1>1, Zenon DEF Received
    <2> QED BY <1>1, <1>3, <2>1, <2>2, ZenonT(40) DEF Streams
<1>9. Streamed' BY <1>8, Zenon DEF Streamed
<1> QED BY <1>4, <1>5, <1>6, <1>7, <1>9, Zenon DEF StreamInv

\* The frame of an "o" event (asciicast.go).
LEMMA OutputIs == \A c : [kind |-> "o", ch |-> c].kind = "o" /\ [kind |-> "o", ch |-> c].ch = c
OBVIOUS

\* A hook recognises a packet and has not published its frame yet.
LEMMA HookStreams ==
    ASSUME StreamInv, ChanInv', NEW s \in Sessions, NEW ch \in Channels,
           UpConfirm(s, ch) \/ UpData(s, ch) \/ DownShell(s, ch) \/ DownResize(s, ch)
    PROVE  StreamInv'
<1>1. UNCHANGED <<closed, subs, history, log, running, vpc, vses, vreplay, buf, sent, lost>>
    BY ZenonT(40) DEF UpConfirm, UpData, DownShell, DownResize, bcVars, viewVars
<1>2. /\ up' = up \/ (up' = [up EXCEPT ![s] = [kind |-> "o", ch |-> ch]] /\ ch \in running[s])
      /\ \/ down' = down
         \/ down' = [down EXCEPT ![s] = [kind |-> "header", ch |-> ch]]
         \/ down' = [down EXCEPT ![s] = [kind |-> "r", ch |-> ch]]
    BY ZenonT(40) DEF UpConfirm, UpData, DownShell, DownResize
<1>3. up \in [Sessions -> Frame \cup {None}] /\ down \in [Sessions -> Frame \cup {None}]
    BY Zenon DEF StreamInv, StreamTypeOK
<1>4. /\ [kind |-> "o", ch |-> ch] \in Frame /\ [kind |-> "header", ch |-> ch] \in Frame
      /\ [kind |-> "r", ch |-> ch] \in Frame
    BY DEF Frame
<1>5. up' \in [Sessions -> Frame \cup {None}] BY <1>2, <1>3, <1>4
<1>6. down' \in [Sessions -> Frame \cup {None}] BY <1>2, <1>3, <1>4
<1>7. StreamTypeOK' BY <1>1, <1>5, <1>6, ZenonT(40) DEF StreamInv, StreamTypeOK
<1>8. HistoryKept' BY <1>1, Zenon DEF StreamInv, HistoryKept
<1>9. Streamed' BY <1>1, ZenonT(40) DEF StreamInv, Streamed, Streams, Received
<1>10. ASSUME NEW t \in Sessions, up'[t] # None
       PROVE  up'[t].kind = "o" /\ up'[t].ch \in running'[t]
    <2>1. up'[t] = up[t] \/ (t = s /\ up'[t] = [kind |-> "o", ch |-> ch] /\ ch \in running[s])
        BY <1>2, <1>3, ZenonT(40)
    <2>2. CASE up'[t] = up[t] BY <1>1, <1>10, <2>2, Zenon DEF StreamInv, UpIsOutput
    <2>3. CASE t = s /\ up'[t] = [kind |-> "o", ch |-> ch] /\ ch \in running[s]
        BY <1>1, <2>3, OutputIs, Zenon
    <2> QED BY <2>1, <2>2, <2>3, Zenon
<1>11. ASSUME NEW t \in Sessions, down'[t] # None PROVE down'[t].kind # "o"
    <2>1. \/ down'[t] = down[t] \/ down'[t] = [kind |-> "header", ch |-> ch]
          \/ down'[t] = [kind |-> "r", ch |-> ch]
        BY <1>2, <1>3, ZenonT(40)
    <2>2. CASE down'[t] = down[t] BY <1>11, <2>2, Zenon DEF StreamInv, UpIsOutput
    <2>3. CASE down'[t] = [kind |-> "header", ch |-> ch] \/ down'[t] = [kind |-> "r", ch |-> ch]
        BY <2>3
    <2> QED BY <2>1, <2>2, <2>3, Zenon
<1>12. UpIsOutput' BY <1>10, <1>11, Zenon DEF UpIsOutput
<1> QED BY <1>7, <1>8, <1>9, <1>12, Zenon DEF StreamInv

\* A step of the registry, of a pipe or of a kill touches no stream.
LEMMA IdleStreams ==
    ASSUME StreamInv, ChanInv',
           UNCHANGED <<closed, subs, history, log, running, up, down, vpc, vses, vreplay,
                       buf, sent, lost>>
    PROVE  StreamInv'
<1>1. StreamTypeOK' BY ZenonT(40) DEF StreamInv, StreamTypeOK
<1> QED BY <1>1, StreamsKept, Zenon DEF StreamInv

\* Every step keeps the invariant.
LEMMA StreamStep == StreamInv /\ [Next]_adminVars => StreamInv'
<1> SUFFICES ASSUME StreamInv, [Next]_adminVars PROVE StreamInv'
    BY Zenon
<1>0. ChanInv' BY ChanStep, Zenon DEF StreamInv
<1>1. ASSUME NEW s \in Sessions, HookStep(s) PROVE StreamInv'
    <2>1. CASE UpPublish(s) BY <2>1, UpPublishStreams, Zenon
    <2>2. CASE DownPublish(s) BY <2>2, DownPublishStreams, Zenon
    <2> QED BY <1>0, <1>1, <2>1, <2>2, HookStreams, ZenonT(40) DEF HookStep
<1>2. ASSUME NEW s \in Sessions, SessionStep(s) PROVE StreamInv'
    <2>1. CASE CloseBroadcaster(s) BY <2>1, CloseStreams, Zenon
    <2>2. CASE Add(s) \/ RemoveEntry(s) \/ OpenPipe(s) \/ ClosePipe(s)
        <3>1. UNCHANGED <<closed, subs, history, log, running, up, down, vpc, vses, vreplay,
                          buf, sent, lost>>
            BY <2>2, ZenonT(40)
               DEF Add, RemoveEntry, OpenPipe, ClosePipe, bcVars, hookVars, viewVars
        <3> QED BY <1>0, <3>1, IdleStreams, Zenon
    <2> QED BY <1>2, <2>1, <2>2, Zenon DEF SessionStep
<1>3. ASSUME NEW v \in Viewers, ViewerStep(v) PROVE StreamInv'
    <2>1. ASSUME NEW s \in Sessions, NEW r \in BOOLEAN, StreamSession(v, s, r) PROVE StreamInv'
        BY <1>0, <2>1, BeginStreams, Zenon
    <2>2. CASE Subscribe(v) BY <2>2, SubscribeStreams, Zenon
    <2>3. CASE Cancel(v)
        <3>1. /\ vpc[v] = "cancel" /\ vpc' = [vpc EXCEPT ![v] = "done"]
              /\ subs' = [subs EXCEPT ![vses[v]] = @ \ {v}]
              /\ UNCHANGED <<closed, history, log, running, up, down, vses, vreplay, buf,
                             sent, lost>>
            BY <2>3, Zenon DEF Cancel, hookVars
        <3>2. subs \in [Sessions -> SUBSET Viewers]
            BY Zenon DEF StreamInv, ChanInv, ChanTypeOK
        <3>3. \A t \in Sessions : subs'[t] \subseteq subs[t] BY <3>1, <3>2
        <3>4. vpc[v] \in {"stream", "cancel"} /\ "done" \in {"cancel", "done"} BY <3>1
        <3> QED BY <1>0, <3>1, <3>3, <3>4, EndStreams, Zenon
    <2>4. CASE StreamEnds(v) \/ ViewerGone(v)
        <3>1. /\ vpc[v] = "stream" /\ vpc' = [vpc EXCEPT ![v] = "cancel"]
              /\ UNCHANGED <<closed, subs, history, log, running, up, down, vses, vreplay,
                             buf, sent, lost>>
            BY <2>4, ZenonT(40) DEF StreamEnds, ViewerGone, bcVars, hookVars
        <3>2. \A t \in Sessions : subs'[t] \subseteq subs[t] BY <3>1, Zenon
        <3>3. vpc[v] \in {"stream", "cancel"} /\ "cancel" \in {"cancel", "done"} BY <3>1
        <3> QED BY <1>0, <3>1, <3>2, <3>3, EndStreams, Zenon
    <2>5. ASSUME NEW ok \in BOOLEAN, Forward(v, ok) PROVE StreamInv'
        BY <1>0, <2>5, ForwardStreams, Zenon
    <2> QED BY <1>3, <2>1, <2>2, <2>3, <2>4, <2>5, ZenonT(40) DEF ViewerStep
<1>4. ASSUME NEW k \in Killers, KillStep(k) PROVE StreamInv'
    <2>1. UNCHANGED <<closed, subs, history, log, running, up, down, vpc, vses, vreplay,
                      buf, sent, lost>>
        BY <1>4, ZenonT(40) DEF KillStep, KillClose, KillLookup, bcVars, hookVars, viewVars
    <2> QED BY <1>0, <2>1, IdleStreams, Zenon
<1>5. CASE UNCHANGED adminVars
    <2>1. UNCHANGED <<closed, subs, history, log, running, up, down, vpc, vses, vreplay,
                      buf, sent, lost>>
        BY <1>5, Zenon DEF adminVars, bcVars, hookVars, viewVars
    <2> QED BY <1>0, <2>1, IdleStreams, Zenon
<1> QED BY <1>1, <1>2, <1>3, <1>4, <1>5, ZenonT(40) DEF Next

\* The invariant says of every viewer what StreamFaithful asks for.
LEMMA StreamInvFaithful == StreamInv => StreamFaithful
<1> SUFFICES ASSUME StreamInv PROVE StreamFaithful OBVIOUS
<1>1. ASSUME NEW v \in Viewers
      PROVE  Increasing(Received(v)) /\ (vreplay[v] => Headed(Received(v), log[vses[v]], lost[v]))
    <2>1. Streams(v) BY Zenon DEF StreamInv, Streamed
    <2>2. CASE vses[v] \in Sessions BY <2>1, <2>2, Zenon DEF Streams, Faithful
    <2>3. CASE vses[v] \notin Sessions
        <3>1. Received(v) = <<>> BY <2>1, <2>3, Zenon DEF Streams, Received
        <3>2. DOMAIN Received(v) = {} BY <3>1
        <3> QED BY <3>2, Zenon DEF Increasing, Headed
    <2> QED BY <2>2, <2>3, Zenon
<1>2. FramesInOrder BY <1>1, ZenonT(40) DEF FramesInOrder, Increasing
<1>3. HeaderBeforeOutput BY <1>1, ZenonT(40) DEF HeaderBeforeOutput, Headed, HasHeader
<1> QED BY <1>2, <1>3, Zenon DEF StreamFaithful

\* A viewer gets the frames of its session once each and in the order of their
\* publication, and with the replay the header of a channel before its output,
\* for any number of sessions, channels and viewers and any buffer size, whatever
\* the interleaving of Publish, Subscribe, Close and the viewers
\* (broadcaster.go:52-119, streamhook.go:158-249, server.go:98-116).
THEOREM StreamFaithfulTheorem == Spec => []StreamFaithful
<1> QED BY StreamInit, StreamStep, StreamInvFaithful, PTL DEF Spec
=============================================================================
