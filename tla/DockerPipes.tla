---------------------------- MODULE DockerPipes ----------------------------
(***************************************************************************)
(* The docker plugin (plugin/docker): the containers, by their labels, as  *)
(* the froms of Skel.  The key and the address of a container that is      *)
(* entered through the exec bridge are those DockerBridge registers.       *)
(*                                                                         *)
(* A label that holds base64 is "" (absent), "bad" or what it decodes to.  *)
(***************************************************************************)
EXTENDS Texts

\* The containers, by their labels and networks.
Configs == Seq([username : STRING, cuser : STRING, keys : Source, cas : Source,
                private : STRING, exec : BOOLEAN, networks : Nat, network : STRING,
                host : STRING])

\* base64.DecodeString of a label.
Decode(label) ==
    CASE label.state = "none" -> Text(<<>>)
      [] label.state = "bad"  -> LoadError
      [] OTHER                -> Text(label.lines)

Given(label) == label.state # "none"

\* list, for one container: "skip", "error", or "pipe".
ListOne(c) ==
    LET auth == Given(c.keys) \/ Given(c.cas) IN
    IF c.username = "" /\ ~auth THEN "skip"
    ELSE IF c.exec THEN IF auth THEN "pipe" ELSE "skip"
    ELSE IF auth /\ c.private = "none" THEN "skip"
    ELSE IF c.networks = 0 \/ (c.networks > 1 /\ c.network = "") THEN "error"
    ELSE IF c.networks > 1 /\ c.network = "unknown" THEN "skip"
    ELSE "pipe"

\* list: the pipe of a container; a bridged one has the key of the bridge.
ToPipe(c) ==
    [c EXCEPT !.private = IF c.exec THEN "bridgekey" ELSE @,
              !.host    = IF c.exec THEN "bridge" ELSE @]

\* From.
Kind(p) == IF p.private # "none" \/ Given(p.keys) \/ Given(p.cas) THEN "publickey" ELSE "password"

\* PrivateKey.
PrivateKey(p) == IF p.private = "bad" THEN "error" ELSE p.private

\* MatchConn: a container without a user name takes every user.
MatchConn(p, user) ==
    [kind |-> IF p.private # "none" THEN "privatekey" ELSE "password",
     host |-> p.host, user |-> IF p.cuser = "" THEN user ELSE p.cuser,
     known |-> Text(<<>>), override |-> "none", private |-> PrivateKey(p)]

From(p, user) ==
    [kind |-> Kind(p), match |-> IF p.username \in {user, ""} THEN "yes" ELSE "no",
     to |-> MatchConn(p, user), test |-> "yes", keys |-> Decode(p.keys), cas |-> Decode(p.cas)]

\* listPipe over list: one container without a usable address fails them all.
ListPipe(containers, user) ==
    [err   |-> \E i \in DOMAIN containers : ListOne(containers[i]) = "error",
     froms |-> Flatten([i \in DOMAIN containers |->
                  IF ListOne(containers[i]) = "pipe" THEN <<From(ToPipe(containers[i]), user)>>
                  ELSE <<>>])]
=============================================================================
