------------------------------ MODULE MCRoutes ------------------------------
(***************************************************************************)
(* Routes on small configurations: one or two pipes of each plugin, with   *)
(* the fields that decide a branch varied.                                 *)
(***************************************************************************)
EXTENDS Routes

Ok(lines) == [state |-> "ok", lines |-> lines, perUser |-> FALSE]
Bad       == [state |-> "bad", lines |-> <<>>, perUser |-> FALSE]
Nothing   == [state |-> "none", lines |-> <<>>, perUser |-> FALSE]
PerUser   == [state |-> "ok", lines |-> <<"k1">>, perUser |-> TRUE]

UpTo2(S)  == {<<>>} \cup {<<a>> : a \in S} \cup {<<a, b>> : a, b \in S}

MCSystemGroups == [u \in Users |-> CASE u = "alice" -> "staff" [] u = "bob" -> "unknown"
                                     [] OTHER -> "error"]

\* yaml: a pipe is a from and a to; the host says which pipe it is.
Unset     == [set |-> FALSE, items |-> <<>>]
List(s)   == [set |-> TRUE, items |-> s]
YFrom(u, re, g, keys, cas) ==
    [username |-> u, regex |-> re, groupname |-> g, keys |-> keys, cas |-> cas]
YTo(host, name, known, private) ==
    [host |-> host, username |-> name, known |-> known, private |-> private]
YFroms == {YFrom("alice", FALSE, "", List(<<Ok(<<"k1", Junk>>)>>), Unset),
           YFrom("alice", FALSE, "", Unset, Unset),
           YFrom("*", TRUE, "", List(<<Ok(<<"k2">>), PerUser>>), Unset),
           YFrom("(", TRUE, "", List(<<Ok(<<"k1">>)>>), Unset),
           YFrom("", FALSE, "staff", List(<<Nothing, Bad>>), List(<<Ok(<<Junk, "ca">>)>>))}
YTos(host) == {YTo(host, "root", Unset, "none"), YTo(host, "$0", List(<<>>), "id"),
               YTo(host, "", List(<<Ok(<<"hostkey">>)>>), "error")}
YPipes(host) == {[from |-> <<f>>, to |-> t] : f \in YFroms, t \in YTos(host)}
YFile(perm, pipes) == [perm |-> perm, pipes |-> pipes]
YamlWorlds ==
    {<<YFile("ok", <<p>>)>> : p \in YPipes("h1")}
    \cup {<<YFile("ok", <<p>>), YFile("ok", <<q>>)>> : p \in YPipes("h1"), q \in YPipes("h2")}
    \cup {<<YFile("ok", <<[from |-> <<f, g>>, to |-> YTo("h1", "root", Unset, "id")]>>)>> :
             f, g \in YFroms}
    \cup {<<YFile("open", <<>>)>>}

\* workingdir: the directories of the walk, varied for alice.
File(state, lines) == [state |-> state, lines |-> lines]
Absent == File("absent", <<>>)
Line(junk, h, u) == [junk |-> junk, host |-> h, user |-> u]
Comment == Line(TRUE, "#note", "")
Host(h) == File("ok", <<Comment, Line(FALSE, h, "root")>>)
Dirs == {[upstream |-> up, terminated |-> FALSE, keys |-> keys, private |-> private,
          known |-> known, totp |-> File("ok", <<>>)] :
            up \in {Host("h1"), File("ok", <<Comment>>), File("open", <<>>)},
            keys \in {Absent, File("ok", <<"k1">>)},
            private \in {Absent, File("ok", <<"id">>), File("open", <<"id">>)},
            known \in {Absent, File("ok", <<"hostkey">>)}}
Walks == {<<>>} \cup {<<d>> : d \in Dirs}
    \cup {<<d, [d EXCEPT !.upstream = Host("h2"), !.keys = File("ok", <<"k2">>)]>> : d \in Dirs}
BobsDir == [upstream |-> Host("h3"), terminated |-> TRUE, keys |-> File("ok", <<"k2">>),
            private |-> File("ok", <<"id">>), known |-> Absent, totp |-> File("ok", <<>>)]
Root(walk) == [u \in Users |-> CASE u = "alice" -> walk [] u = "bob" -> <<BobsDir>> [] OTHER -> <<>>]
WorkingdirWorlds == {Root(walk) : walk \in Walks}

MCOptionSets == [noCheckPerm : BOOLEAN, strict : BOOLEAN, allowBadUsername : {FALSE},
                 recursive : {TRUE}, noPassword : {FALSE}, checkTotp : BOOLEAN]

\* docker: containers by their labels.
Container(u, keys, cas, private, exec, networks) ==
    [username |-> u, cuser |-> "root", keys |-> keys, cas |-> cas, private |-> private,
     exec |-> exec, networks |-> networks, network |-> "", host |-> "h1"]
Containers == {Container("alice", Ok(<<"k1">>), Nothing, "id", FALSE, 1),
               Container("alice", Bad, Nothing, "id", FALSE, 1),
               Container("", Nothing, Ok(<<"ca">>), "none", TRUE, 0),
               Container("bob", Nothing, Nothing, "none", FALSE, 1),
               Container("bob", Nothing, Nothing, "bad", FALSE, 1),
               Container("alice", Nothing, Nothing, "none", FALSE, 2),
               Container("", Nothing, Nothing, "none", FALSE, 0)}

\* kubernetes: Pipe objects.
KFrom(u, re, data, file, secret, ht) ==
    [username |-> u, regex |-> re, keysData |-> data, keysFile |-> file,
     keysSecret |-> secret, htData |-> ht, htFile |-> Nothing]
KTo(name, secret, password, known) ==
    [host |-> "h1", username |-> name, secret |-> secret, password |-> password,
     known |-> known]
KFroms == {KFrom("alice", FALSE, Ok(<<"k1">>), Nothing, Ok(<<"k2">>), Nothing),
           KFrom("*", TRUE, Nothing, Nothing, Nothing, Ok(<<"pw">>)),
           KFrom("bob", FALSE, Nothing, Bad, Nothing, Nothing),
           KFrom("(", TRUE, Nothing, Nothing, Nothing, Nothing)}
KTos == {KTo("root", "none", "none", Nothing), KTo("", "id", "none", Ok(<<"hostkey">>)),
         KTo("$0", "none", "secretpw", Nothing), KTo("", "bad", "bad", Bad)}
KPipes == {[from |-> <<f>>, to |-> t, exec |-> e] :
             f \in KFroms, t \in KTos, e \in {"no", "pod", "unparsable"}}

MCWorlds == [p \in {"yaml", "workingdir", "docker", "kubernetes"} |->
    CASE p = "yaml"       -> YamlWorlds
      [] p = "workingdir" -> WorkingdirWorlds
      [] p = "docker"     -> UpTo2(Containers)
      [] p = "kubernetes" -> {<<a>> : a \in KPipes}
                             \cup {<<a, b>> : a \in KPipes, b \in {q \in KPipes : q.exec = "no"}}]

MCLater == [p \in DOMAIN MCWorlds |->
    {IF p = "workingdir" THEN CHOOSE w \in MCWorlds[p] : Len(w["alice"]) = 1
     ELSE CHOOSE w \in MCWorlds[p] : Len(w) = 1}]

\* Passwords, keys and certificates.
Cred(method, password, key, cert, valid) ==
    [method |-> method, password |-> password, key |-> key, cert |-> cert,
     user |-> TRUE, valid |-> valid]
MCCreds == {Cred("password", "pw", "", FALSE, TRUE), Cred("publickey", "", "k1", FALSE, TRUE),
            Cred("publickey", "", "k2", FALSE, TRUE), Cred("publickey", "", "ca", TRUE, TRUE),
            Cred("publickey", "", "ca", TRUE, FALSE)}

\* The loops of Scans against the library's operators, on short slices.
Ext == INSTANCE SequencesExt
Slices(S) == UNION {[1 .. n -> S] : n \in 0 .. 3}
ASSUME ScansAssumption ==
    /\ \A s \in Slices(0 .. 2) : \A S \in SUBSET (0 .. 2) :
           Filter(s, S) = SelectSeq(s, LAMBDA x : x \in S)
    /\ \A ss \in Slices(Slices(0 .. 1)) : Flatten(ss) = Ext!FlattenSeq(ss)
    /\ \A S \in SUBSET (1 .. 4) \ {{}} : FirstOf(S) = Ext!Min(S)
=============================================================================
