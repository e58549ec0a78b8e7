----------------------------- MODULE KubePipes -----------------------------
(***************************************************************************)
(* The kubernetes plugin (plugin/kubernetes): the Pipe objects as the      *)
(* froms of Skel.  The key of a pipe that is entered through the exec      *)
(* bridge is the one KubeBridge registers.                                 *)
(*                                                                         *)
(* A source is "none", "bad" (a file or a secret that is not there), or    *)
(* its lines; a secret may lack the field that is looked for ("nofield").  *)
(***************************************************************************)
EXTENDS Texts

\* The Pipe objects.
KubeFrom == [username : STRING, regex : BOOLEAN, keysData : Source, keysFile : Source,
             keysSecret : Source, htData : Source, htFile : Source]
KubeTo   == [host : STRING, username : STRING, secret : STRING, password : STRING,
             known : Source]
Configs  == Seq([from : Seq(KubeFrom), to : KubeTo, exec : STRING])

Given(src) == src.state # "none"

\* loadStringAndFile: inline text, which is taken raw when it is not base64,
\* and a file.
LoadStringAndFile(data, file) ==
    IF file.state = "bad" THEN [err |-> TRUE, chunks |-> <<>>]
    ELSE [err |-> FALSE,
          chunks |-> (IF Given(data) THEN <<data.lines>> ELSE <<>>)
                  \o (IF Given(file) THEN <<file.lines>> ELSE <<>>)]

\* AuthorizedKeys: inline, from the file, and from the first field of the
\* secret that is there.
AuthorizedKeys(from) ==
    LET loaded == LoadStringAndFile(from.keysData, from.keysFile) IN
    IF loaded.err \/ from.keysSecret.state = "bad" THEN LoadError
    ELSE Text(JoinLines(loaded.chunks \o (IF from.keysSecret.state = "ok"
                                          THEN <<from.keysSecret.lines>> ELSE <<>>)))

\* TestPassword: without htpasswd every password will do.
TestPassword(from, password) ==
    LET loaded == LoadStringAndFile(from.htData, from.htFile) IN
    IF loaded.err THEN "error"
    ELSE IF loaded.chunks = <<>> THEN "yes"
    ELSE IF \E i \in DOMAIN loaded.chunks : \E j \in DOMAIN loaded.chunks[i] :
               loaded.chunks[i][j] = password
    THEN "yes" ELSE "no"

\* PrivateKey: the key of the bridge, or the first field of the secret that is
\* there; a secret without one gives an empty key.
PrivateKey(pipe) ==
    IF pipe.exec # "no" THEN "bridgekey"
    ELSE IF pipe.to.secret = "bad" THEN "error" ELSE pipe.to.secret

\* OverridePassword.
OverridePassword(to) ==
    CASE to.password = "bad"     -> "error"
      [] to.password = "nofield" -> "none"
      [] OTHER                   -> to.password

\* KnownHosts: not for the bridge.
KnownHosts(pipe) ==
    IF pipe.exec # "no" THEN Text(<<>>)
    ELSE IF pipe.to.known.state = "bad" THEN LoadError ELSE Text(pipe.to.known.lines)

\* Host.
Host(pipe) == IF pipe.exec # "no" THEN "bridge" ELSE pipe.to.host

\* MatchConn, the condition; a pipe that matches is registered with the bridge,
\* which fails when its host names no pod.
Matched(pipe, from, user) ==
    IF from.regex /\ from.username = "(" THEN "error"
    ELSE IF from.username # user /\ ~(from.regex /\ from.username = "*") THEN "no"
    ELSE IF pipe.exec = "unparsable" THEN "error" ELSE "yes"

\* MatchConn, the other end.
MatchConn(pipe, from, user) ==
    [kind |-> IF pipe.to.secret # "none" \/ pipe.exec # "no" THEN "privatekey" ELSE "password",
     host |-> Host(pipe),
     user |-> IF from.regex /\ pipe.to.username = "$0" THEN user ELSE pipe.to.username,
     known |-> KnownHosts(pipe), override |-> OverridePassword(pipe.to),
     private |-> PrivateKey(pipe)]

\* From: keys of any source make it a public key pipe.
From(pipe, user, password) ==
    [i \in DOMAIN pipe.from |->
        LET from == pipe.from[i] IN
        [kind  |-> IF Given(from.keysData) \/ Given(from.keysFile) \/ Given(from.keysSecret)
                   THEN "publickey" ELSE "password",
         match |-> Matched(pipe, from, user), to |-> MatchConn(pipe, from, user),
         test  |-> TestPassword(from, password), keys |-> AuthorizedKeys(from),
         cas   |-> Text(<<>>)]]

\* listPipe: the objects of the lister, in its order.
ListPipe(pipes, user, password) ==
    [err   |-> FALSE,
     froms |-> Flatten([i \in DOMAIN pipes |-> From(pipes[i], user, password)])]
=============================================================================
