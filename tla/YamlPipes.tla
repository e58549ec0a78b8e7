----------------------------- MODULE YamlPipes -----------------------------
(***************************************************************************)
(* The yaml plugin (plugin/yaml): the pipes of its config files as the     *)
(* froms of Skel.                                                          *)
(*                                                                         *)
(* A config file has a state (`perm`) and pipes.  A field that is a list   *)
(* or a string (keys, CA keys, known hosts) is `set` when the document     *)
(* names it, and a sequence of sources: a file or base64 data, with the    *)
(* lines it holds.  A user name of the config is a name, "*" (an           *)
(* expression that matches all) or "(" (one that does not compile).        *)
(***************************************************************************)
EXTENDS Texts

CONSTANT Groups   \* Groups[u]: the groups of a user of the system, or an error

\* The configurations: files, the pipes in them, their froms and their to.
ListOrString == [set : BOOLEAN, items : Seq(Source)]
YamlFrom == [username : STRING, regex : BOOLEAN, groupname : STRING,
             keys : ListOrString, cas : ListOrString]
YamlTo   == [host : STRING, username : STRING, known : ListOrString, private : STRING]
Configs  == Seq([perm : STRING, pipes : Seq([from : Seq(YamlFrom), to : YamlTo])])

\* Any and Configured of listOrString.
HasAny(l)     == l.items # <<>>
Configured(l) == l.set \/ HasAny(l)

\* loadConfig with checkPerm: one file that is open to others, unreadable or
\* not yaml spoils them all.
LoadConfig(files) ==
    IF \E i \in DOMAIN files : files[i].perm # "ok" THEN [err |-> TRUE, pipes |-> <<>>]
    ELSE [err |-> FALSE, pipes |-> Flatten([i \in DOMAIN files |-> files[i].pipes])]

\* isPathSafeValue of the name that goes into the path.
IsPathSafeValue(v) == v \notin {"..", ".", "a/b"}

\* loadFileOrDecode of one source for a user name: no name is no file.
LoadFileOrDecode(src, name) ==
    IF src.state = "none" THEN Text(<<>>)
    ELSE IF src.state = "bad" \/ (src.perUser /\ ~IsPathSafeValue(name)) THEN LoadError
    ELSE Text(src.lines)

\* loadFileOrDecodeMany: all of the sources or an error.
LoadFileOrDecodeMany(l, name) ==
    IF \E i \in DOMAIN l.items : LoadFileOrDecode(l.items[i], name).err THEN LoadError
    ELSE Text(JoinLines(Flatten([i \in DOMAIN l.items |->
                  IF l.items[i].state = "none" THEN <<>>
                  ELSE <<LoadFileOrDecode(l.items[i], name).lines>>])))

\* Mutant of KnownHosts: a field that is there but empty counts as not set.
KnownHosts_AnyOnly(to, name) ==
    LET data == LoadFileOrDecodeMany(to.known, name) IN
    IF HasAny(to.known) /\ data.lines = <<>> THEN LoadError ELSE data

\* KnownHosts: configured, but without any data, is an error.
KnownHosts(to, name) ==
    LET data == LoadFileOrDecodeMany(to.known, name) IN
    IF Configured(to.known) /\ data.lines = <<>> THEN LoadError ELSE data

\* getUserGroups, after user.Lookup.
GetUserGroups(user) == Groups[user]

RegexMatches(re, user) == re \in {"*", user}

\* MatchConn, the condition: "yes", "no" or "error".
Matched(from, user) ==
    LET YesNo(b) == IF b THEN "yes" ELSE "no" IN
    IF from.username # "" /\ from.regex
    THEN IF from.username = "(" THEN "error" ELSE YesNo(RegexMatches(from.username, user))
    ELSE IF from.username # "" THEN YesNo(from.username = user)
    ELSE IF from.groupname = "" \/ GetUserGroups(user) = "unknown" THEN "no"
    ELSE IF GetUserGroups(user) = "error" THEN "error"
    ELSE YesNo(GetUserGroups(user) = from.groupname)

\* MatchConn, the user name at the upstream: an expression may use the name
\* it matched ("$0").
TargetUser(from, to, user) ==
    IF to.username = "" \/ (from.regex /\ to.username = "$0") THEN user ELSE to.username

\* MatchConn, the other end.
MatchConn(from, to, user) ==
    LET name == TargetUser(from, to, user) IN
    [kind |-> IF to.private # "none" THEN "privatekey" ELSE "password",
     host |-> to.host, user |-> name, known |-> KnownHosts(to, name),
     override |-> "none", private |-> to.private]

\* SupportPublicKey.
SupportPublicKey(from) == HasAny(from.keys) \/ HasAny(from.cas)

\* From: the froms of one pipe.
From(pipe, user) ==
    [i \in DOMAIN pipe.from |->
        LET from == pipe.from[i] IN
        [kind  |-> IF SupportPublicKey(from) THEN "publickey" ELSE "password",
         match |-> Matched(from, user), to |-> MatchConn(from, pipe.to, user),
         test  |-> "yes",
         keys  |-> LoadFileOrDecodeMany(from.keys, user),
         cas   |-> LoadFileOrDecodeMany(from.cas, user)]]

\* listPipe.
ListPipe(files, user) ==
    LET config == LoadConfig(files) IN
    [err   |-> config.err,
     froms |-> Flatten([i \in DOMAIN config.pipes |-> From(config.pipes[i], user)])]
=============================================================================
