-------------------------- MODULE WorkingdirPipes --------------------------
(***************************************************************************)
(* The workingdir plugin (plugin/workingdir): the directories of a user as *)
(* the froms of Skel, and its second factor.                               *)
(*                                                                         *)
(* A directory is a record of its files; a file is "absent", "open" (its   *)
(* mode lets others in) or the lines it holds as Text.  The flags of the   *)
(* plugin are a record of booleans.                                        *)
(***************************************************************************)
EXTENDS Texts

CONSTANT Users   \* user names of clients

\* Under the root, the directories of each user in the order of the walk.
File    == [state : STRING, lines : Seq(STRING)]
Line    == [junk : BOOLEAN, host : STRING, user : STRING]
Dir     == [upstream : [state : STRING, lines : Seq(Line)], terminated : BOOLEAN,
            keys : File, private : File, known : File, totp : File]
Configs == [Users -> Seq(Dir)]

\* isUsernameSecure.
IsUsernameSecure(user) == user \notin {"..", ".", "a/b"}

\* Exists: there is a file of that name.
Exists(file) == file.state # "absent"

\* Readfile: checkPerm, then the data.
Readfile(flags, file) ==
    IF file.state = "absent" \/ (file.state = "open" /\ ~flags.noCheckPerm)
    THEN LoadError ELSE Text(file.lines)

\* parseUpstreamFile: the first line that is neither empty nor a comment, but
\* the last line counts whatever it is when no line end follows it; without
\* any line the host is empty.
ParseUpstreamFile(lines, terminated) ==
    LET good == {i \in DOMAIN lines : ~lines[i].junk} IN
    IF good # {} THEN lines[FirstOf(good)]
    ELSE IF lines # <<>> /\ ~terminated THEN lines[Len(lines)]
    ELSE [junk |-> TRUE, host |-> "", user |-> ""]

\* From: both files make it a public key pipe.
Kind(dir) == IF Exists(dir.keys) /\ Exists(dir.private) THEN "publickey" ELSE "password"

\* KnownHosts: only asked for with --strict-hostkey.
KnownHosts(flags, dir) == IF flags.strict THEN Readfile(flags, dir.known) ELSE Text(<<>>)

\* PrivateKey.
PrivateKey(flags, dir) == IF Readfile(flags, dir.private).err THEN "error" ELSE "id_rsa"

\* MatchConn always matches: the directory was found by the user's name.
MatchConn(flags, dir, up) ==
    [kind |-> IF Exists(dir.private) THEN "privatekey" ELSE "password",
     host |-> up.host, user |-> up.user, known |-> KnownHosts(flags, dir),
     override |-> "none", private |-> PrivateKey(flags, dir)]

\* listPipe for one directory of the walk: without a readable upstream file
\* that names a host there is no pipe.
DirPipe(flags, dir) ==
    LET text == Readfile(flags, dir.upstream)
        up   == ParseUpstreamFile(text.lines, dir.terminated)
    IN IF text.err \/ ~SplitHostPortForSSH(up.host) THEN <<>>
       ELSE <<[kind |-> Kind(dir), match |-> "yes", to |-> MatchConn(flags, dir, up),
               test |-> "yes", keys |-> Readfile(flags, dir.keys), cas |-> Text(<<>>)]>>

\* listPipe: the user's directory, and with --recursive-search those below it.
ListPipe(flags, root, user) ==
    LET dirs == root[user]
        walk == IF flags.recursive \/ dirs = <<>> THEN dirs ELSE <<Head(dirs)>> IN
    [err   |-> ~flags.allowBadUsername /\ ~IsUsernameSecure(user),
     froms |-> Flatten([i \in DOMAIN walk |-> DirPipe(flags, walk[i])])]

\* Mutant of NextAuthMethods: the code is asked for after a key as well.
NextAuthMethods_Both(flags, checked) ==
    {"publickey"} \cup (IF flags.noPassword THEN {} ELSE {"password"})
                  \cup (IF flags.checkTotp THEN {"keyboard-interactive"} ELSE {})

\* NextAuthMethodsCallback of main.go: with --check-totp the code comes first.
NextAuthMethods(flags, checked) ==
    IF flags.checkTotp /\ ~checked THEN {"keyboard-interactive"}
    ELSE {"publickey"} \cup (IF flags.noPassword THEN {} ELSE {"password"})

\* KeyboardInteractiveCallback, with the file of the user it is called for:
\* "retry" sends the client back to this plugin with the code marked as
\* checked; a wrong code is asked for again.
KeyboardInteractive(flags, root, user, code) ==
    IF \/ ~flags.allowBadUsername /\ ~IsUsernameSecure(user)
       \/ root[user] = <<>> \/ Readfile(flags, Head(root[user]).totp).err
    THEN "error"
    ELSE IF code = "right" THEN "retry" ELSE "again"
=============================================================================
