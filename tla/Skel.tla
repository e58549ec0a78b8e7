-------------------------------- MODULE Skel --------------------------------
(***************************************************************************)
(* The search every file-like plugin shares (libplugin/skel): which of the *)
(* pipes a plugin lists takes a login, and the upstream made of it.        *)
(*                                                                         *)
(* A plugin gives its pipes as one sequence of froms, in the order its     *)
(* listPipe and From return them.  A from is a record: `kind` (its Go      *)
(* type), `match` (what MatchConn answers), `to` (the pipe's other end),   *)
(* `test` (TestPassword), `keys` and `cas` (what AuthorizedKeys and        *)
(* TrustedUserCAKeys load).  Loaded text is a sequence of lines, each a    *)
(* key or Junk (a comment, an empty line); `err` says that loading failed. *)
(***************************************************************************)
EXTENDS Texts

Failed    == [ok |-> FALSE]
Routed(u) == [ok |-> TRUE, upstream |-> u]

-----------------------------------------------------------------------------

\* SupportedMethods: by the type of the froms.
SupportedMethods(froms) ==
    {IF froms[i].kind = "publickey" THEN "publickey" ELSE "password" : i \in DOMAIN froms}

\* The loop over rest, with n lines left in it: ssh.ParseAuthorizedKey skips
\* lines that are no key, and fails when it finds none in what is left.
ScanKeys(lines, key) ==
    LET scan[n \in 0 .. Len(lines)] ==
            LET found == {i \in (Len(lines) + 1 - n) .. Len(lines) : lines[i] # Junk} IN
            IF n = 0 THEN "no"
            ELSE IF found = {} THEN "error"
            ELSE IF lines[FirstOf(found)] = key THEN "yes" ELSE scan[Len(lines) - FirstOf(found)]
    IN scan[Len(lines)]

\* The verify of PasswordCallback.
VerifyPassword(from) == IF from.kind = "password" THEN from.test ELSE "no"

\* The verify of PublicKeyCallback: a certificate is looked up by the key that
\* signed it, a plain key by itself.
VerifyPublicKey(from, cred) ==
    LET text == IF cred.cert THEN from.cas ELSE from.keys IN
    IF from.kind # "publickey" THEN "no"
    ELSE IF text.err THEN "error"
    ELSE ScanKeys(text.lines, cred.key)

Verify(from, cred) ==
    IF cred.method = "password" THEN VerifyPassword(from) ELSE VerifyPublicKey(from, cred)

\* Mutant of MatchOne: a from that cannot be checked is passed over.
MatchOne_SkipsErrors(from, cred, rest) ==
    IF from.match = "yes" /\ Verify(from, cred) = "yes" THEN Routed(from.to) ELSE rest

\* match, one from: an error ends the search, which otherwise goes on to what
\* the rest of the froms come to unless this one matches and is verified.
MatchOne(from, cred, rest) ==
    LET ok == Verify(from, cred) IN
    CASE from.match = "error" -> Failed
      [] from.match = "no"    -> rest
      [] from.match = "yes"   -> CASE ok = "error" -> Failed
                                   [] ok = "yes"   -> Routed(from.to)
                                   [] ok = "no"    -> rest

\* match: the loop over the froms, with n of them left.
Match(froms, cred) ==
    LET search[n \in 0 .. Len(froms)] ==
            IF n = 0 THEN Failed
            ELSE MatchOne(froms[Len(froms) + 1 - n], cred, search[n - 1])
    IN search[Len(froms)]

\* createUpstream; password is that of the client, "" after a public key.
CreateUpstream(to, user, password) ==
    IF \/ ~SplitHostPortForSSH(to.host) \/ to.known.err
       \/ to.kind = "password" /\ to.override = "error"
       \/ to.kind = "privatekey" /\ to.private = "error"
    THEN Failed
    ELSE Routed([host |-> to.host, user |-> IF to.user = "" THEN user ELSE to.user,
                 known |-> to.known.lines,
                 auth |-> IF to.kind = "privatekey" THEN <<"privatekey", to.private>>
                          ELSE IF to.override # "none" THEN <<"password", to.override>>
                          ELSE <<"password", password>>])

\* PasswordCallback.
PasswordCallback(froms, user, cred) ==
    LET found == Match(froms, cred) IN
    IF found.ok THEN CreateUpstream(found.upstream, user, cred.password) ELSE Failed

\* PublicKeyCallback: only user certificates that are valid for the user.
PublicKeyCallback(froms, user, cred) ==
    LET found == Match(froms, cred) IN
    IF cred.cert /\ ~(cred.user /\ cred.valid) THEN Failed
    ELSE IF found.ok THEN CreateUpstream(found.upstream, user, "") ELSE Failed

Callback(froms, user, cred) ==
    IF cred.method = "password" THEN PasswordCallback(froms, user, cred)
    ELSE PublicKeyCallback(froms, user, cred)

-----------------------------------------------------------------------------
(* Reference definitions. *)

\* A key counts as listed wherever it stands; text that ends in no key cannot
\* be read to its end.
KeyListed(text, key) ==
    IF text.err THEN "error"
    ELSE IF \E i \in DOMAIN text.lines : text.lines[i] = key THEN "yes"
    ELSE IF text.lines # <<>> /\ text.lines[Len(text.lines)] = Junk THEN "error" ELSE "no"

\* What a from says to a login: "yes", "no", or "error".
Opinion(from, cred) ==
    IF from.match # "yes" THEN from.match
    ELSE IF from.kind # cred.method THEN "no"
    ELSE IF cred.method = "password" THEN from.test
    ELSE KeyListed(IF cred.cert THEN from.cas ELSE from.keys, cred.key)

\* The first from with an opinion decides.
Decides(froms, cred, i) ==
    /\ Opinion(froms[i], cred) # "no"
    /\ \A j \in 1..(i - 1) : Opinion(froms[j], cred) = "no"

\* The from through which a login is to be let in.
Admits(froms, cred, i) == Decides(froms, cred, i) /\ Opinion(froms[i], cred) = "yes"
=============================================================================
