------------------------------- MODULE Routes -------------------------------
(***************************************************************************)
(* A login at one of the plugins that route by a configuration: yaml,      *)
(* workingdir, docker, kubernetes.  The plugin reads its configuration     *)
(* anew in every callback, so the methods it offers and the route it       *)
(* finds may be those of two different configurations.  Nor is the user    *)
(* name fixed for a login: every callback is given the one of the request  *)
(* it answers, and after a failure the client may name another.            *)
(***************************************************************************)
EXTENDS Skel

CONSTANTS Users,        \* user names of clients
          SystemGroups, \* the group of a user of the system, "unknown" or "error"
          Worlds,       \* Worlds[p]: the configurations plugin p may find
          Later,        \* Later[p]: those it may be changed into
          OptionSets,   \* flags of the workingdir plugin
          Creds,        \* what clients present
          MaxTries      \* bound on the attempts of a login

Plugins == DOMAIN Worlds

VARIABLES
    plugin, opts,       \* the plugin and its flags
    user,     \* the user name of the client's last request
    world,    \* the configuration now
    checked,  \* the client's meta: totp = checked
    codes,    \* history: the users whose right code was entered
    offered,  \* the methods of the last NextAuthMethods
    at,       \* the configuration the last attempt was made against
    cred,     \* what it presented
    answer,   \* what the plugin answered
    tries

routeVars == <<plugin, opts, user, world, checked, codes, offered, at, cred, answer, tries>>

Y == INSTANCE YamlPipes WITH Groups <- SystemGroups
W == INSTANCE WorkingdirPipes
D == INSTANCE DockerPipes
K == INSTANCE KubePipes

\* The configurations of a plugin.
Configs(p) ==
    CASE p = "yaml"       -> Y!Configs
      [] p = "workingdir" -> W!Configs
      [] p = "docker"     -> D!Configs
      [] p = "kubernetes" -> K!Configs

\* What a client presents: a password, or a key, alone or in a certificate.
ASSUME RoutesAssumption ==
    /\ Plugins \subseteq {"yaml", "workingdir", "docker", "kubernetes"}
    /\ \A p \in Plugins : Worlds[p] \cup Later[p] \subseteq Configs(p)
    /\ \A c \in Creds :
        /\ c.method \in {"password", "publickey"} /\ c.key # Junk
        /\ c.method = "publickey" => c.password = ""
        /\ c.method = "password" => ~c.cert

NoCred == [method |-> "none", password |-> "", key |-> "", cert |-> FALSE,
           user |-> FALSE, valid |-> FALSE]

\* listPipe of the plugin, for a client that names u.
ListPipe(u, w, password) ==
    CASE plugin = "yaml"       -> Y!ListPipe(w, u)
      [] plugin = "workingdir" -> W!ListPipe(opts, w, u)
      [] plugin = "docker"     -> D!ListPipe(w, u)
      [] plugin = "kubernetes" -> K!ListPipe(w, u, password)

RouteInit ==
    /\ plugin \in Plugins /\ user \in Users
    /\ opts \in IF plugin = "workingdir" THEN OptionSets ELSE {CHOOSE o \in OptionSets : TRUE}
    /\ world \in Worlds[plugin]
    /\ checked = FALSE /\ codes = {} /\ offered = {}
    /\ at = world /\ cred = NoCred /\ answer = Failed /\ tries = 0

\* The operator changes the configuration.
EditConfig(w) ==
    /\ w \in Later[plugin] /\ w # world /\ ~answer.ok
    /\ world' = w
    /\ UNCHANGED <<plugin, opts, user, checked, codes, offered, at, cred, answer, tries>>

\* NextAuthMethodsCallback: of Skel, except for workingdir.
Offer ==
    LET listed == ListPipe(user, world, "") IN
    /\ offered = {} /\ ~answer.ok
    /\ offered' = IF plugin = "workingdir" THEN W!NextAuthMethods(opts, checked)
                  ELSE IF listed.err THEN {} ELSE SupportedMethods(listed.froms)
    /\ UNCHANGED <<plugin, opts, user, world, checked, codes, at, cred, answer, tries>>

\* The client presents a password or a key as user u, by a method it was
\* offered; after a failure the methods are asked for again.
Try(u, c) ==
    LET listed == ListPipe(u, world, c.password) IN
    /\ c.method \in offered /\ tries < MaxTries /\ ~answer.ok
    /\ answer' = IF listed.err THEN Failed ELSE Callback(listed.froms, u, c)
    /\ user' = u /\ cred' = c /\ at' = world /\ offered' = {} /\ tries' = tries + 1
    /\ UNCHANGED <<plugin, opts, world, checked, codes>>

\* The client enters a code of the second factor as user u.  A wrong one is
\* asked for again in the same callback; a client that gives that up and names
\* another user is offered the same again.
EnterCode(u, code) ==
    LET said == W!KeyboardInteractive(opts, world, u, code) IN
    /\ plugin = "workingdir" /\ "keyboard-interactive" \in offered /\ tries < MaxTries /\ ~answer.ok
    /\ checked' = (checked \/ said = "retry")
    /\ codes' = IF code = "right" THEN codes \cup {u} ELSE codes
    /\ offered' = IF said = "again" THEN offered ELSE {}
    /\ user' = u /\ cred' = NoCred /\ tries' = tries + 1
    /\ UNCHANGED <<plugin, opts, world, at, answer>>

RouteNext ==
    \/ Offer
    \/ \E w \in Later[plugin] : EditConfig(w)
    \/ \E u \in Users, c \in Creds : Try(u, c)
    \/ \E u \in Users, code \in {"right", "wrong"} : EnterCode(u, code)

RouteSpec == RouteInit /\ [][RouteNext]_routeVars

-----------------------------------------------------------------------------
(* Properties. *)

Valid(c) == c.cert => c.user /\ c.valid

\* A login is routed by the first from that has anything to say about it: the
\* loops of match and of the key search, with their early returns, come to
\* what the pipes say in their order, and to no other upstream
\* (skel.go:100-130, 154-233).
RoutedByFirstOpinion ==
    cred # NoCred =>
        LET listed == ListPipe(user, at, cred.password)
            f      == listed.froms
        IN IF ~listed.err /\ Valid(cred) /\ \E i \in DOMAIN f : Admits(f, cred, i)
           THEN answer = CreateUpstream(f[CHOOSE i \in DOMAIN f : Admits(f, cred, i)].to,
                                        user, cred.password)
           ELSE ~answer.ok

\* yaml/skel.go:92-94, "Treat this as a hard failure instead of silently
\* falling back to disabling upstream host key verification": a route to a
\* host carries known hosts, when every pipe to that host has known_hosts
\* configured.
KnownHostsKept ==
    answer.ok /\ plugin = "yaml" =>
        \/ answer.upstream.known # <<>>
        \/ \E i \in DOMAIN at : \E j \in DOMAIN at[i].pipes :
              LET to == at[i].pipes[j].to
              IN to.host = answer.upstream.host /\ ~Y!Configured(to.known)

\* With --check-totp nobody gets an upstream before a right code was entered on
\* the connection, although code and key are two callbacks between which only
\* the meta of the connection remembers the first (workingdir/main.go:70-122).
\* The code is that of the user logged in, as long as the client names no
\* other: the meta does not say whose code it was.
CodeBeforeUpstream ==
    answer.ok /\ plugin = "workingdir" /\ opts.checkTotp => codes # {}
=============================================================================
