---------------------------- MODULE DockerBridge ----------------------------
(***************************************************************************)
(* The docker plugin's exec bridge (plugin/docker): every callback lists   *)
(* the containers, registers a key of its own for each one that asks for   *)
(* it, and drops the keys of those its list lacks; the daemon then         *)
(* connects to the bridge with the key it was given, and the bridge finds  *)
(* the container by that key.                                              *)
(*                                                                         *)
(* Each critical section of dockerSshdMu is one action; the container list *)
(* is taken once per callback and is out of date from then on.  A          *)
(* container's command is a label, fixed when it is created.               *)
(***************************************************************************)
EXTENDS BridgeListener

CONSTANTS Containers, \* container ids with sshpiper.docker_exec_cmd=true
          Label       \* Label[c]: sshpiper.docker_sshd_cmd, or None

ASSUME DockerConstants == None \notin Containers

VARIABLES
    running,  \* the containers of the docker engine
    priv,     \* dockerSshdPrivateKeys (a key pair is one number)
    keys,     \* dockerSshdKeys
    byKey,    \* dockerSshdKeyToContainer
    cmds,     \* dockerSshdCmds
    made,     \* keys generated so far
    todo,     \* containers of the caller's list still to be looked at
    active,   \* activeDockerSshdContainers
    cur, new, \* the container at hand, the key just generated for it
    hand,     \* the keys in the pipes the caller returns, by container
    sess,     \* what the bridge made of the connection: container and command
    asked     \* history: the container the connection was meant for

tableVars == <<priv, keys, byKey, cmds>>
listVars  == <<todo, active, cur, new, hand>>
sessVars  == <<sess, asked>>
dockerVars == <<pc, bridgeVars, running, made, tableVars, listVars, sessVars>>

DockerInit ==
    /\ BridgeInit
    /\ running = {} /\ made = 0
    /\ priv = [c \in Containers |-> None] /\ keys = [c \in Containers |-> None]
    /\ byKey = [x \in Keys |-> None] /\ cmds = [c \in Containers |-> None]
    /\ todo = [k \in Callers |-> {}]
    /\ active = [k \in Callers |-> {}]
    /\ cur = [k \in Callers |-> None] /\ new = [k \in Callers |-> None]
    /\ hand = [k \in Callers |-> [c \in Containers |-> None]]
    /\ sess = [k \in Callers |-> <<None, None>>] /\ asked = [k \in Callers |-> None]

-----------------------------------------------------------------------------
(* The engine. *)

ContainerStarts(c) ==
    /\ running' = running \cup {c} /\ c \notin running
    /\ UNCHANGED <<pc, bridgeVars, made, tableVars, listVars, sessVars>>

ContainerStops(c) ==
    /\ running' = running \ {c} /\ c \in running
    /\ UNCHANGED <<pc, bridgeVars, made, tableVars, listVars, sessVars>>

-----------------------------------------------------------------------------
(* list *)

\* list begins with ContainerList.
List(k) ==
    /\ pc[k] = "idle"
    /\ todo' = [todo EXCEPT ![k] = running]
    /\ pc' = [pc EXCEPT ![k] = "loop"]
    /\ UNCHANGED <<bridgeVars, running, made, tableVars, active, cur, new, hand, sessVars>>

\* The loop comes to the next container: ensureDockerSshdBridge.
NextContainer(k, c) ==
    /\ pc[k] = "loop" /\ c \in todo[k]
    /\ cur' = [cur EXCEPT ![k] = c] /\ todo' = [todo EXCEPT ![k] = @ \ {c}]
    /\ pc' = [pc EXCEPT ![k] = "look"]
    /\ UNCHANGED <<bridgeVars, running, made, tableVars, active, new, hand, sessVars>>

Ensure(k) ==
    /\ EnsureStep(k)
    /\ UNCHANGED <<running, made, tableVars, listVars, sessVars>>

\* Without a bridge, or when no key can be generated for it, the container is
\* skipped; it does not become active.
SkipContainer(k) ==
    /\ pc[k] = "nobridge" \/ (pc[k] = "got" /\ priv[cur[k]] = None)
    /\ pc' = [pc EXCEPT ![k] = "loop"]
    /\ UNCHANGED <<bridgeVars, running, made, tableVars, listVars, sessVars>>

\* setDockerSshdCmdLocked: an empty command leaves the old one.
SetDockerSshdCmd(c) == [cmds EXCEPT ![c] = IF Label[c] # None THEN Label[c] ELSE @]

\* The container has key x: its pipe is complete.
Registered(k, x) ==
    /\ cur' = [cur EXCEPT ![k] = None] /\ new' = [new EXCEPT ![k] = None]
    /\ hand' = [hand EXCEPT ![k][cur[k]] = x]
    /\ active' = [active EXCEPT ![k] = @ \cup {cur[k]}]
    /\ pc' = [pc EXCEPT ![k] = "loop"]

\* registerDockerSshdContainer, first critical section: the key that is there,
\* or a new one, generated but not yet registered.
RegisterLook(k) ==
    LET c == cur[k] IN
    /\ pc[k] = "got"
    /\ IF priv[c] # None
       THEN /\ Registered(k, priv[c]) /\ cmds' = SetDockerSshdCmd(c)
            /\ UNCHANGED made
       ELSE /\ made < MaxKeys
            /\ made' = made + 1 /\ new' = [new EXCEPT ![k] = made + 1]
            /\ pc' = [pc EXCEPT ![k] = "register"]
            /\ UNCHANGED <<cur, hand, active, cmds>>
    /\ UNCHANGED <<bridgeVars, running, priv, keys, byKey, todo, sessVars>>

\* Its second critical section: another caller may have been faster.
RegisterStore(k) ==
    LET c == cur[k] IN
    /\ pc[k] = "register" /\ cmds' = SetDockerSshdCmd(c)
    /\ IF priv[c] # None
       THEN Registered(k, priv[c]) /\ UNCHANGED <<priv, keys, byKey>>
       ELSE /\ Registered(k, new[k])
            /\ priv' = [priv EXCEPT ![c] = new[k]] /\ keys' = [keys EXCEPT ![c] = new[k]]
            /\ byKey' = [x \in Keys |-> IF x = new[k] THEN c
                                        ELSE IF x = keys[c] THEN None ELSE byKey[x]]
    /\ UNCHANGED <<bridgeVars, running, made, todo, sessVars>>

\* The locals of a callback that is over.
Forget(k) ==
    /\ todo' = [todo EXCEPT ![k] = {}] /\ active' = [active EXCEPT ![k] = {}]
    /\ hand' = [hand EXCEPT ![k] = [c \in Containers |-> None]]
    /\ sess' = [sess EXCEPT ![k] = <<None, None>>] /\ asked' = [asked EXCEPT ![k] = None]
    /\ at' = [at EXCEPT ![k] = None] /\ pc' = [pc EXCEPT ![k] = "idle"]
    /\ UNCHANGED <<addr, listener, opened, mine, cur, new>>

\* Another container of the list has no usable address: list fails, and the
\* state is not synchronised.
ListFails(k) ==
    /\ pc[k] = "loop"
    /\ Forget(k)
    /\ UNCHANGED <<running, made, tableVars>>

\* Mutant of SyncDockerSshdState: the reverse table keeps the key.
SyncDockerSshdState_KeepsKey(k) ==
    LET Keep(f) == [c \in Containers |-> IF c \in active[k] THEN f[c] ELSE None] IN
    /\ pc[k] = "loop" /\ todo[k] = {}
    /\ priv' = Keep(priv) /\ cmds' = Keep(cmds) /\ keys' = Keep(keys)
    /\ pc' = [pc EXCEPT ![k] = "listed"]
    /\ UNCHANGED <<bridgeVars, running, made, byKey, listVars, sessVars>>

\* syncDockerSshdState ends list: containers it did not register are dropped.
SyncDockerSshdState(k) ==
    LET gone == {c \in Containers \ active[k] : priv[c] # None}
    IN /\ pc[k] = "loop" /\ todo[k] = {}
       /\ priv' = [c \in Containers |-> IF c \in gone THEN None ELSE priv[c]]
       /\ cmds' = [c \in Containers |-> IF c \in gone THEN None ELSE cmds[c]]
       /\ keys' = [c \in Containers |-> IF c \in gone THEN None ELSE keys[c]]
       /\ byKey' = [x \in Keys |-> IF \E c \in gone : keys[c] = x THEN None ELSE byKey[x]]
       /\ pc' = [pc EXCEPT ![k] = "listed"]
       /\ UNCHANGED <<bridgeVars, running, made, listVars, sessVars>>

-----------------------------------------------------------------------------
(* The connection. *)

\* The daemon connects with the key of one of the pipes; PublicKeyCallback of
\* the bridge finds the container and its command under one lock.
PublicKeyCallback(k, c) ==
    /\ pc[k] = "listed" /\ hand[k][c] # None
    /\ asked' = [asked EXCEPT ![k] = c]
    /\ sess' = [sess EXCEPT ![k] =
                  LET d == byKey[hand[k][c]] IN
                  IF d = None THEN <<None, None>>
                  ELSE <<d, IF cmds[d] = None THEN "/bin/sh" ELSE cmds[d]>>]
    /\ pc' = [pc EXCEPT ![k] = "connected"]
    /\ UNCHANGED <<bridgeVars, running, made, tableVars, listVars>>

\* The callback is over; the caller is used for another one.
Return(k) ==
    /\ pc[k] \in {"listed", "connected"}
    /\ Forget(k)
    /\ UNCHANGED <<running, made, tableVars>>

Fail(l) ==
    /\ BridgeFails(l)
    /\ UNCHANGED <<running, made, tableVars, listVars, sessVars>>

DockerNext ==
    \/ \E c \in Containers : ContainerStarts(c) \/ ContainerStops(c)
    \/ \E l \in Listeners : Fail(l)
    \/ \E k \in Callers :
         \/ List(k) \/ Ensure(k) \/ SkipContainer(k) \/ RegisterLook(k) \/ RegisterStore(k)
         \/ ListFails(k) \/ SyncDockerSshdState(k) \/ Return(k)
         \/ \E c \in Containers : NextContainer(k, c) \/ PublicKeyCallback(k, c)

DockerSpec == DockerInit /\ [][DockerNext]_dockerVars

-----------------------------------------------------------------------------
(* Properties. *)

\* The four tables of the bridge agree whenever the lock is free: a container
\* has a private key exactly when it has a public one, the reverse table
\* leads back to it, and no key outlives its container
\* (dockersshd_bridge.go:56-98, 203-220).
DockerTablesAgree ==
    /\ \A c \in Containers : priv[c] = keys[c]
    /\ \A c \in Containers : keys[c] # None => byKey[keys[c]] = c
    /\ \A x \in Keys : byKey[x] # None => keys[byKey[x]] = x
    /\ \A c \in Containers : priv[c] = None => cmds[c] = None

\* A key that was handed out for a container opens that container with the
\* command of its label, or nothing: never another container, although the
\* tables changed between list and connection (dockersshd_bridge.go:144-163).
KeyOpensItsContainer ==
    \A k \in Callers : sess[k][1] # None =>
        sess[k] = <<asked[k], IF Label[asked[k]] = None THEN "/bin/sh" ELSE Label[asked[k]]>>
=============================================================================
