--------------------------- MODULE BridgeListener ---------------------------
(***************************************************************************)
(* The local listener behind which the docker and the kubernetes plugin    *)
(* run an ssh server of their own (ensureDockerSshdBridge,                 *)
(* ensureKubectlExecBridge): opened by the first caller that needs it,     *)
(* although the lock is not held while a caller opens one.                 *)
(***************************************************************************)
EXTENDS Integers

CONSTANTS Callers,      \* concurrent callbacks of the plugin
          MaxListeners, \* bound on the listeners that are opened
          MaxKeys,      \* bound on the keys that are generated
          None

ASSUME BridgeConstants == MaxListeners \in Nat /\ MaxKeys \in Nat /\ None \notin Int

VARIABLES
    pc,       \* control of a caller; "look", "listen", "adopt" are in ensure
    addr,     \* BridgeAddr: the listener whose address it is
    listener, \* state of a listener: "none", "open", "serving", "failed", "closed"
    opened,   \* listeners opened so far
    mine,     \* the listener a caller has opened
    at        \* the address a caller was given

bridgeVars == <<addr, listener, opened, mine, at>>

Listeners == 1..MaxListeners
Keys      == 1..MaxKeys

BridgeInit ==
    /\ pc = [k \in Callers |-> "idle"] /\ addr = None
    /\ listener = [l \in Listeners |-> "none"] /\ opened = 0
    /\ mine = [k \in Callers |-> None] /\ at = [k \in Callers |-> None]

\* The first critical section of ensure: is there a bridge already?
EnsureLook(k) ==
    /\ pc[k] = "look"
    /\ pc' = [pc EXCEPT ![k] = IF addr # None THEN "got" ELSE "listen"]
    /\ at' = [at EXCEPT ![k] = addr]
    /\ UNCHANGED <<addr, listener, opened, mine>>

\* net.Listen, outside the lock.
EnsureListen(k) ==
    /\ pc[k] = "listen" /\ opened < MaxListeners
    /\ opened' = opened + 1
    /\ listener' = [listener EXCEPT ![opened + 1] = "open"]
    /\ mine' = [mine EXCEPT ![k] = opened + 1]
    /\ pc' = [pc EXCEPT ![k] = "adopt"]
    /\ UNCHANGED <<addr, at>>

\* net.Listen fails.
EnsureListenFails(k) ==
    /\ pc[k] = "listen"
    /\ pc' = [pc EXCEPT ![k] = "nobridge"]
    /\ UNCHANGED bridgeVars

\* Mutant of EnsureAdopt: the loser of the race gives its own address out.
EnsureAdopt_Loser(k) ==
    /\ pc[k] = "adopt"
    /\ addr' = IF addr = None THEN mine[k] ELSE addr
    /\ listener' = [listener EXCEPT ![mine[k]] = IF addr = None THEN "serving" ELSE "closed"]
    /\ at' = [at EXCEPT ![k] = mine[k]]
    /\ mine' = [mine EXCEPT ![k] = None] /\ pc' = [pc EXCEPT ![k] = "got"]
    /\ UNCHANGED opened

\* The second critical section: the first caller's listener becomes the bridge,
\* another caller closes its own and takes the address that is there.
EnsureAdopt(k) ==
    /\ pc[k] = "adopt"
    /\ addr' = IF addr = None THEN mine[k] ELSE addr
    /\ listener' = [listener EXCEPT ![mine[k]] = IF addr = None THEN "serving" ELSE "closed"]
    /\ at' = [at EXCEPT ![k] = addr']
    /\ mine' = [mine EXCEPT ![k] = None] /\ pc' = [pc EXCEPT ![k] = "got"]
    /\ UNCHANGED opened

\* The goroutine that serves the listener has no host key: it forgets the
\* address and closes the listener.
BridgeFails(l) ==
    /\ listener[l] = "serving"
    /\ listener' = [listener EXCEPT ![l] = "failed"] /\ addr' = None
    /\ UNCHANGED <<pc, opened, mine, at>>

EnsureStep(k) ==
    \/ EnsureLook(k) \/ EnsureListen(k) \/ EnsureListenFails(k) \/ EnsureAdopt(k)

\* An address that ensure gives out is served, unless the bridge behind it
\* has failed since: never the listener a losing caller has closed.  And no
\* listener is left open that nobody serves
\* (dockersshd_bridge.go:38-53, kubectl_exec_bridge.go:89-102).
BridgeIsServed ==
    /\ \A k \in Callers : at[k] # None => listener[at[k]] \in {"serving", "failed"}
    /\ \A l \in Listeners : listener[l] = "open" => \E k \in Callers : mine[k] = l
=============================================================================
