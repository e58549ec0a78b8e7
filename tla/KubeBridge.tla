----------------------------- MODULE KubeBridge -----------------------------
(***************************************************************************)
(* The kubernetes plugin's exec bridge (plugin/kubernetes): every callback *)
(* lists the Pipe objects, brings the tables of the bridge in line with    *)
(* them, and registers a key for the pipe it matches; the bridge finds the *)
(* pod to exec into by the key the daemon presents.                        *)
(*                                                                         *)
(* Each critical section of kubeExecMu is one action.  The pipes a caller  *)
(* works with are those of its own list, which another caller's list and   *)
(* the cluster may have overtaken.                                         *)
(***************************************************************************)
EXTENDS BridgeListener

CONSTANTS Pipes,    \* Pipe objects, namespace/name
          Pods,     \* pods an exec target may name
          Specs     \* what a Pipe may be: Pods, "absent", "off", "unparsable"

ASSUME KubeConstants ==
    /\ Specs \subseteq {"absent", "off", "unparsable"} \cup Pods
    /\ Pods \cap {"absent", "off", "unparsable"} = {}
    /\ None \notin Pipes \cup (Pipes \X Pods)

VARIABLES
    store,       \* the objects in the lister's cache
    had,         \* history: the targets a pipe has had
    kpriv,       \* kubeExecPrivateKeys (a key pair is one number)
    pipeToKey,   \* kubeExecPipeToKey
    targets,     \* kubeExecTargets: pipe and pod, by key
    kmade,       \* keys generated so far
    seenPipes,   \* the objects a caller has listed
    kcur, knew,  \* the pipe it matches, the key it has just generated
    khand,       \* the key of the upstream it returns
    ksess        \* the target the bridge selected for the connection

kubeTables == <<kpriv, pipeToKey, targets>>
kubeLocals == <<seenPipes, kcur, knew, khand, ksess>>
kubeVars   == <<pc, bridgeVars, store, had, kubeTables, kmade, kubeLocals>>

KubeInit ==
    /\ BridgeInit
    /\ store = [p \in Pipes |-> "absent"] /\ had = [p \in Pipes |-> {}]
    /\ kpriv = [p \in Pipes |-> None] /\ pipeToKey = [p \in Pipes |-> None]
    /\ targets = [x \in Keys |-> None] /\ kmade = 0
    /\ seenPipes = [k \in Callers |-> [p \in Pipes |-> "absent"]]
    /\ kcur = [k \in Callers |-> None] /\ knew = [k \in Callers |-> None]
    /\ khand = [k \in Callers |-> None] /\ ksess = [k \in Callers |-> None]

\* isKubectlExecEnabled.
IsKubectlExecEnabled(spec) == spec \notin {"absent", "off"}

\* parseKubectlExecTarget of an enabled pipe, with the pipe whose host it is.
ParseTarget(p, spec) ==
    IF IsKubectlExecEnabled(spec) /\ spec # "unparsable" THEN <<p, spec>> ELSE None

\* An object is created, changed or deleted.
Apply(p, spec) ==
    /\ store[p] # spec
    /\ store' = [store EXCEPT ![p] = spec]
    /\ had' = IF spec \in Pods THEN [had EXCEPT ![p] = @ \cup {spec}] ELSE had
    /\ UNCHANGED <<pc, bridgeVars, kubeTables, kmade, kubeLocals>>

\* list: the lister's cache.
ListPipes(k) ==
    /\ pc[k] = "idle"
    /\ seenPipes' = [seenPipes EXCEPT ![k] = store]
    /\ pc' = [pc EXCEPT ![k] = "sync"]
    /\ UNCHANGED <<bridgeVars, store, had, kubeTables, kmade, kcur, knew, khand, ksess>>

\* syncKubectlExecState: pipes that are gone, switched off or not parsable lose
\* their key, the others get the target of the caller's list.
SyncKubectlExecState(k) ==
    LET target(p) == ParseTarget(p, seenPipes[k][p])
        known     == {p \in Pipes : pipeToKey[p] # None}
        gone      == {p \in known : target(p) = None}
    IN /\ pc[k] = "sync"
       /\ kpriv' = [p \in Pipes |-> IF p \in gone THEN None ELSE kpriv[p]]
       /\ pipeToKey' = [p \in Pipes |-> IF p \in gone THEN None ELSE pipeToKey[p]]
       /\ targets' = [x \in Keys |->
                        IF \E p \in known : pipeToKey[p] = x
                        THEN target(CHOOSE p \in known : pipeToKey[p] = x)
                        ELSE targets[x]]
       /\ pc' = [pc EXCEPT ![k] = "match"]
       /\ UNCHANGED <<bridgeVars, store, had, kmade, kubeLocals>>

\* The locals of a callback that is over.
ForgetPipes(k) ==
    /\ seenPipes' = [seenPipes EXCEPT ![k] = [p \in Pipes |-> "absent"]]
    /\ kcur' = [kcur EXCEPT ![k] = None] /\ knew' = [knew EXCEPT ![k] = None]
    /\ khand' = [khand EXCEPT ![k] = None] /\ ksess' = [ksess EXCEPT ![k] = None]
    /\ at' = [at EXCEPT ![k] = None] /\ pc' = [pc EXCEPT ![k] = "idle"]
    /\ UNCHANGED <<addr, listener, opened, mine>>

\* The pipe has key x: on to ensureKubectlExecBridge.
HasKey(k, x) ==
    /\ khand' = [khand EXCEPT ![k] = x] /\ knew' = [knew EXCEPT ![k] = None]
    /\ pc' = [pc EXCEPT ![k] = "look"]

\* Mutant of RegisterPipe: a caller takes the key of whatever pipe has one.
RegisterPipe_AnyKey(k, p) ==
    LET target == ParseTarget(p, seenPipes[k][p]) IN
    /\ pc[k] = "match" /\ target # None
    /\ kcur' = [kcur EXCEPT ![k] = p]
    /\ IF \E q \in Pipes : kpriv[q] # None
       THEN HasKey(k, kpriv[CHOOSE q \in Pipes : kpriv[q] # None]) /\ UNCHANGED <<targets, kmade>>
       ELSE /\ kmade < MaxKeys
            /\ kmade' = kmade + 1 /\ knew' = [knew EXCEPT ![k] = kmade + 1]
            /\ pc' = [pc EXCEPT ![k] = "register"]
            /\ UNCHANGED <<targets, khand>>
    /\ UNCHANGED <<bridgeVars, store, had, kpriv, pipeToKey, seenPipes, ksess>>

\* MatchConn finds that the user is to go to pipe p: registerKubectlExecPipe up
\* to its first unlock.  The key that is there gets the caller's target; for
\* a pipe without one a key is generated.
RegisterPipe(k, p) ==
    LET target == ParseTarget(p, seenPipes[k][p]) IN
    /\ pc[k] = "match" /\ target # None
    /\ kcur' = [kcur EXCEPT ![k] = p]
    /\ IF kpriv[p] # None
       THEN /\ targets' = [targets EXCEPT ![pipeToKey[p]] = target]
            /\ HasKey(k, kpriv[p]) /\ UNCHANGED kmade
       ELSE /\ kmade < MaxKeys
            /\ kmade' = kmade + 1 /\ knew' = [knew EXCEPT ![k] = kmade + 1]
            /\ pc' = [pc EXCEPT ![k] = "register"]
            /\ UNCHANGED <<targets, khand>>
    /\ UNCHANGED <<bridgeVars, store, had, kpriv, pipeToKey, seenPipes, ksess>>

\* registerKubectlExecPipe after its second lock: another caller may have been
\* faster.
StorePipe(k) ==
    LET p == kcur[k]
        target == ParseTarget(p, seenPipes[k][p])
    IN /\ pc[k] = "register"
       /\ IF kpriv[p] # None
          THEN /\ targets' = [targets EXCEPT ![pipeToKey[p]] = target]
               /\ HasKey(k, kpriv[p]) /\ UNCHANGED <<kpriv, pipeToKey>>
          ELSE /\ targets' = [targets EXCEPT ![knew[k]] = target]
               /\ HasKey(k, knew[k])
               /\ kpriv' = [kpriv EXCEPT ![p] = knew[k]]
               /\ pipeToKey' = [pipeToKey EXCEPT ![p] = knew[k]]
       /\ UNCHANGED <<bridgeVars, store, had, kmade, seenPipes, kcur, ksess>>

EnsureBridge(k) ==
    /\ EnsureStep(k)
    /\ UNCHANGED <<store, had, kubeTables, kmade, kubeLocals>>

\* The daemon connects with the key; PublicKeyCallback of the bridge selects
\* the target.
SelectTarget(k) ==
    /\ pc[k] = "got"
    /\ ksess' = [ksess EXCEPT ![k] = targets[khand[k]]]
    /\ pc' = [pc EXCEPT ![k] = "connected"]
    /\ UNCHANGED <<bridgeVars, store, had, kubeTables, kmade, seenPipes, kcur, knew, khand>>

\* The callback is over: there was no such pipe, its target did not parse,
\* there was no bridge, or the connection has its answer.
CallbackReturns(k) ==
    /\ pc[k] \in {"match", "nobridge", "connected"}
    /\ ForgetPipes(k)
    /\ UNCHANGED <<store, had, kubeTables, kmade>>

KubeFail(l) ==
    /\ BridgeFails(l)
    /\ UNCHANGED <<store, had, kubeTables, kmade, kubeLocals>>

KubeNext ==
    \/ \E p \in Pipes, spec \in Specs : Apply(p, spec)
    \/ \E l \in Listeners : KubeFail(l)
    \/ \E k \in Callers :
         \/ ListPipes(k) \/ SyncKubectlExecState(k) \/ StorePipe(k) \/ EnsureBridge(k)
         \/ SelectTarget(k) \/ CallbackReturns(k)
         \/ \E p \in Pipes : RegisterPipe(k, p)

KubeSpec == KubeInit /\ [][KubeNext]_kubeVars

-----------------------------------------------------------------------------
(* Properties. *)

\* The three tables agree whenever the lock is free: the same pipes have a
\* private and a public key, every key of a pipe has a target of that pipe,
\* and a key without a pipe has none
\* (kubectl_exec_bridge.go:105-154, 156-188).
KubeTablesAgree ==
    /\ kpriv = pipeToKey
    /\ \A p \in Pipes : pipeToKey[p] # None =>
         targets[pipeToKey[p]] # None /\ targets[pipeToKey[p]][1] = p
    /\ \A x \in Keys : targets[x] # None => pipeToKey[targets[x][1]] = x

\* A connection ends in a pod that the pipe it was matched with has named at
\* some time, never in one of another pipe, whatever lists run at the same
\* time (kubectl_exec_bridge.go:231-242).
KeyOpensItsPipe ==
    \A k \in Callers : ksess[k] # None =>
        ksess[k][1] = kcur[k] /\ ksess[k][2] \in had[kcur[k]]
=============================================================================
