------------------------- MODULE ExecBridges_proofs -------------------------
(***************************************************************************)
(* The properties of ExecBridges for any number of callers, containers,    *)
(* pipes, keys and listeners, from what every step of a callback keeps of  *)
(* the bridge's listeners and the inductive invariants of the two plugins. *)
(***************************************************************************)
EXTENDS ExecBridges, TLAPS

Places == {"idle", "loop", "look", "listen", "adopt", "got", "nobridge", "register",
           "listed", "connected", "sync", "match"}

\* The listeners: types, who holds an open one, which one is served.
IBridge ==
    /\ pc \in [Callers -> Places]
    /\ addr \in Listeners \cup {None}
    /\ listener \in [Listeners -> {"none", "open", "serving", "failed", "closed"}]
    /\ opened \in 0..MaxListeners
    /\ mine \in [Callers -> Listeners \cup {None}]
    /\ at \in [Callers -> Listeners \cup {None}]
    /\ BridgeIsServed
    /\ \A l \in Listeners : listener[l] = "serving" <=> addr = l
    /\ \A l \in Listeners : l > opened => listener[l] = "none"
    /\ \A k \in Callers : pc[k] = "adopt" <=> mine[k] # None
    /\ \A k \in Callers : mine[k] # None =>
         listener[mine[k]] = "open" /\ \A j \in Callers : mine[j] = mine[k] => j = k

-----------------------------------------------------------------------------
\* Bounds as sets of integers; None is not one of them.
LEMMA Bounds ==
    /\ Listeners \subseteq Int /\ Keys \subseteq Int
    /\ None \notin Listeners /\ None \notin Keys
BY BridgeConstants DEF Listeners, Keys

\* ensure, in either plugin, keeps the listeners in order.
LEMMA EnsureKeepsBridge ==
    ASSUME IBridge, NEW k \in Callers, EnsureStep(k)
    PROVE  IBridge'
<1> USE Bounds, BridgeConstants DEF IBridge, BridgeIsServed, Places
<1>1. CASE EnsureLook(k)
    BY <1>1 DEF EnsureLook
<1>2. CASE EnsureListen(k)
    <2>1. opened + 1 \in Listeners /\ listener[opened + 1] = "none"
        BY <1>2 DEF EnsureListen, Listeners
    <2>2. addr # opened + 1 /\ \A j \in Callers : mine[j] # opened + 1 /\ at[j] # opened + 1
        BY <2>1
    <2>3. QED
        BY <1>2, <2>1, <2>2 DEF EnsureListen
<1>3. CASE EnsureListenFails(k)
    BY <1>3 DEF EnsureListenFails, bridgeVars
<1>4. CASE EnsureAdopt(k)
    <2>1. mine[k] \in Listeners /\ listener[mine[k]] = "open"
        BY <1>4 DEF EnsureAdopt
    <2>2. addr' \in Listeners /\ listener'[addr'] = "serving"
        BY <1>4, <2>1 DEF EnsureAdopt
    <2>3. QED
        BY <1>4, <2>1, <2>2 DEF EnsureAdopt
<1>5. QED
    BY <1>1, <1>2, <1>3, <1>4, Zenon DEF EnsureStep

\* A caller of ensure goes on inside it, or has its answer.
LEMMA EnsureMoves ==
    ASSUME IBridge, NEW k \in Callers, EnsureStep(k)
    PROVE  /\ pc[k] \in {"look", "listen", "adopt"} /\ pc'[k] \in {"listen", "adopt", "got", "nobridge"}
           /\ \A j \in Callers : j # k => pc'[j] = pc[j]
<1>1. pc \in [Callers -> Places]
    BY Zenon DEF IBridge
<1>2. PICK v \in {"listen", "adopt", "got", "nobridge"} : pc' = [pc EXCEPT ![k] = v]
    BY ZenonT(40) DEF EnsureStep, EnsureLook, EnsureListen, EnsureListenFails, EnsureAdopt
<1>3. pc[k] \in {"look", "listen", "adopt"}
    BY ZenonT(40) DEF EnsureStep, EnsureLook, EnsureListen, EnsureListenFails, EnsureAdopt
<1>4. QED
    BY <1>1, <1>2, <1>3, Zenon

\* So does a bridge that has no host key.
LEMMA FailKeepsBridge ==
    ASSUME IBridge, NEW l \in Listeners, BridgeFails(l)
    PROVE  IBridge'
BY Bounds DEF IBridge, BridgeIsServed, Places, BridgeFails

\* And every step of a caller outside ensure.
LEMMA MoveKeepsBridge ==
    ASSUME IBridge, NEW k \in Callers, NEW v \in Places \ {"adopt"}, pc[k] # "adopt",
           pc' = [pc EXCEPT ![k] = v], UNCHANGED <<addr, listener, opened, mine>>,
           at' \in {at, [at EXCEPT ![k] = None]}
    PROVE  IBridge'
<1>1. at' \in [Callers -> Listeners \cup {None}] /\ \A j \in Callers : at'[j] \in {at[j], None}
    BY DEF IBridge
<1>2. pc' \in [Callers -> Places] /\ \A j \in Callers : pc'[j] = "adopt" <=> pc[j] = "adopt"
    BY ZenonT(40) DEF IBridge
<1>3. BridgeIsServed'
    BY <1>1 DEF IBridge, BridgeIsServed
<1>4. QED
    BY <1>1, <1>2, <1>3 DEF IBridge

\* There is no listener at the start.
LEMMA BridgeStarts == BridgeInit => IBridge
BY Bounds, BridgeConstants DEF BridgeInit, IBridge, BridgeIsServed, Places

-----------------------------------------------------------------------------
(***************************************************************************)
(* The inductive invariant of the kubernetes plugin's bridge.  Beside what *)
(* the docker plugin needs of its keys it says that every pod in a list,   *)
(* an object or a target is one its pipe has had.                          *)
(***************************************************************************)

Targets == (Pipes \X Pods) \cup {None}

KubeTypeOK ==
    /\ store \in [Pipes -> Specs \cup {"absent"}]
    /\ had \in [Pipes -> SUBSET Pods]
    /\ kpriv \in [Pipes -> Keys \cup {None}]
    /\ pipeToKey \in [Pipes -> Keys \cup {None}]
    /\ targets \in [Keys -> Targets]
    /\ kmade \in 0..MaxKeys
    /\ seenPipes \in [Callers -> [Pipes -> Specs \cup {"absent"}]]
    /\ kcur \in [Callers -> Pipes \cup {None}]
    /\ knew \in [Callers -> Keys \cup {None}]
    /\ khand \in [Callers -> Keys \cup {None}]
    /\ ksess \in [Callers -> Targets]

KubeKeys ==
    /\ \A x \in Keys : x > kmade => targets[x] = None
    /\ \A k \in Callers : knew[k] # None =>
         /\ knew[k] <= kmade /\ targets[knew[k]] = None
         /\ \A j \in Callers : knew[j] = knew[k] => j = k
         /\ \A j \in Callers : khand[j] # knew[k]
    /\ \A k \in Callers : khand[k] # None =>
         khand[k] <= kmade /\ (targets[khand[k]] # None => targets[khand[k]][1] = kcur[k])

\* A pod that a list, an object or a target names is one the pipe has had.
KubePods ==
    /\ \A p \in Pipes : store[p] \in Pods => store[p] \in had[p]
    /\ \A k \in Callers, p \in Pipes : seenPipes[k][p] \in Pods => seenPipes[k][p] \in had[p]
    /\ \A x \in Keys : targets[x] # None => targets[x][2] \in had[targets[x][1]]

KubePlaces ==
    \A k \in Callers :
        /\ pc[k] = "register" =>
             knew[k] # None /\ kcur[k] \in Pipes /\ ParseTarget(kcur[k], seenPipes[k][kcur[k]]) # None
        /\ pc[k] \in {"look", "listen", "adopt", "got"} => khand[k] # None
        /\ pc[k] \in {"idle", "sync", "match", "register"} => khand[k] = None
        /\ pc[k] # "connected" => ksess[k] = None

IKube == KubeTypeOK /\ KubeTablesAgree /\ KubeKeys /\ KubePods /\ KubePlaces /\ KeyOpensItsPipe

-----------------------------------------------------------------------------
\* A target is a pipe with a pod.
LEMMA TargetParts ==
    ASSUME IKube
    PROVE  /\ \A x \in Keys : targets[x] # None => targets[x][1] \in Pipes
           /\ \A k \in Callers : ksess[k] # None => ksess[k][1] \in Pipes
BY Zenon DEF IKube, KubeTypeOK, Targets

\* A target of a listed pipe is that pipe with a pod it has had.
LEMMA TargetOfPipe ==
    ASSUME IKube, NEW k \in Callers, NEW p \in Pipes, ParseTarget(p, seenPipes[k][p]) # None
    PROVE  /\ ParseTarget(p, seenPipes[k][p]) = <<p, seenPipes[k][p]>>
           /\ seenPipes[k][p] \in Pods /\ seenPipes[k][p] \in had[p]
<1>1. /\ ParseTarget(p, seenPipes[k][p]) = <<p, seenPipes[k][p]>>
      /\ seenPipes[k][p] \notin {"absent", "off", "unparsable"}
    BY Zenon DEF ParseTarget, IsKubectlExecEnabled
<1>2. seenPipes[k][p] \in Pods
    BY <1>1, KubeConstants DEF IKube, KubeTypeOK
<1>3. QED
    BY <1>1, <1>2, Zenon DEF IKube, KubePods

\* What the steps that leave the tables and the callbacks' locals alone keep.
LEMMA KubeKept ==
    ASSUME IKube, UNCHANGED <<store, had, kubeTables, kmade, kubeLocals>>, KubePlaces'
    PROVE  IKube'
BY ZenonT(40) DEF IKube, KubeTypeOK, KubeTablesAgree, KubeKeys, KubePods, KeyOpensItsPipe, kubeTables, kubeLocals

\* The cluster changes: what a pipe has had only grows.
LEMMA ApplyKeepsKube ==
    ASSUME IKube, NEW p \in Pipes, NEW spec \in Specs, Apply(p, spec)
    PROVE  IKube'
<1> USE DEF IKube
<1>1. \A q \in Pipes : had[q] \subseteq had'[q] /\ had'[q] \subseteq Pods
    BY Zenon DEF Apply, KubeTypeOK
<1>2. KubeTypeOK'
    BY Zenon DEF Apply, KubeTypeOK, kubeTables, kubeLocals
<1>3. KubeTablesAgree' /\ KubeKeys'
    BY ZenonT(40) DEF Apply, KubeTablesAgree, KubeKeys, kubeTables, kubeLocals
<1>4. KubePods'
    <2>1. \A q \in Pipes : store'[q] \in Pods => store'[q] \in had'[q]
        BY <1>1, Zenon DEF Apply, KubePods, KubeTypeOK
    <2>2. \A x \in Keys : targets[x] # None => targets[x][1] \in Pipes
        BY TargetParts, Zenon
    <2>3. QED
        BY <1>1, <2>1, <2>2, Zenon DEF Apply, KubePods, kubeTables, kubeLocals
<1>5. KubePlaces'
    BY Zenon DEF Apply, KubePlaces, kubeLocals
<1>6. KeyOpensItsPipe'
    <2>1. \A k \in Callers : ksess[k] # None => ksess[k][1] \in Pipes
        BY TargetParts, Zenon
    <2>2. QED
        BY <1>1, <2>1, Zenon DEF Apply, KeyOpensItsPipe, kubeLocals
<1>7. QED
    BY <1>2, <1>3, <1>4, <1>5, <1>6, Zenon

\* list copies the cache.
LEMMA ListKeepsKube ==
    ASSUME IKube, IBridge, NEW k \in Callers, ListPipes(k)
    PROVE  IKube'
<1> USE DEF IKube
<1>1. KubeTypeOK'
    BY Zenon DEF ListPipes, KubeTypeOK, kubeTables
<1>2. KubeTablesAgree' /\ KubeKeys' /\ KeyOpensItsPipe'
    BY ZenonT(40) DEF ListPipes, KubeTablesAgree, KubeKeys, KeyOpensItsPipe, kubeTables
<1>3. KubePods'
    BY Zenon DEF ListPipes, KubePods, KubeTypeOK, kubeTables
<1>4. KubePlaces'
    BY DEF ListPipes, KubePlaces, KubeTypeOK, IBridge
<1>5. QED
    BY <1>1, <1>2, <1>3, <1>4, Zenon

\* A sync takes the keys of the pipes its list lacks and gives the others
\* the target of its list.
LEMMA SyncKeepsKube ==
    ASSUME IKube, IBridge, NEW k \in Callers, SyncKubectlExecState(k)
    PROVE  IKube'
<1> DEFINE target(p) == ParseTarget(p, seenPipes[k][p])
           known == {p \in Pipes : pipeToKey[p] # None}
           gone == {p \in known : target(p) = None}
<1> USE Bounds DEF IKube
<1>1. /\ kpriv' = [p \in Pipes |-> IF p \in gone THEN None ELSE kpriv[p]]
      /\ pipeToKey' = [p \in Pipes |-> IF p \in gone THEN None ELSE pipeToKey[p]]
      /\ targets' = [x \in Keys |-> IF \E p \in known : pipeToKey[p] = x
                                   THEN target(CHOOSE p \in known : pipeToKey[p] = x)
                                   ELSE targets[x]]
      /\ UNCHANGED <<store, had, kmade, kubeLocals>>
    BY Zenon DEF SyncKubectlExecState
<1>2. \A p, q \in known : pipeToKey[p] = pipeToKey[q] => p = q
    BY DEF KubeTablesAgree
<1>3. \A p \in known : pipeToKey[p] \in Keys /\ targets'[pipeToKey[p]] = target(p)
    <2>1. ASSUME NEW p \in known
          PROVE  pipeToKey[p] \in Keys /\ targets'[pipeToKey[p]] = target(p)
        <3>1. pipeToKey[p] \in Keys
            BY Zenon DEF KubeTypeOK
        <3>2. (CHOOSE q \in known : pipeToKey[q] = pipeToKey[p]) = p
            BY <1>2, Zenon
        <3>3. QED
            BY <1>1, <3>1, <3>2, Zenon
    <2>2. QED
        BY <2>1, Zenon
<1>4. \A x \in Keys : (\A p \in known : pipeToKey[p] # x) => targets'[x] = targets[x] /\ targets[x] = None
    BY <1>1, TargetParts, Zenon DEF KubeTablesAgree
<1>5. \A p \in Pipes : target(p) # None => target(p) = <<p, seenPipes[k][p]>> /\ seenPipes[k][p] \in Pods \cap had[p]
    BY TargetOfPipe, Zenon
<1>6. \A x \in Keys : targets'[x] # None =>
        \E p \in known : pipeToKey[p] = x /\ p \notin gone /\ targets'[x] = <<p, seenPipes[k][p]>>
                       /\ seenPipes[k][p] \in Pods \cap had[p]
    BY <1>3, <1>4, <1>5
<1> HIDE DEF target, known, gone
<1>7. gone \subseteq known /\ known \subseteq Pipes /\ \A p \in Pipes : p \in known <=> pipeToKey[p] # None
    BY Zenon DEF gone, known
<1>8. KubeTypeOK'
    <2>1. ASSUME NEW x \in Keys, targets'[x] # None
          PROVE  targets'[x] \in Pipes \X Pods
        <3>1. PICK p \in known : targets'[x] = <<p, seenPipes[k][p]>> /\ seenPipes[k][p] \in Pods
            BY <1>6, <2>1, Zenon
        <3>2. QED
            BY <1>7, <3>1
    <2>2. targets' \in [Keys -> Targets]
        <3>1. targets' = [x \in Keys |-> targets'[x]]
            BY <1>1, Zenon
        <3>2. QED
            BY <2>1, <3>1, Zenon DEF Targets
    <2>3. kpriv' \in [Pipes -> Keys \cup {None}] /\ pipeToKey' \in [Pipes -> Keys \cup {None}]
        BY <1>1, Zenon DEF KubeTypeOK
    <2>4. QED
        BY <1>1, <2>2, <2>3, Zenon DEF KubeTypeOK, kubeLocals
<1>9. KubeTablesAgree'
    <2>1. \A p \in Pipes : pipeToKey'[p] # None => p \in known /\ p \notin gone /\ pipeToKey'[p] = pipeToKey[p]
        BY <1>1, <1>7, Zenon
    <2>2. \A p \in known : p \notin gone => target(p) # None
        BY Zenon DEF gone
    <2>3. \A p \in Pipes : pipeToKey'[p] # None => targets'[pipeToKey'[p]] # None /\ targets'[pipeToKey'[p]][1] = p
        BY <1>3, <1>5, <2>1, <2>2, SMTT(30)
    <2>4. \A x \in Keys : targets'[x] # None => pipeToKey'[targets'[x][1]] = x
        BY <1>1, <1>6, <1>7
    <2>5. kpriv' = pipeToKey'
        BY <1>1, Zenon DEF KubeTablesAgree
    <2>6. QED
        BY <2>3, <2>4, <2>5, Zenon DEF KubeTablesAgree
<1>10. \A x \in Keys : targets'[x] # None => targets[x] # None /\ targets[x][1] = targets'[x][1]
    BY <1>6, <1>7 DEF KubeTablesAgree
<1>11. KubeKeys'
    <2>1. UNCHANGED <<kmade, knew, khand, kcur>>
        BY <1>1, Zenon DEF kubeLocals
    <2>2. \A x \in Keys : x > kmade => targets'[x] = None
        BY <1>10, Zenon DEF KubeKeys
    <2>3. ASSUME NEW j \in Callers, knew[j] # None
          PROVE  targets'[knew[j]] = None
        <3>1. knew[j] \in Keys /\ targets[knew[j]] = None
            BY <2>3 DEF KubeKeys, KubeTypeOK
        <3>2. QED
            BY <1>10, <3>1, Zenon
    <2>4. ASSUME NEW j \in Callers, khand[j] # None, targets'[khand[j]] # None
          PROVE  targets'[khand[j]][1] = kcur[j]
        <3>1. khand[j] \in Keys
            BY <2>4, ZenonT(40) DEF KubeTypeOK
        <3>2. QED
            BY <1>10, <2>4, <3>1, Zenon DEF KubeKeys
    <2>5. QED
        BY <2>1, <2>2, <2>3, <2>4, ZenonT(40) DEF KubeKeys
<1>12. KubePods'
    BY <1>1, <1>6, SMTT(30) DEF KubePods, kubeLocals
<1>13. KubePlaces'
    BY <1>1, SMTT(30) DEF SyncKubectlExecState, KubePlaces, KubeTypeOK, IBridge, kubeLocals
<1>14. KeyOpensItsPipe'
    BY <1>1, SMTT(30) DEF KeyOpensItsPipe, kubeLocals
<1>15. QED
    BY <1>8, <1>9, <1>11, <1>12, <1>13, <1>14, Zenon

\* A pipe that has a key: the caller gets that key, and the key its target.
LEMMA KnownPipe ==
    ASSUME IKube, IBridge, NEW k \in Callers, NEW p \in Pipes,
           pc[k] \in {"match", "register"}, kpriv[p] # None,
           ParseTarget(p, seenPipes[k][p]) # None,
           kcur' = [kcur EXCEPT ![k] = p], HasKey(k, kpriv[p]),
           targets' = [targets EXCEPT ![pipeToKey[p]] = ParseTarget(p, seenPipes[k][p])],
           UNCHANGED <<store, had, kpriv, pipeToKey, kmade, seenPipes, ksess>>
    PROVE  IKube'
<1> DEFINE x == pipeToKey[p]
           t == <<p, seenPipes[k][p]>>
<1> USE Bounds DEF IKube
<1>1. x \in Keys /\ x = kpriv[p] /\ targets[x] # None /\ targets[x][1] = p
    BY DEF KubeTypeOK, KubeTablesAgree
<1>2. targets' = [targets EXCEPT ![x] = t] /\ seenPipes[k][p] \in Pods /\ seenPipes[k][p] \in had[p]
    BY TargetOfPipe, Zenon
<1>3. t # None /\ t \in Pipes \X Pods
    BY <1>2, KubeConstants
<1>4. khand[k] = None /\ ksess[k] = None /\ x <= kmade
    <2>1. khand[k] = None /\ ksess[k] = None
        BY Zenon DEF KubePlaces
    <2>2. x <= kmade
        BY <1>1, BridgeConstants DEF KubeKeys, KubeTypeOK, Keys
    <2>3. QED
        BY <2>1, <2>2, Zenon
<1>5. khand' = [khand EXCEPT ![k] = x] /\ knew' = [knew EXCEPT ![k] = None]
    BY <1>1, Zenon DEF HasKey
<1>6. targets'[x] = t /\ t[1] = p /\ \A y \in Keys : y # x => targets'[y] = targets[y]
    BY <1>1, <1>2, Zenon DEF KubeTypeOK
<1> HIDE DEF x, t
<1>7. KubeTypeOK'
    <2>1. targets' \in [Keys -> Targets]
        BY <1>1, <1>2, <1>3, ZenonT(40) DEF KubeTypeOK, Targets
    <2>2. QED
        BY <1>1, <1>5, <2>1, Zenon DEF KubeTypeOK
<1>8. KubeTablesAgree'
    <2>1. \A q \in Pipes : pipeToKey[q] # None => pipeToKey[q] \in Keys
        BY Zenon DEF KubeTypeOK
    <2>2. ASSUME NEW q \in Pipes, pipeToKey[q] # None
          PROVE  targets'[pipeToKey[q]] # None /\ targets'[pipeToKey[q]][1] = q
        <3>1. pipeToKey[q] \in Keys /\ targets[pipeToKey[q]] # None /\ targets[pipeToKey[q]][1] = q
            BY <2>1, <2>2, Zenon DEF KubeTablesAgree
        <3>2. CASE pipeToKey[q] = x
            BY <1>1, <1>3, <1>6, <3>1, <3>2, Zenon
        <3>3. CASE pipeToKey[q] # x
            BY <1>6, <3>1, <3>3, Zenon
        <3>4. QED
            BY <3>2, <3>3, Zenon
    <2>3. ASSUME NEW y \in Keys, targets'[y] # None
          PROVE  pipeToKey[targets'[y][1]] = y
        <3>1. CASE y = x
            BY <1>6, <3>1, Zenon DEF x
        <3>2. CASE y # x
            BY <1>6, <2>3, <3>2, Zenon DEF KubeTablesAgree
        <3>3. QED
            BY <3>1, <3>2, Zenon
    <2>4. QED
        BY <2>2, <2>3 DEF KubeTablesAgree
<1>9. KubeKeys'
    <2>1. \A y \in Keys : y > kmade => targets'[y] = None
        BY <1>1, <1>4, <1>6, ZenonT(40) DEF KubeKeys
    <2>2. ASSUME NEW j \in Callers, knew'[j] # None
          PROVE  /\ knew'[j] <= kmade /\ targets'[knew'[j]] = None
                 /\ \A i \in Callers : knew'[i] = knew'[j] => i = j
                 /\ \A i \in Callers : khand'[i] # knew'[j]
        <3>1. j # k /\ knew'[j] = knew[j] /\ knew[j] \in Keys /\ targets[knew[j]] = None
            BY <1>5, <2>2 DEF KubeTypeOK, KubeKeys
        <3>2. targets'[knew[j]] = None /\ knew[j] # x
            BY <1>1, <1>6, <3>1, Zenon
        <3>3. \A i \in Callers : (knew'[i] = knew[j] => knew[i] = knew[j]) /\ khand'[i] \in {khand[i], x}
            BY <1>5, <3>1, ZenonT(40) DEF KubeTypeOK
        <3>4. QED
            BY <3>1, <3>2, <3>3 DEF KubeKeys
    <2>3. ASSUME NEW j \in Callers, khand'[j] # None
          PROVE  khand'[j] <= kmade /\ (targets'[khand'[j]] # None => targets'[khand'[j]][1] = kcur'[j])
        <3>1. CASE j = k
            <4>1. khand'[j] = x /\ kcur'[j] = p
                BY <1>5, <3>1, Zenon DEF KubeTypeOK
            <4>2. QED
                BY <1>3, <1>4, <1>6, <4>1, Zenon
        <3>2. CASE j # k
            <4>1. khand'[j] = khand[j] /\ kcur'[j] = kcur[j] /\ khand[j] \in Keys
                BY <1>5, <2>3, <3>2, Zenon DEF KubeTypeOK
            <4>2. khand[j] <= kmade /\ (targets[khand[j]] # None => targets[khand[j]][1] = kcur[j])
                BY <2>3, <4>1, Zenon DEF KubeKeys
            <4>3. QED
                BY <1>1, <1>6, <3>2, <4>1, <4>2, ZenonT(40)
        <3>3. QED
            BY <3>1, <3>2, Zenon
    <2>4. QED
        BY <2>1, <2>2, <2>3, Zenon DEF KubeKeys
<1>10. KubePods'
    <2>1. ASSUME NEW y \in Keys, targets'[y] # None
          PROVE  targets'[y][2] \in had[targets'[y][1]]
        <3>1. CASE y = x
            BY <1>1, <1>2, <1>6, <3>1 DEF t
        <3>2. CASE y # x
            BY <1>6, <2>1, <3>2, ZenonT(40) DEF KubePods
        <3>3. QED
            BY <3>1, <3>2, Zenon
    <2>2. QED
        BY <2>1, Zenon DEF KubePods
<1>11. KubePlaces'
    <2>1. pc' = [pc EXCEPT ![k] = "look"]
        BY Zenon DEF HasKey
    <2>2. ASSUME NEW j \in Callers, j # k
          PROVE  pc'[j] = pc[j] /\ kcur'[j] = kcur[j] /\ knew'[j] = knew[j] /\ khand'[j] = khand[j]
        BY <1>5, <2>1, <2>2, SMTT(30) DEF KubeTypeOK, IBridge
    <2>3. pc'[k] = "look" /\ khand'[k] # None /\ ksess[k] = None
        BY <1>1, <1>4, <1>5, <2>1 DEF KubeTypeOK, IBridge
    <2>4. QED
        BY <2>2, <2>3 DEF KubePlaces
<1>12. KeyOpensItsPipe'
    BY <1>4, ZenonT(40) DEF KeyOpensItsPipe, KubeTypeOK
<1>13. QED
    BY <1>7, <1>8, <1>9, <1>10, <1>11, <1>12, Zenon

\* A key is generated for pipe p: nobody has seen it.
LEMMA GenerateKeepsKube ==
    ASSUME IKube, IBridge, NEW k \in Callers, NEW p \in Pipes, RegisterPipe(k, p), kpriv[p] = None
    PROVE  IKube'
<1> USE Bounds, BridgeConstants DEF IKube
<1>1. /\ pc[k] = "match" /\ ParseTarget(p, seenPipes[k][p]) # None
      /\ kmade < MaxKeys /\ kmade' = kmade + 1 /\ knew' = [knew EXCEPT ![k] = kmade + 1]
      /\ kcur' = [kcur EXCEPT ![k] = p] /\ pc' = [pc EXCEPT ![k] = "register"]
      /\ UNCHANGED <<store, had, kpriv, pipeToKey, targets, seenPipes, khand, ksess>>
    BY Zenon DEF RegisterPipe
<1>2. kmade + 1 \in Keys /\ kmade \in Int
    BY <1>1, SMTT(30) DEF KubeTypeOK, Keys
<1>3. targets[kmade + 1] = None /\ \A j \in Callers : knew[j] # kmade + 1 /\ khand[j] # kmade + 1
    BY <1>2 DEF KubeKeys, KubeTypeOK
<1>4. khand[k] = None /\ ksess[k] = None
    BY <1>1, Zenon DEF KubePlaces
<1>5. KubeTypeOK'
    BY <1>1, <1>2 DEF KubeTypeOK, Keys
<1>6. KubeTablesAgree' /\ KubePods'
    BY <1>1, Zenon DEF KubeTablesAgree, KubePods
<1>7. KubeKeys'
    <2>0. \A x \in Keys : (x <= kmade => x <= kmade') /\ (x > kmade' => x > kmade)
        <3>1. kmade' = kmade + 1
            BY <1>1, Zenon
        <3>2. QED
            BY <1>2, <3>1
    <2>1. \A x \in Keys : x > kmade' => targets'[x] = None
        BY <1>1, <2>0, Zenon DEF KubeKeys
    <2>2. ASSUME NEW j \in Callers, knew'[j] # None
          PROVE  /\ knew'[j] <= kmade' /\ targets'[knew'[j]] = None
                 /\ \A i \in Callers : knew'[i] = knew'[j] => i = j
                 /\ \A i \in Callers : khand'[i] # knew'[j]
        <3>1. CASE j = k
            BY <1>1, <1>2, <1>3, <3>1 DEF KubeTypeOK
        <3>2. CASE j # k
            <4>1. knew'[j] = knew[j] /\ knew[j] \in Keys /\ \A i \in Callers : knew'[i] = knew[j] => knew[i] = knew[j]
                BY <1>1, <1>3, <2>2, <3>2, ZenonT(40) DEF KubeTypeOK
            <4>2. /\ knew[j] <= kmade /\ targets[knew[j]] = None
                  /\ \A i \in Callers : knew[i] = knew[j] => i = j
                  /\ \A i \in Callers : khand[i] # knew[j]
                BY <4>1, Zenon DEF KubeKeys
            <4>3. knew[j] <= kmade'
                BY <2>0, <4>1, <4>2, ZenonT(30)
            <4>4. QED
                BY <1>1, <4>1, <4>2, <4>3, Zenon
        <3>3. QED
            BY <3>1, <3>2, Zenon
    <2>3. ASSUME NEW j \in Callers, khand'[j] # None
          PROVE  khand'[j] <= kmade' /\ (targets'[khand'[j]] # None => targets'[khand'[j]][1] = kcur'[j])
        <3>1. j # k /\ khand'[j] = khand[j] /\ kcur'[j] = kcur[j] /\ khand[j] \in Keys
            BY <1>1, <1>4, <2>3, Zenon DEF KubeTypeOK
        <3>2. khand[j] <= kmade /\ (targets[khand[j]] # None => targets[khand[j]][1] = kcur[j])
            BY <3>1, Zenon DEF KubeKeys
        <3>3. khand[j] <= kmade'
            BY <2>0, <3>1, <3>2, ZenonT(30)
        <3>4. QED
            BY <1>1, <3>1, <3>2, <3>3, Zenon
    <2>4. QED
        BY <2>1, <2>2, <2>3, Zenon DEF KubeKeys
<1>8. KubePlaces'
    <2>1. ASSUME NEW j \in Callers, j # k
          PROVE  pc'[j] = pc[j] /\ kcur'[j] = kcur[j] /\ knew'[j] = knew[j]
        BY <1>1, <2>1, SMTT(30) DEF KubeTypeOK, IBridge
    <2>2. pc'[k] = "register" /\ kcur'[k] = p /\ knew'[k] # None
        BY <1>1, <1>2 DEF KubeTypeOK, IBridge
    <2>3. QED
        BY <1>1, <1>4, <2>1, <2>2, SMTT(30) DEF KubePlaces
<1>9. KeyOpensItsPipe'
    BY <1>1, <1>4, ZenonT(40) DEF KeyOpensItsPipe, KubeTypeOK
<1>10. QED
    BY <1>5, <1>6, <1>7, <1>8, <1>9, Zenon

\* The key is stored with its target: from here on it is the pipe's.
LEMMA StoreKeepsKube ==
    ASSUME IKube, IBridge, NEW k \in Callers, StorePipe(k), kpriv[kcur[k]] = None
    PROVE  IKube'
<1> DEFINE p == kcur[k]
           x == knew[k]
           t == <<p, seenPipes[k][p]>>
<1> USE Bounds, BridgeConstants DEF IKube
<1>1. /\ pc[k] = "register" /\ p \in Pipes /\ x \in Keys /\ x <= kmade /\ targets[x] = None
      /\ ParseTarget(p, seenPipes[k][p]) # None
    BY SMTT(30) DEF StorePipe, KubePlaces, KubeKeys, KubeTypeOK
<1>2. ParseTarget(p, seenPipes[k][p]) = t /\ seenPipes[k][p] \in Pods /\ seenPipes[k][p] \in had[p]
    BY <1>1, TargetOfPipe, Zenon
<1>3. t # None /\ t \in Pipes \X Pods /\ t[1] = p /\ t[2] = seenPipes[k][p]
    BY <1>1, <1>2, KubeConstants, ZenonT(40)
<1>4. /\ targets' = [targets EXCEPT ![x] = t]
      /\ kpriv' = [kpriv EXCEPT ![p] = x] /\ pipeToKey' = [pipeToKey EXCEPT ![p] = x]
      /\ khand' = [khand EXCEPT ![k] = x] /\ knew' = [knew EXCEPT ![k] = None]
      /\ pc' = [pc EXCEPT ![k] = "look"]
      /\ UNCHANGED <<store, had, kmade, seenPipes, kcur, ksess>>
    BY <1>2, SMTT(30) DEF StorePipe, HasKey
<1>5. khand[k] = None /\ ksess[k] = None /\ pipeToKey[p] = None
    BY <1>1, Zenon DEF KubePlaces, KubeTablesAgree
<1>6. targets'[x] = t /\ \A y \in Keys : y # x => targets'[y] = targets[y]
    BY <1>1, <1>4, Zenon DEF KubeTypeOK
<1>7. \A q \in Pipes : pipeToKey'[q] = IF q = p THEN x ELSE pipeToKey[q]
    BY <1>1, <1>4, Zenon DEF KubeTypeOK
<1>8. KubeTypeOK'
    <2>1. targets' \in [Keys -> Targets]
        BY <1>1, <1>3, <1>4, Zenon DEF KubeTypeOK, Targets
    <2>2. QED
        BY <1>1, <1>4, <2>1, Zenon DEF KubeTypeOK
<1> HIDE DEF p, x, t
<1>9. KubeTablesAgree'
    <2>1. \A q \in Pipes : pipeToKey[q] # None => pipeToKey[q] \in Keys /\ pipeToKey[q] # x
        BY <1>1, SMTT(30) DEF KubeTablesAgree, KubeTypeOK
    <2>2. \A q \in Pipes : pipeToKey'[q] # None => targets'[pipeToKey'[q]] # None /\ targets'[pipeToKey'[q]][1] = q
        <3>1. \A q \in Pipes : q # p /\ pipeToKey[q] # None =>
                targets'[pipeToKey[q]] # None /\ targets'[pipeToKey[q]][1] = q
            BY <1>6, <2>1, ZenonT(40) DEF KubeTablesAgree
        <3>2. QED
            BY <1>3, <1>6, <1>7, <3>1
    <2>3. ASSUME NEW y \in Keys, targets'[y] # None
          PROVE  pipeToKey'[targets'[y][1]] = y
        <3>1. CASE y = x
            BY <1>1, <1>3, <1>6, <1>7, <3>1, Zenon
        <3>2. CASE y # x
            <4>1. targets'[y] = targets[y] /\ pipeToKey[targets[y][1]] = y /\ targets[y][1] \in Pipes
                BY <1>6, <2>3, <3>2, TargetParts, ZenonT(40) DEF KubeTablesAgree
            <4>2. targets[y][1] # p
                BY <1>5, <4>1, Zenon
            <4>3. QED
                BY <1>7, <4>1, <4>2, Zenon
        <3>3. QED
            BY <3>1, <3>2, Zenon
    <2>4. kpriv' = pipeToKey'
        BY <1>4, SMTT(30) DEF KubeTablesAgree
    <2>5. QED
        BY <2>2, <2>3, <2>4, ZenonT(40) DEF KubeTablesAgree
<1>10. KubeKeys'
    <2>1. \A y \in Keys : y > kmade' => targets'[y] = None
        BY <1>1, <1>4, <1>6 DEF KubeKeys, KubeTypeOK
    <2>2. ASSUME NEW j \in Callers, knew'[j] # None
          PROVE  /\ knew'[j] <= kmade' /\ targets'[knew'[j]] = None
                 /\ \A i \in Callers : knew'[i] = knew'[j] => i = j
                 /\ \A i \in Callers : khand'[i] # knew'[j]
        <3>1. j # k /\ knew'[j] = knew[j] /\ knew[j] \in Keys
            BY <1>4, <2>2, Zenon DEF KubeTypeOK
        <3>2. /\ knew[j] <= kmade /\ targets[knew[j]] = None
              /\ \A i \in Callers : knew[i] = knew[j] => i = j
              /\ \A i \in Callers : khand[i] # knew[j]
            BY <3>1, Zenon DEF KubeKeys
        <3>3. knew[j] # x
            BY <3>1, <3>2, Zenon DEF x
        <3>4. \A i \in Callers : (knew'[i] = knew[j] => knew[i] = knew[j]) /\ khand'[i] \in {khand[i], x}
            BY <1>4, <3>1, ZenonT(40) DEF KubeTypeOK
        <3>5. QED
            BY <1>4, <1>6, <3>1, <3>2, <3>3, <3>4, ZenonT(40)
    <2>3. ASSUME NEW j \in Callers, khand'[j] # None
          PROVE  khand'[j] <= kmade' /\ (targets'[khand'[j]] # None => targets'[khand'[j]][1] = kcur'[j])
        <3>1. CASE j = k
            <4>1. khand'[j] = x /\ kcur'[j] = p
                BY <1>4, <3>1, Zenon DEF KubeTypeOK, p
            <4>2. QED
                BY <1>1, <1>3, <1>4, <1>6, <4>1, Zenon
        <3>2. CASE j # k
            <4>1. khand'[j] = khand[j] /\ kcur'[j] = kcur[j] /\ khand[j] \in Keys
                BY <1>4, <2>3, <3>2, Zenon DEF KubeTypeOK
            <4>2. khand[j] <= kmade /\ (targets[khand[j]] # None => targets[khand[j]][1] = kcur[j])
                BY <2>3, <4>1, Zenon DEF KubeKeys
            <4>3. khand[j] # x
                BY <1>1, ZenonT(40) DEF KubeKeys, x
            <4>4. QED
                BY <1>4, <1>6, <4>1, <4>2, <4>3, ZenonT(40)
        <3>3. QED
            BY <3>1, <3>2, Zenon
    <2>4. QED
        BY <2>1, <2>2, <2>3, ZenonT(30) DEF KubeKeys
<1>11. KubePods'
    <2>1. ASSUME NEW y \in Keys, targets'[y] # None
          PROVE  targets'[y][2] \in had[targets'[y][1]]
        <3>1. CASE y = x
            BY <1>2, <1>3, <1>6, <3>1, Zenon
        <3>2. CASE y # x
            BY <1>6, <2>1, <3>2, ZenonT(40) DEF KubePods
        <3>3. QED
            BY <3>1, <3>2, Zenon
    <2>2. QED
        BY <1>4, <2>1, Zenon DEF KubePods
<1>12. KubePlaces'
    <2>1. ASSUME NEW j \in Callers, j # k
          PROVE  pc'[j] = pc[j] /\ knew'[j] = knew[j] /\ khand'[j] = khand[j]
        BY <1>4, <2>1, SMTT(30) DEF KubeTypeOK, IBridge
    <2>2. pc'[k] = "look" /\ khand'[k] # None
        BY <1>1, <1>4, SMTT(30) DEF KubeTypeOK, IBridge
    <2>3. QED
        BY <1>4, <1>5, <2>1, <2>2, SMTT(30) DEF KubePlaces
<1>13. KeyOpensItsPipe'
    BY <1>4, Zenon DEF KeyOpensItsPipe
<1>14. QED
    BY <1>8, <1>9, <1>10, <1>11, <1>12, <1>13, Zenon

\* The bridge looks the key up: its target is the pipe's or there is none.
LEMMA SelectKeepsKube ==
    ASSUME IKube, IBridge, NEW k \in Callers, SelectTarget(k)
    PROVE  IKube'
<1> USE Bounds DEF IKube
<1>1. khand[k] \in Keys /\ pc[k] = "got"
    BY Zenon DEF SelectTarget, KubePlaces, KubeTypeOK
<1>2. ksess' = [ksess EXCEPT ![k] = targets[khand[k]]] /\ pc' = [pc EXCEPT ![k] = "connected"]
    BY Zenon DEF SelectTarget
<1>3. UNCHANGED <<store, had, kpriv, pipeToKey, targets, kmade, seenPipes, kcur, knew, khand>>
    BY Zenon DEF SelectTarget, kubeTables
<1>4. KubeTypeOK'
    BY <1>1, <1>2, <1>3, Zenon DEF KubeTypeOK
<1>5. KubeTablesAgree' /\ KubeKeys' /\ KubePods'
    BY <1>3, ZenonT(40) DEF KubeTablesAgree, KubeKeys, KubePods
<1>6. KubePlaces'
    BY <1>2, <1>3, SMTT(30) DEF KubePlaces, KubeTypeOK, IBridge
<1>7. KeyOpensItsPipe'
    <2>1. targets[khand[k]] # None =>
            targets[khand[k]][1] = kcur[k] /\ targets[khand[k]][2] \in had[kcur[k]]
        BY <1>1, Zenon DEF KubeKeys, KubePods
    <2>2. QED
        BY <1>2, <1>3, <2>1, Zenon DEF KeyOpensItsPipe, KubeTypeOK
<1>8. QED
    BY <1>4, <1>5, <1>6, <1>7, Zenon

\* A callback that ends forgets its key.
LEMMA ForgetKeepsKube ==
    ASSUME IKube, IBridge, NEW k \in Callers, ForgetPipes(k), UNCHANGED <<store, had, kubeTables, kmade>>
    PROVE  IKube'
<1> USE Bounds DEF IKube
<1>1. KubeTypeOK'
    <2>1. None \in Targets
        BY Zenon DEF Targets
    <2>2. QED
        BY <2>1, Zenon DEF ForgetPipes, KubeTypeOK, kubeTables
<1>2. KubeTablesAgree'
    BY ZenonT(40) DEF KubeTablesAgree, kubeTables
<1>3. \A j \in Callers : j # k => /\ knew'[j] = knew[j] /\ khand'[j] = khand[j] /\ kcur'[j] = kcur[j]
                                  /\ ksess'[j] = ksess[j] /\ pc'[j] = pc[j] /\ seenPipes'[j] = seenPipes[j]
    BY SMTT(30) DEF ForgetPipes, KubeTypeOK, IBridge
<1>4. /\ knew'[k] = None /\ khand'[k] = None /\ ksess'[k] = None /\ pc'[k] = "idle"
      /\ \A p \in Pipes : seenPipes'[k][p] = "absent"
    BY SMTT(30) DEF ForgetPipes, KubeTypeOK, IBridge
<1>5. KubeKeys'
    <2>1. \A j \in Callers : knew'[j] \in {knew[j], None} /\ khand'[j] \in {khand[j], None}
        BY <1>3, <1>4, Zenon
    <2>2. \A j \in Callers : khand'[j] # None => khand'[j] = khand[j] /\ kcur'[j] = kcur[j]
        BY <1>3, <1>4, Zenon
    <2>3. UNCHANGED <<targets, kmade>>
        BY Zenon DEF kubeTables
    <2>4. ASSUME NEW j \in Callers, knew'[j] # None
          PROVE  /\ knew'[j] <= kmade' /\ targets'[knew'[j]] = None
                 /\ \A i \in Callers : knew'[i] = knew'[j] => i = j
                 /\ \A i \in Callers : khand'[i] # knew'[j]
        <3>1. knew'[j] = knew[j] /\ knew[j] # None
            BY <2>1, <2>4, Zenon
        <3>2. \A i \in Callers : (knew'[i] = knew[j] => knew[i] = knew[j]) /\ (khand'[i] = knew[j] => khand[i] = knew[j])
            BY <2>1, <3>1, Zenon
        <3>3. /\ knew[j] <= kmade /\ targets[knew[j]] = None
              /\ \A i \in Callers : (knew[i] = knew[j] => i = j) /\ khand[i] # knew[j]
            BY <3>1, Zenon DEF KubeKeys
        <3>4. QED
            BY <2>3, <3>1, <3>2, <3>3, Zenon
    <2>5. ASSUME NEW j \in Callers, khand'[j] # None
          PROVE  khand'[j] <= kmade' /\ (targets'[khand'[j]] # None => targets'[khand'[j]][1] = kcur'[j])
        BY <2>2, <2>3, <2>5, ZenonT(40) DEF KubeKeys
    <2>6. \A x \in Keys : x > kmade' => targets'[x] = None
        BY <2>3, Zenon DEF KubeKeys
    <2>7. QED
        BY <2>4, <2>5, <2>6, Zenon DEF KubeKeys
<1>6. KubePods'
    BY <1>3, <1>4, KubeConstants, SMTT(30) DEF KubePods, kubeTables
<1>7. KubePlaces' /\ KeyOpensItsPipe'
    BY <1>3, <1>4 DEF KubePlaces, KeyOpensItsPipe
<1>8. QED
    BY <1>1, <1>2, <1>5, <1>6, <1>7, Zenon

\* The tables are empty at the start.
LEMMA KubeStarts == KubeInit => IKube
<1> SUFFICES ASSUME KubeInit PROVE IKube
    BY Zenon
<1> USE Bounds, BridgeConstants
<1>1. KubeTypeOK
    BY DEF KubeInit, KubeTypeOK, Targets
<1>2. KubeTablesAgree /\ KubeKeys /\ KubePods /\ KubePlaces /\ KeyOpensItsPipe
    BY KubeConstants, ZenonT(40) DEF KubeInit, BridgeInit, KubeTablesAgree, KubeKeys, KubePods, KubePlaces, KeyOpensItsPipe
<1>3. QED
    BY <1>1, <1>2, Zenon DEF IKube

-----------------------------------------------------------------------------
(***************************************************************************)
(* The inductive invariant of the docker plugin's bridge.  Its tables and  *)
(* the key a connection presents need beside themselves that a key which   *)
(* is generated but not yet stored belongs to one caller and is in no      *)
(* table, and that a key once handed out never leads to anything else.     *)
(***************************************************************************)

Commands == {None, "/bin/sh"} \cup {Label[c] : c \in Containers}

DockerTypeOK ==
    /\ running \subseteq Containers
    /\ priv \in [Containers -> Keys \cup {None}]
    /\ keys \in [Containers -> Keys \cup {None}]
    /\ byKey \in [Keys -> Containers \cup {None}]
    /\ cmds \in [Containers -> Commands]
    /\ made \in 0..MaxKeys
    /\ todo \in [Callers -> SUBSET Containers]
    /\ active \in [Callers -> SUBSET Containers]
    /\ cur \in [Callers -> Containers \cup {None}]
    /\ new \in [Callers -> Keys \cup {None}]
    /\ hand \in [Callers -> [Containers -> Keys \cup {None}]]
    /\ sess \in [Callers -> (Containers \cup {None}) \X Commands]
    /\ asked \in [Callers -> Containers \cup {None}]

\* A generated key is its caller's alone; a key in hand leads to its container.
DockerKeys ==
    /\ \A c \in Containers : cmds[c] = IF priv[c] = None THEN None ELSE Label[c]
    /\ \A x \in Keys : x > made => byKey[x] = None
    /\ \A k \in Callers : new[k] # None =>
         /\ new[k] <= made /\ byKey[new[k]] = None
         /\ \A j \in Callers : new[j] = new[k] => j = k
         /\ \A j \in Callers, c \in Containers : hand[j][c] # new[k]
    /\ \A k \in Callers, c \in Containers : hand[k][c] # None =>
         hand[k][c] <= made /\ byKey[hand[k][c]] \in {None, c}

\* Where a callback of the docker plugin is, it has what it needs.
DockerPlaces ==
    \A k \in Callers :
        /\ pc[k] \in {"look", "listen", "adopt", "got", "register"} => cur[k] \in Containers
        /\ pc[k] = "register" => new[k] # None

IDocker == DockerTypeOK /\ DockerTablesAgree /\ DockerKeys /\ DockerPlaces /\ KeyOpensItsContainer

-----------------------------------------------------------------------------
\* What the steps that leave the tables, the lists and the sessions alone keep.
LEMMA DockerKept ==
    ASSUME IDocker, UNCHANGED <<made, tableVars, listVars, sessVars>>,
           running' \subseteq Containers, DockerPlaces'
    PROVE  IDocker'
BY SMTT(30) DEF IDocker, DockerTypeOK, DockerTablesAgree, DockerKeys, KeyOpensItsContainer,
       tableVars, listVars, sessVars

\* A container that has a key: the caller gets that key and the command of
\* the label is set again.
LEMMA KnownContainer ==
    ASSUME IDocker, IBridge, NEW k \in Callers, NEW c \in Containers, cur[k] = c, priv[c] # None,
           Registered(k, priv[c]), cmds' = SetDockerSshdCmd(c),
           UNCHANGED <<running, made, priv, keys, byKey, todo, sessVars>>
    PROVE  IDocker'
<1> USE Bounds DEF IDocker
<1>1. cmds' = cmds
    BY SMTT(30) DEF DockerTypeOK, DockerKeys, SetDockerSshdCmd
<1>2. DockerTypeOK'
    BY <1>1 DEF DockerTypeOK, DockerTablesAgree, Registered, sessVars
<1>3. DockerTablesAgree'
    BY <1>1, ZenonT(40) DEF DockerTablesAgree
<1>4. byKey[priv[c]] = c /\ priv[c] \in Keys /\ priv[c] <= made
    <2>1. priv[c] \in Keys /\ keys[c] = priv[c] /\ byKey[priv[c]] = c
        BY DEF DockerTypeOK, DockerTablesAgree
    <2>2. QED
        BY <2>1, BridgeConstants, DockerConstants, SMTT(30) DEF DockerTypeOK, DockerKeys, Keys
<1>5. DockerKeys'
    <2>1. \A j \in Callers : new'[j] # None => new'[j] = new[j]
        BY Zenon DEF Registered, DockerTypeOK
    <2>2. \A j \in Callers, d \in Containers : hand'[j][d] = IF j = k /\ d = c THEN priv[c] ELSE hand[j][d]
        BY ZenonT(40) DEF Registered, DockerTypeOK
    <2>3. \A j \in Callers : new[j] # priv[c]
        BY <1>4, DockerConstants, SMTT(30) DEF DockerKeys
    <2>4. ASSUME NEW j \in Callers, new'[j] # None
          PROVE  /\ new'[j] <= made /\ byKey[new'[j]] = None
                 /\ \A i \in Callers : new'[i] = new'[j] => i = j
                 /\ \A i \in Callers, d \in Containers : hand'[i][d] # new'[j]
        BY <2>1, <2>2, <2>3, <2>4, SMTT(30) DEF DockerKeys
    <2>5. ASSUME NEW j \in Callers, NEW d \in Containers, hand'[j][d] # None
          PROVE  hand'[j][d] <= made /\ byKey[hand'[j][d]] \in {None, d}
        BY <1>4, <2>2, <2>5, SMTT(30) DEF DockerKeys
    <2>6. QED
        BY <1>1, <2>4, <2>5, ZenonT(40) DEF DockerKeys
<1>6. DockerPlaces'
    BY DEF DockerPlaces, Registered, DockerTypeOK, IBridge
<1>7. KeyOpensItsContainer'
    BY Zenon DEF KeyOpensItsContainer, sessVars
<1>8. QED
    BY <1>2, <1>3, <1>5, <1>6, <1>7, Zenon

\* A key is generated: nobody has seen it.
LEMMA GenerateKeepsDocker ==
    ASSUME IDocker, IBridge, NEW k \in Callers, RegisterLook(k), priv[cur[k]] = None
    PROVE  IDocker'
<1> USE Bounds, BridgeConstants DEF IDocker
<1>1. made' = made + 1 /\ made + 1 \in Keys /\ new' = [new EXCEPT ![k] = made + 1]
    BY SMTT(30) DEF RegisterLook, DockerTypeOK, Keys
<1>2. DockerTypeOK'
    BY <1>1 DEF RegisterLook, DockerTypeOK, Keys, sessVars
<1>3. DockerTablesAgree' /\ KeyOpensItsContainer'
    BY ZenonT(40) DEF RegisterLook, DockerTablesAgree, KeyOpensItsContainer, sessVars
<1>4. byKey[made + 1] = None
    BY <1>1, SMTT(30) DEF DockerKeys, DockerTypeOK
<1>5. DockerKeys'
    <2>1. \A j \in Callers, d \in Containers : hand[j][d] # made + 1
        BY <1>1, SMTT(30) DEF DockerKeys, DockerTypeOK
    <2>2. \A j \in Callers : new[j] # made + 1
        BY <1>1, SMTT(30) DEF DockerKeys, DockerTypeOK
    <2>3. UNCHANGED <<priv, byKey, cmds, hand>> /\ \A x \in Keys : x <= made => x <= made'
        BY <1>1 DEF RegisterLook, DockerTypeOK
    <2>4. ASSUME NEW j \in Callers, new'[j] # None
          PROVE  /\ new'[j] <= made' /\ byKey[new'[j]] = None
                 /\ \A i \in Callers : new'[i] = new'[j] => i = j
                 /\ \A i \in Callers, d \in Containers : hand[i][d] # new'[j]
        <3>1. CASE j = k
            BY <1>1, <1>4, <2>1, <2>2, <3>1 DEF DockerTypeOK
        <3>2. CASE j # k
            <4>1. new'[j] = new[j] /\ new[j] \in Keys /\ \A i \in Callers : new'[i] = new[j] => new[i] = new[j]
                BY <1>1, <2>2, <2>4, <3>2, ZenonT(40) DEF DockerTypeOK
            <4>2. /\ new[j] <= made /\ byKey[new[j]] = None
                  /\ \A i \in Callers : new[i] = new[j] => i = j
                  /\ \A i \in Callers, d \in Containers : hand[i][d] # new[j]
                BY <4>1, Zenon DEF DockerKeys
            <4>3. new[j] <= made'
                BY <2>3, <4>1, <4>2, Zenon
            <4>4. QED
                BY <4>1, <4>2, <4>3, Zenon
        <3>3. QED
            BY <3>1, <3>2, ZenonT(40)
    <2>5. ASSUME NEW j \in Callers, NEW d \in Containers, hand[j][d] # None
          PROVE  hand[j][d] <= made' /\ byKey[hand[j][d]] \in {None, d}
        <3>1. hand[j][d] \in Keys
            BY <2>5, SMTT(30) DEF DockerTypeOK
        <3>2. QED
            BY <2>3, <2>5, <3>1, Zenon DEF DockerKeys
    <2>6. \A x \in Keys : x > made' => byKey[x] = None
        BY <1>1, SMTT(30) DEF DockerKeys, DockerTypeOK
    <2>7. QED
        BY <2>3, <2>4, <2>5, <2>6, SMTT(30) DEF DockerKeys
<1>6. DockerPlaces'
    BY <1>1 DEF RegisterLook, DockerPlaces, DockerTypeOK, IBridge
<1>7. QED
    BY <1>2, <1>3, <1>5, <1>6, ZenonT(40)

\* The key is stored: from here on it leads to its container.
LEMMA StoreKeepsDocker ==
    ASSUME IDocker, IBridge, NEW k \in Callers, RegisterStore(k), priv[cur[k]] = None
    PROVE  IDocker'
<1> DEFINE c == cur[k]
           x == new[k]
<1> USE Bounds, BridgeConstants DEF IDocker
<1>1. c \in Containers /\ x \in Keys /\ x <= made /\ byKey[x] = None
    BY DEF RegisterStore, DockerPlaces, DockerKeys, DockerTypeOK
<1>2. keys[c] = None /\ Registered(k, x) /\ cmds' = SetDockerSshdCmd(c)
    BY <1>1, ZenonT(40) DEF RegisterStore, DockerTablesAgree
<1>3. /\ priv' = [priv EXCEPT ![c] = x] /\ keys' = [keys EXCEPT ![c] = x]
      /\ byKey' = [y \in Keys |-> IF y = x THEN c ELSE byKey[y]]
    BY <1>1, <1>2 DEF RegisterStore, DockerTypeOK
<1>4. cmds' = [cmds EXCEPT ![c] = Label[c]]
    BY <1>1, <1>2, ZenonT(40) DEF SetDockerSshdCmd, DockerKeys, DockerTypeOK
<1>5. DockerTypeOK'
    BY <1>1, <1>2, <1>3, <1>4, SMTT(30) DEF DockerTypeOK, Registered, RegisterStore, sessVars, Commands
<1>6. DockerTablesAgree'
    <2>1. \A d \in Containers : keys[d] # x
        BY <1>1, DockerConstants DEF DockerTablesAgree
    <2>2. QED
        BY <1>1, <1>2, <1>3, <1>4, <2>1, SMTT(30) DEF DockerTablesAgree, DockerTypeOK
<1>7. DockerKeys'
    <2>1. \A j \in Callers : new'[j] # None => new'[j] = new[j] /\ j # k
        BY <1>2, Zenon DEF Registered, DockerTypeOK
    <2>2. \A j \in Callers, d \in Containers : hand'[j][d] = IF j = k /\ d = c THEN x ELSE hand[j][d]
        BY <1>1, <1>2, ZenonT(40) DEF Registered, DockerTypeOK
    <2>3. made' = made
        BY Zenon DEF RegisterStore
    <2>4. ASSUME NEW j \in Callers, new'[j] # None
          PROVE  /\ new'[j] <= made /\ byKey'[new'[j]] = None
                 /\ \A i \in Callers : new'[i] = new'[j] => i = j
                 /\ \A i \in Callers, d \in Containers : hand'[i][d] # new'[j]
        BY <1>1, <1>3, <2>1, <2>2, <2>4, SMTT(30) DEF DockerKeys, DockerTypeOK
    <2>5. ASSUME NEW j \in Callers, NEW d \in Containers, hand'[j][d] # None
          PROVE  hand'[j][d] <= made /\ byKey'[hand'[j][d]] \in {None, d}
        BY <1>1, <1>3, <2>2, <2>5, SMTT(30) DEF DockerKeys, DockerTypeOK
    <2>6. \A y \in Keys : y > made => byKey'[y] = None
        BY <1>1, <1>3 DEF DockerKeys, DockerTypeOK
    <2>7. \A d \in Containers : cmds'[d] = IF priv'[d] = None THEN None ELSE Label[d]
        BY <1>1, <1>3, <1>4, ZenonT(40) DEF DockerKeys, DockerTypeOK
    <2>8. QED
        BY <2>3, <2>4, <2>5, <2>6, <2>7, ZenonT(40) DEF DockerKeys
<1>8. DockerPlaces'
    BY <1>2 DEF DockerPlaces, Registered, DockerTypeOK, IBridge
<1>9. KeyOpensItsContainer'
    BY Zenon DEF KeyOpensItsContainer, RegisterStore, sessVars
<1>10. QED
    BY <1>5, <1>6, <1>7, <1>8, <1>9, ZenonT(40)

\* The containers a list has not registered lose key and command together.
LEMMA SyncKeepsDocker ==
    ASSUME IDocker, IBridge, NEW k \in Callers, SyncDockerSshdState(k)
    PROVE  IDocker'
<1> DEFINE gone == {c \in Containers \ active[k] : priv[c] # None}
<1> USE Bounds DEF IDocker
<1>1. /\ priv' = [c \in Containers |-> IF c \in gone THEN None ELSE priv[c]]
      /\ cmds' = [c \in Containers |-> IF c \in gone THEN None ELSE cmds[c]]
      /\ keys' = [c \in Containers |-> IF c \in gone THEN None ELSE keys[c]]
      /\ byKey' = [x \in Keys |-> IF \E c \in gone : keys[c] = x THEN None ELSE byKey[x]]
      /\ UNCHANGED <<running, made, listVars, sessVars>>
    BY Zenon DEF SyncDockerSshdState
<1> HIDE DEF gone
<1>2. DockerTypeOK'
    BY <1>1, ZenonT(40) DEF DockerTypeOK, listVars, sessVars, Commands
<1>3. gone \subseteq Containers
    BY Zenon DEF gone
<1>4. DockerTablesAgree'
    BY <1>1, <1>3, DockerConstants, SMTT(30) DEF DockerTablesAgree, DockerTypeOK
<1>5. DockerKeys'
    <2>1. \A x \in Keys : byKey'[x] \in {byKey[x], None}
        BY <1>1, Zenon
    <2>2. \A c \in Containers : cmds'[c] = IF priv'[c] = None THEN None ELSE Label[c]
        BY <1>1, ZenonT(40) DEF DockerKeys
    <2>3. QED
        BY <1>1, <2>1, <2>2 DEF DockerKeys, DockerTypeOK, listVars
<1>6. DockerPlaces'
    BY <1>1 DEF SyncDockerSshdState, DockerPlaces, DockerTypeOK, IBridge, listVars
<1>7. KeyOpensItsContainer'
    BY <1>1, Zenon DEF KeyOpensItsContainer, sessVars
<1>8. QED
    BY <1>2, <1>4, <1>5, <1>6, <1>7, SMTT(30)

\* The bridge looks the key up: it is the container's or nobody's.
LEMMA ConnectKeepsDocker ==
    ASSUME IDocker, IBridge, NEW k \in Callers, NEW c \in Containers, PublicKeyCallback(k, c)
    PROVE  IDocker'
<1> USE Bounds, DockerConstants DEF IDocker
<1> DEFINE d == byKey[hand[k][c]]
           s == IF d = None THEN <<None, None>>
                ELSE <<d, IF cmds[d] = None THEN "/bin/sh" ELSE cmds[d]>>
<1>1. hand[k][c] \in Keys /\ d \in {None, c}
    BY DEF PublicKeyCallback, DockerTypeOK, DockerKeys
<1>2. sess' = [sess EXCEPT ![k] = s] /\ asked' = [asked EXCEPT ![k] = c]
    BY Zenon DEF PublicKeyCallback
<1>3. d # None => cmds[c] = Label[c]
    <2>1. d # None => keys[c] = hand[k][c] /\ priv[c] # None
        <3>1. byKey[hand[k][c]] # None => keys[byKey[hand[k][c]]] = hand[k][c] /\ byKey[hand[k][c]] = c
            BY <1>1, Zenon DEF DockerTablesAgree
        <3>2. keys[c] = hand[k][c] => priv[c] # None
            BY <1>1, Zenon DEF DockerTablesAgree
        <3>3. QED
            BY <3>1, <3>2, Zenon
    <2>2. QED
        BY <2>1, Zenon DEF DockerKeys
<1>4. s \in (Containers \cup {None}) \X Commands
    BY <1>1, Zenon DEF DockerTypeOK, Commands
<1>5. DockerTypeOK'
    <2> HIDE DEF s
    <2>1. sess' \in [Callers -> (Containers \cup {None}) \X Commands]
        BY <1>2, <1>4, Zenon DEF DockerTypeOK
    <2>2. asked' \in [Callers -> Containers \cup {None}]
        BY <1>2, Zenon DEF DockerTypeOK
    <2>3. UNCHANGED <<running, priv, keys, byKey, cmds, made, todo, active, cur, new, hand>>
        BY ZenonT(40) DEF PublicKeyCallback, tableVars, listVars
    <2>4. QED
        BY <2>1, <2>2, <2>3, ZenonT(40) DEF DockerTypeOK
<1>6. DockerTablesAgree' /\ DockerKeys'
    BY ZenonT(40) DEF PublicKeyCallback, DockerTablesAgree, DockerKeys, tableVars, listVars
<1>7. DockerPlaces'
    BY SMTT(30) DEF PublicKeyCallback, DockerPlaces, DockerTypeOK, IBridge, listVars
<1>8. KeyOpensItsContainer'
    <2>1. s[1] # None => s = <<c, IF Label[c] = None THEN "/bin/sh" ELSE Label[c]>>
        BY <1>1, <1>3, Zenon
    <2>2. QED
        BY <1>2, <2>1, Zenon DEF KeyOpensItsContainer, DockerTypeOK
<1>9. QED
    BY <1>5, <1>6, <1>7, <1>8, ZenonT(40)

\* A callback that ends forgets its keys.
LEMMA ForgetKeepsDocker ==
    ASSUME IDocker, IBridge, NEW k \in Callers, Forget(k), UNCHANGED <<running, made, tableVars>>
    PROVE  IDocker'
<1> USE Bounds DEF IDocker
<1>1. DockerTypeOK'
    BY Zenon DEF Forget, DockerTypeOK, tableVars, Commands
<1>2. DockerTablesAgree'
    BY Zenon DEF DockerTablesAgree, tableVars
<1>3. DockerKeys'
    <2>1. \A j \in Callers, c \in Containers : hand'[j][c] \in {hand[j][c], None}
        BY ZenonT(40) DEF Forget, DockerTypeOK
    <2>2. \A j \in Callers : new[j] # None => new[j] \in Keys
        BY Zenon DEF DockerTypeOK
    <2>3. QED
        BY <2>1, <2>2 DEF Forget, DockerKeys, tableVars
<1>4. DockerPlaces'
    BY DEF Forget, DockerPlaces, DockerTypeOK, IBridge
<1>5. KeyOpensItsContainer'
    BY ZenonT(40) DEF Forget, KeyOpensItsContainer, DockerTypeOK
<1>6. QED
    BY <1>1, <1>2, <1>3, <1>4, <1>5, SMTT(30)

\* The tables are empty at the start.
LEMMA DockerStarts == DockerInit => IDocker
<1> SUFFICES ASSUME DockerInit PROVE IDocker
    BY Zenon
<1> USE Bounds, BridgeConstants
<1>1. DockerTypeOK
    BY DEF DockerInit, DockerTypeOK, Commands
<1>2. DockerTablesAgree /\ DockerKeys /\ DockerPlaces /\ KeyOpensItsContainer
    BY Zenon DEF DockerInit, BridgeInit, DockerTablesAgree, DockerKeys, DockerPlaces, KeyOpensItsContainer
<1>3. QED
    BY <1>1, <1>2, Zenon DEF IDocker

-----------------------------------------------------------------------------
(* Both plugins. *)

\* The plugin that runs keeps its invariant; the tables of the other are empty
\* and stay so.
IInv ==
    /\ plugin \in {"docker", "kubernetes"} /\ IBridge
    /\ DockerTablesAgree /\ KeyOpensItsContainer /\ KubeTablesAgree /\ KeyOpensItsPipe
    /\ plugin = "docker" => IDocker
    /\ plugin = "kubernetes" => IKube

\* Every step of the docker plugin keeps both parts of the invariant.
LEMMA DockerStep ==
    ASSUME IDocker, IBridge, DockerNext
    PROVE  IDocker' /\ IBridge'
<1> USE DEF Places
<1>1. ASSUME NEW c \in Containers, ContainerStarts(c) \/ ContainerStops(c)
      PROVE  IDocker' /\ IBridge'
    <2>1. running' \subseteq Containers /\ UNCHANGED <<pc, bridgeVars, made, tableVars, listVars, sessVars>>
        BY <1>1, ZenonT(40) DEF ContainerStarts, ContainerStops, IDocker, DockerTypeOK
    <2>2. IBridge'
        BY <2>1 DEF IBridge, BridgeIsServed, bridgeVars
    <2>3. DockerPlaces'
        BY <2>1, Zenon DEF IDocker, DockerPlaces, listVars
    <2>4. QED
        BY <2>1, <2>2, <2>3, DockerKept, Zenon
<1>2. ASSUME NEW l \in Listeners, Fail(l)
      PROVE  IDocker' /\ IBridge'
    <2>1. DockerPlaces' /\ running' \subseteq Containers
        BY <1>2, Zenon DEF Fail, BridgeFails, IDocker, DockerPlaces, DockerTypeOK, listVars
    <2>2. QED
        BY <1>2, <2>1, FailKeepsBridge, DockerKept, Zenon DEF Fail
<1>3. ASSUME NEW k \in Callers, List(k)
      PROVE  IDocker' /\ IBridge'
    <2>1. IBridge'
        BY <1>3, MoveKeepsBridge, Zenon DEF List, bridgeVars
    <2>2. DockerTypeOK' /\ DockerPlaces'
        BY <1>3, ZenonT(40) DEF List, IDocker, DockerTypeOK, DockerPlaces, tableVars, sessVars, IBridge
    <2>3. DockerTablesAgree' /\ DockerKeys' /\ KeyOpensItsContainer'
        BY <1>3 DEF List, IDocker, DockerTablesAgree, DockerKeys, KeyOpensItsContainer, tableVars, sessVars
    <2>4. QED
        BY <2>1, <2>2, <2>3, Zenon DEF IDocker
<1>4. ASSUME NEW k \in Callers, NEW c \in Containers, NextContainer(k, c)
      PROVE  IDocker' /\ IBridge'
    <2>1. IBridge'
        BY <1>4, MoveKeepsBridge, ZenonT(40) DEF NextContainer, bridgeVars
    <2>2. DockerTypeOK' /\ DockerPlaces'
        BY <1>4, SMTT(30) DEF NextContainer, IDocker, DockerTypeOK, DockerPlaces, tableVars, sessVars, IBridge
    <2>3. DockerTablesAgree' /\ DockerKeys' /\ KeyOpensItsContainer'
        BY <1>4 DEF NextContainer, IDocker, DockerTablesAgree, DockerKeys, KeyOpensItsContainer, tableVars, sessVars
    <2>4. QED
        BY <2>1, <2>2, <2>3, Zenon DEF IDocker
<1>5. ASSUME NEW k \in Callers, Ensure(k)
      PROVE  IDocker' /\ IBridge'
    <2>1. DockerPlaces' /\ running' \subseteq Containers
        <3>1. /\ pc[k] \in {"look", "listen", "adopt"} /\ pc'[k] \in {"listen", "adopt", "got", "nobridge"}
              /\ \A j \in Callers : j # k => pc'[j] = pc[j]
            BY <1>5, EnsureMoves, Zenon DEF Ensure
        <3>2. UNCHANGED listVars /\ running' = running
            BY <1>5, Zenon DEF Ensure
        <3>3. QED
            BY <3>1, <3>2, ZenonT(40) DEF IDocker, DockerPlaces, DockerTypeOK, listVars
    <2>2. QED
        BY <1>5, <2>1, EnsureKeepsBridge, DockerKept, ZenonT(40) DEF Ensure
<1>6. ASSUME NEW k \in Callers, SkipContainer(k)
      PROVE  IDocker' /\ IBridge'
    <2>1. IBridge'
        BY <1>6, MoveKeepsBridge, Zenon DEF SkipContainer, bridgeVars
    <2>2. DockerPlaces' /\ running' \subseteq Containers
        BY <1>6, ZenonT(40) DEF SkipContainer, IDocker, DockerPlaces, DockerTypeOK, IBridge, listVars
    <2>3. QED
        BY <1>6, <2>1, <2>2, DockerKept, Zenon DEF SkipContainer
<1>7. ASSUME NEW k \in Callers, RegisterLook(k)
      PROVE  IDocker' /\ IBridge'
    <2>1. cur[k] \in Containers
        BY <1>7, Zenon DEF RegisterLook, IDocker, DockerPlaces
    <2>2. CASE priv[cur[k]] # None
        <3>1. IBridge'
            BY <1>7, <2>2, MoveKeepsBridge, Zenon DEF RegisterLook, Registered, bridgeVars
        <3>2. QED
            BY <1>7, <2>1, <2>2, <3>1, KnownContainer, Zenon DEF RegisterLook
    <2>3. CASE priv[cur[k]] = None
        <3>1. IBridge'
            BY <1>7, <2>3, MoveKeepsBridge, Zenon DEF RegisterLook, bridgeVars
        <3>2. QED
            BY <1>7, <2>3, <3>1, GenerateKeepsDocker, Zenon
    <2>4. QED
        BY <2>2, <2>3, Zenon
<1>8. ASSUME NEW k \in Callers, RegisterStore(k)
      PROVE  IDocker' /\ IBridge'
    <2>1. cur[k] \in Containers
        BY <1>8, Zenon DEF RegisterStore, IDocker, DockerPlaces
    <2>2. pc[k] = "register" /\ pc' = [pc EXCEPT ![k] = "loop"] /\ UNCHANGED bridgeVars
        BY <1>8, Zenon DEF RegisterStore, Registered
    <2>3. IBridge'
        BY <2>2, MoveKeepsBridge, Zenon DEF bridgeVars
    <2>4. CASE priv[cur[k]] # None
        BY <1>8, <2>1, <2>3, <2>4, KnownContainer, Zenon DEF RegisterStore
    <2>5. CASE priv[cur[k]] = None
        BY <1>8, <2>3, <2>5, StoreKeepsDocker, Zenon
    <2>6. QED
        BY <2>4, <2>5, Zenon
<1>9. ASSUME NEW k \in Callers, ListFails(k) \/ Return(k)
      PROVE  IDocker' /\ IBridge'
    <2>1. Forget(k) /\ UNCHANGED <<running, made, tableVars>> /\ pc[k] # "adopt"
        BY <1>9, Zenon DEF ListFails, Return
    <2>2. IBridge'
        BY <2>1, MoveKeepsBridge, Zenon DEF Forget
    <2>3. QED
        BY <2>1, <2>2, ForgetKeepsDocker, Zenon
<1>10. ASSUME NEW k \in Callers, SyncDockerSshdState(k)
      PROVE  IDocker' /\ IBridge'
    <2>1. pc[k] = "loop" /\ pc' = [pc EXCEPT ![k] = "listed"] /\ UNCHANGED bridgeVars
        BY <1>10, Zenon DEF SyncDockerSshdState
    <2>2. IBridge'
        BY <2>1, MoveKeepsBridge, Zenon DEF bridgeVars
    <2>3. QED
        BY <1>10, <2>2, SyncKeepsDocker, Zenon
<1>11. ASSUME NEW k \in Callers, NEW c \in Containers, PublicKeyCallback(k, c)
      PROVE  IDocker' /\ IBridge'
    <2>1. IBridge'
        BY <1>11, MoveKeepsBridge, Zenon DEF PublicKeyCallback, bridgeVars
    <2>2. QED
        BY <1>11, <2>1, ConnectKeepsDocker, Zenon
<1>12. QED
    BY <1>1, <1>2, <1>3, <1>4, <1>5, <1>6, <1>7, <1>8, <1>9, <1>10, <1>11, Zenon DEF DockerNext

\* Every step of the kubernetes plugin keeps both parts of the invariant.
LEMMA KubeStep ==
    ASSUME IKube, IBridge, KubeNext
    PROVE  IKube' /\ IBridge'
<1> USE DEF Places
<1>1. ASSUME NEW p \in Pipes, NEW spec \in Specs, Apply(p, spec)
      PROVE  IKube' /\ IBridge'
    <2>1. IBridge'
        BY <1>1 DEF Apply, IBridge, BridgeIsServed, bridgeVars
    <2>2. QED
        BY <1>1, <2>1, ApplyKeepsKube, ZenonT(40)
<1>2. ASSUME NEW l \in Listeners, KubeFail(l)
      PROVE  IKube' /\ IBridge'
    <2>1. KubePlaces'
        BY <1>2, Zenon DEF KubeFail, BridgeFails, IKube, KubePlaces, kubeLocals
    <2>2. QED
        BY <1>2, <2>1, FailKeepsBridge, KubeKept, SMTT(30) DEF KubeFail
<1>3. ASSUME NEW k \in Callers, ListPipes(k)
      PROVE  IKube' /\ IBridge'
    <2>1. IBridge'
        BY <1>3, MoveKeepsBridge, Zenon DEF ListPipes, bridgeVars
    <2>2. QED
        BY <1>3, <2>1, ListKeepsKube, Zenon
<1>4. ASSUME NEW k \in Callers, SyncKubectlExecState(k)
      PROVE  IKube' /\ IBridge'
    <2>1. pc[k] = "sync" /\ pc' = [pc EXCEPT ![k] = "match"] /\ UNCHANGED bridgeVars
        BY <1>4, Zenon DEF SyncKubectlExecState
    <2>2. IBridge'
        BY <2>1, MoveKeepsBridge, Zenon DEF bridgeVars
    <2>3. QED
        BY <1>4, <2>2, SyncKeepsKube, Zenon
<1>5. ASSUME NEW k \in Callers, NEW p \in Pipes, RegisterPipe(k, p)
      PROVE  IKube' /\ IBridge'
    <2>1. CASE kpriv[p] # None
        <3>1. IBridge'
            BY <1>5, <2>1, MoveKeepsBridge, Zenon DEF RegisterPipe, HasKey, bridgeVars
        <3>2. QED
            BY <1>5, <2>1, <3>1, KnownPipe, Zenon DEF RegisterPipe
    <2>2. CASE kpriv[p] = None
        <3>1. IBridge'
            BY <1>5, <2>2, MoveKeepsBridge, Zenon DEF RegisterPipe, bridgeVars
        <3>2. QED
            BY <1>5, <2>2, <3>1, GenerateKeepsKube, Zenon
    <2>3. QED
        BY <2>1, <2>2, Zenon
<1>6. ASSUME NEW k \in Callers, StorePipe(k)
      PROVE  IKube' /\ IBridge'
    <2>1. kcur[k] \in Pipes /\ ParseTarget(kcur[k], seenPipes[k][kcur[k]]) # None
        BY <1>6, Zenon DEF StorePipe, IKube, KubePlaces
    <2>2. pc[k] = "register" /\ pc' = [pc EXCEPT ![k] = "look"] /\ UNCHANGED bridgeVars
        BY <1>6, Zenon DEF StorePipe, HasKey
    <2>3. IBridge'
        BY <2>2, MoveKeepsBridge, Zenon DEF bridgeVars
    <2>4. CASE kpriv[kcur[k]] # None
        <3>1. kcur' = [kcur EXCEPT ![k] = kcur[k]]
            BY <1>6, ZenonT(40) DEF StorePipe, IKube, KubeTypeOK
        <3>2. QED
            BY <1>6, <2>1, <2>2, <2>3, <2>4, <3>1, KnownPipe, Zenon DEF StorePipe
    <2>5. CASE kpriv[kcur[k]] = None
        BY <1>6, <2>3, <2>5, StoreKeepsKube, Zenon
    <2>6. QED
        BY <2>4, <2>5, Zenon
<1>7. ASSUME NEW k \in Callers, EnsureBridge(k)
      PROVE  IKube' /\ IBridge'
    <2>1. KubePlaces'
        <3>1. /\ pc[k] \in {"look", "listen", "adopt"} /\ pc'[k] \in {"listen", "adopt", "got", "nobridge"}
              /\ \A j \in Callers : j # k => pc'[j] = pc[j]
            BY <1>7, EnsureMoves, Zenon DEF EnsureBridge
        <3>2. UNCHANGED kubeLocals
            BY <1>7, Zenon DEF EnsureBridge
        <3>3. QED
            BY <3>1, <3>2, ZenonT(40) DEF IKube, KubePlaces, kubeLocals
    <2>2. QED
        BY <1>7, <2>1, EnsureKeepsBridge, KubeKept, ZenonT(40) DEF EnsureBridge
<1>8. ASSUME NEW k \in Callers, SelectTarget(k)
      PROVE  IKube' /\ IBridge'
    <2>1. IBridge'
        BY <1>8, MoveKeepsBridge, Zenon DEF SelectTarget, bridgeVars
    <2>2. QED
        BY <1>8, <2>1, SelectKeepsKube, Zenon
<1>9. ASSUME NEW k \in Callers, CallbackReturns(k)
      PROVE  IKube' /\ IBridge'
    <2>1. ForgetPipes(k) /\ UNCHANGED <<store, had, kubeTables, kmade>> /\ pc[k] # "adopt"
        BY <1>9, Zenon DEF CallbackReturns
    <2>2. IBridge'
        BY <2>1, MoveKeepsBridge, Zenon DEF ForgetPipes
    <2>3. QED
        BY <2>1, <2>2, ForgetKeepsKube, Zenon
<1>10. QED
    BY <1>1, <1>2, <1>3, <1>4, <1>5, <1>6, <1>7, <1>8, <1>9, Zenon DEF KubeNext

\* Both plugins start with empty tables and no listener.
LEMMA InitHolds == Init => IInv
BY BridgeStarts, DockerStarts, KubeStarts, Zenon DEF Init, IInv, DockerInit, IDocker, IKube

\* A step of one plugin leaves the tables of the other alone.
LEMMA StepHolds == IInv /\ [Next]_vars => IInv'
<1> SUFFICES ASSUME IInv, [Next]_vars PROVE IInv'
    BY Zenon
<1>1. ASSUME UNCHANGED dockerOnly PROVE (DockerTablesAgree /\ KeyOpensItsContainer)'
    BY <1>1, Zenon DEF IInv, dockerOnly, tableVars, sessVars, DockerTablesAgree, KeyOpensItsContainer
<1>2. ASSUME UNCHANGED kubeOnly PROVE (KubeTablesAgree /\ KeyOpensItsPipe)'
    BY <1>2, Zenon DEF IInv, kubeOnly, kubeTables, kubeLocals, KubeTablesAgree, KeyOpensItsPipe
<1>3. CASE plugin = "docker" /\ plugin' = plugin /\ DockerNext /\ UNCHANGED kubeOnly
    <2>1. IDocker' /\ IBridge'
        BY <1>3, DockerStep, Zenon DEF IInv
    <2>2. QED
        BY <1>2, <1>3, <2>1, Zenon DEF IInv, IDocker
<1>4. CASE plugin = "kubernetes" /\ plugin' = plugin /\ KubeNext /\ UNCHANGED dockerOnly
    <2>1. IKube' /\ IBridge'
        BY <1>4, KubeStep, Zenon DEF IInv
    <2>2. QED
        BY <1>1, <1>4, <2>1, Zenon DEF IInv, IKube
<1>5. CASE UNCHANGED vars
    <2>1. IBridge'
        BY <1>5 DEF vars, bridgeVars, IInv, IBridge, BridgeIsServed
    <2>2. IDocker => IDocker'
        <3>1. ASSUME IDocker PROVE DockerPlaces' /\ running' \subseteq Containers
            BY <1>5, <3>1, Zenon DEF vars, dockerOnly, listVars, IDocker, DockerTypeOK, DockerPlaces
        <3>2. QED
            BY <1>5, <3>1, DockerKept, Zenon DEF vars, dockerOnly
    <2>3. IKube => IKube'
        <3>1. ASSUME IKube PROVE KubePlaces'
            BY <1>5, <3>1, Zenon DEF vars, kubeOnly, kubeLocals, IKube, KubePlaces
        <3>2. QED
            BY <1>5, <3>1, KubeKept, Zenon DEF vars, kubeOnly
    <2>4. QED
        BY <1>1, <1>2, <1>5, <2>1, <2>2, <2>3, ZenonT(40) DEF IInv, vars
<1>6. QED
    BY <1>3, <1>4, <1>5, Zenon DEF Next

\* The key tables of both plugins agree whenever their lock is free, for any
\* number of concurrent callbacks: a callback registers in two critical
\* sections with the key generation between them, and a list by another
\* callback may remove the entry in the gap (dockersshd_bridge.go:56-98,
\* 203-220, kubectl_exec_bridge.go:105-154, 156-188).
THEOREM TablesTheorem == Spec => []TablesAgree
<1>1. IInv => TablesAgree
    BY Zenon DEF IInv, IDocker, IKube, TablesAgree
<1>2. QED
    BY <1>1, InitHolds, StepHolds, PTL DEF Spec

\* A key opens the container or a pod of the pipe it was handed out for, or
\* nothing, for any number of callbacks, keys, containers and pipes
\* (PublicKeyCallback of dockersshd_bridge.go:144-163 and
\* kubectl_exec_bridge.go:231-242).
THEOREM KeyTheorem == Spec => []KeyOpensItsTarget
<1>1. IInv => KeyOpensItsTarget
    BY Zenon DEF IInv, IDocker, IKube, KeyOpensItsTarget
<1>2. QED
    BY <1>1, InitHolds, StepHolds, PTL DEF Spec

\* An address handed out by ensureDockerSshdBridge or ensureKubectlExecBridge
\* is that of a listener being served or of one whose bridge has failed, and
\* the loser of two concurrent calls closes its listener, however many there
\* are (dockersshd_bridge.go:38-53, kubectl_exec_bridge.go:89-102).
THEOREM ServedTheorem == Spec => []BridgeIsServed
<1>1. IInv => BridgeIsServed
    BY Zenon DEF IInv, IBridge
<1>2. QED
    BY <1>1, InitHolds, StepHolds, PTL DEF Spec
=============================================================================
