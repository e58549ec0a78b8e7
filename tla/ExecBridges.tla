---------------------------- MODULE ExecBridges ----------------------------
(***************************************************************************)
(* The docker and the kubernetes plugin side by side.  They are two        *)
(* programs with the same listener code; `plugin` says which one runs.     *)
(***************************************************************************)
EXTENDS DockerBridge, KubeBridge

VARIABLE plugin

dockerOnly == <<running, made, tableVars, listVars, sessVars>>
kubeOnly   == <<store, had, kubeTables, kmade, kubeLocals>>
vars       == <<plugin, pc, bridgeVars, dockerOnly, kubeOnly>>

Init == plugin \in {"docker", "kubernetes"} /\ DockerInit /\ KubeInit

Next ==
    /\ UNCHANGED plugin
    /\ \/ plugin = "docker" /\ DockerNext /\ UNCHANGED kubeOnly
       \/ plugin = "kubernetes" /\ KubeNext /\ UNCHANGED dockerOnly

Spec == Init /\ [][Next]_vars

\* Whenever the lock of a plugin is free its tables agree, however the
\* critical sections of two callbacks interleave (registerDockerSshdContainer,
\* syncDockerSshdState, registerKubectlExecPipe, syncKubectlExecState).
TablesAgree == DockerTablesAgree /\ KubeTablesAgree

\* A key leads to what it was handed out for, or to nothing, however the
\* tables have changed between the callback and the connection.
KeyOpensItsTarget == KeyOpensItsContainer /\ KeyOpensItsPipe
=============================================================================
