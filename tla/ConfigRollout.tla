---------------------------- MODULE ConfigRollout ----------------------------
(***************************************************************************)
(* The RabbitMQ cluster operator: how a change of spec.rabbitmq reaches    *)
(* the nodes.  Reconcile writes two ConfigMaps; when a write has changed   *)
(* one, a second call annotates it with the time.  The annotation of       *)
(* server-conf makes restartStatefulSetIfNeeded restart the nodes, the one *)
(* of plugins-conf makes runRabbitmqCLICommandsIfAnnotated run             *)
(* "rabbitmq-plugins set" on every node.                                   *)
(*                                                                         *)
(* Times are seconds (RFC3339).  External: the API server, the StatefulSet *)
(* controller, which restarts the nodes one by one and reports that in the *)
(* StatefulSet's status, and the work queue.  The status the operator      *)
(* reads is the one in its cache: it may be older than the StatefulSet.    *)
(***************************************************************************)
EXTENDS Naturals

CONSTANTS
    Nodes,          \* the nodes of the cluster
    MaxTime,        \* bound: the clock
    MaxEdits,       \* bound: edits of spec.rabbitmq
    MaxFaults,      \* bound: calls that fail
    MaxRestarts     \* bound: restarts of the operator

ASSUME RolloutAssumption ==
    /\ MaxTime \in Nat \ {0}
    /\ MaxEdits \in Nat
    /\ MaxFaults \in Nat
    /\ MaxRestarts \in Nat

Versions == 0 .. MaxEdits
Times == 0 .. MaxTime       \* 0: there is no such annotation

VARIABLES
    spec,           \* [conf, plugins]: what the user asks for
    serverConf,     \* the ConfigMap server-conf and its serverConfUpdatedAt
    pluginsConf,    \* the ConfigMap plugins-conf and its pluginsUpdatedAt
    lastRestartAt,  \* annotation of the StatefulSet's pod template
    nodes,          \* nodes[n]: what node n runs with, and its pod template
    status,         \* of the cached StatefulSet: current and update revision
    now,
    queued,         \* the work queue has a request for this cluster
    pc,             \* next step of the reconcile that runs
    rmq,            \* spec in the copy it works on
    toSet,          \* nodes on which the plugins have yet to be set
    missed,         \* ConfigMaps changed and not annotated since (history)
    edits, faults, restarts

bounds == <<edits, faults, restarts>>
maps == <<serverConf, pluginsConf, missed>>
vars == <<spec, maps, lastRestartAt, nodes, status, now, queued, pc, rmq, toSet,
          bounds>>

Configurations == [conf : Versions, plugins : Versions]
ConfigMaps == [data : Versions, updatedAt : Times]

TypeOK ==
    /\ spec \in Configurations
    /\ serverConf \in ConfigMaps
    /\ pluginsConf \in ConfigMaps
    /\ lastRestartAt \in Times
    /\ nodes \in [Nodes -> [conf : Versions, plugins : Versions, template : Times]]
    /\ status \in [current : Times, update : Times]
    /\ now \in Times \ {0}
    /\ queued \in BOOLEAN
    /\ pc \in {"idle", "plugins", "annotatePlugins", "conf", "annotateConf", "restart",
               "cli", "setPlugins"}
    /\ rmq \in Configurations
    /\ toSet \subseteq Nodes
    /\ missed \subseteq {"conf", "plugins"}
    /\ edits \in 0 .. MaxEdits
    /\ faults \in 0 .. MaxFaults
    /\ restarts \in 0 .. MaxRestarts

\* A cluster that runs with the configuration it was created with.
Init ==
    /\ spec = [conf |-> 0, plugins |-> 0]
    /\ serverConf = [data |-> 0, updatedAt |-> 0]
    /\ pluginsConf = [data |-> 0, updatedAt |-> 0]
    /\ lastRestartAt = 0
    /\ nodes = [n \in Nodes |-> [conf |-> 0, plugins |-> 0, template |-> 0]]
    /\ status = [current |-> 0, update |-> 0]
    /\ now = 1
    /\ queued = FALSE
    /\ pc = "idle"
    /\ rmq = spec
    /\ toSet = {}
    /\ missed = {}
    /\ edits = 0 /\ faults = 0 /\ restarts = 0

-----------------------------------------------------------------------------
(* The reconcile loop *)

Begin ==
    /\ pc = "idle" /\ queued
    /\ queued' = FALSE
    /\ rmq' = spec
    /\ pc' = "plugins"
    /\ UNCHANGED <<spec, maps, lastRestartAt, nodes, status, now, toSet, bounds>>

\* CreateOrUpdate of plugins-conf; a change is an event (Owns), which queues a
\* request, and OperationResultUpdated, for which the map is annotated next.
UpdatePlugins ==
    /\ pc = "plugins"
    /\ IF pluginsConf.data = rmq.plugins
       THEN /\ pc' = "conf"
            /\ UNCHANGED <<pluginsConf, missed, queued>>
       ELSE /\ pluginsConf' = [pluginsConf EXCEPT !.data = rmq.plugins]
            /\ missed' = missed \cup {"plugins"}
            /\ queued' = TRUE
            /\ pc' = "annotatePlugins"
    /\ UNCHANGED <<spec, serverConf, lastRestartAt, nodes, status, now, rmq, toSet, bounds>>

\* Faulty: the annotation is the time until which to wait.
AnnotatePluginsUntil ==
    /\ pc = "annotatePlugins"
    /\ pluginsConf' = [pluginsConf EXCEPT !.updatedAt = now + 2]
    /\ missed' = missed \ {"plugins"}
    /\ queued' = TRUE
    /\ pc' = "conf"
    /\ UNCHANGED <<spec, serverConf, lastRestartAt, nodes, status, now, rmq, toSet, bounds>>

\* annotateIfNeeded
AnnotatePlugins ==
    /\ pc = "annotatePlugins"
    /\ pluginsConf' = [pluginsConf EXCEPT !.updatedAt = now]
    /\ missed' = missed \ {"plugins"}
    /\ queued' = TRUE
    /\ pc' = "conf"
    /\ UNCHANGED <<spec, serverConf, lastRestartAt, nodes, status, now, rmq, toSet, bounds>>

\* CreateOrUpdate of server-conf
UpdateConf ==
    /\ pc = "conf"
    /\ IF serverConf.data = rmq.conf
       THEN /\ pc' = "restart"
            /\ UNCHANGED <<serverConf, missed, queued>>
       ELSE /\ serverConf' = [serverConf EXCEPT !.data = rmq.conf]
            /\ missed' = missed \cup {"conf"}
            /\ queued' = TRUE
            /\ pc' = "annotateConf"
    /\ UNCHANGED <<spec, pluginsConf, lastRestartAt, nodes, status, now, rmq, toSet, bounds>>

AnnotateConf ==
    /\ pc = "annotateConf"
    /\ serverConf' = [serverConf EXCEPT !.updatedAt = now]
    /\ missed' = missed \ {"conf"}
    /\ queued' = TRUE
    /\ pc' = "restart"
    /\ UNCHANGED <<spec, pluginsConf, lastRestartAt, nodes, status, now, rmq, toSet, bounds>>

\* Faulty: restarted once is restarted for good.
RestartedNever == serverConf.updatedAt # 0 /\ lastRestartAt = 0

\* restartStatefulSetIfNeeded compares the two annotations.
RestartNeeded ==
    /\ serverConf.updatedAt # 0
    /\ ~(lastRestartAt # 0 /\ lastRestartAt > serverConf.updatedAt)

RestartStatefulSet ==
    /\ pc = "restart"
    /\ lastRestartAt' = IF RestartNeeded THEN now ELSE lastRestartAt
    /\ queued' = (queued \/ lastRestartAt' # lastRestartAt)
    /\ pc' = "cli"
    /\ UNCHANGED <<spec, maps, nodes, status, now, rmq, toSet, bounds>>

\* allReplicasReadyAndUpdated, of the StatefulSet in the cache (a node is not ready
\* only while it is restarted), and pluginsConfigUpdatedRecently
AllUpdated == status.current = status.update
UpdatedRecently == pluginsConf.updatedAt # 0 /\ now - pluginsConf.updatedAt < 2

\* runRabbitmqCLICommandsIfAnnotated: in 15 or 2 seconds again, or at once.
RunCLICommands ==
    /\ pc = "cli"
    /\ \/ /\ ~AllUpdated \/ UpdatedRecently
          /\ queued' = TRUE
          /\ pc' = "idle"
          /\ UNCHANGED toSet
       \/ /\ AllUpdated /\ ~UpdatedRecently
          /\ toSet' = IF pluginsConf.updatedAt # 0 THEN Nodes ELSE {}
          /\ pc' = IF toSet' = {} THEN "idle" ELSE "setPlugins"
          /\ UNCHANGED queued
    /\ UNCHANGED <<spec, maps, lastRestartAt, nodes, status, now, rmq, bounds>>

\* Faulty: one node sets the plugins of all.
SetPluginsOnce ==
    /\ pc = "setPlugins"
    /\ \E n \in toSet : nodes' = [nodes EXCEPT ![n].plugins = rmq.plugins]
    /\ toSet' = {}
    /\ UNCHANGED <<spec, maps, lastRestartAt, status, now, queued, pc, rmq, bounds>>

\* runSetPluginsCommand: rabbitmq-plugins set on one node after the other, ...
SetPlugins ==
    /\ pc = "setPlugins"
    /\ \E n \in toSet :
          /\ nodes' = [nodes EXCEPT ![n].plugins = rmq.plugins]
          /\ toSet' = toSet \ {n}
    /\ UNCHANGED <<spec, maps, lastRestartAt, status, now, queued, pc, rmq, bounds>>

\* ... then the annotation is deleted.
DeleteAnnotation ==
    /\ pc = "setPlugins" /\ toSet = {}
    /\ pluginsConf' = [pluginsConf EXCEPT !.updatedAt = 0]
    /\ queued' = TRUE
    /\ pc' = "idle"
    /\ UNCHANGED <<spec, serverConf, missed, lastRestartAt, nodes, status, now, rmq, toSet, bounds>>

\* A call fails: Reconcile returns the error and the request is queued again.
Fault ==
    /\ pc # "idle"
    /\ faults < MaxFaults
    /\ faults' = faults + 1
    /\ queued' = TRUE
    /\ pc' = "idle"
    /\ toSet' = {}
    /\ UNCHANGED <<spec, maps, lastRestartAt, nodes, status, now, rmq, edits, restarts>>

\* The operator is restarted.
Restart ==
    /\ pc # "idle"
    /\ restarts < MaxRestarts
    /\ restarts' = restarts + 1
    /\ queued' = TRUE
    /\ pc' = "idle"
    /\ toSet' = {}
    /\ UNCHANGED <<spec, maps, lastRestartAt, nodes, status, now, rmq, edits, faults>>

-----------------------------------------------------------------------------
(* The environment *)

\* A user changes additionalConfig or additionalPlugins.
Edit ==
    /\ edits < MaxEdits
    /\ edits' = edits + 1
    /\ \E s \in Configurations \ {spec} : spec' = s
    /\ queued' = TRUE
    /\ UNCHANGED <<maps, lastRestartAt, nodes, status, now, pc, rmq, toSet, faults, restarts>>

\* The StatefulSet controller restarts a node whose pod template has changed, which
\* takes longer than a second; the node reads both ConfigMaps.
RollNode(n) ==
    /\ nodes[n].template # lastRestartAt
    /\ now > lastRestartAt
    /\ nodes' = [nodes EXCEPT ![n] = [conf |-> serverConf.data, plugins |-> pluginsConf.data,
                                      template |-> lastRestartAt]]
    /\ UNCHANGED <<spec, maps, lastRestartAt, status, now, queued, pc, rmq, toSet, bounds>>

\* The controller has brought the status up to date and the operator's cache has got
\* it: an event (Owns), which queues a request.
ReportStatus ==
    /\ status' = [update |-> lastRestartAt,
                  current |-> IF \A n \in Nodes : nodes[n].template = lastRestartAt
                              THEN lastRestartAt ELSE status.current]
    /\ status' # status
    /\ queued' = TRUE
    /\ UNCHANGED <<spec, maps, lastRestartAt, nodes, now, pc, rmq, toSet, bounds>>

Tick ==
    /\ now < MaxTime
    /\ now' = now + 1
    /\ UNCHANGED <<spec, maps, lastRestartAt, nodes, status, queued, pc, rmq, toSet, bounds>>

-----------------------------------------------------------------------------
Reconcile ==
    \/ Begin \/ UpdatePlugins \/ AnnotatePlugins \/ UpdateConf \/ AnnotateConf
    \/ RestartStatefulSet \/ RunCLICommands \/ SetPlugins \/ DeleteAnnotation

Next ==
    \/ Reconcile \/ Fault \/ Restart \/ Edit \/ Tick \/ ReportStatus
    \/ \E n \in Nodes : RollNode(n)

Spec == Init /\ [][Next]_vars

-----------------------------------------------------------------------------
(* Properties *)

\* No request is queued and none is being worked on.
Settled == pc = "idle" /\ ~queued

\* Every node runs with the configuration asked for, or the StatefulSet controller
\* has yet to restart it, which will give it that configuration.
RolledOut ==
    /\ serverConf.data = spec.conf
    /\ \A n \in Nodes : nodes[n].conf = spec.conf \/ nodes[n].template # lastRestartAt

(***************************************************************************)
(* As long as annotateIfNeeded gets to write its annotations, the          *)
(* operator does not come to rest before every node has the configuration  *)
(* the user asked for or has a newer pod template to be restarted for: the *)
(* two annotations of restartStatefulSetIfNeeded are compared by the       *)
(* second, and the status that ends the reconcile may be out of date.      *)
(***************************************************************************)
MarkedConfIsRolledOut == Settled /\ "conf" \notin missed => RolledOut

(***************************************************************************)
(* The plugins are set on every node: neither a command that fails on one  *)
(* of them, nor an edit, nor a node restart that a stale status does not   *)
(* show yet loses them.                                                    *)
(***************************************************************************)
MarkedPluginsAreSet ==
    Settled /\ "plugins" \notin missed => \A n \in Nodes : nodes[n].plugins = spec.plugins

(***************************************************************************)
(* rabbitmqcluster_types.go: modifying additionalConfig "on an existing    *)
(* RabbitmqCluster will trigger a StatefulSet rolling restart".            *)
(***************************************************************************)
ConfIsRolledOut == Settled => RolledOut
=============================================================================
