------------------------ MODULE ConfigRolloutProofs -------------------------
(***************************************************************************)
(* Proofs about ConfigRollout, for any set of nodes and any number of      *)
(* edits, seconds, failed calls and restarts of the operator.              *)
(***************************************************************************)
EXTENDS ConfigRollout, TLAPS

(***************************************************************************)
(* The inductive invariant.  A node is restarted later than the second of  *)
(* the template it has, and no annotation lies in the future: that is why  *)
(* comparing seconds is enough.                                            *)
(***************************************************************************)
TimeInv ==
    /\ lastRestartAt <= now
    /\ \A n \in Nodes :
          /\ nodes[n].template <= lastRestartAt
          /\ nodes[n].template = lastRestartAt => lastRestartAt = 0 \/ lastRestartAt < now

\* The ConfigMaps that the reconcile has passed are those of its copy.
CopyInv ==
    /\ pc \in {"annotatePlugins", "conf", "annotateConf", "restart", "cli", "setPlugins"}
          => pluginsConf.data = rmq.plugins
    /\ pc \in {"annotateConf", "restart", "cli", "setPlugins"} => serverConf.data = rmq.conf

\* What is left of a restart in the second of the annotation: the nodes that have the
\* template were restarted for it later, with the configuration.
RestartPending ==
    \A n \in Nodes : nodes[n].template # lastRestartAt \/ nodes[n].conf = serverConf.data

\* Without a request in the queue nothing has happened that the reconcile which
\* runs, or has run, does not know of.
QueueInv ==
    ~queued =>
        /\ pc # "idle" => rmq = spec
        /\ pc = "idle" => serverConf.data = spec.conf /\ pluginsConf.data = spec.plugins
        /\ pc \in {"idle", "cli", "setPlugins"} /\ RestartNeeded => RestartPending
        /\ pc = "idle" /\ Nodes # {} => pluginsConf.updatedAt = 0

\* A node without the configuration waits for its restart, or for that of all.
ConfInv ==
    "conf" \notin missed =>
        \A n \in Nodes :
            \/ nodes[n].conf = serverConf.data
            \/ nodes[n].template # lastRestartAt
            \/ RestartNeeded

\* A node without the plugins waits for the command that the annotation stands for.
PluginsInv ==
    /\ "plugins" \notin missed =>
          \A n \in Nodes :
              nodes[n].plugins = pluginsConf.data \/ pluginsConf.updatedAt # 0
    /\ pc = "setPlugins" =>
          \A n \in Nodes \ toSet : nodes[n].plugins = pluginsConf.data

RolloutInv == TypeOK /\ TimeInv /\ CopyInv /\ QueueInv /\ ConfInv /\ PluginsInv

-----------------------------------------------------------------------------
LEMMA RolloutInvInit == Init => RolloutInv
<1> SUFFICES ASSUME Init PROVE RolloutInv
  OBVIOUS
<1> USE RolloutAssumption
<1>1. TypeOK
  <2>1. 0 \in Versions /\ 0 \in Times /\ 1 \in Times
    BY DEF Versions, Times
  <2>2. spec \in Configurations /\ rmq \in Configurations
    BY <2>1 DEF Init, Configurations
  <2>3. serverConf \in ConfigMaps /\ pluginsConf \in ConfigMaps
    BY <2>1 DEF Init, ConfigMaps
  <2>4. nodes \in [Nodes -> [conf : Versions, plugins : Versions, template : Times]]
    BY <2>1 DEF Init
  <2>7. status \in [current : Times, update : Times]
    BY <2>1 DEF Init
  <2>5. /\ lastRestartAt \in Times /\ now \in Times \ {0}
        /\ edits \in 0 .. MaxEdits /\ faults \in 0 .. MaxFaults
        /\ restarts \in 0 .. MaxRestarts
    BY <2>1 DEF Init
  <2>6. /\ queued \in BOOLEAN /\ toSet \subseteq Nodes
        /\ missed \subseteq {"conf", "plugins"}
    BY DEF Init
  <2> QED
    BY <2>2, <2>3, <2>4, <2>5, <2>6, <2>7 DEF Init, TypeOK
<1>2. TimeInv /\ CopyInv
  BY DEF Init, TimeInv, CopyInv
<1>3. QueueInv
  BY DEF Init, QueueInv, RestartNeeded
<1>4. ConfInv /\ PluginsInv
  BY DEF Init, ConfInv, PluginsInv
<1> QED
  BY <1>1, <1>2, <1>3, <1>4 DEF RolloutInv

(* Types that the steps use. *)
LEMMA RolloutTypes ==
    ASSUME TypeOK
    PROVE  /\ now \in Nat /\ now > 0 /\ now <= MaxTime /\ now \in Times
           /\ lastRestartAt \in Nat /\ lastRestartAt \in Times
           /\ serverConf.updatedAt \in Nat /\ pluginsConf.updatedAt \in Nat
           /\ serverConf.data \in Versions /\ pluginsConf.data \in Versions
           /\ rmq.conf \in Versions /\ rmq.plugins \in Versions
           /\ \A n \in Nodes : nodes[n].template \in Nat
           /\ queued \in BOOLEAN
  BY RolloutAssumption DEF TypeOK, Configurations, ConfigMaps, Times

(* The steps keep the types. *)
LEMMA TypeStep ==
    ASSUME TypeOK, [Next]_vars
    PROVE  TypeOK'
<1> USE RolloutAssumption, RolloutTypes DEF TypeOK
<1>1. CASE Begin
  BY <1>1 DEF Begin, maps, bounds
<1>2. CASE UpdatePlugins
  BY <1>2 DEF UpdatePlugins, bounds, ConfigMaps
<1>3. CASE AnnotatePlugins
  BY <1>3 DEF AnnotatePlugins, bounds, ConfigMaps
<1>4. CASE UpdateConf
  BY <1>4 DEF UpdateConf, bounds, ConfigMaps
<1>5. CASE AnnotateConf
  BY <1>5 DEF AnnotateConf, bounds, ConfigMaps
<1>6. CASE RestartStatefulSet
  BY <1>6 DEF RestartStatefulSet, maps, bounds
<1>7. CASE RunCLICommands
  BY <1>7 DEF RunCLICommands, maps, bounds
<1>8. CASE SetPlugins
  BY <1>8 DEF SetPlugins, maps, bounds
<1>9. CASE DeleteAnnotation
  BY <1>9 DEF DeleteAnnotation, bounds, ConfigMaps, Times
<1>10. CASE Fault
  BY <1>10 DEF Fault, maps
<1>11. CASE Restart
  BY <1>11 DEF Restart, maps
<1>12. CASE Edit
  BY <1>12 DEF Edit, maps
<1>13. CASE Tick
  BY <1>13 DEF Tick, maps, bounds, Times
<1>14. ASSUME NEW n \in Nodes, RollNode(n)
       PROVE  TypeOK'
  BY <1>14 DEF RollNode, maps, bounds
<1>15. CASE ReportStatus
  BY <1>15 DEF ReportStatus, maps, bounds
<1>16. CASE UNCHANGED vars
  BY <1>16 DEF vars, maps, bounds
<1> QED
  BY <1>1, <1>2, <1>3, <1>4, <1>5, <1>6, <1>7, <1>8, <1>9, <1>10, <1>11, <1>12, <1>13,
     <1>14, <1>15, <1>16 DEF Next, Reconcile

(* Time: a restart is later than every template there is. *)
LEMMA TimeStep ==
    ASSUME RolloutInv, [Next]_vars
    PROVE  TimeInv'
<1> USE RolloutTypes DEF RolloutInv, TimeInv
<1>1. CASE RestartStatefulSet
  BY <1>1 DEF RestartStatefulSet
<1>2. CASE SetPlugins
  BY <1>2 DEF SetPlugins, TypeOK
<1>3. CASE Tick
  BY <1>3 DEF Tick
<1>4. ASSUME NEW n \in Nodes, RollNode(n)
      PROVE  TimeInv'
  BY <1>4 DEF RollNode, TypeOK
<1>5. CASE UNCHANGED <<lastRestartAt, nodes, now>>
  BY <1>5
<1> QED
  BY <1>1, <1>2, <1>3, <1>4, <1>5
  DEF Next, Reconcile, Begin, UpdatePlugins, AnnotatePlugins, UpdateConf, AnnotateConf,
      RunCLICommands, DeleteAnnotation, Fault, Restart, Edit, ReportStatus, vars

LEMMA CopyStep ==
    ASSUME RolloutInv, [Next]_vars
    PROVE  CopyInv'
<1> USE DEF RolloutInv, TypeOK, CopyInv, ConfigMaps
<1>1. CASE Begin \/ UpdatePlugins \/ AnnotatePlugins
  BY <1>1 DEF Begin, UpdatePlugins, AnnotatePlugins
<1>2. CASE UpdateConf \/ AnnotateConf
  BY <1>2 DEF UpdateConf, AnnotateConf
<1>3. CASE RestartStatefulSet \/ RunCLICommands \/ SetPlugins \/ DeleteAnnotation
  BY <1>3 DEF RestartStatefulSet, RunCLICommands, SetPlugins, DeleteAnnotation, maps
<1>4. CASE Fault \/ Restart
  BY <1>4 DEF Fault, Restart
<1>5. CASE UNCHANGED <<serverConf, pluginsConf, pc, rmq>>
  BY <1>5
<1> QED
  BY <1>1, <1>2, <1>3, <1>4, <1>5 DEF Next, Reconcile, Edit, Tick, RollNode, ReportStatus, maps,
     vars

(* What the queue knows. *)
LEMMA QueueStep ==
    ASSUME RolloutInv, [Next]_vars
    PROVE  QueueInv'
<1> USE RolloutTypes DEF RolloutInv, QueueInv
<1>1. CASE queued'
  BY <1>1
<1>2. CASE Begin
  BY <1>2 DEF Begin
<1>3. ASSUME UpdatePlugins \/ UpdateConf, ~queued'
      PROVE  QueueInv'
  BY <1>3 DEF UpdatePlugins, UpdateConf
<1>4. ASSUME RestartStatefulSet, ~queued'
      PROVE  QueueInv'
  <2>1. /\ ~queued /\ lastRestartAt' = lastRestartAt /\ pc = "restart" /\ pc' = "cli"
        /\ UNCHANGED <<spec, serverConf, pluginsConf, nodes, rmq>>
    BY <1>4 DEF RestartStatefulSet, maps
  <2>2. ASSUME RestartNeeded PROVE RestartPending
    BY <1>4, <2>1, <2>2 DEF RestartStatefulSet, TimeInv, RestartPending
  <2>3. RestartNeeded' = RestartNeeded /\ RestartPending' = RestartPending
    BY <2>1 DEF RestartNeeded, RestartPending
  <2> QED
    BY <2>1, <2>2, <2>3
<1>5. ASSUME RunCLICommands, ~queued'
      PROVE  QueueInv'
  <2>1. /\ pc = "cli" /\ ~queued
        /\ toSet' = IF pluginsConf.updatedAt # 0 THEN Nodes ELSE {}
        /\ pc' = IF toSet' = {} THEN "idle" ELSE "setPlugins"
        /\ UNCHANGED <<spec, serverConf, pluginsConf, lastRestartAt, nodes, rmq>>
    BY <1>5 DEF RunCLICommands, maps
  <2>2. RestartNeeded' = RestartNeeded /\ RestartPending' = RestartPending
    BY <2>1 DEF RestartNeeded, RestartPending
  <2>3. rmq = spec /\ serverConf.data = spec.conf /\ pluginsConf.data = spec.plugins
    BY <2>1 DEF CopyInv
  <2> QED
    BY <2>1, <2>2, <2>3
<1>6. ASSUME SetPlugins, ~queued'
      PROVE  QueueInv'
  <2>1. /\ pc = "setPlugins" /\ pc' = pc /\ ~queued
        /\ UNCHANGED <<spec, serverConf, lastRestartAt, rmq>>
        /\ \A n \in Nodes : /\ nodes'[n].template = nodes[n].template
                            /\ nodes'[n].conf = nodes[n].conf
    BY <1>6 DEF SetPlugins, maps, TypeOK
  <2>2. RestartNeeded' = RestartNeeded /\ (RestartPending => RestartPending')
    BY <2>1 DEF RestartNeeded, RestartPending
  <2> QED
    BY <2>1, <2>2
<1>7. ASSUME Tick \/ UNCHANGED vars
      PROVE  QueueInv'
  <2>1. UNCHANGED <<spec, serverConf, pluginsConf, lastRestartAt, nodes, queued, pc, rmq>>
    BY <1>7 DEF Tick, maps, vars
  <2>2. RestartNeeded' = RestartNeeded /\ RestartPending' = RestartPending
    BY <2>1 DEF RestartNeeded, RestartPending
  <2> QED
    BY <2>1, <2>2
<1>8. ASSUME NEW n \in Nodes, RollNode(n)
      PROVE  QueueInv'
  <2>1. /\ UNCHANGED <<spec, serverConf, pluginsConf, lastRestartAt, queued, pc, rmq>>
        /\ \A m \in Nodes : nodes'[m] = nodes[m] \/ nodes'[m].conf = serverConf.data
    BY <1>8 DEF RollNode, maps, TypeOK
  <2>2. RestartNeeded' = RestartNeeded /\ (RestartPending => RestartPending')
    BY <2>1 DEF RestartNeeded, RestartPending
  <2> QED
    BY <2>1, <2>2
<1> QED
  BY <1>1, <1>2, <1>3, <1>4, <1>5, <1>6, <1>7, <1>8
  DEF Next, Reconcile, AnnotatePlugins, AnnotateConf, DeleteAnnotation, Fault, Restart, Edit,
      ReportStatus

(* No node without the configuration is forgotten. *)
LEMMA ConfStep ==
    ASSUME RolloutInv, [Next]_vars
    PROVE  ConfInv'
<1> USE RolloutTypes DEF RolloutInv, ConfInv
<1>1. CASE UpdateConf
  BY <1>1 DEF UpdateConf, RestartNeeded
<1>2. CASE AnnotateConf
  <2>1. serverConf'.updatedAt = now /\ lastRestartAt' = lastRestartAt
    BY <1>2 DEF AnnotateConf, TypeOK, ConfigMaps
  <2>2. RestartNeeded'
    BY <2>1 DEF RestartNeeded, TimeInv
  <2> QED
    BY <2>2
<1>3. CASE RestartStatefulSet
  <2>1. /\ UNCHANGED <<nodes, serverConf, missed>>
        /\ lastRestartAt' = IF RestartNeeded THEN now ELSE lastRestartAt
    BY <1>3 DEF RestartStatefulSet, maps
  <2>2. CASE RestartNeeded
    <3>1. \A n \in Nodes : nodes'[n].template # lastRestartAt'
      BY <2>1, <2>2 DEF TimeInv
    <3> QED
      BY <3>1
  <2>3. CASE ~RestartNeeded
    BY <2>1, <2>3
  <2> QED
    BY <2>2, <2>3
<1>4. CASE SetPlugins
  <2>1. /\ UNCHANGED <<serverConf, missed, lastRestartAt>>
        /\ \A n \in Nodes : /\ nodes'[n].template = nodes[n].template
                            /\ nodes'[n].conf = nodes[n].conf
    BY <1>4 DEF SetPlugins, maps, TypeOK
  <2> QED
    BY <2>1 DEF RestartNeeded
<1>5. ASSUME NEW n \in Nodes, RollNode(n)
      PROVE  ConfInv'
  <2>1. /\ UNCHANGED <<serverConf, missed, lastRestartAt>>
        /\ \A m \in Nodes : nodes'[m] = nodes[m] \/ nodes'[m].conf = serverConf.data
    BY <1>5 DEF RollNode, maps, TypeOK
  <2> QED
    BY <2>1 DEF RestartNeeded
<1>6. ASSUME UNCHANGED <<nodes, serverConf, lastRestartAt>>, "conf" \notin missed' => "conf" \notin missed
      PROVE  ConfInv'
  BY <1>6 DEF RestartNeeded
<1>7. ASSUME UpdatePlugins \/ AnnotatePlugins
      PROVE  ConfInv'
  <2>1. UNCHANGED <<nodes, serverConf, lastRestartAt>> /\ ("conf" \in missed => "conf" \in missed')
    BY <1>7 DEF UpdatePlugins, AnnotatePlugins
  <2> QED
    BY <2>1, <1>6
<1> QED
  BY <1>1, <1>2, <1>3, <1>4, <1>5, <1>6, <1>7
  DEF Next, Reconcile, Begin, RunCLICommands, DeleteAnnotation, Fault, Restart, Edit, Tick,
      ReportStatus, maps, vars

(* No node without the plugins is forgotten. *)
LEMMA PluginsStep ==
    ASSUME RolloutInv, [Next]_vars
    PROVE  PluginsInv'
<1> USE RolloutTypes DEF RolloutInv, PluginsInv
<1>1. CASE UpdatePlugins
  BY <1>1 DEF UpdatePlugins
<1>2. CASE AnnotatePlugins
  BY <1>2 DEF AnnotatePlugins, TypeOK, ConfigMaps
<1>3. CASE RunCLICommands
  BY <1>3 DEF RunCLICommands, maps
<1>4. CASE SetPlugins
  <2>1. pluginsConf.data = rmq.plugins /\ pc = "setPlugins" /\ UNCHANGED <<pluginsConf, missed>>
    BY <1>4 DEF SetPlugins, CopyInv, maps
  <2>2. PICK n \in toSet : /\ nodes' = [nodes EXCEPT ![n].plugins = rmq.plugins]
                          /\ toSet' = toSet \ {n}
    BY <1>4 DEF SetPlugins
  <2>3. \A m \in Nodes :
            \/ m = n /\ nodes'[m].plugins = pluginsConf.data
            \/ m # n /\ nodes'[m] = nodes[m]
    BY <2>1, <2>2 DEF TypeOK
  <2> QED
    BY <2>1, <2>2, <2>3
<1>5. CASE DeleteAnnotation
  BY <1>5 DEF DeleteAnnotation, TypeOK, ConfigMaps
<1>6. ASSUME NEW n \in Nodes, RollNode(n)
      PROVE  PluginsInv'
  <2>1. /\ UNCHANGED <<pluginsConf, missed, pc, toSet>>
        /\ \A m \in Nodes : nodes'[m] = nodes[m] \/ nodes'[m].plugins = pluginsConf.data
    BY <1>6 DEF RollNode, maps, TypeOK
  <2> QED
    BY <2>1
<1>7. ASSUME UNCHANGED <<nodes, pluginsConf>>,
             "plugins" \in missed => "plugins" \in missed',
             pc' = "setPlugins" => pc = "setPlugins" /\ toSet' = toSet
      PROVE  PluginsInv'
  BY <1>7
<1>8. ASSUME UpdateConf \/ AnnotateConf
      PROVE  PluginsInv'
  <2>1. /\ UNCHANGED <<nodes, pluginsConf>> /\ ("plugins" \in missed => "plugins" \in missed')
        /\ pc' # "setPlugins"
    BY <1>8 DEF UpdateConf, AnnotateConf
  <2> QED
    BY <2>1, <1>7
<1> QED
  BY <1>1, <1>2, <1>3, <1>4, <1>5, <1>6, <1>7, <1>8
  DEF Next, Reconcile, Begin, RestartStatefulSet, Fault, Restart, Edit, Tick, ReportStatus, maps,
      vars

(***************************************************************************)
(* RolloutInv, type correctness included, is an invariant of the rollout.  *)
(***************************************************************************)
THEOREM RolloutInvariant == Spec => []RolloutInv
<1>1. RolloutInv /\ [Next]_vars => RolloutInv'
  <2> SUFFICES ASSUME RolloutInv, [Next]_vars PROVE RolloutInv'
    OBVIOUS
  <2>1. TypeOK'
    BY TypeStep DEF RolloutInv
  <2> QED
    BY <2>1, TimeStep, CopyStep, QueueStep, ConfStep, PluginsStep DEF RolloutInv
<1> QED
  BY <1>1, RolloutInvInit, PTL DEF Spec

(***************************************************************************)
(* Every variable of the rollout keeps its type.                           *)
(***************************************************************************)
THEOREM RolloutTypeCorrect == Spec => []TypeOK
<1>1. RolloutInv => TypeOK
  BY DEF RolloutInv
<1> QED
  BY <1>1, RolloutInvariant, PTL

(***************************************************************************)
(* As long as the annotations get written, the operator comes to rest only *)
(* when every node has the configuration asked for or a newer template to  *)
(* be restarted for.  A status that is out of date, and times that fall    *)
(* into the same second, lose no restart.                                  *)
(***************************************************************************)
THEOREM RolloutMarkedConf == Spec => []MarkedConfIsRolledOut
<1>1. RolloutInv => MarkedConfIsRolledOut
  BY DEF RolloutInv, QueueInv, ConfInv, RestartPending, MarkedConfIsRolledOut, RolledOut, Settled
<1> QED
  BY <1>1, RolloutInvariant, PTL

(***************************************************************************)
(* The same for the plugins, whichever node the command fails on.          *)
(***************************************************************************)
THEOREM RolloutMarkedPlugins == Spec => []MarkedPluginsAreSet
<1>1. RolloutInv => MarkedPluginsAreSet
  BY DEF RolloutInv, QueueInv, PluginsInv, MarkedPluginsAreSet, Settled
<1> QED
  BY <1>1, RolloutInvariant, PTL
=============================================================================
