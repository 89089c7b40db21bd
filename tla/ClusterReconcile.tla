-------------------------- MODULE ClusterReconcile --------------------------
(***************************************************************************)
(* The RabbitMQ cluster operator: the part of Reconcile that decides on    *)
(* the StatefulSet (number of nodes, storage capacity) and reports the     *)
(* outcome in the status of the RabbitmqCluster.                           *)
(*                                                                         *)
(* One worker reconciles (leader election, one concurrent reconcile).  It  *)
(* reads the RabbitmqCluster and, through r.Get, the StatefulSet from a    *)
(* cache that lags behind the API server; PersistenceScaler reads both     *)
(* StatefulSet and PVCs from the API server itself.  Users edit the spec   *)
(* at any time, any API call may fail, and the operator may be restarted   *)
(* between two calls.                                                      *)
(*                                                                         *)
(* External: the API server (optimistic concurrency, immutable volume      *)
(* claim templates), the StatefulSet controller and the work queue.        *)
(***************************************************************************)
EXTENDS Naturals, FiniteSets

CONSTANTS
    MaxReplicas,    \* bound: nodes a user asks for
    MaxStorage,     \* bound: storage capacity; 0 is ephemeral storage
    MaxEdits,       \* bound: edits of the spec
    MaxFaults,      \* bound: API calls that fail
    MaxRestarts     \* bound: restarts of the operator

ASSUME ReconcileAssumption ==
    /\ MaxReplicas \in Nat \ {0}
    /\ MaxStorage \in Nat
    /\ MaxEdits \in Nat
    /\ MaxFaults \in Nat
    /\ MaxRestarts \in Nat

Ordinals == 0 .. (MaxReplicas - 1)
Capacities == 0 .. MaxStorage

\* spec.replicas and spec.persistence.storage
Specs == [replicas : 1 .. MaxReplicas, storage : Capacities]

\* A StatefulSet: what it asks for and how many ready nodes it reports.
StatefulSets == [replicas : 1 .. MaxReplicas, storage : Capacities, ready : 0 .. MaxReplicas]
NoSts == [replicas |-> 0, storage |-> 0, ready |-> 0]

VARIABLES
    spec,       \* spec of the RabbitmqCluster
    gen,        \* its generation
    status,     \* its condition ReconcileSuccess and observedGeneration
    unreported, \* the last Status().Update failed (history)
    sts,        \* the StatefulSet, or NoSts
    pvc,        \* pvc[i]: capacity of the claim of node i, 0 when there is none
    nodes,      \* ordinals of the nodes that run
    cache,      \* the StatefulSet in the operator's cache
    queued,     \* the work queue has a request for this cluster
    pc,         \* next step of the reconcile that runs
    rmq,        \* the copy of the RabbitmqCluster it works on
    stale,      \* the RabbitmqCluster has changed since the copy was read
    toScale,    \* claims that scaleUpPVCs has yet to update
    edits, faults, restarts

clusterVars == <<spec, gen, status, unreported>>
storageVars == <<pvc, toScale>>
bounds == <<edits, faults, restarts>>
vars == <<clusterVars, sts, nodes, cache, queued, pc, rmq, stale, storageVars, bounds>>

TypeOK ==
    /\ spec \in Specs
    /\ gen \in Nat
    /\ status \in [success : {"Unknown", "True", "False"}, observed : Nat]
    /\ unreported \in BOOLEAN
    /\ sts \in StatefulSets \cup {NoSts}
    /\ pvc \in [Ordinals -> Capacities]
    /\ nodes \subseteq Ordinals
    /\ cache \in StatefulSets \cup {NoSts}
    /\ queued \in BOOLEAN
    /\ pc \in {"idle", "scaleDown", "capacity", "claims", "delete", "expand", "apply",
              "annotate", "finish"}
    /\ rmq \in [spec : Specs, gen : Nat]
    /\ stale \in BOOLEAN
    /\ toScale \subseteq Ordinals
    /\ edits \in 0 .. MaxEdits
    /\ faults \in 0 .. MaxFaults
    /\ restarts \in 0 .. MaxRestarts

\* A RabbitmqCluster has just been created.
Init ==
    /\ spec \in Specs
    /\ gen = 1
    /\ status = [success |-> "Unknown", observed |-> 0]
    /\ unreported = FALSE
    /\ sts = NoSts /\ cache = NoSts
    /\ pvc = [i \in Ordinals |-> 0]
    /\ nodes = {}
    /\ queued = TRUE
    /\ pc = "idle"
    /\ rmq = [spec |-> spec, gen |-> gen]
    /\ stale = FALSE
    /\ toScale = {}
    /\ edits = 0 /\ faults = 0 /\ restarts = 0

-----------------------------------------------------------------------------
(* The reconcile loop *)

\* The first part of Reconcile: getRabbitmqCluster and what precedes the
\* StatefulSet builder, none of which touches the state modelled here.
Begin ==
    /\ pc = "idle" /\ queued
    /\ queued' = FALSE
    /\ rmq' = [spec |-> spec, gen |-> gen]
    /\ stale' = FALSE
    /\ pc' = "scaleDown"
    /\ UNCHANGED <<clusterVars, sts, nodes, cache, storageVars, bounds>>

\* Status().Update of the copy.  It is refused when the copy is stale and may fail
\* for any other reason; the error is only logged.  A change is an event, which
\* queues a request.
WriteStatus(s) ==
    \E failed \in BOOLEAN :
        /\ stale => failed
        /\ status' = IF failed THEN status ELSE s
        /\ unreported' = failed

\* Faulty: the error is reported and swallowed.
ReturnNoError ==
    /\ WriteStatus([status EXCEPT !.success = "False"])
    /\ queued' = queued
    /\ pc' = "idle"
    /\ toScale' = {}

\* setReconcileSuccess(False) and return err: the request is queued again.
ReturnError ==
    /\ WriteStatus([status EXCEPT !.success = "False"])
    /\ queued' = TRUE
    /\ pc' = "idle"
    /\ toScale' = {}

\* scaleDown, against the StatefulSet in the cache; "return when cluster scale
\* down detected", without a requeue.
ScaleDown ==
    /\ pc = "scaleDown"
    /\ IF cache # NoSts /\ cache.replicas > rmq.spec.replicas
       THEN /\ WriteStatus([status EXCEPT !.success = "False"])
            /\ queued' = (queued \/ status' # status)
            /\ pc' = "idle"
       ELSE /\ pc' = "capacity"
            /\ UNCHANGED <<status, unreported, queued>>
    /\ UNCHANGED <<spec, gen, sts, nodes, cache, rmq, stale, storageVars, bounds>>

\* Scale: existingCapacity and the two operations it refuses.
Unsupported(existing, desired) ==
    \/ existing = 0 /\ desired # 0
    \/ existing > desired

\* Faulty: a StatefulSet that is not found is an error.
CapacityOfExisting ==
    /\ pc = "capacity"
    /\ IF sts = NoSts \/ Unsupported(sts.storage, rmq.spec.storage)
       THEN ReturnError
       ELSE /\ pc' = "claims"
            /\ UNCHANGED <<status, unreported, queued, toScale>>
    /\ UNCHANGED <<spec, gen, sts, nodes, cache, rmq, stale, pvc, bounds>>

ExistingCapacity ==
    /\ pc = "capacity"
    /\ IF sts # NoSts /\ Unsupported(sts.storage, rmq.spec.storage)
       THEN ReturnError
       ELSE /\ pc' = "claims"
            /\ UNCHANGED <<status, unreported, queued, toScale>>
    /\ UNCHANGED <<spec, gen, sts, nodes, cache, rmq, stale, pvc, bounds>>

\* Faulty: every claim whose capacity differs.
PvcsThatDiffer ==
    {i \in Ordinals : i < rmq.spec.replicas /\ pvc[i] # 0 /\ pvc[i] # rmq.spec.storage}

\* getClusterPVCs and pvcsNeedingScaling
PvcsNeedingScaling ==
    {i \in Ordinals : i < rmq.spec.replicas /\ pvc[i] # 0 /\ pvc[i] < rmq.spec.storage}

ListPVCs ==
    /\ pc = "claims"
    /\ toScale' = PvcsNeedingScaling
    /\ pc' = IF toScale' = {} THEN "apply" ELSE "delete"
    /\ UNCHANGED <<clusterVars, sts, nodes, cache, queued, rmq, stale, pvc, bounds>>

\* deleteSts: the nodes and their claims are orphaned.
DeleteSts ==
    /\ pc = "delete"
    /\ sts' = NoSts
    /\ pc' = "expand"
    /\ UNCHANGED <<clusterVars, nodes, cache, queued, rmq, stale, storageVars, bounds>>

\* Faulty: the capacity is added to the claim's.
ScaleUpPVCBy ==
    /\ pc = "expand"
    /\ \E i \in toScale :
          /\ pvc' = [pvc EXCEPT ![i] = @ + rmq.spec.storage]
          /\ toScale' = toScale \ {i}
    /\ pc' = IF toScale' = {} THEN "apply" ELSE "expand"
    /\ UNCHANGED <<clusterVars, sts, nodes, cache, queued, rmq, stale, bounds>>

\* scaleUpPVCs: one update for each claim, in the order of the nodes.
ScaleUpPVC ==
    /\ pc = "expand"
    /\ \E i \in toScale :
          /\ \A j \in toScale : i <= j
          /\ pvc' = [pvc EXCEPT ![i] = rmq.spec.storage]
          /\ toScale' = toScale \ {i}
    /\ pc' = IF toScale' = {} THEN "apply" ELSE "expand"
    /\ UNCHANGED <<clusterVars, sts, nodes, cache, queued, rmq, stale, bounds>>

\* StatefulSetBuilder.Build and Update, for an object that does not exist yet and
\* for one read from the cache: updatePersistenceStorageCapacity changes the claim
\* template only where there is one.
Built == [replicas |-> rmq.spec.replicas, storage |-> rmq.spec.storage, ready |-> 0]

Updated(object) ==
    [object EXCEPT !.replicas = rmq.spec.replicas,
                   !.storage = IF @ = 0 THEN 0 ELSE rmq.spec.storage]

\* CreateOrUpdate of the StatefulSet.  An update is refused when the object in
\* the cache is not the current one (RetryOnConflict waits a moment for the cache)
\* and when it changes the claim template.
CreateOrUpdate ==
    /\ pc = "apply"
    /\ \/ /\ cache = NoSts /\ sts = NoSts
          /\ sts' = Built
          /\ pc' = "annotate"
          /\ UNCHANGED <<status, unreported, queued, toScale>>
       \/ /\ cache # NoSts /\ Updated(cache) = cache
          /\ pc' = "finish"
          /\ UNCHANGED <<sts, status, unreported, queued, toScale>>
       \/ /\ cache # NoSts /\ Updated(cache) # cache
          /\ cache = sts /\ Updated(cache).storage = sts.storage
          /\ sts' = Updated(cache)
          /\ pc' = "finish"
          /\ UNCHANGED <<status, unreported, queued, toScale>>
       \/ /\ \/ cache = NoSts /\ sts # NoSts
             \/ /\ cache # NoSts /\ Updated(cache) # cache
                /\ cache # sts \/ Updated(cache).storage # sts.storage
          /\ ReturnError
          /\ UNCHANGED sts
    /\ UNCHANGED <<spec, gen, nodes, cache, rmq, stale, pvc, bounds>>

\* Reconcile returns an error, or asks to be called again later.
Requeue ==
    /\ queued' = TRUE
    /\ pc' = "idle"
    /\ toScale' = {}
    /\ UNCHANGED <<status, unreported>>

\* annotateIfNeeded, after a create: updateAnnotation tries again for a moment when
\* the cache does not have the new StatefulSet yet, then gives up.
Annotate ==
    /\ pc = "annotate"
    /\ IF cache = sts
       THEN /\ pc' = "finish"
            /\ UNCHANGED <<status, unreported, queued, toScale>>
       ELSE Requeue
    /\ UNCHANGED <<spec, gen, sts, nodes, cache, rmq, stale, pvc, bounds>>

\* runRabbitmqCLICommandsIfAnnotated asks again in 15 seconds until all replicas
\* are ready, and needs the StatefulSet; then ReconcileSuccess becomes true.
Finish ==
    /\ pc = "finish"
    /\ \/ cache = NoSts /\ ReturnError
       \/ cache # NoSts /\ cache.ready # cache.replicas /\ Requeue
       \/ /\ cache # NoSts /\ cache.ready = cache.replicas
          /\ WriteStatus([success |-> "True", observed |-> rmq.gen])
          /\ queued' = (queued \/ status' # status)
          /\ pc' = "idle"
          /\ UNCHANGED toScale
    /\ UNCHANGED <<spec, gen, sts, nodes, cache, rmq, stale, pvc, bounds>>

\* A call to the API server fails.  A StatefulSet that was "not deleting after 30
\* seconds" may be gone soon after.  In the last part only the errors of the CLI
\* commands are reported, those of restartStatefulSetIfNeeded and reconcileStatus
\* are not.
Fault ==
    /\ faults < MaxFaults
    /\ faults' = faults + 1
    /\ \/ pc \in {"scaleDown", "annotate", "finish"} /\ Requeue
       \/ pc \in {"capacity", "claims", "delete", "expand", "apply", "finish"} /\ ReturnError
    /\ sts' \in IF pc = "delete" THEN {sts, NoSts} ELSE {sts}
    /\ UNCHANGED <<spec, gen, nodes, cache, rmq, stale, pvc, edits, restarts>>

\* The operator is restarted and lists everything anew.
Restart ==
    /\ pc # "idle"
    /\ restarts < MaxRestarts
    /\ restarts' = restarts + 1
    /\ pc' = "idle"
    /\ queued' = TRUE
    /\ cache' = sts
    /\ toScale' = {}
    /\ UNCHANGED <<clusterVars, sts, nodes, rmq, stale, pvc, edits, faults>>

-----------------------------------------------------------------------------
(* The environment *)

\* A user changes the spec.
Edit ==
    /\ edits < MaxEdits
    /\ edits' = edits + 1
    /\ \E s \in Specs \ {spec} : spec' = s
    /\ gen' = gen + 1
    /\ stale' = TRUE
    /\ queued' = TRUE
    /\ UNCHANGED <<status, unreported, sts, nodes, cache, pc, rmq, storageVars, faults, restarts>>

\* An event of the StatefulSet reaches the cache, and queues a request (Owns).
CacheSync ==
    /\ cache # sts
    /\ cache' = sts
    /\ queued' = TRUE
    /\ UNCHANGED <<clusterVars, sts, nodes, pc, rmq, stale, storageVars, bounds>>

\* The StatefulSet controller starts node i, with its claim, ...
StartNode(i) ==
    /\ i < sts.replicas /\ i \notin nodes
    /\ nodes' = nodes \cup {i}
    /\ pvc' = [pvc EXCEPT ![i] = IF @ = 0 THEN sts.storage ELSE @]
    /\ UNCHANGED <<clusterVars, sts, cache, queued, pc, rmq, stale, toScale, bounds>>

\* ... stops a node beyond the replicas, ...
StopNode(i) ==
    /\ sts # NoSts
    /\ i >= sts.replicas /\ i \in nodes
    /\ nodes' = nodes \ {i}
    /\ UNCHANGED <<clusterVars, sts, cache, queued, pc, rmq, stale, storageVars, bounds>>

\* ... and counts the ready ones.
Running == {i \in nodes : i < sts.replicas}

CountReady ==
    /\ sts # NoSts
    /\ sts.ready # Cardinality(Running)
    /\ sts' = [sts EXCEPT !.ready = Cardinality(Running)]
    /\ UNCHANGED <<clusterVars, nodes, cache, queued, pc, rmq, stale, storageVars, bounds>>

-----------------------------------------------------------------------------
Reconcile ==
    \/ Begin \/ ScaleDown \/ ExistingCapacity \/ ListPVCs \/ DeleteSts \/ ScaleUpPVC
    \/ CreateOrUpdate \/ Annotate \/ Finish

Controller == CountReady \/ \E i \in Ordinals : StartNode(i) \/ StopNode(i)

Next == Reconcile \/ Fault \/ Restart \/ Edit \/ CacheSync \/ Controller

Spec == Init /\ [][Next]_vars

\* The worker goes on with the request it has, and events are delivered.
FairSpec == Spec /\ WF_vars(Reconcile) /\ WF_vars(CacheSync) /\ WF_vars(Controller)

-----------------------------------------------------------------------------
(* Properties *)

(***************************************************************************)
(* A claim is never made smaller, not even when the StatefulSet that       *)
(* Scale compares the capacity with has been deleted and the user asks for *)
(* less before it is back.                                                 *)
(***************************************************************************)
ClaimsNeverShrink == [][\A i \in Ordinals : pvc'[i] >= pvc[i]]_vars

\* The claims that are about to be updated exist and are smaller.
ScalingInv == \A i \in toScale : pvc[i] # 0 /\ pvc[i] < rmq.spec.storage

ReconcileInv ==
    /\ TypeOK
    /\ toScale # {} => pc \in {"delete", "expand"} /\ ScalingInv

(***************************************************************************)
(* Nothing is forgotten: once no request is queued or running and the      *)
(* cache is up to date, either the StatefulSet and the claims it has are   *)
(* as the spec says, or the spec asks for fewer nodes; and ReconcileSuccess*)
(* says which for this generation, unless the last status update of all    *)
(* failed, an error that setReconcileSuccess and scaleDown only log.       *)
(***************************************************************************)
Settled == pc = "idle" /\ ~queued /\ cache = sts

AsSpecified ==
    /\ sts.replicas = spec.replicas
    /\ sts.storage = spec.storage
    /\ sts.ready = sts.replicas
    /\ \A i \in Ordinals : i < spec.replicas /\ pvc[i] # 0 => pvc[i] >= spec.storage

SettledIsDecided ==
    Settled =>
        \/ /\ AsSpecified
           /\ status = [success |-> "True", observed |-> gen] \/ unreported
        \/ /\ sts.replicas > spec.replicas
           /\ status.success = "False" \/ unreported

(***************************************************************************)
(* The StatefulSet that Scale deletes to expand the claims comes back,     *)
(* whatever fails or is edited meanwhile.                                  *)
(***************************************************************************)
StatefulSetComesBack == sts = NoSts ~> sts # NoSts

\* A StatefulSet that exists is not given fewer replicas, ...
UpdateKeepsReplicas ==
    sts # NoSts /\ sts' # NoSts => sts'.replicas >= sts.replicas

\* ... and one created again, after Scale has deleted it, has a place for every
\* node that runs.
RecreateKeepsNodes ==
    sts = NoSts /\ sts' # NoSts => \A i \in nodes : i < sts'.replicas

(***************************************************************************)
(* reconcile_scale_down.go: "cluster scale down not supported".  The       *)
(* operator never takes a node away from a cluster, neither by an update   *)
(* nor when it creates the StatefulSet again.                              *)
(***************************************************************************)
NeverScaledDown == [][UpdateKeepsReplicas /\ RecreateKeepsNodes]_vars

(***************************************************************************)
(* statefulset.go: "updates to storage capacity will recreate sts".  A     *)
(* larger capacity reaches the StatefulSet of a cluster with storage, or   *)
(* the user has asked for something else.                                  *)
(***************************************************************************)
CapacityReached ==
    []<>(sts # NoSts /\ (sts.storage = 0 \/ sts.storage >= spec.storage))
=============================================================================
