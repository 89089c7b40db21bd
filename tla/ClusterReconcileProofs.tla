----------------------- MODULE ClusterReconcileProofs -----------------------
(***************************************************************************)
(* Proofs about ClusterReconcile, for any number of replicas, capacities,  *)
(* edits, failed calls and restarts.                                       *)
(***************************************************************************)
EXTENDS ClusterReconcile, FiniteSetTheorems, TLAPS

(***************************************************************************)
(* The inductive invariant behind SettledIsDecided, next to ReconcileInv.  *)
(* An edit always queues a request, and until then the copy is the spec.   *)
(***************************************************************************)
CopyInv ==
    /\ stale => queued
    /\ ~stale => rmq.spec = spec /\ rmq.gen = gen

\* No claim that there is, of the nodes asked for, is too small.
ClaimsSuffice(s) == \A i \in Ordinals : i < s.replicas /\ pvc[i] # 0 => pvc[i] >= s.storage

\* Past existingCapacity the StatefulSet, if there is one, has a supported capacity;
\* past scaleUpPVCs the claims suffice, unless those of a StatefulSet with another
\* capacity have been added meanwhile.
ScaleInv ==
    /\ pc \in {"claims", "delete", "expand", "apply"} /\ sts # NoSts
          => ~Unsupported(sts.storage, rmq.spec.storage)
    /\ pc = "expand" => sts = NoSts
    /\ pc = "apply" => \/ ClaimsSuffice(rmq.spec)
                       \/ sts = NoSts
                       \/ sts.storage # rmq.spec.storage

\* The cache lacks an update that counting the ready nodes does not undo: an event is
\* to come.
Differ == cache.replicas # sts.replicas \/ cache.storage # sts.storage

\* The StatefulSet in the cache, which is the current one, and the claims are as asked.
Agreed ==
    /\ cache.replicas = spec.replicas /\ cache.storage = spec.storage
    /\ ~Differ
    /\ ClaimsSuffice(spec)

\* Without a request in the queue, the end of the reconcile was one of these.
OutcomeInv ==
    ~queued =>
        /\ pc = "annotate" => cache = NoSts /\ sts # NoSts
        /\ pc = "finish" => Differ \/ Agreed
        /\ pc = "idle" =>
              \/ Differ
              \/ /\ status.success = "False" \/ unreported
                 /\ cache.replicas > spec.replicas
              \/ /\ status = [success |-> "True", observed |-> gen] \/ unreported
                 /\ Agreed /\ cache.ready = cache.replicas

DecideInv == ReconcileInv /\ CopyInv /\ ScaleInv /\ OutcomeInv

-----------------------------------------------------------------------------
(* The nodes that run are counted by a number no larger than MaxReplicas. *)
LEMMA RunningCount ==
    ASSUME nodes \subseteq Ordinals
    PROVE  Cardinality(Running) \in 0 .. MaxReplicas
<1>1. IsFiniteSet(Ordinals) /\ Cardinality(Ordinals) = MaxReplicas
  <2>1. MaxReplicas - 1 \in Int /\ 0 <= MaxReplicas - 1
    BY ReconcileAssumption
  <2>2. IsFiniteSet(0 .. (MaxReplicas - 1))
    BY <2>1, FS_Interval
  <2>3. Cardinality(0 .. (MaxReplicas - 1)) = (MaxReplicas - 1) - 0 + 1
    BY <2>1, FS_Interval
  <2> QED
    BY <2>2, <2>3, ReconcileAssumption DEF Ordinals
<1>2. Running \subseteq Ordinals
  BY DEF Running
<1>3. IsFiniteSet(Running) /\ Cardinality(Running) <= Cardinality(Ordinals)
  BY <1>1, <1>2, FS_Subset
<1>4. Cardinality(Running) \in Nat
  BY <1>3, FS_CardinalityType
<1> QED
  BY <1>1, <1>3, <1>4, ReconcileAssumption

(* What the operator builds and updates is a StatefulSet. *)
LEMMA ObjectTypes ==
    ASSUME TypeOK
    PROVE  /\ Built \in StatefulSets
           /\ cache # NoSts => Updated(cache) \in StatefulSets
           /\ rmq.spec.storage \in Capacities
           /\ rmq.spec.replicas \in 1 .. MaxReplicas
<1>1. rmq.spec \in Specs
  BY DEF TypeOK
<1>2. rmq.spec.storage \in Capacities /\ rmq.spec.replicas \in 1 .. MaxReplicas
  BY <1>1 DEF Specs
<1>3. Built \in StatefulSets
  BY <1>2, ReconcileAssumption DEF Built, StatefulSets
<1>4. ASSUME cache # NoSts
      PROVE  Updated(cache) \in StatefulSets
  <2>1. cache \in StatefulSets
    BY <1>4 DEF TypeOK
  <2> QED
    BY <1>2, <2>1, ReconcileAssumption DEF Updated, StatefulSets, Capacities
<1> QED
  BY <1>2, <1>3, <1>4

(* The inductive invariant holds at the start. *)
LEMMA ReconcileInvInit == Init => ReconcileInv
<1> SUFFICES ASSUME Init PROVE ReconcileInv
  OBVIOUS
<1>1. TypeOK
  <2>1. gen \in Nat /\ rmq \in [spec : Specs, gen : Nat]
    BY DEF Init
  <2>2. status \in [success : {"Unknown", "True", "False"}, observed : Nat]
    BY DEF Init
  <2>3. pvc \in [Ordinals -> Capacities]
    BY ReconcileAssumption DEF Init, Capacities
  <2>4. edits \in 0 .. MaxEdits /\ faults \in 0 .. MaxFaults /\ restarts \in 0 .. MaxRestarts
    BY ReconcileAssumption DEF Init
  <2> QED
    BY <2>1, <2>2, <2>3, <2>4 DEF Init, TypeOK
<1> QED
  BY <1>1 DEF Init, ReconcileInv

(* Status updates and the ways out of Reconcile keep their types. *)
LEMMA ExitTypes ==
    ASSUME ReconcileInv, ReturnError \/ Requeue
    PROVE  /\ status' \in [success : {"Unknown", "True", "False"}, observed : Nat]
           /\ unreported' \in BOOLEAN
           /\ queued' \in BOOLEAN /\ pc' = "idle" /\ toScale' = {}
<1>1. status \in [success : {"Unknown", "True", "False"}, observed : Nat] /\ unreported \in BOOLEAN
  BY DEF ReconcileInv, TypeOK
<1>2. CASE ReturnError
  BY <1>1, <1>2 DEF ReturnError, WriteStatus
<1>3. CASE Requeue
  BY <1>1, <1>3 DEF Requeue
<1> QED
  BY <1>2, <1>3

(* A step that leaves the claims alone, and goes on only when none is left to *)
(* be scaled, keeps the invariant.                                            *)
LEMMA KeepInv ==
    ASSUME ReconcileInv, TypeOK', pvc' = pvc,
           \/ toScale' = {}
           \/ toScale' = toScale /\ rmq' = rmq /\ (pc' = pc \/ pc' \in {"delete", "expand"})
    PROVE  ReconcileInv'
  BY DEF ReconcileInv, ScalingInv

(* Every step of Reconcile keeps the invariant. *)
LEMMA ReconcileStep ==
    ASSUME ReconcileInv, Reconcile
    PROVE  ReconcileInv'
<1> USE ReconcileAssumption DEF ReconcileInv, TypeOK, clusterVars, storageVars, bounds
<1>1. CASE Begin
  <2>1. toScale = {}
    BY <1>1 DEF Begin
  <2>2. rmq' \in [spec : Specs, gen : Nat]
    BY <1>1 DEF Begin
  <2> QED
    BY <1>1, <2>1, <2>2 DEF Begin
<1>2. CASE ScaleDown
  <2>1. toScale = {}
    BY <1>2 DEF ScaleDown
  <2>2. /\ status' \in [success : {"Unknown", "True", "False"}, observed : Nat]
        /\ unreported' \in BOOLEAN
    BY <1>2 DEF ScaleDown, WriteStatus
  <2>3. queued' \in BOOLEAN
    BY <1>2 DEF ScaleDown
  <2> QED
    BY <1>2, <2>1, <2>2, <2>3 DEF ScaleDown
<1>3. CASE ExistingCapacity
  <2>1. toScale = {}
    BY <1>3 DEF ExistingCapacity
  <2>2. CASE ReturnError
    BY <1>3, <2>1, <2>2, ExitTypes DEF ExistingCapacity
  <2>3. CASE pc' = "claims" /\ UNCHANGED <<status, unreported, queued, toScale>>
    BY <1>3, <2>1, <2>3 DEF ExistingCapacity
  <2> QED
    BY <1>3, <2>2, <2>3 DEF ExistingCapacity
<1>4. CASE ListPVCs
  <2>1. toScale' \subseteq Ordinals /\ ScalingInv'
    BY <1>4 DEF ListPVCs, PvcsNeedingScaling, ScalingInv
  <2>2. toScale' # {} => pc' = "delete"
    BY <1>4 DEF ListPVCs
  <2>3. pc' \in {"apply", "delete"}
    BY <1>4 DEF ListPVCs
  <2> QED
    BY <1>4, <2>1, <2>2, <2>3 DEF ListPVCs
<1>5. CASE DeleteSts
  <2>1. TypeOK'
    BY <1>5 DEF DeleteSts
  <2> QED
    BY <1>5, <2>1, KeepInv DEF DeleteSts
<1>6. CASE ScaleUpPVC
  <2>1. PICK i \in toScale : /\ pvc' = [pvc EXCEPT ![i] = rmq.spec.storage]
                             /\ toScale' = toScale \ {i}
    BY <1>6 DEF ScaleUpPVC
  <2>2. pvc' \in [Ordinals -> Capacities]
    BY <2>1, ObjectTypes
  <2>3. ScalingInv' /\ toScale' \subseteq Ordinals
    BY <1>6, <2>1 DEF ScaleUpPVC, ScalingInv
  <2>4. pc' \in {"apply", "expand"} /\ (toScale' # {} => pc' = "expand")
    BY <1>6 DEF ScaleUpPVC
  <2> QED
    BY <1>6, <2>2, <2>3, <2>4 DEF ScaleUpPVC
<1>7. CASE CreateOrUpdate
  <2>1. toScale = {}
    BY <1>7 DEF CreateOrUpdate
  <2>2. sts' \in StatefulSets \cup {NoSts}
    BY <1>7, ObjectTypes DEF CreateOrUpdate
  <2>3. CASE pc' \in {"annotate", "finish"} /\ UNCHANGED <<status, unreported, queued, toScale>>
    BY <1>7, <2>1, <2>2, <2>3 DEF CreateOrUpdate
  <2>4. CASE ReturnError
    BY <1>7, <2>2, <2>4, ExitTypes DEF CreateOrUpdate
  <2> QED
    BY <1>7, <2>3, <2>4 DEF CreateOrUpdate
<1>8. CASE Annotate
  <2>1. toScale = {}
    BY <1>8 DEF Annotate
  <2>2. CASE Requeue
    BY <1>8, <2>1, <2>2, ExitTypes DEF Annotate
  <2>3. CASE pc' = "finish" /\ UNCHANGED <<status, unreported, queued, toScale>>
    BY <1>8, <2>1, <2>3 DEF Annotate
  <2> QED
    BY <1>8, <2>2, <2>3 DEF Annotate
<1>9. CASE Finish
  <2>1. toScale = {}
    BY <1>9 DEF Finish
  <2>2. CASE ReturnError \/ Requeue
    BY <1>9, <2>1, <2>2, ExitTypes DEF Finish
  <2>3. CASE /\ WriteStatus([success |-> "True", observed |-> rmq.gen])
             /\ queued' = (queued \/ status' # status)
             /\ pc' = "idle"
             /\ UNCHANGED toScale
    <3>1. rmq.gen \in Nat
      OBVIOUS
    <3>2. /\ status' \in [success : {"Unknown", "True", "False"}, observed : Nat]
          /\ unreported' \in BOOLEAN
      BY <2>3, <3>1 DEF WriteStatus
    <3>3. queued' \in BOOLEAN
      BY <2>3
    <3> QED
      BY <1>9, <2>1, <2>3, <3>2, <3>3 DEF Finish
  <2> QED
    BY <1>9, <2>2, <2>3 DEF Finish
<1> QED
  BY <1>1, <1>2, <1>3, <1>4, <1>5, <1>6, <1>7, <1>8, <1>9 DEF Reconcile

(* Failures, edits and the StatefulSet controller keep the invariant. *)
LEMMA EnvironmentStep ==
    ASSUME ReconcileInv, Fault \/ Restart \/ Edit \/ CacheSync \/ Controller
    PROVE  ReconcileInv'
<1> USE ReconcileAssumption DEF ReconcileInv, TypeOK, clusterVars, storageVars, bounds
<1>1. CASE Fault
  <2>1. faults' \in 0 .. MaxFaults
    BY <1>1 DEF Fault
  <2>2. sts' \in StatefulSets \cup {NoSts}
    BY <1>1 DEF Fault
  <2> QED
    BY <1>1, <2>1, <2>2, ExitTypes DEF Fault
<1>2. CASE Restart
  <2>1. restarts' \in 0 .. MaxRestarts
    BY <1>2 DEF Restart
  <2> QED
    BY <1>2, <2>1 DEF Restart
<1>3. CASE Edit
  <2>1. edits' \in 0 .. MaxEdits /\ gen' \in Nat /\ spec' \in Specs
    BY <1>3 DEF Edit
  <2>2. TypeOK'
    BY <1>3, <2>1 DEF Edit
  <2> QED
    BY <1>3, <2>2, KeepInv DEF Edit
<1>4. CASE CacheSync
  <2>1. TypeOK'
    BY <1>4 DEF CacheSync
  <2> QED
    BY <1>4, <2>1, KeepInv DEF CacheSync
<1>5. ASSUME NEW i \in Ordinals, StartNode(i)
      PROVE  ReconcileInv'
  <2>1. sts.storage \in Capacities
    BY DEF StatefulSets, NoSts, Capacities
  <2>2. pvc' = [pvc EXCEPT ![i] = IF pvc[i] = 0 THEN sts.storage ELSE pvc[i]]
    BY <1>5 DEF StartNode
  <2>3. pvc' \in [Ordinals -> Capacities]
    BY <2>1, <2>2
  <2>4. \A j \in Ordinals : pvc[j] # 0 => pvc'[j] = pvc[j]
    BY <2>2
  <2>5. ScalingInv => ScalingInv'
    BY <1>5, <2>4 DEF StartNode, ScalingInv
  <2> QED
    BY <1>5, <2>3, <2>5 DEF StartNode
<1>6. ASSUME NEW i \in Ordinals, StopNode(i)
      PROVE  ReconcileInv'
  <2>1. TypeOK'
    BY <1>6 DEF StopNode
  <2> QED
    BY <1>6, <2>1, KeepInv DEF StopNode
<1>7. CASE CountReady
  <2>1. Cardinality(Running) \in 0 .. MaxReplicas
    BY RunningCount
  <2>2. sts \in StatefulSets
    BY <1>7 DEF CountReady
  <2>3. sts' = [sts EXCEPT !.ready = Cardinality(Running)]
    BY <1>7 DEF CountReady
  <2>4. sts' \in StatefulSets
    BY <2>1, <2>2, <2>3 DEF StatefulSets
  <2>5. TypeOK'
    BY <1>7, <2>4 DEF CountReady
  <2> QED
    BY <1>7, <2>5, KeepInv DEF CountReady
<1> QED
  BY <1>1, <1>2, <1>3, <1>4, <1>5, <1>6, <1>7 DEF Controller

LEMMA ReconcileInvStep == ReconcileInv /\ [Next]_vars => ReconcileInv'
<1>1. ReconcileInv /\ UNCHANGED vars => ReconcileInv'
  BY DEF ReconcileInv, TypeOK, ScalingInv, vars, clusterVars, storageVars, bounds
<1> QED
  BY <1>1, ReconcileStep, EnvironmentStep DEF Next

(***************************************************************************)
(* The inductive invariant: whenever scaleUpPVCs has claims left to        *)
(* update, they exist and are smaller than the capacity asked for.         *)
(***************************************************************************)
THEOREM ReconcileInvariant == Spec => []ReconcileInv
  BY ReconcileInvStep, ReconcileInvInit, PTL DEF Spec

(***************************************************************************)
(* No claim is ever made smaller, although Scale compares capacities only  *)
(* while the StatefulSet exists.                                           *)
(***************************************************************************)
THEOREM ReconcileClaimsNeverShrink == Spec => ClaimsNeverShrink
<1>1. ReconcileInv /\ [Next]_vars => [\A i \in Ordinals : pvc'[i] >= pvc[i]]_vars
  <2> SUFFICES ASSUME ReconcileInv, Next
               PROVE  \A i \in Ordinals : pvc'[i] >= pvc[i]
    OBVIOUS
  <2>0. pvc \in [Ordinals -> Nat] /\ toScale \subseteq Ordinals
    BY ReconcileAssumption DEF ReconcileInv, TypeOK, Capacities
  <2>1. CASE pvc' = pvc
    BY <2>0, <2>1
  <2>2. CASE ScaleUpPVC
    <3>1. PICK i \in toScale : pvc' = [pvc EXCEPT ![i] = rmq.spec.storage]
      BY <2>2 DEF ScaleUpPVC
    <3>2. pvc[i] < rmq.spec.storage
      BY DEF ReconcileInv, ScalingInv
    <3>3. rmq.spec.storage \in Nat
      BY ObjectTypes, ReconcileAssumption DEF ReconcileInv, Capacities
    <3> QED
      BY <2>0, <3>1, <3>2, <3>3
  <2>3. ASSUME NEW i \in Ordinals, StartNode(i)
        PROVE  \A j \in Ordinals : pvc'[j] >= pvc[j]
    <3>1. sts.storage \in Nat
      BY ReconcileAssumption DEF ReconcileInv, TypeOK, StatefulSets, NoSts, Capacities
    <3> QED
      BY <2>0, <2>3, <3>1 DEF StartNode
  <2>4. ~ScaleUpPVC /\ ~(\E i \in Ordinals : StartNode(i)) => pvc' = pvc
    BY DEF Next, Reconcile, Controller, Begin, ScaleDown, ExistingCapacity, ListPVCs,
           DeleteSts, CreateOrUpdate, Annotate, Finish, Fault, Restart, Edit, CacheSync,
           StopNode, CountReady, storageVars
  <2> QED
    BY <2>1, <2>2, <2>3, <2>4
<1> QED
  BY <1>1, ReconcileInvariant, PTL DEF Spec, ClaimsNeverShrink

(***************************************************************************)
(* Every variable of the reconcile loop keeps its type.                    *)
(***************************************************************************)
THEOREM ReconcileTypeCorrect == Spec => []TypeOK
<1>1. ReconcileInv => TypeOK
  BY DEF ReconcileInv
<1> QED
  BY <1>1, ReconcileInvariant, PTL

-----------------------------------------------------------------------------
(* Types that the steps use; a StatefulSet has replicas. *)
LEMMA DecideTypes ==
    ASSUME TypeOK
    PROVE  /\ sts.replicas \in Nat /\ sts.storage \in Nat /\ (sts # NoSts <=> sts.replicas > 0)
           /\ cache.replicas \in Nat /\ cache.storage \in Nat
           /\ cache # NoSts <=> cache.replicas > 0
           /\ spec.replicas \in Nat /\ spec.storage \in Nat /\ spec.replicas > 0
           /\ rmq.spec.replicas \in Nat /\ rmq.spec.storage \in Nat /\ rmq.spec.replicas > 0
           /\ pvc \in [Ordinals -> Nat] /\ queued \in BOOLEAN /\ stale \in BOOLEAN
<1> USE ReconcileAssumption DEF TypeOK, Capacities
<1>1. sts.replicas \in Nat /\ sts.storage \in Nat /\ (sts # NoSts <=> sts.replicas > 0)
  BY DEF StatefulSets, NoSts
<1>2. cache.replicas \in Nat /\ cache.storage \in Nat /\ (cache # NoSts <=> cache.replicas > 0)
  BY DEF StatefulSets, NoSts
<1>3. /\ spec.replicas \in Nat /\ spec.storage \in Nat /\ spec.replicas > 0
      /\ rmq.spec.replicas \in Nat /\ rmq.spec.storage \in Nat /\ rmq.spec.replicas > 0
  BY DEF Specs
<1> QED
  BY <1>1, <1>2, <1>3

LEMMA DecideInvInit == Init => DecideInv
<1> SUFFICES ASSUME Init PROVE DecideInv
  OBVIOUS
<1>1. rmq.spec = spec /\ rmq.gen = gen
  BY DEF Init
<1> QED
  BY <1>1, ReconcileInvInit DEF Init, DecideInv, CopyInv, ScaleInv, OutcomeInv

LEMMA CopyStep ==
    ASSUME DecideInv, [Next]_vars
    PROVE  CopyInv'
<1> USE DecideTypes DEF DecideInv, ReconcileInv, CopyInv
<1>1. CASE Begin
  BY <1>1 DEF Begin, clusterVars
<1>2. CASE Edit
  BY <1>2 DEF Edit
<1>3. CASE UNCHANGED <<spec, gen, rmq, stale>> /\ (queued => queued')
  BY <1>3
<1> QED
  BY <1>1, <1>2, <1>3
  DEF Next, Reconcile, Controller, ScaleDown, ExistingCapacity, ListPVCs, DeleteSts,
      ScaleUpPVC, CreateOrUpdate, Annotate, Finish, Fault, Restart, CacheSync, StartNode,
      StopNode, CountReady, ReturnError, Requeue, WriteStatus, clusterVars, vars

(* What the StatefulSet controller does to a StatefulSet and its claims. *)
LEMMA ControllerFacts ==
    ASSUME TypeOK, Controller
    PROVE  /\ UNCHANGED <<spec, gen, status, unreported, cache, queued, pc, rmq, stale, toScale>>
           /\ sts'.replicas = sts.replicas /\ sts'.storage = sts.storage
           /\ sts' = NoSts <=> sts = NoSts
           /\ \A i \in Ordinals :
                 pvc'[i] = pvc[i] \/ (pvc[i] = 0 /\ sts # NoSts /\ pvc'[i] = sts.storage)
<1> USE DecideTypes
<1>1. ASSUME NEW i \in Ordinals, StartNode(i)
      PROVE  /\ sts # NoSts
             /\ \A j \in Ordinals : pvc'[j] = pvc[j] \/ (pvc[j] = 0 /\ pvc'[j] = sts.storage)
  <2>1. i \in Nat
    BY ReconcileAssumption DEF Ordinals
  <2> QED
    BY <1>1, <2>1 DEF StartNode
<1>2. CASE CountReady
  <2>1. sts \in StatefulSets /\ sts' = [sts EXCEPT !.ready = Cardinality(Running)]
    BY <1>2 DEF CountReady, TypeOK
  <2>2. sts'.replicas = sts.replicas /\ sts'.storage = sts.storage
    BY <2>1 DEF StatefulSets
  <2>3. sts'.replicas > 0 /\ NoSts.replicas = 0
    BY <1>2, <2>2 DEF CountReady, NoSts
  <2>4. sts' # NoSts
    BY <2>3
  <2> QED
    BY <1>2, <2>2, <2>4 DEF CountReady, clusterVars, storageVars
<1> QED
  BY <1>1, <1>2 DEF Controller, StartNode, StopNode, clusterVars, storageVars

LEMMA ScaleStep ==
    ASSUME DecideInv, [Next]_vars
    PROVE  ScaleInv'
<1> USE DecideTypes DEF DecideInv, ReconcileInv, ScaleInv, ClaimsSuffice
<1>1. CASE ExistingCapacity
  BY <1>1 DEF ExistingCapacity, ReturnError
<1>2. CASE ListPVCs
  <2>1. ASSUME pc' = "apply"
        PROVE  ClaimsSuffice(rmq.spec)
    BY <1>2, <2>1 DEF ListPVCs, PvcsNeedingScaling
  <2>2. /\ UNCHANGED <<sts, rmq, pvc>> /\ pc = "claims"
        /\ pc' \in {"apply", "delete"}
    BY <1>2 DEF ListPVCs
  <2> QED
    BY <2>1, <2>2
<1>3. CASE DeleteSts
  BY <1>3 DEF DeleteSts
<1>4. CASE ScaleUpPVC
  BY <1>4 DEF ScaleUpPVC
<1>5. CASE Controller
  BY <1>5, ControllerFacts
<1>6. CASE pc' \notin {"claims", "delete", "expand", "apply"}
  BY <1>6
<1>7. CASE UNCHANGED <<sts, pc, rmq, pvc>>
  BY <1>7
<1> QED
  BY <1>1, <1>2, <1>3, <1>4, <1>5, <1>6, <1>7
  DEF Next, Reconcile, Begin, ScaleDown, CreateOrUpdate, Annotate, Finish, Fault, Restart,
      Edit, CacheSync, ReturnError, Requeue, storageVars, vars

(* Whatever ends in an error or asks to be called again is queued. *)
LEMMA OutcomeStep ==
    ASSUME DecideInv, [Next]_vars
    PROVE  OutcomeInv'
<1> USE DecideTypes DEF DecideInv, ReconcileInv, OutcomeInv
<1>1. CASE queued'
  BY <1>1
<1>2. CASE pc' \notin {"annotate", "finish", "idle"}
  BY <1>2
<1>3. ASSUME ScaleDown, ~queued', pc' = "idle"
      PROVE  OutcomeInv'
  <2>1. /\ ~queued /\ ~stale
        /\ status' = [status EXCEPT !.success = "False"] \/ unreported' = TRUE
        /\ cache.replicas > rmq.spec.replicas
        /\ UNCHANGED <<spec, cache>>
    BY <1>3 DEF ScaleDown, WriteStatus, CopyInv
  <2>2. status'.success = "False" \/ unreported'
    BY <2>1 DEF TypeOK
  <2>3. cache'.replicas > spec'.replicas
    BY <2>1 DEF CopyInv
  <2> QED
    BY <1>3, <2>2, <2>3
<1>4. ASSUME CreateOrUpdate, ~queued'
      PROVE  OutcomeInv'
  <2>1. ~queued /\ rmq.spec = spec /\ UNCHANGED <<spec, cache, pvc>>
    BY <1>4 DEF CreateOrUpdate, ReturnError, CopyInv
  <2>2. CASE cache = NoSts /\ sts = NoSts /\ sts' = Built /\ pc' = "annotate"
    <3>1. sts' # NoSts
      BY <2>1, <2>2 DEF Built, NoSts
    <3> QED
      BY <2>1, <2>2, <3>1
  <2>3. CASE cache # NoSts /\ Updated(cache) = cache /\ pc' = "finish" /\ sts' = sts
    <3>1. /\ cache.replicas = rmq.spec.replicas
          /\ cache.storage = 0 \/ cache.storage = rmq.spec.storage
      BY <2>3 DEF Updated, TypeOK, StatefulSets
    <3>2. ASSUME ~Differ PROVE Agreed
      <4>1. sts # NoSts /\ sts.storage = cache.storage /\ sts.replicas = cache.replicas
        BY <2>3, <3>2 DEF Differ
      <4>2. ~Unsupported(sts.storage, rmq.spec.storage)
        BY <1>4, <4>1 DEF ScaleInv, CreateOrUpdate
      <4>3. cache.storage = spec.storage
        BY <2>1, <3>1, <4>1, <4>2 DEF Unsupported
      <4>4. ClaimsSuffice(spec)
        BY <1>4, <2>1, <4>1, <4>3 DEF ScaleInv, CreateOrUpdate
      <4> QED
        BY <2>1, <3>1, <3>2, <4>3, <4>4 DEF Agreed
    <3>3. Differ' = Differ /\ Agreed' = Agreed
      BY <2>1, <2>3 DEF Differ, Agreed, ClaimsSuffice
    <3> QED
      BY <2>3, <3>2, <3>3
  <2>4. CASE /\ cache # NoSts /\ Updated(cache) # cache /\ cache = sts
             /\ Updated(cache).storage = sts.storage /\ sts' = Updated(cache) /\ pc' = "finish"
    <3>1. Updated(cache).replicas # cache.replicas
      BY <2>4 DEF Updated, TypeOK, StatefulSets
    <3>2. Differ'
      BY <2>1, <2>4, <3>1 DEF Differ
    <3> QED
      BY <2>4, <3>2
  <2> QED
    BY <1>4, <2>2, <2>3, <2>4 DEF CreateOrUpdate, ReturnError
<1>5. ASSUME Annotate, ~queued'
      PROVE  OutcomeInv'
  BY <1>5 DEF Annotate, Requeue
<1>6. ASSUME Finish, ~queued'
      PROVE  OutcomeInv'
  <2>1. /\ pc = "finish" /\ pc' = "idle" /\ ~queued /\ ~stale
        /\ status' = [success |-> "True", observed |-> rmq.gen] \/ unreported' = TRUE
        /\ cache.ready = cache.replicas
        /\ UNCHANGED <<spec, gen, sts, cache, pvc>>
    BY <1>6 DEF Finish, ReturnError, Requeue, WriteStatus, CopyInv
  <2>2. Differ' = Differ /\ Agreed' = Agreed
    BY <2>1 DEF Differ, Agreed, ClaimsSuffice
  <2> QED
    BY <2>1, <2>2 DEF CopyInv
<1>7. ASSUME Controller, ~queued'
      PROVE  OutcomeInv'
  <2>1. Differ' = Differ
    BY <1>7, ControllerFacts DEF Differ
  <2>2. Agreed => Agreed'
    <3> SUFFICES ASSUME Agreed PROVE Agreed'
      OBVIOUS
    <3>1. sts.storage = spec.storage /\ spec' = spec
      BY <1>7, ControllerFacts DEF Agreed, Differ
    <3>2. ClaimsSuffice(spec)'
      BY <1>7, <3>1, ControllerFacts DEF Agreed, ClaimsSuffice
    <3> QED
      BY <1>7, <2>1, <3>2, ControllerFacts DEF Agreed
  <2> QED
    BY <1>7, <2>1, <2>2, ControllerFacts
<1>8. CASE UNCHANGED vars
  BY <1>8 DEF vars, clusterVars, storageVars, Differ, Agreed, ClaimsSuffice
<1> QED
  BY <1>1, <1>2, <1>3, <1>4, <1>5, <1>6, <1>7, <1>8
  DEF Next, Reconcile, Begin, ScaleDown, ExistingCapacity, ListPVCs, DeleteSts, ScaleUpPVC,
      Fault, Restart, Edit, CacheSync, ReturnError, Requeue

(***************************************************************************)
(* The inductive invariant DecideInv: what is not queued has been decided  *)
(* on, or the cache has an event to come.                                  *)
(***************************************************************************)
THEOREM DecideInvariant == Spec => []DecideInv
<1>1. DecideInv /\ [Next]_vars => DecideInv'
  <2> SUFFICES ASSUME DecideInv, [Next]_vars PROVE DecideInv'
    OBVIOUS
  <2>1. ReconcileInv'
    BY ReconcileInvStep DEF DecideInv
  <2> QED
    BY <2>1, CopyStep, ScaleStep, OutcomeStep DEF DecideInv
<1> QED
  BY <1>1, DecideInvInit, PTL DEF Spec

(***************************************************************************)
(* Once no request is queued or running and the cache is up to date, the   *)
(* StatefulSet and the claims are as the spec asks, or it asks for fewer   *)
(* nodes, and the status says which unless the last status update failed.  *)
(* No edit, error or late event is forgotten.                              *)
(***************************************************************************)
THEOREM ReconcileSettledIsDecided == Spec => []SettledIsDecided
<1>1. DecideInv => SettledIsDecided
  <2> SUFFICES ASSUME DecideInv, Settled
               PROVE  \/ /\ AsSpecified
                         /\ status = [success |-> "True", observed |-> gen] \/ unreported
                      \/ /\ sts.replicas > spec.replicas
                         /\ status.success = "False" \/ unreported
    BY DEF SettledIsDecided
  <2>1. ~Differ
    BY DEF Settled, Differ
  <2> QED
    BY <2>1 DEF DecideInv, OutcomeInv, Settled, Agreed, ClaimsSuffice, AsSpecified
<1> QED
  BY <1>1, DecideInvariant, PTL
=============================================================================
