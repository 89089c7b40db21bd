------------------------ MODULE ClusterDeletionProofs ------------------------
(***************************************************************************)
(* What is proved of the deletion of a RabbitmqCluster, for any number of  *)
(* pods, clusters, StatefulSets, attempts, failed calls and restarts.      *)
(***************************************************************************)
EXTENDS ClusterDeletion, TLAPS

Living == {"defaults", "finalizer", "build"}
Deleting == {"uid", "list", "mark", "delete", "remove"}
HasUID == {"list", "mark", "delete"}
Marking == {"uid", "list", "mark", "delete"}

\* What the reconcile knows of its copy; it is up to date while nobody else writes.
CopyInv ==
    /\ pc # "idle" => copy # NoCluster
    /\ pc \in Living => ~copy.deleting
    /\ pc \in Deleting => copy.deleting
    /\ pc \in {"finalizer", "build"} => copy.image # NoImage
    /\ pc = "build" => copy.finalizer
    /\ current => pc # "idle" /\ copy = rmq

\* UIDs are handed out in order, whatever is remembered of them.
UidInv ==
    /\ rmq.uid \in {0, clusters}
    /\ cache.rmq.uid <= clusters /\ behind.rmq.uid <= clusters /\ copy.uid <= clusters
    /\ sts.owner <= clusters
    /\ sts.uid <= created /\ cache.sts.uid <= created /\ behind.sts.uid <= created
    /\ uid <= created
    /\ \A p \in Pods : pods[p].sts <= created

\* A cluster that has been seen to be deleted, however long ago, is not alive.
GoneInv ==
    \A x \in {cache.rmq, behind.rmq, copy} : x.deleting => ~Alive(x.uid)

\* A StatefulSet that was never adopted has the owner it has been seen with.
OwnerInv ==
    /\ \A x \in {cache.sts, behind.sts} :
          x.uid = sts.uid /\ ~sts.adopted => x.owner = sts.owner
    /\ pc \in HasUID =>
          uid # 0 /\ (sts.uid = uid /\ ~sts.adopted => sts.owner = copy.uid)

\* A finalizer seen on a cluster that lives is still there; a cluster in deletion
\* is not seen alive again.
FinalizerInv ==
    /\ cache.rmq.finalizer /\ ~cache.rmq.deleting
          => rmq.uid = cache.rmq.uid /\ rmq.finalizer
    /\ pc \in Living /\ copy.finalizer => rmq.uid = copy.uid /\ rmq.finalizer
    /\ pc \in Deleting /\ cache.rmq.uid = copy.uid => cache.rmq.deleting

\* The clusters that are reconciled, and own the StatefulSet, follow each other.
SuccessionInv ==
    /\ pc \in Deleting => sts.owner <= copy.uid
    /\ cache.rmq.uid # 0 => copy.uid <= cache.rmq.uid /\ sts.owner <= cache.rmq.uid

\* The StatefulSet that is seen, or about to be deleted, is the one there is.
LatestInv ==
    /\ sts # NoSts /\ cache.sts # NoSts => cache.sts.uid = sts.uid
    /\ sts # NoSts /\ pc \in HasUID => sts.uid = uid

\* Without restarts the caches only move forward.
ForwardInv ==
    restarts = 0 => FinalizerInv /\ SuccessionInv /\ LatestInv

\* The pod is marked, and one of the StatefulSet there is.
MarkedOf(p) == pods[p].marked /\ pods[p].sts = sts.uid

\* A StatefulSet does not outlive the marks on its pods, unless it is left over.
MarkInv ==
    restarts = 0 =>
        \A p \in Pods : MarkedOf(p) => pc \in Marking \/ leftOver

\* The owner that its StatefulSet was created for has been seen to be deleted.
DoomedInv ==
    restarts = 0 => \A p \in Pods : MarkedOf(p) /\ ~sts.adopted => ~Alive(sts.owner)

DeletionInv ==
    TypeOK /\ CopyInv /\ UidInv /\ GoneInv /\ OwnerInv /\ ForwardInv /\ MarkInv /\ DoomedInv

-----------------------------------------------------------------------------
(* The objects *)

(* What is known of a RabbitmqCluster, or of its absence. *)
LEMMA ClusterFields ==
    ASSUME NEW c \in Clusters \cup {NoCluster}
    PROVE  /\ c.uid \in Nat /\ c.deleting \in BOOLEAN /\ c.finalizer \in BOOLEAN
           /\ c.image \in Images \cup {NoImage}
           /\ c = NoCluster <=> c.uid = 0
           /\ c = NoCluster => ~c.deleting /\ ~c.finalizer /\ c.image = NoImage
<1>1. ASSUME c \in Clusters
      PROVE  /\ c.uid \in 1 .. MaxClusters /\ c.deleting \in BOOLEAN /\ c.finalizer \in BOOLEAN
             /\ c.image \in Images \cup {NoImage}
  BY <1>1 DEF Clusters
<1>2. /\ NoCluster.uid = 0 /\ NoCluster.deleting = FALSE /\ NoCluster.finalizer = FALSE
      /\ NoCluster.image = NoImage
  BY DEF NoCluster
<1>3. c.uid \in Nat /\ (c = NoCluster <=> c.uid = 0)
  BY <1>1, <1>2, DeletionAssumption
<1>4. /\ c.deleting \in BOOLEAN /\ c.finalizer \in BOOLEAN
      /\ c.image \in Images \cup {NoImage}
  BY <1>1, <1>2
<1>5. c = NoCluster => ~c.deleting /\ ~c.finalizer /\ c.image = NoImage
  BY <1>2
<1> QED
  BY <1>3, <1>4, <1>5

(* What is known of a StatefulSet, or of its absence. *)
LEMMA StsFields ==
    ASSUME NEW s \in StatefulSets \cup {NoSts}
    PROVE  /\ s.uid \in Nat /\ s.owner \in Nat /\ s.adopted \in BOOLEAN
           /\ s = NoSts <=> s.uid = 0
           /\ s = NoSts <=> s.owner = 0
<1>1. ASSUME s \in StatefulSets
      PROVE  s.uid \in 1 .. MaxSts /\ s.owner \in 1 .. MaxClusters /\ s.adopted \in BOOLEAN
  BY <1>1 DEF StatefulSets
<1>2. NoSts.uid = 0 /\ NoSts.owner = 0 /\ NoSts.adopted = FALSE
  BY DEF NoSts
<1>3. /\ s.uid \in Nat /\ s.owner \in Nat
      /\ s = NoSts <=> s.uid = 0
      /\ s = NoSts <=> s.owner = 0
  BY <1>1, <1>2, DeletionAssumption
<1>4. s.adopted \in BOOLEAN
  BY <1>1, <1>2
<1> QED
  BY <1>3, <1>4

(* What is known of a pod, or of its absence. *)
LEMMA PodFields ==
    ASSUME NEW d \in RunningPods \cup {NoPod}
    PROVE  /\ d.sts \in Nat /\ d.marked \in BOOLEAN
           /\ d = NoPod <=> d.sts = 0
           /\ d = NoPod => ~d.marked
<1>1. ASSUME d \in RunningPods
      PROVE  d.sts \in 1 .. MaxSts /\ d.marked \in BOOLEAN
  BY <1>1 DEF RunningPods
<1>2. NoPod.sts = 0 /\ NoPod.marked = FALSE
  BY DEF NoPod
<1>3. d.sts \in Nat /\ (d = NoPod <=> d.sts = 0)
  BY <1>1, <1>2, DeletionAssumption
<1>4. d.marked \in BOOLEAN /\ (d = NoPod => ~d.marked)
  BY <1>1, <1>2
<1> QED
  BY <1>3, <1>4

(* Setting a field of a RabbitmqCluster. *)
LEMMA ClusterUpdate ==
    ASSUME NEW c \in Clusters
    PROVE  /\ \A i \in Images : [c EXCEPT !.image = i] \in Clusters
           /\ [c EXCEPT !.deleting = TRUE] \in Clusters
  BY DEF Clusters

(* Which steps change which variable. *)
LEMMA Frame ==
    ASSUME [Next]_vars
    PROVE  /\ UNCHANGED rmq \/ Defaults \/ AddFinalizer \/ RemoveFinalizer \/ User
           /\ UNCHANGED sts \/ Build \/ DeleteSts \/ CollectGarbage
           /\ UNCHANGED pods \/ MarkPod \/ \E p \in Pods : StartPod(p) \/ StopPod(p)
           /\ UNCHANGED cache \/ Restart \/ CacheSync
           /\ UNCHANGED behind \/ Restart \/ Lag
           /\ UNCHANGED copy \/ Forget \/ Begin \/ Defaults \/ AddFinalizer
           /\ UNCHANGED clusters \/ Create
           /\ UNCHANGED created \/ Build
           /\ UNCHANGED faults \/ Fault
           /\ UNCHANGED restarts \/ Restart
           /\ UNCHANGED leftOver \/ Logged \/ sts' = NoSts
<1> USE DEF api, work, tally
<1>1. CASE Begin
  BY <1>1 DEF Begin
<1>2. CASE Defaults
  BY <1>2 DEF Defaults, ReturnError, Conflict
<1>3. CASE AddFinalizer
  BY <1>3 DEF AddFinalizer, ReturnError
<1>4. CASE Build
  BY <1>4 DEF Build, Return, ReturnError
<1>5. CASE StatefulSetUID
  BY <1>5 DEF StatefulSetUID, Logged, Done
<1>6. CASE ListPods
  BY <1>6 DEF ListPods
<1>7. CASE MarkPod
  BY <1>7 DEF MarkPod, TryAgain, Logged, Done
<1>8. CASE DeleteSts
  BY <1>8 DEF DeleteSts, TryAgain, Logged, Done
<1>9. CASE RemoveFinalizer
  BY <1>9 DEF RemoveFinalizer, Return, ReturnError
<1>10. CASE Fault
  BY <1>10 DEF Fault, ReturnError, Logged, Done
<1>11. CASE Restart
  BY <1>11 DEF Restart, Present, Nothing
<1>12. CASE Lag
  BY <1>12 DEF Lag, Present
<1>13. CASE CacheSync
  BY <1>13 DEF CacheSync
<1>14. CASE Create
  BY <1>14 DEF Create, User
<1>15. CASE Edit
  BY <1>15 DEF Edit, User
<1>16. CASE Delete
  BY <1>16 DEF Delete, User
<1>17. CASE CollectGarbage
  BY <1>17 DEF CollectGarbage
<1>18. ASSUME NEW p \in Pods, StartPod(p)
       PROVE  UNCHANGED <<rmq, sts, cache, behind, copy, clusters, created, tally>>
  BY <1>18 DEF StartPod, Changed
<1>19. ASSUME NEW p \in Pods, StopPod(p)
       PROVE  UNCHANGED <<rmq, sts, cache, behind, copy, clusters, created, tally>>
  BY <1>19 DEF StopPod, Changed
<1>20. CASE UNCHANGED vars
  BY <1>20 DEF vars
<1> QED
  BY <1>1, <1>2, <1>3, <1>4, <1>5, <1>6, <1>7, <1>8, <1>9, <1>10, <1>11, <1>12, <1>13,
     <1>14, <1>15, <1>16, <1>17, <1>18, <1>19, <1>20 DEF Next, Reconcile, Kubernetes,
     User

-----------------------------------------------------------------------------
(* Types *)

(* A RabbitmqCluster stays one, in the API server and in the copy. *)
LEMMA ClusterTypes ==
    ASSUME TypeOK, CopyInv, [Next]_vars
    PROVE  /\ rmq' \in Clusters \cup {NoCluster}
           /\ copy' \in Clusters \cup {NoCluster}
           /\ clusters' \in 0 .. MaxClusters
<1>0. /\ rmq \in Clusters \cup {NoCluster} /\ copy \in Clusters \cup {NoCluster}
      /\ cache.rmq \in Clusters \cup {NoCluster} /\ clusters \in 0 .. MaxClusters
      /\ pc # "idle" => copy \in Clusters
  BY DEF TypeOK, CopyInv, Views
<1>1. CASE Defaults
  <2>1. copy \in Clusters
    BY <1>0, <1>1 DEF Defaults
  <2>2. clusters' = clusters
    BY <1>1 DEF Defaults
  <2>3. ASSUME copy' = [copy EXCEPT !.image = IF @ = NoImage THEN "default" ELSE @]
        PROVE  copy' \in Clusters
    BY <2>1, <2>3 DEF Clusters, Images
  <2>4. \/ copy' = [copy EXCEPT !.image = IF @ = NoImage THEN "default" ELSE @]
           /\ (rmq' = copy' \/ rmq' = rmq)
        \/ copy' = NoCluster /\ rmq' = rmq
    BY <1>1 DEF Defaults, ReturnError, Forget
  <2> QED
    BY <1>0, <2>2, <2>3, <2>4
<1>2. CASE AddFinalizer
  <2>1. copy \in Clusters /\ clusters' = clusters
    BY <1>0, <1>2 DEF AddFinalizer
  <2>2. \/ copy' = [copy EXCEPT !.finalizer = TRUE] /\ (rmq' = copy' \/ rmq' = rmq)
        \/ copy' = NoCluster /\ rmq' = rmq
    BY <1>2 DEF AddFinalizer, ReturnError, Forget
  <2>3. [copy EXCEPT !.finalizer = TRUE] \in Clusters
    BY <2>1 DEF Clusters
  <2> QED
    BY <1>0, <2>1, <2>2, <2>3
<1>3. CASE RemoveFinalizer
  BY <1>0, <1>3 DEF RemoveFinalizer, Return, ReturnError, Forget
<1>4. CASE Create
  <2>1. clusters' \in 1 .. MaxClusters /\ clusters' \in 0 .. MaxClusters
    BY <1>0, <1>4, DeletionAssumption DEF Create
  <2>2. PICK image \in {NoImage, "custom"} :
            rmq' = [uid |-> clusters', deleting |-> FALSE, finalizer |-> FALSE,
                    image |-> image]
    BY <1>4 DEF Create
  <2>3. rmq' \in Clusters
    BY <2>1, <2>2 DEF Clusters, Images
  <2> QED
    BY <1>0, <1>4, <2>1, <2>3 DEF Create
<1>5. CASE Edit
  BY <1>0, <1>5, ClusterUpdate DEF Edit, Images
<1>6. CASE Delete
  BY <1>0, <1>6, ClusterUpdate DEF Delete
<1>7. CASE Begin
  BY <1>0, <1>7 DEF Begin, Forget, api
<1>8. CASE Forget /\ UNCHANGED <<rmq, clusters>>
  BY <1>0, <1>8 DEF Forget
<1>9. CASE UNCHANGED <<rmq, copy, clusters>>
  BY <1>0, <1>9
<1> QED
  BY <1>1, <1>2, <1>3, <1>4, <1>5, <1>6, <1>7, <1>8, <1>9, Frame DEF User

(* A StatefulSet stays one: it is built from a copy with an image. *)
LEMMA StsType ==
    ASSUME TypeOK, CopyInv, [Next]_vars
    PROVE  sts' \in StatefulSets \cup {NoSts} /\ created' \in 0 .. MaxSts
<1>0. sts \in StatefulSets \cup {NoSts} /\ created \in 0 .. MaxSts
  BY DEF TypeOK
<1>1. CASE Build
  <2>1. copy.uid \in 1 .. MaxClusters /\ copy.image \in Images
    BY <1>1 DEF TypeOK, CopyInv, Build, Clusters
  <2>2. CASE created < MaxSts /\ created' = created + 1
             /\ sts' = [uid |-> created', owner |-> copy.uid, image |-> copy.image,
                        adopted |-> FALSE]
    <3>1. created' \in 1 .. MaxSts
      BY <1>0, <2>2, DeletionAssumption
    <3> QED
      BY <2>1, <2>2, <3>1 DEF StatefulSets
  <2>3. CASE sts # NoSts /\ UNCHANGED created
             /\ sts' = [sts EXCEPT !.owner = copy.uid, !.image = copy.image,
                                   !.adopted = @ \/ sts.owner # copy.uid]
    BY <1>0, <2>1, <2>3 DEF StatefulSets
  <2> QED
    BY <1>0, <1>1, <2>2, <2>3 DEF Build
<1>2. CASE DeleteSts
  BY <1>0, <1>2 DEF DeleteSts
<1>3. CASE CollectGarbage
  BY <1>0, <1>3 DEF CollectGarbage
<1> QED
  BY <1>0, <1>1, <1>2, <1>3, Frame

(* A pod stays one. *)
LEMMA PodsType ==
    ASSUME TypeOK, [Next]_vars
    PROVE  pods' \in [Pods -> RunningPods \cup {NoPod}]
<1>0. pods \in [Pods -> RunningPods \cup {NoPod}]
      /\ sts \in StatefulSets \cup {NoSts}
  BY DEF TypeOK
<1>1. CASE MarkPod
  <2>1. SUFFICES ASSUME NEW p \in Pods, pods' = [pods EXCEPT ![p].marked = (pods[p] # NoPod)]
                 PROVE  pods' \in [Pods -> RunningPods \cup {NoPod}]
    BY <1>0, <1>1 DEF MarkPod, TryAgain, Logged, Done
  <2>2. CASE pods[p] # NoPod
    <3>1. [pods[p] EXCEPT !.marked = TRUE] \in RunningPods
      BY <1>0, <2>2 DEF RunningPods
    <3> QED
      BY <1>0, <2>1, <2>2, <3>1
  <2>3. CASE pods[p] = NoPod
    <3> DEFINE R == [sts : {0}, marked : {FALSE}]
    <3>1. NoPod \in R
      BY DEF NoPod
    <3>2. \A d \in R : [d EXCEPT !.marked = FALSE] = d
      OBVIOUS
    <3>3. [NoPod EXCEPT !.marked = FALSE] = NoPod
      BY <3>1, <3>2
    <3> QED
      BY <1>0, <2>1, <2>3, <3>3
  <2> QED
    BY <2>2, <2>3
<1>2. ASSUME NEW p \in Pods, StartPod(p)
      PROVE  pods' \in [Pods -> RunningPods \cup {NoPod}]
  BY <1>0, <1>2 DEF StartPod, Changed, StatefulSets, RunningPods
<1>3. ASSUME NEW p \in Pods, StopPod(p)
      PROVE  pods' \in [Pods -> RunningPods \cup {NoPod}]
  BY <1>0, <1>3 DEF StopPod
<1> QED
  BY <1>0, <1>1, <1>2, <1>3, Frame

(* The caches have had what the API server had. *)
LEMMA ViewTypes ==
    ASSUME TypeOK, [Next]_vars
    PROVE  cache' \in Views /\ behind' \in Views
<1>0. cache \in Views /\ behind \in Views /\ Present \in Views /\ Nothing \in Views
  BY DEF TypeOK, Views, Present, Nothing
<1>1. CASE Restart
  BY <1>0, <1>1 DEF Restart
<1>2. CASE CacheSync
  <2>1. [cache EXCEPT !.rmq = rmq] \in Views /\ [cache EXCEPT !.sts = sts] \in Views
    BY <1>0 DEF TypeOK, Views
  <2> QED
    BY <1>0, <1>2, <2>1 DEF CacheSync
<1>3. CASE Lag
  BY <1>0, <1>3 DEF Lag
<1> QED
  BY <1>0, <1>1, <1>2, <1>3, Frame

(* Flags, the next step and the pods to mark. *)
LEMMA FlagTypes ==
    ASSUME TypeOK, [Next]_vars
    PROVE  /\ queued' \in BOOLEAN
           /\ pc' \in {"idle"} \cup Living \cup Deleting
           /\ current' \in BOOLEAN
           /\ leftOver' \in BOOLEAN
           /\ listed' \in [Pods -> Copies]
<1> USE DEF Living, Deleting, api, work, tally
<1>0. /\ queued \in BOOLEAN /\ current \in BOOLEAN /\ leftOver \in BOOLEAN
      /\ NoneListed \in [Pods -> Copies] /\ listed \in [Pods -> Copies]
      /\ pc \in {"idle"} \cup Living \cup Deleting
  BY DEF TypeOK, NoneListed, Copies
<1>21. \A p \in Pods : /\ [listed EXCEPT ![p] = "none"] \in [Pods -> Copies]
                        /\ [listed EXCEPT ![p] = IF @ = "current" THEN "stale" ELSE @]
                               \in [Pods -> Copies]
  BY <1>0 DEF Copies
<1>1. CASE Begin
  BY <1>0, <1>1 DEF Begin, Forget
<1>2. CASE Defaults
  BY <1>0, <1>2 DEF Defaults, ReturnError, Forget
<1>3. CASE AddFinalizer
  BY <1>0, <1>3 DEF AddFinalizer, ReturnError, Forget
<1>4. CASE Build
  BY <1>0, <1>4 DEF Build, Return, ReturnError, Forget
<1>5. CASE StatefulSetUID
  BY <1>0, <1>5 DEF StatefulSetUID, Logged, Done
<1>6. CASE ListPods
  BY <1>0, <1>6 DEF ListPods
<1>7. CASE MarkPod
  BY <1>0, <1>21, <1>7 DEF MarkPod, TryAgain, Logged, Done
<1>8. CASE DeleteSts
  BY <1>0, <1>8 DEF DeleteSts, TryAgain, Logged, Done
<1>9. CASE RemoveFinalizer
  BY <1>0, <1>9 DEF RemoveFinalizer, Return, ReturnError, Forget
<1>10. CASE Fault
  BY <1>0, <1>10 DEF Fault, ReturnError, Logged, Done, Forget
<1>11. CASE Restart
  BY <1>0, <1>11 DEF Restart, Forget
<1>12. CASE Lag
  BY <1>0, <1>12 DEF Lag
<1>13. CASE CacheSync
  BY <1>0, <1>13 DEF CacheSync
<1>14. CASE Create
  BY <1>0, <1>14 DEF Create
<1>15. CASE Edit
  BY <1>0, <1>15 DEF Edit
<1>16. CASE Delete
  BY <1>0, <1>16 DEF Delete
<1>17. CASE CollectGarbage
  BY <1>0, <1>17 DEF CollectGarbage
<1>18. CASE \E p \in Pods : StartPod(p)
  BY <1>0, <1>21, <1>18 DEF StartPod, Changed
<1>19. CASE \E p \in Pods : StopPod(p)
  BY <1>0, <1>21, <1>19 DEF StopPod, Changed
<1>20. CASE UNCHANGED vars
  BY <1>0, <1>20 DEF vars
<1> QED
  BY <1>1, <1>2, <1>3, <1>4, <1>5, <1>6, <1>7, <1>8, <1>9, <1>10, <1>11, <1>12, <1>13,
     <1>14, <1>15, <1>16, <1>17, <1>18, <1>19, <1>20 DEF Next, Reconcile, Kubernetes,
     User

(* Counters. *)
LEMMA CounterTypes ==
    ASSUME TypeOK, [Next]_vars
    PROVE  /\ uid' \in 0 .. MaxSts /\ tries' \in 0 .. MaxTries
           /\ faults' \in 0 .. MaxFaults /\ restarts' \in 0 .. MaxRestarts
<1> USE DeletionAssumption DEF api, work, tally
<1>0. /\ uid \in 0 .. MaxSts /\ tries \in 0 .. MaxTries
      /\ faults \in 0 .. MaxFaults /\ restarts \in 0 .. MaxRestarts
  BY DEF TypeOK
<1>1. CASE Begin
  BY <1>0, <1>1 DEF Begin, Forget
<1>2. CASE Defaults
  BY <1>0, <1>2 DEF Defaults, ReturnError, Forget
<1>3. CASE AddFinalizer
  BY <1>0, <1>3 DEF AddFinalizer, ReturnError, Forget
<1>4. CASE Build
  BY <1>0, <1>4 DEF Build, Return, ReturnError, Forget
<1>5. CASE StatefulSetUID
  <2>1. cache.sts # NoSts => cache.sts.uid \in 0 .. MaxSts
    BY DEF TypeOK, Views, StatefulSets, NoSts
  <2> QED
    BY <1>0, <1>5, <2>1 DEF StatefulSetUID, Logged, Done
<1>6. CASE ListPods
  BY <1>0, <1>6 DEF ListPods
<1>7. CASE MarkPod
  BY <1>0, <1>7 DEF MarkPod, TryAgain, Logged, Done
<1>8. CASE DeleteSts
  BY <1>0, <1>8 DEF DeleteSts, TryAgain, Logged, Done
<1>9. CASE RemoveFinalizer
  BY <1>0, <1>9 DEF RemoveFinalizer, Return, ReturnError, Forget
<1>10. CASE Fault
  BY <1>0, <1>10 DEF Fault, ReturnError, Logged, Done, Forget
<1>11. CASE Restart
  BY <1>0, <1>11 DEF Restart, Forget
<1>12. CASE Lag
  BY <1>0, <1>12 DEF Lag
<1>13. CASE CacheSync
  BY <1>0, <1>13 DEF CacheSync
<1>14. CASE Create
  BY <1>0, <1>14 DEF Create
<1>15. CASE Edit
  BY <1>0, <1>15 DEF Edit
<1>16. CASE Delete
  BY <1>0, <1>16 DEF Delete
<1>17. CASE CollectGarbage
  BY <1>0, <1>17 DEF CollectGarbage
<1>18. CASE \E p \in Pods : StartPod(p)
  BY <1>0, <1>18 DEF StartPod, Changed
<1>19. CASE \E p \in Pods : StopPod(p)
  BY <1>0, <1>19 DEF StopPod, Changed
<1>20. CASE UNCHANGED vars
  BY <1>0, <1>20 DEF vars
<1> QED
  BY <1>1, <1>2, <1>3, <1>4, <1>5, <1>6, <1>7, <1>8, <1>9, <1>10, <1>11, <1>12, <1>13,
     <1>14, <1>15, <1>16, <1>17, <1>18, <1>19, <1>20 DEF Next, Reconcile, Kubernetes,
     User

(* The steps keep the types. *)
LEMMA TypeStep ==
    ASSUME TypeOK, CopyInv, [Next]_vars
    PROVE  TypeOK'
<1>1. /\ queued' \in BOOLEAN
      /\ pc' \in {"idle", "defaults", "finalizer", "build", "uid", "list", "mark", "delete",
                  "remove"}
      /\ current' \in BOOLEAN
      /\ leftOver' \in BOOLEAN
      /\ listed' \in [Pods -> Copies]
      /\ uid' \in 0 .. MaxSts /\ tries' \in 0 .. MaxTries
      /\ faults' \in 0 .. MaxFaults /\ restarts' \in 0 .. MaxRestarts
  BY FlagTypes, CounterTypes DEF Living, Deleting
<1> QED
  BY <1>1, ClusterTypes, StsType, PodsType, ViewTypes DEF TypeOK

-----------------------------------------------------------------------------
(* What the steps do to a RabbitmqCluster *)

(* A default is written into the copy, and into the object if it is the same. *)
LEMMA DefaultsEffect ==
    ASSUME TypeOK, CopyInv, Defaults
    PROVE  /\ UNCHANGED <<sts, pods, clusters, created, cache, behind, tally>>
           /\ rmq'.uid = rmq.uid /\ rmq'.deleting = rmq.deleting
           /\ rmq'.finalizer = rmq.finalizer
           /\ rmq.image = "custom" => rmq'.image = "custom"
           /\ \/ /\ pc' = "finalizer" /\ UNCHANGED <<current, uid>>
                 /\ copy' # NoCluster /\ copy'.uid = copy.uid /\ ~copy'.deleting
                 /\ copy'.finalizer = copy.finalizer /\ copy'.image # NoImage
                 /\ current => rmq' = copy'
              \/ pc' = "idle" /\ Forget
<1>0. copy \in Clusters /\ ~copy.deleting /\ (current => copy = rmq) /\ current \in BOOLEAN
  BY DEF Defaults, TypeOK, CopyInv, Living
<1>1. UNCHANGED <<sts, pods, clusters, created, cache, behind, tally>>
  BY DEF Defaults
<1>2. CASE ReturnError /\ UNCHANGED rmq
  BY <1>1, <1>2 DEF ReturnError
<1>3. CASE /\ copy' = [copy EXCEPT !.image = IF @ = NoImage THEN "default" ELSE @]
           /\ rmq' = IF current THEN copy' ELSE rmq
           /\ pc' = "finalizer" /\ UNCHANGED <<current, uid>>
  <2>1. copy' \in Clusters
    BY <1>0, <1>3 DEF Clusters, Images
  <2>2. copy' # NoCluster
    <3>1. copy'.uid # 0
      BY <2>1, DeletionAssumption DEF Clusters
    <3> QED
      BY <3>1 DEF NoCluster
  <2>3. copy'.uid = copy.uid /\ copy'.deleting = copy.deleting
        /\ copy'.finalizer = copy.finalizer
    BY <1>0, <1>3 DEF Clusters
  <2>4. copy'.image = IF copy.image = NoImage THEN "default" ELSE copy.image
    BY <1>0, <1>3 DEF Clusters
  <2>5. copy'.image # NoImage /\ (copy.image = "custom" => copy'.image = "custom")
    BY <2>4 DEF NoImage
  <2>6. CASE current
    BY <1>0, <1>1, <1>3, <2>2, <2>3, <2>5, <2>6
  <2>7. CASE ~current
    BY <1>0, <1>1, <1>3, <2>2, <2>3, <2>5, <2>7
  <2> QED
    BY <2>6, <2>7
<1> QED
  BY <1>2, <1>3 DEF Defaults

(* The same of the finalizer. *)
LEMMA AddFinalizerEffect ==
    ASSUME TypeOK, CopyInv, AddFinalizer
    PROVE  /\ UNCHANGED <<sts, pods, clusters, created, cache, behind, tally>>
           /\ rmq'.uid = rmq.uid /\ rmq'.deleting = rmq.deleting /\ rmq'.image = rmq.image
           /\ rmq.finalizer => rmq'.finalizer
           /\ \/ /\ pc' = "build" /\ UNCHANGED <<current, uid>>
                 /\ copy' # NoCluster /\ copy'.uid = copy.uid /\ ~copy'.deleting
                 /\ copy'.finalizer /\ copy'.image # NoImage
                 /\ copy.finalizer \/ current
                 /\ current => rmq' = copy'
              \/ pc' = "idle" /\ Forget
<1>0. copy \in Clusters /\ ~copy.deleting /\ copy.image # NoImage /\ (current => copy = rmq)
      /\ current \in BOOLEAN
  BY DEF AddFinalizer, TypeOK, CopyInv, Living
<1>1. UNCHANGED <<sts, pods, clusters, created, cache, behind, tally>>
  BY DEF AddFinalizer
<1>2. CASE ReturnError /\ UNCHANGED rmq
  BY <1>1, <1>2 DEF ReturnError
<1>3. CASE /\ copy.finalizer \/ current
           /\ copy' = [copy EXCEPT !.finalizer = TRUE]
           /\ rmq' = IF current THEN copy' ELSE rmq
           /\ pc' = "build" /\ UNCHANGED <<current, uid>>
  <2>1. copy' \in Clusters
    BY <1>0, <1>3 DEF Clusters
  <2>2. copy' # NoCluster
    <3>1. copy'.uid # 0
      BY <2>1, DeletionAssumption DEF Clusters
    <3> QED
      BY <3>1 DEF NoCluster
  <2>3. copy'.uid = copy.uid /\ copy'.deleting = copy.deleting
        /\ copy'.finalizer = TRUE /\ copy'.image = copy.image
    BY <1>0, <1>3 DEF Clusters
  <2>4. CASE current
    BY <1>0, <1>1, <1>3, <2>2, <2>3, <2>4
  <2>5. CASE ~current
    BY <1>0, <1>1, <1>3, <2>2, <2>3, <2>5
  <2> QED
    BY <2>4, <2>5
<1> QED
  BY <1>2, <1>3 DEF AddFinalizer

(* The object that a user edits or deletes is the one there was, or gone. *)
LEMMA UserEffect ==
    ASSUME TypeOK, Edit \/ Delete
    PROVE  /\ UNCHANGED <<sts, pods, clusters, created, cache, behind, pc, copy, uid, tally>>
           /\ ~current'
           /\ rmq # NoCluster
           /\ \/ rmq' = NoCluster /\ ~rmq.finalizer
              \/ /\ rmq' # NoCluster /\ rmq'.uid = rmq.uid
                 /\ rmq'.finalizer = rmq.finalizer
                 /\ rmq.deleting => rmq'.deleting
                 /\ rmq.image = "custom" => rmq'.image = "custom"
<1>0. rmq # NoCluster /\ rmq \in Clusters /\ rmq.finalizer \in BOOLEAN
  BY DEF TypeOK, Edit, Delete, Clusters
<1>1. ~current' /\ UNCHANGED <<sts, pods, clusters, created, cache, behind, pc, copy, uid, tally>>
  BY DEF Edit, Delete
<1>2. rmq' # NoCluster <=> rmq'.uid # 0
  <2>1. rmq' = NoCluster \/ rmq' \in Clusters
    <3>1. CASE Edit
      BY <1>0, <3>1, ClusterUpdate DEF Edit, Images
    <3>2. CASE Delete
      BY <1>0, <3>2, ClusterUpdate DEF Delete
    <3> QED
      BY <3>1, <3>2
  <2> QED
    BY <2>1, ClusterFields
<1>3. rmq.uid # 0
  BY <1>0, ClusterFields
<1>4. CASE Edit
  <2>1. rmq'.uid = rmq.uid /\ rmq'.finalizer = rmq.finalizer /\ rmq'.deleting = rmq.deleting
        /\ rmq'.image = "custom"
    BY <1>0, <1>4 DEF Edit, Clusters
  <2> QED
    BY <1>0, <1>1, <1>2, <1>3, <2>1
<1>5. CASE Delete
  <2>1. CASE rmq.finalizer
    <3>1. rmq' = [rmq EXCEPT !.deleting = TRUE]
      BY <1>5, <2>1 DEF Delete
    <3>2. rmq'.uid = rmq.uid /\ rmq'.finalizer = rmq.finalizer /\ rmq'.deleting = TRUE
          /\ rmq'.image = rmq.image
      BY <1>0, <3>1 DEF Clusters
    <3> QED
      BY <1>0, <1>1, <1>2, <1>3, <3>2
  <2>2. CASE ~rmq.finalizer
    BY <1>0, <1>1, <1>5, <2>2 DEF Delete
  <2> QED
    BY <2>1, <2>2
<1> QED
  BY <1>4, <1>5

(* A cluster that is created has a UID that no other had. *)
LEMMA CreateEffect ==
    ASSUME TypeOK, Create
    PROVE  /\ UNCHANGED <<sts, pods, created, cache, behind, pc, copy, uid, tally>>
           /\ ~current' /\ rmq = NoCluster
           /\ clusters' = clusters + 1
           /\ rmq'.uid = clusters' /\ ~rmq'.deleting /\ ~rmq'.finalizer
  BY DEF Create, tally

-----------------------------------------------------------------------------
(* The copy *)

(* The reconcile works on a cluster that is as its step requires. *)
LEMMA CopyStep ==
    ASSUME TypeOK, CopyInv, [Next]_vars
    PROVE  CopyInv'
<1> USE DEF Living, Deleting, api, work, tally
<1>0. current \in BOOLEAN /\ rmq \in Clusters \cup {NoCluster}
      /\ cache.rmq \in Clusters \cup {NoCluster}
  BY DEF TypeOK, Views
<1>1. CASE Begin
  BY <1>0, <1>1 DEF Begin, Forget, CopyInv
<1>2. CASE Defaults
  <2>1. CASE pc' = "idle" /\ Forget
    BY <2>1 DEF CopyInv, Forget
  <2>2. CASE pc' = "finalizer"
    BY <1>2, <2>2, DefaultsEffect, <1>0 DEF CopyInv, Forget
  <2> QED
    BY <1>2, <2>1, <2>2, DefaultsEffect
<1>3. CASE AddFinalizer
  <2>1. CASE pc' = "idle" /\ Forget
    BY <2>1 DEF CopyInv, Forget
  <2>2. CASE pc' = "build"
    BY <1>3, <2>2, AddFinalizerEffect, <1>0 DEF CopyInv, Forget
  <2> QED
    BY <1>3, <2>1, <2>2, AddFinalizerEffect
<1>4. CASE Build
  BY <1>0, <1>4 DEF Build, Return, ReturnError, Forget, CopyInv
<1>5. CASE StatefulSetUID
  BY <1>0, <1>5 DEF StatefulSetUID, Logged, Done, CopyInv
<1>6. CASE ListPods
  BY <1>0, <1>6 DEF ListPods, CopyInv
<1>7. CASE MarkPod
  BY <1>0, <1>7 DEF MarkPod, TryAgain, Logged, Done, CopyInv
<1>8. CASE DeleteSts
  BY <1>0, <1>8 DEF DeleteSts, TryAgain, Logged, Done, CopyInv
<1>9. CASE RemoveFinalizer
  BY <1>0, <1>9 DEF RemoveFinalizer, Return, ReturnError, Forget, CopyInv
<1>10. CASE Fault
  BY <1>0, <1>10 DEF Fault, ReturnError, Logged, Done, Forget, CopyInv
<1>11. CASE Restart
  BY <1>0, <1>11 DEF Restart, Forget, CopyInv
<1>12. CASE Lag
  BY <1>0, <1>12 DEF Lag, CopyInv
<1>13. CASE CacheSync
  BY <1>0, <1>13 DEF CacheSync, CopyInv
<1>14. CASE Create
  BY <1>14, CreateEffect DEF CopyInv
<1>15. CASE Edit
  BY <1>15, UserEffect DEF CopyInv
<1>16. CASE Delete
  BY <1>16, UserEffect DEF CopyInv
<1>17. CASE CollectGarbage
  BY <1>0, <1>17 DEF CollectGarbage, CopyInv
<1>18. CASE \E p \in Pods : StartPod(p)
  BY <1>0, <1>18 DEF StartPod, Changed, CopyInv
<1>19. CASE \E p \in Pods : StopPod(p)
  BY <1>0, <1>19 DEF StopPod, Changed, CopyInv
<1>20. CASE UNCHANGED vars
  BY <1>0, <1>20 DEF vars, CopyInv
<1> QED
  BY <1>1, <1>2, <1>3, <1>4, <1>5, <1>6, <1>7, <1>8, <1>9, <1>10, <1>11, <1>12, <1>13,
     <1>14, <1>15, <1>16, <1>17, <1>18, <1>19, <1>20 DEF Next, Reconcile, Kubernetes,
     User

-----------------------------------------------------------------------------
(* UIDs *)

(* What the steps below use of the types. *)
LEMMA Values ==
    ASSUME TypeOK
    PROVE  /\ rmq \in Clusters \cup {NoCluster} /\ copy \in Clusters \cup {NoCluster}
           /\ cache.rmq \in Clusters \cup {NoCluster}
           /\ behind.rmq \in Clusters \cup {NoCluster}
           /\ sts \in StatefulSets \cup {NoSts}
           /\ cache.sts \in StatefulSets \cup {NoSts}
           /\ behind.sts \in StatefulSets \cup {NoSts}
           /\ \A p \in Pods : pods[p] \in RunningPods \cup {NoPod}
  BY DEF TypeOK, Views

(* UIDs and counters are numbers. *)
LEMMA Numbers ==
    ASSUME TypeOK
    PROVE  /\ rmq.uid \in Nat /\ copy.uid \in Nat /\ cache.rmq.uid \in Nat
           /\ behind.rmq.uid \in Nat
           /\ sts.uid \in Nat /\ cache.sts.uid \in Nat /\ behind.sts.uid \in Nat
           /\ sts.owner \in Nat
           /\ \A p \in Pods : pods[p].sts \in Nat
           /\ uid \in Nat /\ clusters \in Nat /\ created \in Nat
<1>1. uid \in Nat /\ clusters \in Nat /\ created \in Nat
  BY DeletionAssumption DEF TypeOK
<1> QED
  BY <1>1, Values, ClusterFields, StsFields, PodFields

(* The absence of an object has the UID 0. *)
LEMMA Absent ==
    /\ NoCluster.uid = 0 /\ NoCluster.deleting = FALSE /\ NoCluster.finalizer = FALSE
    /\ NoSts.uid = 0 /\ NoSts.owner = 0 /\ NoSts.adopted = FALSE
    /\ NoPod.sts = 0 /\ NoPod.marked = FALSE
  BY DEF NoCluster, NoSts, NoPod

(* How the caches change. *)
LEMMA CacheEffect ==
    ASSUME TypeOK, CacheSync
    PROVE  /\ UNCHANGED <<rmq, sts, pods, clusters, created, behind, pc, copy, current, uid,
                          faults, restarts>>
           /\ \/ cache'.rmq = rmq /\ cache'.sts = cache.sts
              \/ cache'.rmq = cache.rmq /\ cache'.sts = sts
  BY DEF CacheSync, TypeOK, Views, api, work, tally

(* A restart lists what was there, or what a lagging API server has. *)
LEMMA RestartEffect ==
    ASSUME TypeOK, Restart
    PROVE  /\ UNCHANGED <<rmq, sts, pods, clusters, created, faults>>
           /\ restarts' # 0 /\ pc' = "idle" /\ Forget
           /\ cache'.rmq \in {behind.rmq, rmq} /\ cache'.sts \in {behind.sts, sts}
           /\ behind'.rmq = NoCluster /\ behind'.sts = NoSts
<1>1. restarts' # 0
  BY DeletionAssumption DEF Restart, TypeOK
<1> QED
  BY <1>1 DEF Restart, Present, Nothing, api

(* A lagging API server keeps what was there. *)
LEMMA LagEffect ==
    ASSUME Lag
    PROVE  /\ UNCHANGED <<rmq, sts, pods, clusters, created, cache, pc, copy, current, uid,
                          faults, restarts>>
           /\ behind'.rmq = rmq /\ behind'.sts = sts
  BY DEF Lag, Present, api, work, tally

(* Build creates a StatefulSet with a new UID, or updates the one there is. *)
LEMMA BuildEffect ==
    ASSUME TypeOK, CopyInv, Build
    PROVE  /\ UNCHANGED <<rmq, pods, clusters, cache, behind, tally>>
           /\ pc = "build" /\ pc' = "idle" /\ Forget
           /\ \/ /\ cache.sts = NoSts /\ sts = NoSts
                 /\ created' = created + 1
                 /\ sts'.uid = created' /\ sts'.owner = copy.uid /\ ~sts'.adopted
              \/ /\ cache.sts = sts /\ sts # NoSts
                 /\ sts'.uid = sts.uid /\ sts'.owner = copy.uid
                 /\ ~sts'.adopted => ~sts.adopted /\ sts.owner = copy.uid
                 /\ UNCHANGED created
              \/ UNCHANGED <<sts, created>>
<1>1. /\ UNCHANGED <<rmq, pods, clusters, cache, behind, tally>>
      /\ pc = "build" /\ pc' = "idle" /\ Forget
  BY DEF Build, Return, ReturnError
<1>2. ASSUME sts \in StatefulSets,
             sts' = [sts EXCEPT !.owner = copy.uid, !.image = copy.image,
                                !.adopted = @ \/ sts.owner # copy.uid]
      PROVE  /\ sts'.uid = sts.uid /\ sts'.owner = copy.uid
             /\ sts'.adopted = (sts.adopted \/ sts.owner # copy.uid)
  BY <1>2 DEF StatefulSets
<1>3. CASE /\ cache.sts = NoSts /\ sts = NoSts /\ created' = created + 1
           /\ sts' = [uid |-> created', owner |-> copy.uid, image |-> copy.image,
                      adopted |-> FALSE]
  <2>1. sts'.uid = created' /\ sts'.owner = copy.uid /\ sts'.adopted = FALSE
    BY <1>3
  <2> QED
    BY <1>1, <1>3, <2>1
<1>4. CASE /\ cache.sts # NoSts /\ cache.sts = sts /\ UNCHANGED created
           /\ sts' = [sts EXCEPT !.owner = copy.uid, !.image = copy.image,
                                 !.adopted = @ \/ sts.owner # copy.uid]
  <2>1. sts \in StatefulSets
    BY <1>4, Values
  <2> QED
    BY <1>1, <1>2, <1>4, <2>1
<1>5. CASE UNCHANGED <<sts, created>>
  BY <1>1, <1>5
<1> QED
  BY <1>3, <1>4, <1>5 DEF Build

(* A mark leaves the rest of the pods alone. *)
LEMMA MarkEffect ==
    ASSUME TypeOK, MarkPod
    PROVE  /\ \A q \in Pods : pods'[q].sts = pods[q].sts
           /\ UNCHANGED <<rmq, sts, clusters, created, cache, behind, copy>>
           /\ uid' \in {0, uid}
           /\ UNCHANGED pods \/ UNCHANGED pc
<1>1. pods \in [Pods -> RunningPods \cup {NoPod}]
  BY DEF TypeOK
<1>2. ASSUME NEW p \in Pods, NEW b, pods' = [pods EXCEPT ![p].marked = b], NEW q \in Pods
      PROVE  pods'[q].sts = pods[q].sts
  BY <1>1, <1>2 DEF RunningPods, NoPod
<1>3. \/ UNCHANGED pods
      \/ UNCHANGED pc /\ \E p \in Pods : pods' = [pods EXCEPT ![p].marked = (pods[p] # NoPod)]
  BY DEF MarkPod
<1>4. UNCHANGED <<rmq, sts, clusters, created, cache, behind, copy>> /\ uid' \in {0, uid}
  BY DEF MarkPod, TryAgain, Logged, Done
<1> QED
  BY <1>2, <1>3, <1>4

(* UIDs are handed out in order. *)
LEMMA UidStep ==
    ASSUME TypeOK, CopyInv, UidInv, [Next]_vars
    PROVE  UidInv'
<1> USE Numbers, Absent DEF api, work, tally, UidInv
<1>1. CASE Begin
  BY <1>1 DEF Begin, Forget
<1>2. CASE Defaults
  <2>1. /\ rmq'.uid = rmq.uid /\ copy'.uid \in {0, copy.uid} /\ uid' \in {0, uid}
        /\ UNCHANGED <<sts, pods, clusters, created, cache, behind>>
    BY <1>2, DefaultsEffect DEF Forget
  <2> QED
    BY <2>1
<1>3. CASE AddFinalizer
  <2>1. /\ rmq'.uid = rmq.uid /\ copy'.uid \in {0, copy.uid} /\ uid' \in {0, uid}
        /\ UNCHANGED <<sts, pods, clusters, created, cache, behind>>
    BY <1>3, AddFinalizerEffect DEF Forget
  <2> QED
    BY <2>1
<1>4. CASE Build
  BY <1>4, BuildEffect DEF Forget
<1>5. CASE StatefulSetUID
  BY <1>5 DEF StatefulSetUID, Logged, Done
<1>6. CASE ListPods
  BY <1>6 DEF ListPods
<1>7. CASE MarkPod
  <2>1. /\ \A p \in Pods : pods'[p].sts = pods[p].sts
        /\ UNCHANGED <<rmq, sts, clusters, created, cache, behind, copy>> /\ uid' \in {0, uid}
    BY <1>7, MarkEffect
  <2> QED
    BY <2>1
<1>8. CASE DeleteSts
  BY <1>8 DEF DeleteSts, TryAgain, Logged, Done
<1>9. CASE RemoveFinalizer
  BY <1>9 DEF RemoveFinalizer, Return, ReturnError, Forget
<1>10. CASE Fault
  BY <1>10 DEF Fault, ReturnError, Logged, Done, Forget
<1>11. CASE Restart
  BY <1>11, RestartEffect DEF Forget
<1>12. CASE Lag
  BY <1>12, LagEffect
<1>13. CASE CacheSync
  BY <1>13, CacheEffect
<1>14. CASE Create
  BY <1>14, CreateEffect
<1>15. CASE Edit
  BY <1>15, UserEffect
<1>16. CASE Delete
  BY <1>16, UserEffect
<1>17. CASE CollectGarbage
  BY <1>17 DEF CollectGarbage
<1>18. CASE \E p \in Pods : StartPod(p)
  BY <1>18 DEF StartPod, Changed
<1>19. CASE \E p \in Pods : StopPod(p)
  BY <1>19 DEF StopPod, Changed
<1>20. CASE UNCHANGED vars
  BY <1>20 DEF vars
<1> QED
  BY <1>1, <1>2, <1>3, <1>4, <1>5, <1>6, <1>7, <1>8, <1>9, <1>10, <1>11, <1>12, <1>13,
     <1>14, <1>15, <1>16, <1>17, <1>18, <1>19, <1>20 DEF Next, Reconcile, Kubernetes,
     User

-----------------------------------------------------------------------------
(* Clusters in deletion *)

(* No step brings a cluster back to life: what is created has a new UID. *)
LEMMA NoRevival ==
    ASSUME TypeOK, CopyInv, UidInv, [Next]_vars,
           NEW u \in Nat \ {0}, u <= clusters, Alive(u)'
    PROVE  Alive(u)
<1>1. CASE UNCHANGED rmq
  BY <1>1 DEF Alive
<1>2. CASE Defaults
  BY <1>2, DefaultsEffect DEF Alive
<1>3. CASE AddFinalizer
  BY <1>3, AddFinalizerEffect DEF Alive
<1>4. CASE RemoveFinalizer
  <2>1. rmq' = rmq \/ rmq' = NoCluster
    BY <1>4 DEF RemoveFinalizer
  <2> QED
    BY <2>1, Absent DEF Alive
<1>5. CASE Create
  <2>1. rmq'.uid = clusters + 1 /\ clusters \in Nat
    BY <1>5, CreateEffect, Numbers
  <2>2. rmq'.uid # u
    BY <2>1
  <2> QED
    BY <2>2 DEF Alive
<1>6. CASE Edit \/ Delete
  BY <1>6, UserEffect, Absent DEF Alive
<1> QED
  BY <1>1, <1>2, <1>3, <1>4, <1>5, <1>6, Frame DEF User

(* What is known of a cluster in deletion stays true. *)
LEMMA GoneStep ==
    ASSUME TypeOK, CopyInv, UidInv, GoneInv, [Next]_vars
    PROVE  GoneInv'
<1>1. ASSUME NEW x \in {rmq, cache.rmq, behind.rmq, copy}, x.deleting
      PROVE  ~Alive(x.uid)'
  <2>1. x \in Clusters \cup {NoCluster} /\ x # NoCluster
    BY <1>1, Values, Absent
  <2>2. x.uid \in Nat /\ x.uid # 0
    BY <2>1, ClusterFields
  <2>3. x.uid <= clusters
    BY Numbers DEF UidInv
  <2>4. ~Alive(x.uid)
    BY <1>1 DEF GoneInv, Alive
  <2> QED
    BY <2>2, <2>3, <2>4, NoRevival
<1>2. cache'.rmq \in {rmq, cache.rmq, behind.rmq}
  BY Frame, RestartEffect, CacheEffect
<1>3. behind'.rmq \in {rmq, behind.rmq, NoCluster}
  BY Frame, RestartEffect, LagEffect
<1>4. copy' \in {copy, cache.rmq, NoCluster} \/ ~copy'.deleting
  <2>1. CASE Begin
    BY <2>1 DEF Begin, Forget
  <2>2. CASE Forget
    BY <2>2 DEF Forget
  <2>3. CASE Defaults
    BY <2>3, DefaultsEffect, Absent DEF Forget
  <2>4. CASE AddFinalizer
    BY <2>4, AddFinalizerEffect, Absent DEF Forget
  <2> QED
    BY <2>1, <2>2, <2>3, <2>4, Frame
<1>5. ASSUME NEW x \in {rmq, cache.rmq, behind.rmq, copy, NoCluster}, x.deleting
      PROVE  ~Alive(x.uid)'
  BY <1>1, <1>5, Absent
<1> QED
  BY <1>2, <1>3, <1>4, <1>5 DEF GoneInv, Alive

-----------------------------------------------------------------------------
(* Owners *)

(* Deletion of the StatefulSet, under the precondition or by the collector. *)
LEMMA DeleteStsEffect ==
    ASSUME DeleteSts
    PROVE  /\ UNCHANGED <<rmq, pods, clusters, created, cache, behind, queued, copy, current,
                          faults, restarts>>
           /\ pc = "delete"
           /\ \/ (sts = NoSts \/ sts.uid = uid) /\ sts' = NoSts /\ pc' = "remove" /\ uid' = 0
              \/ /\ sts # NoSts /\ sts.uid # uid /\ UNCHANGED sts
                 /\ pc' \in {"uid", "remove"} /\ uid' = 0
  BY DEF DeleteSts, TryAgain, Logged, Done

(* A StatefulSet that is not adopted has had its owner since it was created. *)
LEMMA SameOwner ==
    ASSUME TypeOK, CopyInv, UidInv, [Next]_vars,
           NEW u \in Nat \ {0}, u <= created, sts'.uid = u, ~sts'.adopted
    PROVE  sts.uid = u /\ ~sts.adopted /\ sts.owner = sts'.owner
<1>1. CASE UNCHANGED sts
  BY <1>1
<1>2. CASE Build
  <2>1. created' = created + 1 /\ sts'.uid = created' => FALSE
    BY Numbers
  <2> QED
    BY <1>2, <2>1, BuildEffect
<1>3. CASE sts' = NoSts
  BY <1>3, Absent
<1> QED
  BY <1>1, <1>2, <1>3, Frame, DeleteStsEffect DEF CollectGarbage

(* Where a step of the reconcile comes from. *)
LEMMA Control ==
    ASSUME [Next]_vars
    PROVE  /\ pc' \in Living =>
                 \/ Begin /\ copy' = cache.rmq /\ ~cache.rmq.deleting
                 \/ Defaults \/ AddFinalizer
                 \/ pc \in Living /\ UNCHANGED copy
           /\ pc' \in Deleting =>
                 \/ Begin /\ copy' = cache.rmq /\ cache.rmq.deleting
                 \/ pc \in Deleting /\ UNCHANGED copy
           /\ pc' \in HasUID =>
                 \/ pc \in HasUID /\ UNCHANGED <<uid, copy>>
                 \/ /\ UNCHANGED <<sts, copy>>
                    /\ uid' = cache.sts.uid /\ cache.sts # NoSts /\ cache.sts.owner = copy.uid
           /\ pc \in Marking => pc' \in Marking \/ Logged \/ sts' = NoSts \/ Restart
<1> USE DEF Living, Deleting, HasUID, Marking, api, work, tally
<1>1. CASE Begin
  BY <1>1 DEF Begin
<1>2. CASE Defaults
  BY <1>2 DEF Defaults, ReturnError
<1>3. CASE AddFinalizer
  BY <1>3 DEF AddFinalizer, ReturnError
<1>4. CASE Build
  BY <1>4 DEF Build, Return, ReturnError
<1>5. CASE StatefulSetUID
  BY <1>5 DEF StatefulSetUID, Logged, Done
<1>6. CASE ListPods
  BY <1>6 DEF ListPods
<1>7. CASE MarkPod
  BY <1>7 DEF MarkPod, TryAgain, Logged, Done
<1>8. CASE DeleteSts
  BY <1>8 DEF DeleteSts, TryAgain, Logged, Done
<1>9. CASE RemoveFinalizer
  BY <1>9 DEF RemoveFinalizer, Return, ReturnError
<1>10. CASE Fault
  BY <1>10 DEF Fault, ReturnError, Logged, Done
<1>11. CASE Restart
  BY <1>11 DEF Restart
<1>12. CASE Lag
  BY <1>12 DEF Lag
<1>13. CASE CacheSync
  BY <1>13 DEF CacheSync
<1>14. CASE Create
  BY <1>14 DEF Create
<1>15. CASE Edit
  BY <1>15 DEF Edit
<1>16. CASE Delete
  BY <1>16 DEF Delete
<1>17. CASE CollectGarbage
  BY <1>17 DEF CollectGarbage
<1>18. CASE \E p \in Pods : StartPod(p)
  BY <1>18 DEF StartPod, Changed
<1>19. CASE \E p \in Pods : StopPod(p)
  BY <1>19 DEF StopPod, Changed
<1>20. CASE UNCHANGED vars
  BY <1>20 DEF vars
<1> QED
  BY <1>1, <1>2, <1>3, <1>4, <1>5, <1>6, <1>7, <1>8, <1>9, <1>10, <1>11, <1>12, <1>13,
     <1>14, <1>15, <1>16, <1>17, <1>18, <1>19, <1>20 DEF Next, Reconcile, Kubernetes,
     User

(* What is known of the owner of a StatefulSet stays true. *)
LEMMA OwnerStep ==
    ASSUME TypeOK, TypeOK', CopyInv, UidInv, OwnerInv, [Next]_vars
    PROVE  OwnerInv'
<1>1. ASSUME NEW x \in {sts, cache.sts, behind.sts, NoSts},
             x.uid = sts'.uid, ~sts'.adopted
      PROVE  x.owner = sts'.owner
  <2>1. CASE x.uid = 0
    <3>1. x = NoSts
      BY <2>1, Values, StsFields
    <3>2. sts' = NoSts
      <4>1. sts' \in StatefulSets \cup {NoSts}
        BY DEF TypeOK
      <4> QED
        BY <1>1, <2>1, <4>1, StsFields
    <3> QED
      BY <3>1, <3>2
  <2>2. CASE x.uid # 0
    <3>1. x.uid \in Nat /\ x.uid <= created
      BY <2>2, Numbers, Absent DEF UidInv
    <3>2. sts.uid = x.uid /\ ~sts.adopted /\ sts.owner = sts'.owner
      BY <1>1, <2>2, <3>1, SameOwner
    <3>3. x # NoSts
      BY <2>2, Absent
    <3> QED
      BY <3>2, <3>3 DEF OwnerInv
  <2> QED
    BY <2>1, <2>2
<1>2. cache'.sts \in {sts, cache.sts, behind.sts}
  BY Frame, RestartEffect, CacheEffect
<1>3. behind'.sts \in {sts, behind.sts, NoSts}
  BY Frame, RestartEffect, LagEffect
<1>4. ASSUME pc' \in HasUID
      PROVE  uid' # 0 /\ (sts'.uid = uid' /\ ~sts'.adopted => sts'.owner = copy'.uid)
  <2>1. CASE pc \in HasUID /\ UNCHANGED <<uid, copy>>
    <3>1. uid # 0 /\ uid \in Nat /\ uid <= created
      BY <2>1, Numbers DEF OwnerInv, UidInv
    <3> QED
      BY <2>1, <3>1, SameOwner DEF OwnerInv
  <2>2. CASE /\ UNCHANGED <<sts, copy>>
             /\ uid' = cache.sts.uid /\ cache.sts # NoSts /\ cache.sts.owner = copy.uid
    BY <2>2, Values, StsFields DEF OwnerInv
  <2> QED
    BY <1>4, <2>1, <2>2, Control
<1> QED
  BY <1>1, <1>2, <1>3, <1>4 DEF OwnerInv

-----------------------------------------------------------------------------
(* Behaviours without a restart *)

(* Only removeFinalizer takes a finalizer away. *)
LEMMA FinalizerKept ==
    ASSUME TypeOK, CopyInv, [Next]_vars, NEW u \in Nat \ {0}, rmq.uid = u, rmq.finalizer
    PROVE  (rmq'.uid = u /\ rmq'.finalizer) \/ (RemoveFinalizer /\ current)
<1>1. CASE UNCHANGED rmq
  BY <1>1
<1>2. CASE Defaults
  BY <1>2, DefaultsEffect
<1>3. CASE AddFinalizer
  BY <1>3, AddFinalizerEffect
<1>4. CASE RemoveFinalizer
  BY <1>4 DEF RemoveFinalizer
<1>5. CASE Create
  BY <1>5, CreateEffect, Absent
<1>6. CASE Edit \/ Delete
  BY <1>6, UserEffect
<1> QED
  BY <1>1, <1>2, <1>3, <1>4, <1>5, <1>6, Frame DEF User

(* Caches that only move forward know whether a finalizer is there. *)
LEMMA FinalizerStep ==
    ASSUME TypeOK, CopyInv, GoneInv, FinalizerInv, [Next]_vars, ~Restart
    PROVE  FinalizerInv'
<1>1. ASSUME rmq.finalizer
      PROVE  rmq.uid \in Nat \ {0}
  BY <1>1, Values, ClusterFields
<1>2. cache'.rmq \in {rmq, cache.rmq} /\ (cache'.rmq = rmq /\ rmq # cache.rmq => CacheSync)
  BY Frame, CacheEffect
<1>3. ASSUME cache'.rmq.finalizer, ~cache'.rmq.deleting
      PROVE  rmq'.uid = cache'.rmq.uid /\ rmq'.finalizer
  <2>1. rmq.uid = cache'.rmq.uid /\ rmq.finalizer
    BY <1>2, <1>3 DEF FinalizerInv
  <2>2. CASE rmq'.uid = rmq.uid /\ rmq'.finalizer
    BY <2>1, <2>2
  <2>3. CASE RemoveFinalizer /\ current
    <3>1. cache' = cache /\ pc \in Deleting /\ copy = rmq
      BY <2>3 DEF RemoveFinalizer, CopyInv, Deleting
    <3> QED
      BY <1>3, <2>1, <3>1 DEF FinalizerInv
  <2> QED
    BY <1>1, <2>1, <2>2, <2>3, FinalizerKept
<1>4. ASSUME pc' \in Living, copy'.finalizer
      PROVE  rmq'.uid = copy'.uid /\ rmq'.finalizer
  <2>1. CASE Begin /\ copy' = cache.rmq /\ ~cache.rmq.deleting
    BY <1>4, <2>1 DEF FinalizerInv, Begin, api
  <2>2. CASE Defaults
    <3>1. pc \in Living /\ copy'.uid = copy.uid /\ copy.finalizer
      BY <1>4, <2>2, DefaultsEffect DEF Defaults, Living
    <3>2. rmq.uid = copy.uid /\ rmq.finalizer
      BY <3>1 DEF FinalizerInv
    <3> QED
      BY <2>2, <3>1, <3>2, DefaultsEffect
  <2>3. CASE AddFinalizer
    <3>1. pc \in Living /\ copy'.uid = copy.uid /\ (copy.finalizer \/ current)
          /\ (current => rmq' = copy')
      BY <1>4, <2>3, AddFinalizerEffect DEF AddFinalizer, Living
    <3>2. CASE current
      BY <1>4, <3>1, <3>2
    <3>3. CASE copy.finalizer
      <4>1. rmq.uid = copy.uid /\ rmq.finalizer
        BY <3>1, <3>3 DEF FinalizerInv
      <4> QED
        BY <2>3, <3>1, <4>1, AddFinalizerEffect
    <3> QED
      BY <3>1, <3>2, <3>3
  <2>4. CASE pc \in Living /\ UNCHANGED copy
    <3>1. rmq.uid = copy.uid /\ rmq.finalizer
      BY <1>4, <2>4 DEF FinalizerInv
    <3>2. ~RemoveFinalizer
      BY <2>4 DEF RemoveFinalizer, Living
    <3> QED
      BY <1>1, <2>4, <3>1, <3>2, FinalizerKept
  <2> QED
    BY <1>4, <2>1, <2>2, <2>3, <2>4, Control
<1>5. ASSUME pc' \in Deleting, cache'.rmq.uid = copy'.uid
      PROVE  cache'.rmq.deleting
  <2>1. CASE Begin /\ copy' = cache.rmq /\ cache.rmq.deleting
    BY <2>1 DEF Begin
  <2>2. CASE pc \in Deleting /\ UNCHANGED copy
    <3>1. ~Alive(copy.uid)
      BY <2>2 DEF CopyInv, GoneInv
    <3> QED
      BY <1>2, <1>5, <2>2, <3>1 DEF FinalizerInv, Alive
  <2> QED
    BY <1>5, <2>1, <2>2, Control
<1> QED
  BY <1>3, <1>4, <1>5 DEF FinalizerInv

(* Clusters are reconciled, and own the StatefulSet, in the order of their UIDs. *)
LEMMA SuccessionStep ==
    ASSUME TypeOK, CopyInv, UidInv, SuccessionInv, [Next]_vars, ~Restart
    PROVE  SuccessionInv'
<1> USE Numbers
<1>1. /\ UNCHANGED cache \/ CacheSync
      /\ cache'.rmq.uid \in {cache.rmq.uid, rmq.uid}
      /\ cache'.rmq.uid # cache.rmq.uid =>
             CacheSync /\ cache'.rmq.uid = rmq.uid /\ UNCHANGED <<copy, sts>>
  BY Frame, CacheEffect
<1>2. copy'.uid \in {0, copy.uid, cache.rmq.uid}
  <2>1. CASE Begin
    BY <2>1, Absent DEF Begin, Forget
  <2>2. CASE Forget
    BY <2>2, Absent DEF Forget
  <2>3. CASE Defaults
    BY <2>3, DefaultsEffect, Absent DEF Forget
  <2>4. CASE AddFinalizer
    BY <2>4, AddFinalizerEffect, Absent DEF Forget
  <2> QED
    BY <2>1, <2>2, <2>3, <2>4, Frame
<1>3. /\ sts'.owner \in {0, sts.owner, copy.uid}
      /\ sts'.owner \in {0, sts.owner} \/ pc = "build"
  BY Frame, BuildEffect, DeleteStsEffect, Absent DEF CollectGarbage
<1>4. ASSUME pc' \in Deleting
      PROVE  sts'.owner <= copy'.uid
  <2>1. CASE Begin /\ copy' = cache.rmq
    <3>1. copy' # NoCluster /\ sts' = sts
      BY <1>4, <2>1, Absent DEF Begin, api, Deleting
    <3>2. cache.rmq.uid # 0
      BY <2>1, <3>1, Values, ClusterFields
    <3> QED
      BY <2>1, <3>1, <3>2 DEF SuccessionInv
  <2>2. CASE pc \in Deleting /\ UNCHANGED copy
    <3>1. sts'.owner \in {0, sts.owner}
      BY <1>3, <2>2 DEF Deleting
    <3> QED
      BY <2>2, <3>1 DEF SuccessionInv
  <2> QED
    BY <1>4, <2>1, <2>2, Control
<1>5. ASSUME cache'.rmq.uid # 0
      PROVE  copy'.uid <= cache'.rmq.uid /\ sts'.owner <= cache'.rmq.uid
  <2>1. CASE cache'.rmq.uid = cache.rmq.uid
    BY <1>2, <1>3, <1>5, <2>1 DEF SuccessionInv
  <2>2. CASE cache'.rmq.uid # cache.rmq.uid
    <3>1. cache'.rmq.uid = clusters /\ UNCHANGED <<copy, sts>>
      BY <1>1, <1>5, <2>2 DEF UidInv
    <3> QED
      BY <3>1 DEF UidInv
  <2> QED
    BY <2>1, <2>2
<1> QED
  BY <1>4, <1>5 DEF SuccessionInv

(* A StatefulSet is created only when the cache shows that there is none. *)
LEMMA LatestStep ==
    ASSUME TypeOK, CopyInv, LatestInv, [Next]_vars, ~Restart
    PROVE  LatestInv'
<1>1. ASSUME sts' # NoSts
      PROVE  UNCHANGED sts \/ Build
  BY <1>1, Frame, DeleteStsEffect DEF CollectGarbage
<1>2. ASSUME sts' # NoSts, cache'.sts # NoSts
      PROVE  cache'.sts.uid = sts'.uid
  <2>1. CASE Build
    <3>1. UNCHANGED cache
      BY <2>1, BuildEffect
    <3> QED
      BY <1>2, <2>1, <3>1, BuildEffect DEF LatestInv
  <2>2. CASE UNCHANGED sts
    BY <1>2, <2>2, Frame, CacheEffect DEF LatestInv
  <2> QED
    BY <1>1, <1>2, <2>1, <2>2
<1>3. ASSUME sts' # NoSts, pc' \in HasUID
      PROVE  sts'.uid = uid'
  <2>1. ~Build
    BY <1>3, BuildEffect DEF HasUID
  <2>2. UNCHANGED sts
    BY <1>1, <1>3, <2>1
  <2> QED
    BY <1>3, <2>2, Control DEF LatestInv
<1> QED
  BY <1>2, <1>3 DEF LatestInv

(* All of it, until the first restart. *)
LEMMA ForwardStep ==
    ASSUME TypeOK, CopyInv, UidInv, GoneInv, ForwardInv, [Next]_vars
    PROVE  ForwardInv'
<1>1. CASE Restart
  BY <1>1, RestartEffect DEF ForwardInv
<1>2. CASE ~Restart
  <2>1. restarts' = restarts
    BY <1>2, Frame
  <2> QED
    BY <1>2, <2>1, FinalizerStep, SuccessionStep, LatestStep DEF ForwardInv
<1> QED
  BY <1>1, <1>2

-----------------------------------------------------------------------------
(* Marks *)

(* Starting and stopping a pod marks none. *)
LEMMA PodEffect ==
    ASSUME TypeOK, NEW p \in Pods, StartPod(p) \/ StopPod(p)
    PROVE  \A q \in Pods : pods'[q].marked => pods'[q] = pods[q]
<1>0. pods \in [Pods -> RunningPods \cup {NoPod}]
  BY DEF TypeOK
<1>1. SUFFICES ASSUME NEW q \in Pods, pods'[q].marked
               PROVE  pods'[q] = pods[q]
  OBVIOUS
<1>2. CASE q # p
  BY <1>0, <1>2 DEF StartPod, StopPod
<1>3. CASE q = p /\ StartPod(p)
  <2>1. pods'[q] = [sts |-> sts.uid, marked |-> FALSE]
    BY <1>0, <1>3 DEF StartPod
  <2>2. pods'[q].marked = FALSE
    BY <2>1
  <2> QED
    BY <1>1, <2>2
<1>4. CASE q = p /\ StopPod(p)
  <2>1. pods'[q] = NoPod
    BY <1>0, <1>4 DEF StopPod
  <2> QED
    BY <1>1, <2>1, Absent
<1> QED
  BY <1>2, <1>3, <1>4

(* A pod that is marked, of the StatefulSet there is, was there before. *)
LEMMA MarkedBefore ==
    ASSUME TypeOK, TypeOK', CopyInv, UidInv, [Next]_vars, NEW p \in Pods, MarkedOf(p)'
    PROVE  /\ pods[p].sts = sts.uid /\ sts'.uid = sts.uid /\ sts' # NoSts
           /\ sts.uid \in Nat \ {0} /\ sts.uid <= created
           /\ ~pods[p].marked => MarkPod /\ pc = "mark" /\ pc' = "mark"
<1>0. pods'[p].marked /\ pods'[p].sts = sts'.uid
  BY DEF MarkedOf
<1>1. pods'[p].sts = pods[p].sts
  BY <1>0, Frame, MarkEffect, PodEffect
<1>2. pods'[p].sts # 0
  <2>1. pods'[p] \in RunningPods \cup {NoPod}
    BY DEF TypeOK
  <2> QED
    BY <1>0, <2>1, PodFields
<1>3. pods[p].sts \in Nat \ {0} /\ pods[p].sts <= created
  BY <1>1, <1>2, Numbers DEF UidInv
<1>4. sts' # NoSts
  BY <1>0, <1>2, Absent
<1>5. sts'.uid = sts.uid
  <2>1. UNCHANGED sts \/ Build
    BY <1>4, Frame, DeleteStsEffect DEF CollectGarbage
  <2>2. ~(created' = created + 1 /\ sts'.uid = created')
    BY <1>0, <1>1, <1>3, Numbers
  <2> QED
    BY <2>1, <2>2, BuildEffect
<1>6. ASSUME ~pods[p].marked
      PROVE  MarkPod /\ pc = "mark" /\ pc' = "mark"
  <2>1. MarkPod /\ pods' # pods
    BY <1>0, <1>6, Frame, PodEffect
  <2> QED
    BY <2>1, MarkEffect DEF MarkPod
<1> QED
  BY <1>0, <1>1, <1>3, <1>4, <1>5, <1>6

(* prepareForDeletion goes on to delete the StatefulSet, or leaves it over. *)
LEMMA MarkStep ==
    ASSUME TypeOK, TypeOK', CopyInv, UidInv, ForwardInv, MarkInv, [Next]_vars
    PROVE  MarkInv'
<1> SUFFICES ASSUME restarts' = 0, NEW p \in Pods, MarkedOf(p)', pc' \notin Marking
             PROVE  leftOver'
  BY DEF MarkInv
<1>1. ~Restart /\ restarts = 0
  BY Frame, RestartEffect
<1>2. MarkedOf(p) /\ sts' # NoSts
  <2>1. pods[p].marked
    BY MarkedBefore DEF Marking
  <2> QED
    BY <2>1, MarkedBefore DEF MarkedOf
<1>3. CASE Logged
  BY <1>2, <1>3 DEF Logged, MarkedOf
<1>4. CASE ~Logged
  <2>1. pc \notin Marking
    BY <1>1, <1>2, <1>4, Control
  <2>2. leftOver
    BY <1>1, <1>2, <2>1 DEF MarkInv
  <2> QED
    BY <1>2, <1>4, <2>2, Frame
<1> QED
  BY <1>3, <1>4

(* Only the pods of a StatefulSet whose cluster is deleted are marked. *)
LEMMA DoomedStep ==
    ASSUME TypeOK, TypeOK', CopyInv, UidInv, GoneInv, OwnerInv, ForwardInv, DoomedInv, [Next]_vars
    PROVE  DoomedInv'
<1> SUFFICES ASSUME restarts' = 0, NEW p \in Pods, MarkedOf(p)', ~sts'.adopted
             PROVE  ~Alive(sts.owner)'
  BY DEF DoomedInv
<1>1. restarts = 0
  BY Frame, RestartEffect
<1>2. sts # NoSts /\ ~sts.adopted /\ sts.owner = sts'.owner
  BY MarkedBefore, SameOwner, Absent
<1>3. sts.owner \in Nat \ {0} /\ sts.owner <= clusters
  BY <1>2, Values, StsFields DEF UidInv
<1>4. ~Alive(sts.owner)
  <2>1. CASE pods[p].marked
    BY <1>1, <1>2, <2>1, MarkedBefore DEF DoomedInv, MarkedOf
  <2>2. CASE ~pods[p].marked
    <3>1. pc = "mark"
      BY <2>2, MarkedBefore
    <3>2. sts.uid = uid
      BY <1>1, <1>2, <3>1 DEF ForwardInv, LatestInv, HasUID
    <3>3. sts.owner = copy.uid
      BY <1>2, <3>1, <3>2 DEF OwnerInv, HasUID
    <3> QED
      BY <3>1, <3>3 DEF CopyInv, GoneInv, Deleting
  <2> QED
    BY <2>1, <2>2
<1>5. ASSUME Alive(sts.owner)'
      PROVE  FALSE
  <2>1. PICK u \in Nat \ {0} : u = sts.owner
    BY <1>3
  <2>2. Alive(u)'
    BY <1>2, <1>5, <2>1 DEF Alive
  <2>3. u <= clusters /\ ~Alive(u)
    BY <1>3, <1>4, <2>1
  <2> QED
    BY <2>2, <2>3, NoRevival
<1> QED
  BY <1>5

-----------------------------------------------------------------------------
(* Theorems *)

(* At first there is nothing. *)
LEMMA DeletionInit == Init => DeletionInv
<1> SUFFICES ASSUME Init PROVE DeletionInv
  OBVIOUS
<1>1. TypeOK
  <2>1. cache \in Views /\ behind \in Views
    BY DEF Init, Nothing, Views
  <2>2. pods \in [Pods -> RunningPods \cup {NoPod}]
    BY DEF Init
  <2>3. /\ uid \in 0 .. MaxSts /\ tries \in 0 .. MaxTries /\ clusters \in 0 .. MaxClusters
        /\ created \in 0 .. MaxSts /\ faults \in 0 .. MaxFaults
        /\ restarts \in 0 .. MaxRestarts
    BY DeletionAssumption DEF Init
  <2>4. queued \in BOOLEAN /\ current \in BOOLEAN /\ leftOver \in BOOLEAN
    BY DEF Init
  <2>5. listed \in [Pods -> Copies]
    BY DEF Init, NoneListed, Copies
  <2> QED
    BY <2>1, <2>2, <2>3, <2>4, <2>5 DEF Init, TypeOK
<1>2. /\ cache.rmq = NoCluster /\ behind.rmq = NoCluster
      /\ cache.sts = NoSts /\ behind.sts = NoSts
  BY DEF Init, Nothing
<1>3. CopyInv /\ GoneInv /\ OwnerInv
  BY <1>2, Absent DEF Init, CopyInv, GoneInv, OwnerInv, Living, Deleting, HasUID
<1>4. UidInv
  BY <1>2, Absent DEF Init, UidInv
<1>5. ForwardInv
  BY <1>2, Absent DEF Init, ForwardInv, FinalizerInv, SuccessionInv, LatestInv, Living,
                      Deleting, HasUID
<1>6. MarkInv /\ DoomedInv
  BY Absent DEF Init, MarkInv, DoomedInv, MarkedOf
<1> QED
  BY <1>1, <1>3, <1>4, <1>5, <1>6 DEF DeletionInv

(* Every step keeps the invariant. *)
LEMMA DeletionStep == DeletionInv /\ [Next]_vars => DeletionInv'
  BY TypeStep, CopyStep, UidStep, GoneStep, OwnerStep, ForwardStep, MarkStep, DoomedStep
  DEF DeletionInv

(***************************************************************************)
(* The inductive invariant: what prepareForDeletion and Reconcile may      *)
(* conclude from caches that lag or have gone back in time.                *)
(***************************************************************************)
THEOREM DeletionInvariant == Spec => []DeletionInv
  BY DeletionInit, DeletionStep, PTL DEF Spec

(***************************************************************************)
(* Objects keep their types: no StatefulSet is built without an image or   *)
(* an owner.                                                               *)
(***************************************************************************)
THEOREM DeletionTypeCorrect == Spec => []TypeOK
<1>1. DeletionInv => TypeOK
  BY DEF DeletionInv
<1> QED
  BY <1>1, DeletionInvariant, PTL

(***************************************************************************)
(* Until the operator is restarted addRabbitmqDeletionLabel leaves no mark *)
(* on a pod of a cluster that is alive, however many conflicts and errors  *)
(* there are, except where that cluster has adopted what a deletion that   *)
(* failed half way has left over.                                          *)
(***************************************************************************)
THEOREM DeletionMarks == Spec => []MarkedIsDeleted
<1>1. DeletionInv => MarkedIsDeleted
  <2> SUFFICES ASSUME DeletionInv, restarts = 0, NEW p \in Pods,
                      pods[p].marked, sts.uid = pods[p].sts, ~(sts.adopted /\ leftOver)
               PROVE  ~Alive(sts.owner)
    BY DEF MarkedIsDeleted
  <2>0. CASE ~sts.adopted
    BY <2>0 DEF DeletionInv, DoomedInv, MarkedOf
  <2> SUFFICES ASSUME sts.adopted PROVE ~Alive(sts.owner)
    BY <2>0
  <2>1. pc \in Deleting
    BY DEF DeletionInv, MarkInv, MarkedOf, Marking, Deleting
  <2>2. sts.owner <= copy.uid /\ copy.deleting /\ ~Alive(copy.uid)
    BY <2>1 DEF DeletionInv, ForwardInv, SuccessionInv, CopyInv, GoneInv
  <2>3. sts.owner # 0
    <3>1. sts.uid # 0
      BY Values, PodFields DEF DeletionInv
    <3> QED
      BY <3>1, Values, StsFields DEF DeletionInv
  <2>4. ASSUME rmq.uid = sts.owner
        PROVE  rmq.uid = copy.uid
    BY <2>2, <2>3, <2>4, Numbers DEF DeletionInv, UidInv
  <2> QED
    BY <2>2, <2>4 DEF Alive
<1> QED
  BY <1>1, DeletionInvariant, PTL

(***************************************************************************)
(* The precondition on the UID: prepareForDeletion never deletes the       *)
(* StatefulSet of a cluster that is alive, unless it was adopted.          *)
(***************************************************************************)
THEOREM DeletionHitsNoLiving == Spec => NoMisdelete
<1>1. DeletionInv /\ [Next]_vars =>
          [pc = "delete" /\ sts # NoSts /\ sts' = NoSts => sts.adopted \/ ~Alive(sts.owner)]_vars
  <2> SUFFICES ASSUME DeletionInv, [Next]_vars, pc = "delete", sts # NoSts, sts' = NoSts,
                      ~sts.adopted
               PROVE  ~Alive(sts.owner)
    OBVIOUS
  <2>1. CASE CollectGarbage
    BY <2>1 DEF CollectGarbage, Alive
  <2>2. CASE DeleteSts
    <3>1. sts.uid = uid
      BY <2>2, DeleteStsEffect
    <3>2. sts.owner = copy.uid
      BY <3>1 DEF DeletionInv, OwnerInv, HasUID
    <3>3. ~Alive(copy.uid)
      BY DEF DeletionInv, CopyInv, GoneInv, Deleting
    <3> QED
      BY <3>2, <3>3
  <2>3. ~Build
    BY DEF Build
  <2> QED
    BY <2>1, <2>2, <2>3, Frame
<1> QED
  BY <1>1, DeletionInvariant, PTL DEF Spec, NoMisdelete

(***************************************************************************)
(* The finalizer keeps the RabbitmqCluster in place while its StatefulSet  *)
(* is written, unless a restart has taken the caches back in time.         *)
(***************************************************************************)
THEOREM DeletionBuiltForExisting == Spec => BuiltForExisting
<1>1. DeletionInv /\ [Next]_vars =>
          [restarts = 0 /\ pc = "build" /\ sts' # sts /\ sts' # NoSts
              => sts'.owner = rmq.uid]_vars
  <2> SUFFICES ASSUME DeletionInv, [Next]_vars, restarts = 0, pc = "build", sts' # sts,
                      sts' # NoSts
               PROVE  sts'.owner = rmq.uid
    OBVIOUS
  <2>1. Build
    BY Frame, DeleteStsEffect DEF CollectGarbage
  <2>2. sts'.owner = copy.uid
    BY <2>1, BuildEffect DEF DeletionInv
  <2>3. copy.uid = rmq.uid
    BY DEF DeletionInv, CopyInv, ForwardInv, FinalizerInv, Living
  <2> QED
    BY <2>2, <2>3
<1> QED
  BY <1>1, DeletionInvariant, PTL DEF Spec, BuiltForExisting

(***************************************************************************)
(* reconcileOperatorDefaults never replaces the image that a user has      *)
(* chosen, whatever it does after a conflict.                              *)
(***************************************************************************)
THEOREM DeletionChosenImageKept == Spec => ChosenImageKept
<1>1. DeletionInv /\ [Next]_vars =>
          [rmq.image = "custom" /\ rmq'.uid = rmq.uid => rmq'.image = "custom"]_vars
  <2> SUFFICES ASSUME DeletionInv, [Next]_vars, rmq.image = "custom", rmq'.uid = rmq.uid
               PROVE  rmq'.image = "custom"
    OBVIOUS
  <2>0. TypeOK /\ CopyInv /\ rmq # NoCluster /\ rmq.uid # 0
    <3>1. rmq # NoCluster
      BY DEF NoCluster, NoImage
    <3> QED
      BY <3>1, Values, ClusterFields DEF DeletionInv
  <2>1. CASE UNCHANGED rmq
    BY <2>1
  <2>2. CASE Defaults
    BY <2>0, <2>2, DefaultsEffect
  <2>3. CASE AddFinalizer
    BY <2>0, <2>3, AddFinalizerEffect
  <2>4. CASE RemoveFinalizer
    BY <2>0, <2>4, Absent DEF RemoveFinalizer
  <2>5. CASE Create
    BY <2>0, <2>5, CreateEffect
  <2>6. CASE Edit \/ Delete
    BY <2>0, <2>6, UserEffect, Absent
  <2> QED
    BY <2>1, <2>2, <2>3, <2>4, <2>5, <2>6, Frame DEF User
<1> QED
  BY <1>1, DeletionInvariant, PTL DEF Spec, ChosenImageKept
=============================================================================
