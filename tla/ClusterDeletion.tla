--------------------------- MODULE ClusterDeletion ---------------------------
(***************************************************************************)
(* The RabbitMQ cluster operator: the life and death of a RabbitmqCluster. *)
(* Reconcile fills in the operator's defaults, adds a finalizer and writes *)
(* the StatefulSet with the RabbitmqCluster as its owner.  For a cluster   *)
(* that is being deleted prepareForDeletion marks the pods, so that their  *)
(* pre-stop hooks skip the checks, deletes the StatefulSet under a         *)
(* precondition on its UID, and removes the finalizer, after a failure     *)
(* too.  A user may create the cluster again under the same name.          *)
(*                                                                         *)
(* The worker reads the RabbitmqCluster and the StatefulSet from caches    *)
(* that lag behind; after a restart they may even go back, to what a       *)
(* lagging API server has.  External: the API server (optimistic           *)
(* concurrency, finalizers), the StatefulSet controller and the garbage    *)
(* collector, which deletes a StatefulSet whose owner is gone.             *)
(***************************************************************************)
EXTENDS Naturals

CONSTANTS
    Pods,           \* names of the pods of the StatefulSet
    MaxClusters,    \* bound: RabbitmqClusters created, one after the other
    MaxSts,         \* bound: StatefulSets created
    MaxTries,       \* attempts of RetryOnConflict (5 in the code)
    MaxFaults,      \* bound: API calls that fail
    MaxRestarts     \* bound: restarts of the operator

ASSUME DeletionAssumption ==
    /\ MaxClusters \in Nat \ {0}
    /\ MaxSts \in Nat
    /\ MaxTries \in Nat \ {0}
    /\ MaxFaults \in Nat
    /\ MaxRestarts \in Nat

Images == {"default", "custom"}
NoImage == "none"

Clusters == [uid : 1 .. MaxClusters, deleting : BOOLEAN, finalizer : BOOLEAN,
             image : Images \cup {NoImage}]
NoCluster == [uid |-> 0, deleting |-> FALSE, finalizer |-> FALSE, image |-> NoImage]

\* owner: the UID of the RabbitmqCluster in the controller reference; adopted: it
\* has replaced another one
StatefulSets == [uid : 1 .. MaxSts, owner : 1 .. MaxClusters, image : Images, adopted : BOOLEAN]
NoSts == [uid |-> 0, owner |-> 0, image |-> NoImage, adopted |-> FALSE]

\* sts: the UID of the StatefulSet that started the pod
RunningPods == [sts : 1 .. MaxSts, marked : BOOLEAN]
NoPod == [sts |-> 0, marked |-> FALSE]

\* The copies of a pod in the list: the pod as it is, as it was, or none.
Copies == {"current", "stale", "none"}
NoneListed == [p \in Pods |-> "none"]

VARIABLES
    rmq,        \* the RabbitmqCluster
    sts,        \* the StatefulSet
    pods,       \* the pods
    cache,      \* [rmq, sts]: the operator's caches
    behind,     \* [rmq, sts]: what a lagging API server has
    queued,     \* the work queue has a request
    pc,         \* next step of the reconcile that runs
    copy,       \* the RabbitmqCluster it works on
    current,    \* no one else has changed the RabbitmqCluster since it was read
    uid,        \* the UID that statefulSetUID returned
    listed,     \* listed[p]: the copy of p that addRabbitmqDeletionLabel has yet to mark
    tries,      \* attempts of RetryOnConflict that are left
    leftOver,   \* it has gone on after an error, with pods of sts marked (history)
    clusters, created, faults, restarts

api == <<rmq, sts, pods, clusters, created>>
work == <<copy, current, uid, listed, tries>>
tally == <<faults, restarts, leftOver>>
vars == <<api, cache, behind, queued, pc, work, tally>>

Views == [rmq : Clusters \cup {NoCluster}, sts : StatefulSets \cup {NoSts}]

TypeOK ==
    /\ rmq \in Clusters \cup {NoCluster}
    /\ sts \in StatefulSets \cup {NoSts}
    /\ pods \in [Pods -> RunningPods \cup {NoPod}]
    /\ cache \in Views
    /\ behind \in Views
    /\ queued \in BOOLEAN
    /\ pc \in {"idle", "defaults", "finalizer", "build", "uid", "list", "mark", "delete",
               "remove"}
    /\ copy \in Clusters \cup {NoCluster}
    /\ current \in BOOLEAN
    /\ uid \in 0 .. MaxSts
    /\ listed \in [Pods -> Copies]
    /\ tries \in 0 .. MaxTries
    /\ leftOver \in BOOLEAN
    /\ clusters \in 0 .. MaxClusters
    /\ created \in 0 .. MaxSts
    /\ faults \in 0 .. MaxFaults
    /\ restarts \in 0 .. MaxRestarts

Nothing == [rmq |-> NoCluster, sts |-> NoSts]
Present == [rmq |-> rmq, sts |-> sts]

Init ==
    /\ rmq = NoCluster
    /\ sts = NoSts
    /\ pods = [p \in Pods |-> NoPod]
    /\ cache = Nothing
    /\ behind = Nothing
    /\ queued = FALSE
    /\ pc = "idle"
    /\ copy = NoCluster /\ current = FALSE
    /\ uid = 0 /\ listed = NoneListed /\ tries = 0
    /\ leftOver = FALSE
    /\ clusters = 0 /\ created = 0 /\ faults = 0 /\ restarts = 0

-----------------------------------------------------------------------------
(* Reconcile *)

Forget == copy' = NoCluster /\ current' = FALSE /\ uid' = 0 /\ listed' = NoneListed /\ tries' = 0

Return == pc' = "idle" /\ Forget /\ UNCHANGED queued

\* Reconcile returns an error: the request is queued again.
ReturnError == pc' = "idle" /\ Forget /\ queued' = TRUE

\* getRabbitmqCluster, and the branch for a cluster that is being deleted.
Begin ==
    /\ pc = "idle" /\ queued
    /\ queued' = FALSE
    /\ \/ /\ cache.rmq = NoCluster \/ (cache.rmq.deleting /\ ~cache.rmq.finalizer)
          /\ pc' = "idle" /\ Forget
       \/ /\ cache.rmq # NoCluster /\ (cache.rmq.deleting => cache.rmq.finalizer)
          /\ copy' = cache.rmq
          /\ current' = (cache.rmq = rmq)
          /\ pc' = IF copy'.deleting THEN "uid" ELSE "defaults"
          /\ tries' = MaxTries
          /\ UNCHANGED <<uid, listed>>
    /\ UNCHANGED <<api, cache, behind, tally>>

\* Update of the copy.  It is refused with a conflict when somebody has changed
\* the object, and not found when there is none.
Conflict == ~current /\ rmq # NoCluster

\* Faulty: the default is not filled in.
DefaultsSkipped ==
    /\ pc = "defaults"
    /\ pc' = "finalizer"
    /\ UNCHANGED <<api, cache, behind, queued, work, tally>>

\* Faulty: writes whatever the version.
DefaultsForced ==
    /\ pc = "defaults"
    /\ pc' = "finalizer"
    /\ copy' = [copy EXCEPT !.image = IF @ = NoImage THEN "default" ELSE @]
    /\ rmq' = IF copy.image = NoImage /\ rmq # NoCluster THEN [rmq EXCEPT !.image = "default"]
              ELSE rmq
    /\ UNCHANGED <<sts, pods, clusters, created, cache, behind, queued, current, uid,
                   listed, tries, tally>>

\* reconcileOperatorDefaults, for the image.  The two seconds that
\* updateRabbitmqCluster returns on a conflict come with a nil error and are
\* dropped: the reconcile goes on with its copy.
Defaults ==
    /\ pc = "defaults"
    /\ \/ /\ copy.image # NoImage \/ current \/ Conflict
          /\ copy' = [copy EXCEPT !.image = IF @ = NoImage THEN "default" ELSE @]
          /\ rmq' = IF current THEN copy' ELSE rmq
          /\ pc' = "finalizer"
          /\ UNCHANGED <<queued, current, uid, listed, tries>>
       \/ /\ copy.image = NoImage /\ ~current /\ ~Conflict
          /\ ReturnError
          /\ UNCHANGED rmq
    /\ UNCHANGED <<sts, pods, clusters, created, cache, behind, tally>>

\* Faulty: the finalizer stays in the copy.
AddFinalizerLocally ==
    /\ pc = "finalizer"
    /\ copy' = [copy EXCEPT !.finalizer = TRUE]
    /\ pc' = "build"
    /\ UNCHANGED <<api, queued, cache, behind, current, uid, listed, tries, tally>>

AddFinalizer ==
    /\ pc = "finalizer"
    /\ \/ /\ copy.finalizer \/ current
          /\ copy' = [copy EXCEPT !.finalizer = TRUE]
          /\ rmq' = IF current THEN copy' ELSE rmq
          /\ pc' = "build"
          /\ UNCHANGED <<queued, current, uid, listed, tries>>
       \/ /\ ~copy.finalizer /\ ~current
          /\ ReturnError
          /\ UNCHANGED rmq
    /\ UNCHANGED <<sts, pods, clusters, created, cache, behind, tally>>

\* Faulty: the update leaves the image.
BuildKeepsImage ==
    /\ pc = "build"
    /\ \/ /\ cache.sts = NoSts /\ sts = NoSts
          /\ created < MaxSts
          /\ created' = created + 1
          /\ sts' = [uid |-> created', owner |-> copy.uid, image |-> copy.image,
                     adopted |-> FALSE]
          /\ Return
       \/ /\ cache.sts # NoSts /\ cache.sts = sts
          /\ sts' = [sts EXCEPT !.owner = copy.uid, !.adopted = @ \/ sts.owner # copy.uid]
          /\ Return
          /\ UNCHANGED created
       \/ /\ cache.sts # sts \/ ~current \/ created = MaxSts
          /\ ReturnError
          /\ UNCHANGED <<sts, created>>
    /\ UNCHANGED <<rmq, pods, clusters, cache, behind, tally>>

\* CreateOrUpdate of the StatefulSet.  SetControllerReference accepts an owner of
\* the same kind and name, whatever its UID, and puts the copy's in its place.
\* A stale cache is a conflict; so are, with a stale copy, the conditions that
\* updateStatusConditions writes first if they have changed.
Build ==
    /\ pc = "build"
    /\ \/ /\ cache.sts = NoSts /\ sts = NoSts
          /\ created < MaxSts
          /\ created' = created + 1
          /\ sts' = [uid |-> created', owner |-> copy.uid, image |-> copy.image,
                     adopted |-> FALSE]
          /\ Return
       \/ /\ cache.sts # NoSts /\ cache.sts = sts
          /\ sts' = [sts EXCEPT !.owner = copy.uid, !.image = copy.image,
                                !.adopted = @ \/ sts.owner # copy.uid]
          /\ Return
          /\ UNCHANGED created
       \/ /\ cache.sts # sts \/ ~current \/ created = MaxSts
          /\ ReturnError
          /\ UNCHANGED <<sts, created>>
    /\ UNCHANGED <<rmq, pods, clusters, cache, behind, tally>>

-----------------------------------------------------------------------------
(* prepareForDeletion *)

\* The closure that RetryOnConflict runs has ended, ...
Done == pc' = "remove" /\ uid' = 0 /\ listed' = NoneListed /\ tries' = 0

\* ... and so it does with an error, which is only logged.
Logged ==
    /\ Done
    /\ leftOver' = (leftOver \/ \E p \in Pods : pods[p].marked /\ pods[p].sts = sts.uid)

\* Faulty: an error keeps the finalizer.
StatefulSetUIDFails ==
    /\ pc = "uid"
    /\ IF cache.sts # NoSts /\ cache.sts.owner = copy.uid
       THEN uid' = cache.sts.uid /\ pc' = "list" /\ UNCHANGED <<queued, copy, current, listed, tries>>
       ELSE ReturnError
    /\ UNCHANGED <<api, cache, behind, tally>>

StatefulSetUID ==
    /\ pc = "uid"
    /\ IF cache.sts # NoSts /\ cache.sts.owner = copy.uid
       THEN uid' = cache.sts.uid /\ pc' = "list" /\ UNCHANGED <<listed, tries, leftOver>>
       ELSE Logged
    /\ UNCHANGED <<api, cache, behind, queued, copy, current, faults, restarts>>

\* A conflict: all of it is tried again, as long as RetryOnConflict does.
TryAgain ==
    \/ /\ tries > 1
       /\ tries' = tries - 1 /\ pc' = "uid" /\ uid' = 0 /\ listed' = NoneListed
       /\ UNCHANGED leftOver
    \/ tries <= 1 /\ Logged

\* addRabbitmqDeletionLabel: the pods that the cache has, some of them as they were
\* before they were changed or deleted, ...
ListPods ==
    /\ pc = "list"
    /\ listed' \in [Pods -> Copies]
    /\ \A p \in Pods : listed'[p] = "current" => pods[p] # NoPod
    /\ pc' = "mark"
    /\ UNCHANGED <<api, cache, behind, queued, copy, current, uid, tries, tally>>

\* ... and one update for each: refused with a conflict when the copy is not the pod
\* there is, and ignored when there is none.
MarkPod ==
    /\ pc = "mark"
    /\ \/ \E p \in Pods :
            /\ listed[p] # "none"
            /\ \/ /\ listed[p] = "current" \/ pods[p] = NoPod
                  /\ pods' = [pods EXCEPT ![p].marked = (pods[p] # NoPod)]
                  /\ listed' = [listed EXCEPT ![p] = "none"]
                  /\ UNCHANGED <<pc, uid, tries, leftOver>>
               \/ /\ listed[p] = "stale" /\ pods[p] # NoPod
                  /\ TryAgain
                  /\ UNCHANGED pods
       \/ /\ listed = NoneListed
          /\ pc' = "delete"
          /\ UNCHANGED <<listed, uid, tries, leftOver, pods>>
    /\ UNCHANGED <<rmq, sts, clusters, created, cache, behind, queued, copy, current, faults,
                   restarts>>

\* Faulty: leaves the StatefulSet to the garbage collector.
LeaveSts ==
    /\ pc = "delete"
    /\ Done
    /\ UNCHANGED <<api, cache, behind, queued, copy, current, tally>>

\* Faulty: no precondition on the UID.
DeleteByName ==
    /\ pc = "delete"
    /\ sts' = NoSts
    /\ Done
    /\ UNCHANGED <<rmq, pods, clusters, created, cache, behind, queued, copy, current, tally>>

\* Delete under the precondition: another UID is a conflict.
DeleteSts ==
    /\ pc = "delete"
    /\ \/ /\ sts = NoSts \/ sts.uid = uid
          /\ sts' = NoSts
          /\ Done
          /\ leftOver' = FALSE
       \/ /\ sts # NoSts /\ sts.uid # uid
          /\ UNCHANGED sts
          /\ TryAgain
    /\ UNCHANGED <<rmq, pods, clusters, created, cache, behind, queued, copy, current, faults,
                   restarts>>

\* removeFinalizer: the API server removes an object that was waiting for it.
RemoveFinalizer ==
    /\ pc = "remove"
    /\ \/ current /\ rmq' = NoCluster /\ Return
       \/ ~current /\ ReturnError /\ UNCHANGED rmq
    /\ UNCHANGED <<sts, pods, clusters, created, cache, behind, tally>>

\* A call fails: Reconcile returns the error, or prepareForDeletion logs it.
Fault ==
    /\ faults < MaxFaults
    /\ faults' = faults + 1
    /\ \/ pc \in {"defaults", "finalizer", "build", "remove"} /\ ReturnError /\ UNCHANGED leftOver
       \/ pc \in {"uid", "list", "mark", "delete"} /\ Logged /\ UNCHANGED <<queued, copy, current>>
    /\ UNCHANGED <<api, cache, behind, restarts>>

-----------------------------------------------------------------------------
(* The environment *)

\* The operator is restarted and lists what the API server it reaches has.
Restart ==
    /\ restarts < MaxRestarts
    /\ restarts' = restarts + 1
    /\ cache' \in {behind, Present}
    /\ behind' = Nothing
    /\ queued' = TRUE
    /\ pc' = "idle"
    /\ Forget
    /\ UNCHANGED <<api, faults, leftOver>>

\* An API server begins to lag: until the next restart it has this state.
Lag ==
    /\ restarts < MaxRestarts
    /\ behind = Nothing /\ Present # Nothing
    /\ behind' = Present
    /\ UNCHANGED <<api, cache, queued, pc, work, tally>>

\* The events of one of the two objects reach its cache, and queue a request.
CacheSync ==
    /\ cache' \in {[cache EXCEPT !.rmq = rmq], [cache EXCEPT !.sts = sts]} \ {cache}
    /\ queued' = TRUE
    /\ UNCHANGED <<api, behind, pc, work, tally>>

\* A user creates the cluster, with or without an image, ...
Create ==
    /\ rmq = NoCluster
    /\ clusters < MaxClusters
    /\ clusters' = clusters + 1
    /\ \E image \in {NoImage, "custom"} :
          rmq' = [uid |-> clusters', deleting |-> FALSE, finalizer |-> FALSE, image |-> image]
    /\ current' = FALSE
    /\ UNCHANGED <<sts, pods, created, cache, behind, queued, pc, copy, uid, listed, tries,
                   tally>>

\* ... chooses an image, ...
Edit ==
    /\ rmq # NoCluster /\ ~rmq.deleting /\ rmq.image # "custom"
    /\ rmq' = [rmq EXCEPT !.image = "custom"]
    /\ current' = FALSE
    /\ UNCHANGED <<sts, pods, clusters, created, cache, behind, queued, pc, copy, uid, listed,
                   tries, tally>>

\* ... and deletes the cluster, which waits for its finalizer.
Delete ==
    /\ rmq # NoCluster /\ ~rmq.deleting
    /\ rmq' = IF rmq.finalizer THEN [rmq EXCEPT !.deleting = TRUE] ELSE NoCluster
    /\ current' = FALSE
    /\ UNCHANGED <<sts, pods, clusters, created, cache, behind, queued, pc, copy, uid, listed,
                   tries, tally>>

\* The garbage collector deletes a StatefulSet whose owner is gone.
CollectGarbage ==
    /\ sts # NoSts /\ sts.owner # rmq.uid
    /\ sts' = NoSts
    /\ leftOver' = FALSE
    /\ UNCHANGED <<rmq, pods, clusters, created, cache, behind, queued, pc, work, faults,
                   restarts>>

\* A pod is started, and ends some time after its StatefulSet is gone; a copy of it
\* in the list is then one of the past.
Changed(p) == listed' = [listed EXCEPT ![p] = IF @ = "current" THEN "stale" ELSE @]

StartPod(p) ==
    /\ sts # NoSts /\ pods[p] = NoPod
    /\ pods' = [pods EXCEPT ![p] = [sts |-> sts.uid, marked |-> FALSE]]
    /\ Changed(p)
    /\ UNCHANGED <<rmq, sts, clusters, created, cache, behind, queued, pc, copy, current, uid,
                   tries, tally>>

StopPod(p) ==
    /\ pods[p] # NoPod /\ pods[p].sts # sts.uid
    /\ pods' = [pods EXCEPT ![p] = NoPod]
    /\ Changed(p)
    /\ UNCHANGED <<rmq, sts, clusters, created, cache, behind, queued, pc, copy, current, uid,
                   tries, tally>>

-----------------------------------------------------------------------------
Reconcile ==
    \/ Begin \/ Defaults \/ AddFinalizer \/ Build
    \/ StatefulSetUID \/ ListPods \/ MarkPod \/ DeleteSts \/ RemoveFinalizer

Kubernetes == CollectGarbage \/ \E p \in Pods : StartPod(p) \/ StopPod(p)

User == Create \/ Edit \/ Delete

Next == Reconcile \/ Fault \/ Restart \/ Lag \/ CacheSync \/ User \/ Kubernetes

Spec == Init /\ [][Next]_vars

FairSpec == Spec /\ WF_vars(Reconcile) /\ WF_vars(CacheSync) /\ WF_vars(Kubernetes)

-----------------------------------------------------------------------------
(* Properties *)

\* The cluster with this UID is there and is to stay.
Alive(u) == rmq.uid = u /\ ~rmq.deleting

(***************************************************************************)
(* reconcile_finalizer.go: the UID in the precondition "can avoid          *)
(* mis-deleting any currently running statefulSet sharing the same name".  *)
(* The operator never deletes the StatefulSet of a cluster that is alive,  *)
(* not even with caches that a restart has taken back in time.  This is    *)
(* about a StatefulSet created for its owner: one that a failed deletion   *)
(* has left behind, and that the next cluster has adopted, has the UID     *)
(* that the stale cache has.                                               *)
(***************************************************************************)
NoMisdelete ==
    [][pc = "delete" /\ sts # NoSts /\ sts' = NoSts
        => sts.adopted \/ ~Alive(sts.owner)]_vars

(***************************************************************************)
(* A pod that skips its pre-stop checks belongs to no cluster that is      *)
(* alive, unless that cluster has adopted the StatefulSet: the marking has *)
(* failed half way, on conflicts with a stale list or on an error, the     *)
(* finalizer was removed all the same, and the cluster was created again   *)
(* before the garbage collector came.  This holds until the operator is    *)
(* restarted: with caches that have gone back in time it may mark the pods *)
(* of a cluster that is alive, as no precondition on a UID protects them.  *)
(***************************************************************************)
MarkedIsDeleted ==
    restarts = 0 =>
        \A p \in Pods :
            pods[p].marked /\ sts.uid = pods[p].sts => ~Alive(sts.owner) \/ (sts.adopted /\ leftOver)

(***************************************************************************)
(* The finalizer keeps a RabbitmqCluster in place while it is reconciled:  *)
(* without a restart that takes the caches back in time, the StatefulSet   *)
(* is only written for a cluster that exists.                              *)
(***************************************************************************)
BuiltForExisting ==
    [][restarts = 0 /\ pc = "build" /\ sts' # sts /\ sts' # NoSts
        => sts'.owner = rmq.uid]_vars

(***************************************************************************)
(* A default never replaces the image that a user has chosen, although the *)
(* reconcile goes on with its copy after a conflict.                       *)
(***************************************************************************)
ChosenImageKept ==
    [][rmq.image = "custom" /\ rmq'.uid = rmq.uid => rmq'.image = "custom"]_vars

(***************************************************************************)
(* The deletion of a cluster completes, whatever fails on the way.         *)
(***************************************************************************)
DeletionCompletes == []<>~rmq.deleting

(***************************************************************************)
(* In the end the StatefulSet is that of the cluster that exists, with the *)
(* image it asks for, and without a cluster there is none, although a      *)
(* failed deletion leaves it to the garbage collector, a later cluster may *)
(* adopt it, and a conflict on the default image asks for no retry.        *)
(***************************************************************************)
EndsConsistent ==
    <>[](created < MaxSts => sts.owner = rmq.uid /\ sts.image = rmq.image)
=============================================================================
