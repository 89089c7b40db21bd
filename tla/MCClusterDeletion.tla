-------------------------- MODULE MCClusterDeletion --------------------------
(***************************************************************************)
(* Two clusters, one after the other: of one node, with restarts onto a    *)
(* lagging API server, or of two nodes, so that the marking may fail half  *)
(* way, with an image from the start and without restarts.                 *)
(***************************************************************************)
EXTENDS ClusterDeletion

CONSTANTS p1, p2

VARIABLE replicas

MCVars == <<vars, replicas>>

MCInit == Init /\ replicas \in {1, 2}

Bounded(Step) ==
    /\ Step
    /\ replicas = 1 => pods'[p2] = NoPod
    /\ replicas = 2 =>
          /\ restarts' = 0 /\ behind' = Nothing
          /\ rmq' # NoCluster => rmq'.image = "custom"
    /\ UNCHANGED replicas

MCReconcile ==
    \/ Bounded(Begin)
    \/ Bounded(Defaults)
    \/ Bounded(AddFinalizer)
    \/ Bounded(Build)
    \/ Bounded(StatefulSetUID)
    \/ Bounded(ListPods)
    \/ Bounded(MarkPod)
    \/ Bounded(DeleteSts)
    \/ Bounded(RemoveFinalizer)

MCKubernetes ==
    \/ Bounded(CollectGarbage)
    \/ \E p \in Pods : Bounded(StartPod(p)) \/ Bounded(StopPod(p))

MCNext ==
    \/ MCReconcile
    \/ Bounded(Fault)
    \/ Bounded(Restart)
    \/ Bounded(Lag)
    \/ Bounded(CacheSync)
    \/ Bounded(Create)
    \/ Bounded(Edit)
    \/ Bounded(Delete)
    \/ MCKubernetes

MCFairSpec ==
    /\ MCInit /\ [][MCNext]_MCVars
    /\ WF_MCVars(MCReconcile) /\ WF_MCVars(Bounded(CacheSync)) /\ WF_MCVars(MCKubernetes)
=============================================================================
