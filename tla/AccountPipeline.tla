-------------------------- MODULE AccountPipeline ---------------------------
(***************************************************************************)
(* The account source and the account sink joined by the stream: a step is *)
(* a step of one of them, and the log is all they share.                   *)
(***************************************************************************)
EXTENDS AccountSource, AccountSink

vars == <<conf, log, sourceVars, sinkVars>>

Init == SourceInit /\ SinkInit

Next ==
    \/ SourceNext /\ UNCHANGED sinkVars
    \/ SinkNext /\ UNCHANGED sourceVars

Spec == Init /\ [][Next]_vars

FairSpec == Spec /\ SourceFairness /\ SinkFairness

-----------------------------------------------------------------------------
(* Properties *)

(***************************************************************************)
(* The stream filter never hides from the sink what it asked for: an event *)
(* whose stateProvince is one of the filter values, published by a source  *)
(* that sets filter values, is due; and no row of the table comes from an  *)
(* event outside the filter (RabbitStreamConfig of source and of sink).    *)
(***************************************************************************)
FilterEndToEnd ==
    Filtering =>
        \A p \in Partitions : \A k \in 1 .. Len(log[p]) :
            /\ k \in saved[p] => log[p][k].state \in conf.filterValues
            /\ conf.isUseFilter /\ log[p][k].state \in conf.filterValues
                   => Due(log[p][k])

(***************************************************************************)
(* From the REST endpoint to the table: an account whose request succeeded *)
(* under superStream is in the stream.  If it came after the first reader  *)
(* of its partition began and the stored offset of a single active sink    *)
(* has passed it, it has been saved or has thrown, or it was lost in the   *)
(* one way there is: an instance crashed or lost its connection before the *)
(* first offset was stored, and its successor began after the account.     *)
(***************************************************************************)
AcceptedNotPassedOver ==
    /\ conf.profile = "superStream"
    /\ SingleActive
    /\ conf.ddlAuto # "create"
    => \A n \in accepted : \E p \in Partitions : \E k \in 1 .. Len(log[p]) :
          /\ log[p][k].n = n
          /\ k \in from[p] .. stored[p] =>
                \/ Handled(p, k)
                \/ k < base[p] /\ sinkCrashes + sinkDrops > 0

=============================================================================
