--------------------------- MODULE FilterPipeline ---------------------------
(***************************************************************************)
(* stream-sql-filter-processor and account-sink joined by a stream: the    *)
(* sink reads the output of the processor.                                 *)
(***************************************************************************)
EXTENDS StreamFilter

CONSTANTS AccountType, MaxSinkCrashes

ASSUME MapSinkAssumption == AccountType \in Properties /\ MaxSinkCrashes \in Nat

VARIABLES sinkPos, sinkUnsettled, table, sinkCrashes

Sink == INSTANCE AccountMapSink WITH accounts <- output

mapSinkVars == <<sinkPos, sinkUnsettled, table, sinkCrashes>>
vars == <<streams, filterVars, mapSinkVars>>

TypeOK == FilterTypeOK /\ Sink!MapSinkTypeOK

Init == FilterInit /\ Sink!MapSinkInit

Next ==
    \/ (FilterNext \/ PublishInput) /\ UNCHANGED mapSinkVars
    \/ Sink!MapSinkNext /\ UNCHANGED <<offset, input, filterVars>>

Spec == Init /\ [][Next]_vars

FairSpec == Spec /\ FilterFairness /\ Sink!MapSinkFairness

-----------------------------------------------------------------------------
(* Properties *)

\* The input messages that both filters let through to the sink's table: the
\* processor forwards one property only, so the account type must be the first.
Passing(id) ==
    {k \in 1 .. Len(input) :
        /\ input[k].id = id
        /\ input[k].selected
        /\ input[k].properties # {}
        /\ FirstEntry(input[k].properties) = AccountType}

(***************************************************************************)
(* Both applications read from the first message, and after a crash of the *)
(* processor the output repeats older accounts after newer ones.  In the   *)
(* end the table shows the last passing account of every id, unless one of *)
(* the two starves or the last run of the processor had a publish refused. *)
(***************************************************************************)
TableIsLatest ==
    \A id \in Ids :
        \/ Passing(id) = {} /\ table[id] = 0
        \/ table[id] \in Passing(id) /\ \A k \in Passing(id) : k <= table[id]

TableSettlesOnLatest ==
    offset = "FIRST" =>
        <>[](TableIsLatest \/ Starved \/ Sink!SinkStarved \/ refused # {})
=============================================================================
