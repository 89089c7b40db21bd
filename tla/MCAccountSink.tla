---------------------------- MODULE MCAccountSink ---------------------------
(* The sinks alone for TLC: any publisher, up to MaxLog messages. *)
EXTENDS AccountSink, TLC

CONSTANTS
    p1, p2, CA, NY,
    MaxLog,         \* bound: messages in the stream
    MaxSuperLog     \* bound: messages in the super stream

Base == [profile |-> "stream", isUseFilter |-> FALSE, offset |-> "last",
         singleActiveConsumer |-> FALSE, filterValues |-> {}, ddlAuto |-> "create"]

SuperStream == [Base EXCEPT !.profile = "superStream", !.singleActiveConsumer = TRUE,
                            !.ddlAuto = "update"]

\* The defaults of application-stream.yml and the settings of the demos; under
\* superStream the sink looks neither at the offset nor at filter values.
MCDeployments ==
    {[Base EXCEPT !.offset = o, !.singleActiveConsumer = TRUE, !.ddlAuto = d] :
        o \in {"first", "next", "last"}, d \in {"create", "update"}}
    \cup
    {Base} \cup {[Base EXCEPT !.offset = "first", !.ddlAuto = d] : d \in {"create", "update"}}
    \cup
    {[Base EXCEPT !.isUseFilter = u, !.offset = "first", !.filterValues = {CA},
                  !.singleActiveConsumer = s, !.ddlAuto = "update"] :
        u \in BOOLEAN, s \in BOOLEAN}
    \cup
    {SuperStream}

\* Single active consumers with rabbitmq.streaming.offset = last, its default.
MCLastDeployments ==
    {SuperStream, [Base EXCEPT !.singleActiveConsumer = TRUE, !.ddlAuto = "update"]}

MCPartitions == {p1, p2}
MCPartitionOf == [type \in Types |-> p1]

Published == Len(log[p1]) + Len(log[p2])

\* A source publishes with or without filter values throughout.
MCEvents ==
    {[n |-> Published + 1, id |-> id, type |-> NoType, state |-> state,
      filterValue |-> IF conf.isUseFilter THEN state ELSE NoValue] :
        id \in IF Filtering \/ SingleActive THEN Ids ELSE Ids \cup {NoId},
        state \in IF Filtering THEN States ELSE {CA}}

MCPublish ==
    \E p \in Consumed, event \in MCEvents :
        /\ Published < IF conf.profile = "stream" THEN MaxLog ELSE MaxSuperLog
        /\ AppendTo(p, event)
        /\ UNCHANGED <<conf, sinkVars>>

MCVars == <<conf, log, sinkVars>>
MCSpec == SinkInit /\ [][SinkNext \/ MCPublish]_MCVars
MCFairSpec == MCSpec /\ SinkFairness
=============================================================================
