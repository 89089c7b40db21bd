------------------------- MODULE MCAccountPipeline --------------------------
(* The account source alone, and the source with sinks, for TLC. *)
EXTENDS AccountPipeline, TLC

CONSTANTS
    p1, p2, t1, t2, CA,
    MaxSinkPosts    \* bound: accounts posted where sinks read them

MCPartitions == {p1, p2}
MCPartitionOf == (t1 :> p1) @@ (t2 :> p2)

Base == [profile |-> "stream", isUseFilter |-> FALSE, offset |-> "first",
         singleActiveConsumer |-> FALSE, filterValues |-> {}, ddlAuto |-> "update"]

\* No sink is started.
SourceOnly == {[Base EXCEPT !.profile = p, !.ddlAuto = "create"] : p \in {"stream", "superStream"}}

\* Filtering with a source that sets filter values and with one that does not;
\* the super stream with a single active consumer.
MCDeployments ==
    SourceOnly
    \cup
    {[Base EXCEPT !.isUseFilter = u, !.filterValues = {CA}] : u \in BOOLEAN}
    \cup
    {[Base EXCEPT !.profile = "superStream", !.singleActiveConsumer = TRUE]}

\* With sinks there are fewer accounts, all with an id and of one type (the sink
\* run has two partitions), one lost connection of the producer and no crash.
Fewer ==
    /\ posted <= MaxSinkPosts
    /\ reconnects <= 1
    /\ sourceCrashes = 0
    /\ \A p \in Partitions : \A k \in 1 .. Len(outbox[p]) : 
        /\ outbox[p][k].id # NoId
        /\ outbox[p][k].type = IF conf.profile = "stream" THEN NoType ELSE t1

\* A step of the source where there is no sink.
Alone(Step) == conf \in SourceOnly /\ Step /\ UNCHANGED sinkVars

\* The source never looks at the id or the state of an account: without a sink
\* all accounts are posted without them.
MCNext ==
    \/ \E type \in Types \cup {NoType} : Alone(PostStream(NoId, type, NoLocation))
    \/ \E type \in Types : Alone(PostSuperStream(NoId, type))
    \/ Alone(PostWithoutRoutingKey)
    \/ \E p \in Partitions :
          \/ Alone(Write(p))
          \/ Alone(Confirm(p))
          \/ \E late \in BOOLEAN : Alone(Unconfirmed(p, late))
          \/ Alone(Reconnect(p))
    \/ Alone(SourceCrash)
    \/ conf \notin SourceOnly /\ Next /\ Fewer'

MCFairSpec == Init /\ [][MCNext]_vars /\ SourceFairness
=============================================================================
