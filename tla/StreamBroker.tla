---------------------------- MODULE StreamBroker ----------------------------
(***************************************************************************)
(* The vocabulary shared by the account source and the account sinks: the  *)
(* account event, the deployment (profile and property settings the        *)
(* applications are started with) and the RabbitMQ stream that joins them. *)
(* The broker itself is external: a stream is an append-only log for each  *)
(* partition (a plain stream is a super stream with one used partition).   *)
(***************************************************************************)
EXTENDS Naturals, Sequences

CONSTANTS
    Ids,            \* account ids a client may post
    Types,          \* accountType values
    States,         \* location.stateProvince values
    Partitions,     \* partitions of the super stream
    PartitionOf,    \* hash routing of the super stream producer (external)
    StreamPartition,\* the log of the plain stream profile
    Deployments,    \* settings the two applications may be started with
    NoId,           \* account posted without an id
    NoType,         \* account posted without an accountType
    NoLocation,     \* account posted without a location
    Empty,          \* the empty string, stateProvince of such an account
    NoValue         \* no stateProvince property / no stream filter value

ASSUME DistinctMarkers ==
    /\ NoId \notin Ids
    /\ NoType \notin Types
    /\ NoLocation \notin States
    /\ NoValue \notin States \cup {Empty}

ASSUME RoutingAssumption ==
    /\ StreamPartition \in Partitions
    /\ PartitionOf \in [Types -> Partitions]

(***************************************************************************)
(* The deployment: spring profile of source and sink, and the properties   *)
(* rabbitmq.streaming.use.filter (source), .offset, .singleActiveConsumer  *)
(* and .filter.values, and spring.jpa.hibernate.ddl-auto (sink).           *)
(***************************************************************************)
Deployment ==
    [profile : {"stream", "superStream"},
     isUseFilter : BOOLEAN,
     offset : {"first", "next", "last"},
     singleActiveConsumer : BOOLEAN,
     filterValues : SUBSET States,
     ddlAuto : {"create", "update"}]

ASSUME DeploymentsAssumption == Deployments \subseteq Deployment

(***************************************************************************)
(* An account event: its number in order of arrival at the REST endpoint,  *)
(* the account's id, accountType and stateProvince, and the filter value   *)
(* the producer stored with the message.                                   *)
(***************************************************************************)
Event ==
    [n : Nat,
     id : Ids \cup {NoId},
     type : Types \cup {NoType},
     state : States \cup {Empty, NoValue},
     filterValue : States \cup {Empty, NoValue}]

VARIABLES
    conf,   \* the deployment in force; chosen once
    log     \* log[p]: the messages stored in partition p

BrokerTypeOK ==
    /\ conf \in Deployments
    /\ log \in [Partitions -> Seq(Event)]

BrokerInit ==
    /\ conf \in Deployments
    /\ log = [p \in Partitions |-> <<>>]

\* The broker appends a message to the log of p (external).
AppendTo(p, message) == log' = [log EXCEPT ![p] = Append(@, message)]

\* All that a publisher does to the deployment and to the stream.
Publishing ==
    /\ conf' = conf
    /\ \/ log' = log
       \/ \E p \in Partitions, message \in Event : AppendTo(p, message)

=============================================================================
