--------------------------- MODULE AccountMapSink ---------------------------
(***************************************************************************)
(* account-sink: reads a stream from its first message through a link that *)
(* only passes messages with the property accountType = account.type, and  *)
(* saves each account in a map in memory.  The handler accepts a message   *)
(* after the save; when the body is not an account the converter throws    *)
(* and the message stays unsettled.                                        *)
(***************************************************************************)
EXTENDS Naturals, Sequences, FiniteSets

CONSTANTS
    Ids,
    NotJson,
    AccountType,        \* the property accountType = account.type
    Credits,
    MaxSinkCrashes      \* bound: ends of the sink

VARIABLES
    accounts,       \* the stream it reads
    sinkPos,        \* its link: next position, 0 when the sink is down
    sinkUnsettled,  \* its link: positions whose handler has thrown
    table,          \* table[id]: the input message whose account is stored, or 0
    sinkCrashes

mapSinkVars == <<sinkPos, sinkUnsettled, table, sinkCrashes>>

Link == INSTANCE AmqpLink WITH
            stream <- accounts, pos <- sinkPos, unsettled <- sinkUnsettled

MapSinkTypeOK ==
    /\ Link!LinkTypeOK
    /\ table \in [Ids -> Nat]
    /\ sinkCrashes \in 0 .. MaxSinkCrashes

EmptyMap == [id \in Ids |-> 0]

MapSinkInit ==
    /\ Link!LinkInit
    /\ table = EmptyMap
    /\ sinkCrashes = 0

\* Faulty: reads on where new messages begin.
StartSinkNext ==
    /\ Link!Attach("NEXT")
    /\ UNCHANGED <<accounts, table, sinkCrashes>>

StartSink ==
    /\ Link!Attach("FIRST")
    /\ UNCHANGED <<accounts, table, sinkCrashes>>

\* The link's filter: the property that the message has.
Passes == Link!Available /\ Link!Message.property = AccountType

\* accountConsumer.accept saves, then the message is accepted.
Accept ==
    /\ Passes
    /\ Link!Message.id # NotJson
    /\ Cardinality(sinkUnsettled) < Credits
    /\ table' = [table EXCEPT ![Link!Message.id] = Link!Message.of]
    /\ Link!PassOver
    /\ UNCHANGED <<accounts, sinkCrashes>>

\* converter.convert throws
ConvertThrows ==
    /\ Passes
    /\ Link!Message.id = NotJson
    /\ Link!Send
    /\ UNCHANGED <<accounts, table, sinkCrashes>>

NotPassed ==
    /\ Link!Available /\ ~Passes
    /\ Link!PassOver
    /\ UNCHANGED <<accounts, table, sinkCrashes>>

\* The sink ends, and the map with it.
CrashSink ==
    /\ sinkCrashes < MaxSinkCrashes
    /\ sinkCrashes' = sinkCrashes + 1
    /\ Link!Detach
    /\ table' = EmptyMap
    /\ UNCHANGED accounts

SinkStep == Accept \/ ConvertThrows \/ NotPassed

MapSinkNext == StartSink \/ SinkStep \/ CrashSink

MapSinkFairness == WF_mapSinkVars(StartSink) /\ WF_mapSinkVars(SinkStep)

SinkStarved == Cardinality(sinkUnsettled) >= Credits
=============================================================================
