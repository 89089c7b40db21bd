---------------------------- MODULE AccountSink -----------------------------
(***************************************************************************)
(* event-account-jdbc-sink: instances of the application subscribe to the  *)
(* stream (or to each partition of the super stream) and save every        *)
(* account in the account table.  event-log-sink subscribes to a stream in *)
(* the same way.                                                           *)
(*                                                                         *)
(* The stream client is external: it delivers the messages of a partition  *)
(* one at a time to the handler, swallows what the handler throws, and for *)
(* a consumer with a name it stores the offset of the last processed       *)
(* message in the broker from time to time.                                *)
(***************************************************************************)
EXTENDS StreamBroker

CONSTANTS
    Instances,      \* instances of the sink
    MaxSinkCrashes, \* bound: crashes of instances
    MaxSinkDrops,   \* bound: consumer connections lost
    MaxDbFaults     \* bound: saves that fail

ASSUME SinkBounds ==
    /\ MaxSinkCrashes \in Nat
    /\ MaxSinkDrops \in Nat
    /\ MaxDbFaults \in Nat

VARIABLES
    up,         \* instances that are running
    pos,        \* pos[i][p]: next position i reads of p, 0 when not subscribed
    busy,       \* busy[i][p]: position in the hands of i's handler, or 0
    done,       \* done[i][p]: last position i processed since it subscribed
    stored,     \* stored[p]: the offset kept in the broker for the name, or 0
    db,         \* db[id]: number of the event whose account is in the table
    saved,      \* saved[p]: positions whose account has reached the table
    threw,      \* threw[p]: positions whose handler threw (history)
    from,       \* from[p]: where the first reader of p began (history)
    base,       \* base[p]: where the reader began that stored p's first offset,
                \*   or the last to begin while none is stored (history)
    sinkCrashes, sinkDrops, dbFaults

readVars == <<up, pos, busy, done, from, base>>
tableVars == <<db, saved, threw>>
sinkCounters == <<sinkCrashes, sinkDrops, dbFaults>>
sinkVars == <<readVars, stored, tableVars, sinkCounters>>

SinkTypeOK ==
    /\ up \subseteq Instances
    /\ pos \in [Instances -> [Partitions -> Nat]]
    /\ busy \in [Instances -> [Partitions -> Nat]]
    /\ done \in [Instances -> [Partitions -> Nat]]
    /\ stored \in [Partitions -> Nat]
    /\ db \in [Ids -> Nat]
    /\ saved \in [Partitions -> SUBSET Nat]
    /\ threw \in [Partitions -> SUBSET Nat]
    /\ from \in [Partitions -> Nat]
    /\ base \in [Partitions -> Nat]
    /\ sinkCrashes \in 0 .. MaxSinkCrashes
    /\ sinkDrops \in 0 .. MaxSinkDrops
    /\ dbFaults \in 0 .. MaxDbFaults

\* The types of the sinks and of the stream they read.
SinkTypeInv == BrokerTypeOK /\ SinkTypeOK

NoPosition == [p \in Partitions |-> 0]
NoRows == [id \in Ids |-> 0]

SinkInit ==
    /\ BrokerInit
    /\ up = {}
    /\ pos = [i \in Instances |-> NoPosition]
    /\ busy = [i \in Instances |-> NoPosition]
    /\ done = [i \in Instances |-> NoPosition]
    /\ stored = NoPosition
    /\ db = NoRows
    /\ saved = [p \in Partitions |-> {}]
    /\ threw = [p \in Partitions |-> {}]
    /\ from = NoPosition
    /\ base = NoPosition
    /\ sinkCrashes = 0 /\ sinkDrops = 0 /\ dbFaults = 0

-----------------------------------------------------------------------------
(* The consumer that RabbitStreamConfig / RabbitSuperStreamConfig builds *)

SingleActive == conf.singleActiveConsumer

\* The consumer has a name, so the broker keeps its offset.
Named == SingleActive \/ (conf.profile = "stream" /\ conf.offset = "last")

\* The subscription listener asks for the first message at each subscription;
\* a single active consumer's stored offset overrides it.
Replay == conf.profile = "stream" /\ conf.offset = "first" /\ ~SingleActive

\* The super stream consumer never sets an offset: the client's default is next.
Offset == IF conf.profile = "stream" THEN conf.offset ELSE "next"

Filtering == conf.profile = "stream" /\ conf.filterValues # {}

\* Faulty: no post filter.
DueWithoutPostFilter(event) == Filtering => event.filterValue # NoValue

\* The broker only sends a filtering consumer messages that have a filter
\* value; the post filter then compares the stateProvince property.
Due(event) ==
    Filtering => /\ event.filterValue # NoValue
                 /\ event.state \in conf.filterValues

\* Where a subscription without a stored offset may begin; "last" is the
\* first message of the last chunk, whose size only the broker knows.
Beginning(p) ==
    CASE Offset = "first" -> {1}
      [] Offset = "next"  -> {Len(log[p]) + 1}
      [] Offset = "last"  -> IF log[p] = <<>> THEN {1} ELSE 1 .. Len(log[p])

\* The partitions an instance consumes.
Consumed == IF conf.profile = "stream" THEN {StreamPartition} ELSE Partitions

-----------------------------------------------------------------------------
(* The life of an instance *)

\* Faulty: the tables are dropped and not created again.
StartInstanceDrops(i) ==
    /\ i \notin up
    /\ up' = up \cup {i}
    /\ db' = [id \in {} |-> 0]
    /\ UNCHANGED <<conf, log, pos, busy, done, stored, from, base, saved, threw, sinkCounters>>

\* Hibernate's ddl-auto = create drops the tables before the consumer exists.
StartInstance(i) ==
    /\ i \notin up
    /\ up' = up \cup {i}
    /\ IF conf.ddlAuto = "create"
       THEN db' = NoRows /\ saved' = [p \in Partitions |-> {}]
       ELSE UNCHANGED <<db, saved>>
    /\ UNCHANGED <<conf, log, pos, busy, done, stored, from, base, threw, sinkCounters>>

Subscribe(i, p) ==
    /\ i \in up
    /\ p \in Consumed
    /\ pos[i][p] = 0
    /\ busy[i][p] = 0
    /\ SingleActive => \A j \in Instances : pos[j][p] = 0
    /\ \/ /\ Named /\ stored[p] > 0
          /\ pos' = [pos EXCEPT ![i][p] = stored[p] + 1]
          /\ UNCHANGED <<from, base>>
       \/ /\ ~(Named /\ stored[p] > 0)
          /\ \E first \in Beginning(p) :
                /\ pos' = [pos EXCEPT ![i][p] = first]
                /\ base' = [base EXCEPT ![p] = first]
                /\ from' = [from EXCEPT ![p] = IF @ = 0 THEN first ELSE @]
    /\ done' = [done EXCEPT ![i][p] = 0]
    /\ UNCHANGED <<conf, log, up, busy, stored, tableVars, sinkCounters>>

\* Faulty: a message counts as processed when it is delivered.
DeliverAndProcess(i, p) ==
    /\ pos[i][p] \in 1 .. Len(log[p])
    /\ busy[i][p] = 0
    /\ Due(log[p][pos[i][p]])
    /\ busy' = [busy EXCEPT ![i][p] = pos[i][p]]
    /\ done' = [done EXCEPT ![i][p] = pos[i][p]]
    /\ pos' = [pos EXCEPT ![i][p] = @ + 1]
    /\ UNCHANGED <<conf, log, up, from, base, stored, tableVars, sinkCounters>>

\* The next message of p is due: it is handed to the message handler.
Deliver(i, p) ==
    /\ pos[i][p] \in 1 .. Len(log[p])
    /\ busy[i][p] = 0
    /\ Due(log[p][pos[i][p]])
    /\ busy' = [busy EXCEPT ![i][p] = pos[i][p]]
    /\ pos' = [pos EXCEPT ![i][p] = @ + 1]
    /\ UNCHANGED <<conf, log, up, done, from, base, stored, tableVars, sinkCounters>>

\* The broker's filter or the post filter keeps the message from the handler.
Skip(i, p) ==
    /\ pos[i][p] \in 1 .. Len(log[p])
    /\ busy[i][p] = 0
    /\ ~Due(log[p][pos[i][p]])
    /\ pos' = [pos EXCEPT ![i][p] = @ + 1]
    /\ UNCHANGED <<conf, log, up, busy, done, from, base, stored, tableVars, sinkCounters>>

\* Faulty: insert only.
SaveIfAbsent(i, p) ==
    LET k == busy[i][p]
        event == log[p][k]
    IN  /\ k > 0
        /\ event.id # NoId
        /\ db' = [db EXCEPT ![event.id] = IF @ = 0 THEN event.n ELSE @]
        /\ saved' = [saved EXCEPT ![p] = @ \cup {k}]
        /\ busy' = [busy EXCEPT ![i][p] = 0]
        /\ done' = [done EXCEPT ![i][p] = k]
        /\ UNCHANGED <<conf, log, up, pos, from, base, stored, threw, sinkCounters>>

\* AccountConsumer.accept: repository.save inserts the row or overwrites it.
Save(i, p) ==
    LET k == busy[i][p]
        event == log[p][k]
    IN  /\ k > 0
        /\ event.id # NoId
        /\ db' = [db EXCEPT ![event.id] = event.n]
        /\ saved' = [saved EXCEPT ![p] = @ \cup {k}]
        /\ busy' = [busy EXCEPT ![i][p] = 0]
        /\ done' = [done EXCEPT ![i][p] = k]
        /\ UNCHANGED <<conf, log, up, pos, from, base, stored, threw, sinkCounters>>

\* save throws, for an account without an id always, otherwise when the
\* database fails: the client logs it and goes on with the next message.
SaveThrows(i, p) ==
    LET k == busy[i][p]
    IN  /\ k > 0
        /\ \/ log[p][k].id = NoId /\ UNCHANGED dbFaults
           \/ dbFaults < MaxDbFaults /\ dbFaults' = dbFaults + 1
        /\ threw' = [threw EXCEPT ![p] = @ \cup {k}]
        /\ busy' = [busy EXCEPT ![i][p] = 0]
        /\ UNCHANGED <<conf, log, up, pos, done, from, base, stored, db, saved,
                       sinkCrashes, sinkDrops>>

\* Automatic offset tracking of a named consumer (count or flush interval).
StoreOffset(i, p) ==
    /\ Named
    /\ pos[i][p] > 0
    /\ done[i][p] > stored[p]
    /\ stored' = [stored EXCEPT ![p] = done[i][p]]
    /\ UNCHANGED <<conf, log, readVars, tableVars, sinkCounters>>

\* Faulty: after a lost connection a replaying consumer goes on with new messages.
LoseConnectionSkips(i) ==
    /\ sinkDrops < MaxSinkDrops
    /\ SingleActive \/ Replay
    /\ \E p \in Partitions : pos[i][p] > 0
    /\ sinkDrops' = sinkDrops + 1
    /\ pos' = [pos EXCEPT ![i] = [p \in Partitions |->
                  IF Replay /\ @[p] > 0 THEN Len(log[p]) + 1 ELSE 0]]
    /\ UNCHANGED <<conf, log, up, busy, done, from, base, stored, tableVars,
                   sinkCrashes, dbFaults>>

\* The connection is lost.  A single active consumer loses its turn, while the
\* message in its handler's hands goes on; a replaying consumer begins again.
LoseConnection(i) ==
    /\ sinkDrops < MaxSinkDrops
    /\ SingleActive \/ Replay
    /\ \E p \in Partitions : pos[i][p] > 0
    /\ sinkDrops' = sinkDrops + 1
    /\ pos' = [pos EXCEPT ![i] = [p \in Partitions |->
                  IF Replay /\ @[p] > 0 THEN 1 ELSE 0]]
    /\ UNCHANGED <<conf, log, up, busy, done, from, base, stored, tableVars,
                   sinkCrashes, dbFaults>>

CrashInstance(i) ==
    /\ i \in up
    /\ sinkCrashes < MaxSinkCrashes
    /\ sinkCrashes' = sinkCrashes + 1
    /\ up' = up \ {i}
    /\ pos' = [pos EXCEPT ![i] = NoPosition]
    /\ busy' = [busy EXCEPT ![i] = NoPosition]
    /\ done' = [done EXCEPT ![i] = NoPosition]
    /\ UNCHANGED <<conf, log, from, base, stored, tableVars, sinkDrops, dbFaults>>

SinkNext ==
    \E i \in Instances :
        \/ StartInstance(i)
        \/ LoseConnection(i)
        \/ CrashInstance(i)
        \/ \E p \in Partitions :
              \/ Subscribe(i, p)
              \/ Deliver(i, p)
              \/ Skip(i, p)
              \/ Save(i, p)
              \/ SaveThrows(i, p)
              \/ StoreOffset(i, p)

SinkSpec ==
    /\ SinkInit
    /\ [][SinkNext \/ (Publishing /\ UNCHANGED sinkVars)]_<<conf, log, sinkVars>>

\* An instance that is down is started again, the client keeps subscribing and
\* delivering, and the handler comes back with or without an exception.
SinkFairness ==
    \A i \in Instances :
        /\ WF_sinkVars(StartInstance(i))
        /\ \A p \in Partitions :
              /\ WF_sinkVars(Subscribe(i, p))
              /\ WF_sinkVars(Deliver(i, p) \/ Skip(i, p))
              /\ WF_sinkVars(Save(i, p) \/ SaveThrows(i, p))

-----------------------------------------------------------------------------
(* Properties *)

\* What happens to an event that has been handled.
Handled(p, k) == k \in saved[p] \cup threw[p]

(***************************************************************************)
(* The events that are safe from being passed over begin here.  With       *)
(* offset first these are all events.  With next (always under             *)
(* superStream) or last they are those since the reader began that stored  *)
(* the first offset: what an earlier reader was given, and did not store   *)
(* before it crashed or lost its turn, may be lost (see LastIsHandled).    *)
(***************************************************************************)
Since(p) == IF Offset = "first" THEN 1 ELSE base[p]

(***************************************************************************)
(* An offset never runs ahead of the table.  With a single active consumer *)
(* every due event from Since(p) to the stored offset has been saved or    *)
(* its save has thrown, across crashes, lost connections and turns of      *)
(* several instances.  Only where the tables survive a start: see ddl-auto *)
(* in application-stream.yml.                                              *)
(***************************************************************************)
StoredIsHandled ==
    SingleActive /\ conf.ddlAuto # "create" =>
        \A p \in Partitions : \A k \in Since(p) .. stored[p] :
            k > 0 /\ Due(log[p][k]) => Handled(p, k)

(***************************************************************************)
(* When the single active consumer has caught up on p and no handler is    *)
(* busy, the table shows the last account of each id whose events are all  *)
(* in p, provided it came at Since(p) or later: reading again after a      *)
(* crash never leaves an older account behind.  A lost connection may: the *)
(* old handler can save after its successor.                               *)
(***************************************************************************)
CaughtUp(p) ==
    /\ \A i \in Instances : busy[i][p] = 0
    /\ \E i \in Instances : pos[i][p] = Len(log[p]) + 1

DueAt(p, id) ==
    {k \in 1 .. Len(log[p]) : log[p][k].id = id /\ Due(log[p][k])}

TableShowsLast ==
    SingleActive /\ conf.ddlAuto # "create" /\ sinkDrops = 0 =>
        \A p \in Consumed, id \in Ids :
            /\ CaughtUp(p)
            /\ \A q \in Consumed \ {p} : DueAt(q, id) = {}
            => \A k \in DueAt(p, id) :
                  (\A j \in DueAt(p, id) : j <= k) /\ k >= Since(p)
                      => k \in threw[p] \/ db[id] = log[p][k].n

(***************************************************************************)
(* A replaying sink, even one that drops its tables at every start, in the *)
(* end has every due event in the table, and a single active sink that     *)
(* keeps them every one from Since(p) on, except those whose save threw    *)
(* ("Replay all messages", RabbitStreamConfig.consumer).                   *)
(***************************************************************************)
TableComplete ==
    \A p \in Consumed :
        /\ from[p] > 0
        /\ \A k \in Since(p) .. Len(log[p]) : Due(log[p][k]) => Handled(p, k)

TableCatchesUp ==
    Replay \/ (SingleActive /\ conf.ddlAuto # "create") => <>[]TableComplete

(***************************************************************************)
(* rabbitmq.streaming.offset, which both profiles declare with the default *)
(* last, has a single active sink begin no later than the last message:    *)
(* once it has caught up, that message has been handled if it came after   *)
(* reading began.                                                          *)
(***************************************************************************)
LastIsHandled ==
    SingleActive /\ conf.offset = "last" /\ conf.ddlAuto # "create" =>
        \A p \in Consumed :
            /\ CaughtUp(p)
            /\ Len(log[p]) >= from[p]
            /\ Due(log[p][Len(log[p])])
            => Handled(p, Len(log[p]))

-----------------------------------------------------------------------------
(* The inductive invariant behind StoredIsHandled *)

\* No position is beyond the end of the log.
WithinLog ==
    \A p \in Partitions :
        /\ stored[p] <= Len(log[p])
        /\ \A i \in Instances :
              /\ pos[i][p] <= Len(log[p]) + 1
              /\ busy[i][p] <= Len(log[p])
              /\ done[i][p] <= Len(log[p])

\* The due events from base to last, but for the one in hand, have been handled.
HandledUpTo(p, last, inHand) ==
    \A k \in base[p] .. last :
        k > 0 /\ k # inHand /\ Due(log[p][k]) => Handled(p, k)

OneReader ==
    \A p \in Partitions : \A i, j \in Instances :
        pos[i][p] > 0 /\ pos[j][p] > 0 => i = j

\* A subscribed instance has handled all it has read, but for the event in
\* hand, and what it may store lies before that event.
ReaderInv(i, p) ==
    pos[i][p] > 0 =>
        /\ done[i][p] < pos[i][p]
        /\ busy[i][p] < pos[i][p]
        /\ busy[i][p] > 0 => done[i][p] < busy[i][p]
        /\ conf.ddlAuto # "create" => HandledUpTo(p, pos[i][p] - 1, busy[i][p])

StoredFromBase ==
    SingleActive /\ conf.ddlAuto # "create" =>
        \A p \in Partitions : \A k \in base[p] .. stored[p] :
            k > 0 /\ Due(log[p][k]) => Handled(p, k)

SinkInv ==
    /\ BrokerTypeOK /\ SinkTypeOK
    /\ WithinLog
    /\ SingleActive =>
          /\ OneReader
          /\ \A i \in Instances, p \in Partitions : ReaderInv(i, p)
    /\ StoredFromBase

\* With offset first every reader without a stored offset begins at 1.
BaseIsFirst == Offset = "first" => \A p \in Partitions : base[p] <= 1

\* Until a crash or a lost connection a partition keeps its first reader.
Uninterrupted ==
    SingleActive /\ sinkCrashes = 0 /\ sinkDrops = 0 =>
        \A p \in Partitions :
            /\ base[p] = from[p]
            /\ from[p] > 0 => \E i \in Instances : pos[i][p] > 0

BaseInv == BaseIsFirst /\ Uninterrupted

=============================================================================
