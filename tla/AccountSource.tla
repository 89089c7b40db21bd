--------------------------- MODULE AccountSource ----------------------------
(***************************************************************************)
(* event-account-http-source: the REST controller POST /accounts hands the *)
(* account to the publisher of the active profile.                         *)
(*                                                                         *)
(*   stream       the message is given to the stream producer and the      *)
(*                request is answered at once; the confirm is dropped;     *)
(*   superStream  the message is routed by the accountType header and the  *)
(*                request thread waits for the confirm.                    *)
(*                                                                         *)
(* The producer of the stream client is external.  It keeps the messages   *)
(* that are not confirmed yet (outbox), the broker writes them in order,   *)
(* and after a lost connection all that is unconfirmed is sent again.      *)
(***************************************************************************)
EXTENDS StreamBroker

CONSTANTS
    MaxPosts,       \* bound: accounts posted
    MaxReconnects,  \* bound: producer connections lost
    MaxSourceCrashes\* bound: crashes of the source process

ASSUME SourceBounds ==
    /\ MaxPosts \in Nat
    /\ MaxReconnects \in Nat
    /\ MaxSourceCrashes \in Nat

VARIABLES
    posted,         \* number of accounts posted so far
    outbox,         \* outbox[p]: unconfirmed messages of p's producer
    written,        \* written[p]: how many of them the broker has in the log
    waiting,        \* requests blocked in send(..).get()
    accepted,       \* requests answered with success
    failed,         \* requests answered with an error, or cut off
    reconnects, sourceCrashes

producerVars == <<outbox, written, reconnects>>
requestVars == <<waiting, accepted, failed>>
sourceVars == <<posted, producerVars, requestVars, sourceCrashes>>

Requests == 1 .. MaxPosts

SourceTypeOK ==
    /\ posted \in 0 .. MaxPosts
    /\ outbox \in [Partitions -> Seq(Event)]
    /\ written \in [Partitions -> Nat]
    /\ waiting \subseteq Requests
    /\ accepted \subseteq Requests
    /\ failed \subseteq Requests
    /\ reconnects \in 0 .. MaxReconnects
    /\ sourceCrashes \in 0 .. MaxSourceCrashes

\* The types of the source and of the stream it publishes to.
SourceTypeInv == BrokerTypeOK /\ SourceTypeOK

SourceInit ==
    /\ BrokerInit
    /\ posted = 0
    /\ outbox = [p \in Partitions |-> <<>>]
    /\ written = [p \in Partitions |-> 0]
    /\ waiting = {} /\ accepted = {} /\ failed = {}
    /\ reconnects = 0
    /\ sourceCrashes = 0

(***************************************************************************)
(* The numbers of the requests whose messages a sequence holds.            *)
(***************************************************************************)
Numbers(s) == {s[k].n : k \in 1 .. Len(s)}

Logged(n) == \E p \in Partitions : n \in Numbers(log[p])

-----------------------------------------------------------------------------
(* The publishers *)

(***************************************************************************)
(* stateProvince of the message; an account without a location has "".     *)
(***************************************************************************)
StateOf(location) == IF location = NoLocation THEN Empty ELSE location

StreamMessage(id, type, location) ==
    LET state == StateOf(location)
    IN  [n |-> posted + 1, id |-> id, type |-> type, state |-> state,
         filterValue |-> IF conf.isUseFilter THEN state ELSE NoValue]

SuperStreamMessage(id, type) ==
    [n |-> posted + 1, id |-> id, type |-> type,
     state |-> NoValue, filterValue |-> NoValue]

\* The routing key of the super stream is the accountType header.
SuperStreamRouting(message) == PartitionOf[message.type]

PostStream(id, type, location) ==
    /\ conf.profile = "stream"
    /\ posted < MaxPosts
    /\ posted' = posted + 1
    /\ outbox' = [outbox EXCEPT ![StreamPartition] =
                    Append(@, StreamMessage(id, type, location))]
    /\ accepted' = accepted \cup {posted + 1}
    /\ UNCHANGED <<conf, log, written, reconnects, waiting, failed,
                   sourceCrashes>>

\* Faulty: send(..) without get().
PostSuperStreamNoWait(id, type) ==
    LET message == SuperStreamMessage(id, type)
    IN  /\ conf.profile = "superStream"
        /\ posted < MaxPosts
        /\ posted' = posted + 1
        /\ outbox' = [outbox EXCEPT ![SuperStreamRouting(message)] = Append(@, message)]
        /\ accepted' = accepted \cup {posted + 1}
        /\ UNCHANGED <<conf, log, written, reconnects, waiting, failed, sourceCrashes>>

PostSuperStream(id, type) ==
    LET message == SuperStreamMessage(id, type)
    IN  /\ conf.profile = "superStream"
        /\ posted < MaxPosts
        /\ posted' = posted + 1
        /\ outbox' = [outbox EXCEPT ![SuperStreamRouting(message)] =
                        Append(@, message)]
        /\ waiting' = waiting \cup {posted + 1}
        /\ UNCHANGED <<conf, log, written, reconnects, accepted, failed,
                       sourceCrashes>>

\* Without an accountType the routing function dereferences null: the
\* request fails and nothing is sent.
PostWithoutRoutingKey ==
    /\ conf.profile = "superStream"
    /\ posted < MaxPosts
    /\ posted' = posted + 1
    /\ failed' = failed \cup {posted + 1}
    /\ UNCHANGED <<conf, log, outbox, written, reconnects, waiting, accepted,
                   sourceCrashes>>

-----------------------------------------------------------------------------
(* The stream producer and the broker (external) *)

\* The broker appends the next message it has received from p's producer.
Write(p) ==
    /\ written[p] < Len(outbox[p])
    /\ AppendTo(p, outbox[p][written[p] + 1])
    /\ written' = [written EXCEPT ![p] = @ + 1]
    /\ UNCHANGED <<conf, posted, outbox, requestVars, reconnects,
                   sourceCrashes>>

\* Faulty: a confirm for a message the broker has not written.
ConfirmUnwritten(p) ==
    LET n == Head(outbox[p]).n
    IN  /\ outbox[p] # <<>>
        /\ outbox' = [outbox EXCEPT ![p] = Tail(@)]
        /\ written' = [written EXCEPT ![p] = @ - 1]
        /\ accepted' = IF n \in waiting THEN accepted \cup {n} ELSE accepted
        /\ waiting' = waiting \ {n}
        /\ UNCHANGED <<conf, log, posted, failed, reconnects, sourceCrashes>>

\* The future returned by send completes; get() returns to the waiting
\* request.  The stream profile has no one waiting.
Confirm(p) ==
    LET n == Head(outbox[p]).n
    IN  /\ written[p] > 0
        /\ outbox' = [outbox EXCEPT ![p] = Tail(@)]
        /\ written' = [written EXCEPT ![p] = @ - 1]
        /\ accepted' = IF n \in waiting THEN accepted \cup {n} ELSE accepted
        /\ waiting' = waiting \ {n}
        /\ UNCHANGED <<conf, log, posted, failed, reconnects, sourceCrashes>>

\* Faulty: a message that is not confirmed in time is sent once more, last.
UnconfirmedRetries(p, late) ==
    /\ ~late
    /\ Len(outbox[p]) > 1
    /\ outbox' = [outbox EXCEPT ![p] = Append(Tail(@), Head(@))]
    /\ written' = [written EXCEPT ![p] = IF @ > 0 THEN @ - 1 ELSE 0]
    /\ UNCHANGED <<conf, log, posted, requestVars, reconnects, sourceCrashes>>

\* The confirm timeout expires: get() throws ExecutionException, rethrown as
\* RuntimeException.  The message may still reach the log (late).
Unconfirmed(p, late) ==
    LET n == Head(outbox[p]).n
    IN  /\ outbox[p] # <<>>
        /\ late => written[p] = 0
        /\ IF late THEN AppendTo(p, Head(outbox[p])) ELSE UNCHANGED log
        /\ outbox' = [outbox EXCEPT ![p] = Tail(@)]
        /\ written' = [written EXCEPT ![p] = IF @ > 0 THEN @ - 1 ELSE 0]
        /\ failed' = IF n \in waiting THEN failed \cup {n} ELSE failed
        /\ waiting' = waiting \ {n}
        /\ UNCHANGED <<conf, posted, accepted, reconnects, sourceCrashes>>

\* The connection is lost before the confirms arrive: the producer, which has
\* no name and hence no deduplication, sends every unconfirmed message again.
Reconnect(p) ==
    /\ reconnects < MaxReconnects
    /\ written[p] > 0
    /\ reconnects' = reconnects + 1
    /\ written' = [written EXCEPT ![p] = 0]
    /\ UNCHANGED <<conf, log, posted, outbox, requestVars, sourceCrashes>>

\* Faulty: the blocked requests are not cut off.
SourceCrashKeepsWaiting ==
    /\ sourceCrashes < MaxSourceCrashes
    /\ sourceCrashes' = sourceCrashes + 1
    /\ outbox' = [p \in Partitions |-> <<>>]
    /\ written' = [p \in Partitions |-> 0]
    /\ UNCHANGED <<conf, log, posted, requestVars, reconnects>>

\* The process dies: unsent messages are lost, blocked requests are cut off.
SourceCrash ==
    /\ sourceCrashes < MaxSourceCrashes
    /\ sourceCrashes' = sourceCrashes + 1
    /\ outbox' = [p \in Partitions |-> <<>>]
    /\ written' = [p \in Partitions |-> 0]
    /\ failed' = failed \cup waiting
    /\ waiting' = {}
    /\ UNCHANGED <<conf, log, posted, accepted, reconnects>>

SourceNext ==
    \/ \E id \in Ids \cup {NoId} :
          \/ \E type \in Types \cup {NoType}, location \in States \cup {NoLocation} :
                PostStream(id, type, location)
          \/ \E type \in Types : PostSuperStream(id, type)
    \/ PostWithoutRoutingKey
    \/ \E p \in Partitions :
          \/ Write(p)
          \/ Confirm(p)
          \/ \E late \in BOOLEAN : Unconfirmed(p, late)
          \/ Reconnect(p)
    \/ SourceCrash

SourceSpec ==
    SourceInit /\ [][SourceNext]_<<conf, log, sourceVars>>

\* The broker writes what it receives, and every message is confirmed or
\* times out (the producer's confirm timeout).
SourceFairness ==
    \A p \in Partitions :
        /\ WF_<<log, sourceVars>>(Write(p))
        /\ WF_<<log, sourceVars>>(Confirm(p) \/ \E late \in BOOLEAN : Unconfirmed(p, late))

-----------------------------------------------------------------------------
(* Properties *)

(***************************************************************************)
(* A request answered with success under the superStream profile has its   *)
(* account in the stream, whatever connections or processes fail later:    *)
(* RabbitSuperStreamConfig.publisher waits on send(..).get().              *)
(***************************************************************************)
AcceptedDurable ==
    conf.profile = "superStream" => \A n \in accepted : Logged(n)

\* A message after a newer one is a copy of one before both.
FirstCopies(lg) ==
    \A i, j \in 1 .. Len(lg) :
        i < j /\ lg[j].n < lg[i].n => \E k \in 1 .. (i - 1) : lg[k] = lg[j]

(***************************************************************************)
(* Within a partition an account that appears after a newer one is a copy  *)
(* of one that appeared before it: publishing again after a lost           *)
(* connection, late writes and crashes never put the first copies of two   *)
(* accounts in the wrong order.                                            *)
(***************************************************************************)
FirstCopiesInOrder == \A p \in Partitions : FirstCopies(log[p])

(***************************************************************************)
(* A blocked request always has its message in some producer's outbox, so  *)
(* that a confirm or a confirm timeout can still answer it; and no request *)
(* is answered twice.                                                      *)
(***************************************************************************)
BlockedIsOutstanding ==
    /\ \A n \in waiting : \E p \in Partitions : n \in Numbers(outbox[p])
    /\ accepted \cap failed = {}
    /\ waiting \cap (accepted \cup failed) = {}

(***************************************************************************)
(* send(..).get() has no timeout of its own, yet every request is answered *)
(* in the end.                                                             *)
(***************************************************************************)
EveryRequestAnswered ==
    \A n \in Requests : n \in waiting ~> n \in accepted \cup failed
-----------------------------------------------------------------------------
(* The inductive invariant behind the safety properties *)

Holds(s, message) == \E k \in 1 .. Len(s) : s[k] = message

\* What the broker has written of an outbox is a prefix of it, and in the log.
WrittenIsLogged(out, w, lg) ==
    w <= Len(out) /\ \A k \in 1 .. w : Holds(lg, out[k])

\* An outbox is in posting order ...
InPostingOrder(out) ==
    \A i, j \in 1 .. Len(out) : i < j => out[i].n < out[j].n

\* ... and each of its messages is in the log or newer than the whole log.
LoggedOrNewer(out, lg) ==
    \A k \in 1 .. Len(out) :
        Holds(lg, out[k]) \/ \A j \in 1 .. Len(lg) : lg[j].n < out[k].n

\* A sequence has no number that has not been given out.
NumbersUpTo(s, last) == \A k \in 1 .. Len(s) : s[k].n <= last

\* One producer, its outbox and its partition.
ProducerInv(out, w, lg, last) ==
    /\ WrittenIsLogged(out, w, lg)
    /\ InPostingOrder(out)
    /\ LoggedOrNewer(out, lg)
    /\ NumbersUpTo(out, last)
    /\ NumbersUpTo(lg, last)
    /\ FirstCopies(lg)

SourceInv ==
    /\ BrokerTypeOK /\ SourceTypeOK
    /\ \A p \in Partitions : ProducerInv(outbox[p], written[p], log[p], posted)
    /\ waiting \cup accepted \cup failed \subseteq 1 .. posted
    /\ AcceptedDurable
    /\ BlockedIsOutstanding
=============================================================================
