---------------------------- MODULE StreamFilter ----------------------------
(***************************************************************************)
(* stream-sql-filter-processor: reads an input stream through a link whose *)
(* SQL filter the broker evaluates, and publishes each message it gets,    *)
(* under the first of its application properties, to an output stream.     *)
(* The input is accepted in the callback of the publish, and only when the *)
(* outcome is ACCEPTED.  No offset is kept: a new link begins at           *)
(* stream.filter.offset.                                                   *)
(***************************************************************************)
EXTENDS Naturals, Sequences, FiniteSets

CONSTANTS
    Ids,            \* accounts
    NotJson,        \* stands for the id of a body that is not an account
    Properties,     \* application properties (name and value)
    Rank,           \* Rank[p]: place of p in the iteration order of a HashMap
    Inputs,         \* messages somebody publishes to the input stream
    Credits,        \* messages a link leaves unsettled
    Offsets,        \* values of stream.filter.offset to consider
    MaxInput,       \* bound: messages of the input stream
    MaxRefusals,    \* bound: publishes whose outcome is not ACCEPTED
    MaxCrashes      \* bound: ends of the processor

\* An input message has selected = TRUE when the SQL filter is true of it.
ASSUME FilterAssumption ==
    /\ NotJson \notin Ids
    /\ Rank \in [Properties -> Nat]
    /\ \A p, q \in Properties : Rank[p] = Rank[q] => p = q
    /\ Inputs \subseteq [id : Ids \cup {NotJson}, selected : BOOLEAN,
                        properties : SUBSET Properties]
    /\ Credits \in Nat \ {0}
    /\ Offsets \subseteq {"FIRST", "NEXT", "LAST"}
    /\ MaxInput \in Nat /\ MaxRefusals \in Nat /\ MaxCrashes \in Nat

VARIABLES
    offset,     \* stream.filter.offset
    input,      \* the input stream
    inPos,      \* the link on it: next position, 0 when the processor is down
    unsettled,  \* the link on it: positions neither accepted nor forgotten
    outbox,     \* positions published, not yet seen by the broker
    confirms,   \* positions stored in the output whose callback is to come
    output,     \* the output stream
    accepted,   \* positions accepted by some run of the processor (history)
    refused,    \* positions refused in this run of the processor (history)
    refusals, crashes

filterVars == <<inPos, unsettled, outbox, confirms, accepted, refused, refusals, crashes>>
streams == <<offset, input, output>>

In == INSTANCE AmqpLink WITH stream <- input, pos <- inPos

\* of: the position of the input it carries on
Outputs == [of : Nat, id : Ids \cup {NotJson}, property : Properties]

FilterTypeOK ==
    /\ offset \in Offsets
    /\ input \in Seq(Inputs)
    /\ In!LinkTypeOK
    /\ outbox \in Seq(Nat)
    /\ confirms \in SUBSET Nat
    /\ output \in Seq(Outputs)
    /\ accepted \in SUBSET Nat
    /\ refused \in SUBSET Nat
    /\ refusals \in 0 .. MaxRefusals
    /\ crashes \in 0 .. MaxCrashes

FilterInit ==
    /\ offset \in Offsets
    /\ input = <<>>
    /\ In!LinkInit
    /\ outbox = <<>>
    /\ confirms = {}
    /\ output = <<>>
    /\ accepted = {}
    /\ refused = {}
    /\ refusals = 0 /\ crashes = 0

-----------------------------------------------------------------------------
(* The processor *)

\* The beans are created: inputQueue declares the stream, consumer() attaches.
StartFilter ==
    /\ In!Attach(offset)
    /\ UNCHANGED <<streams, outbox, confirms, accepted, refused, refusals, crashes>>

\* Faulty: the input is accepted as soon as the output has been published.
HandleAcceptsEarly ==
    /\ In!Available /\ In!Message.selected
    /\ In!Message.properties # {}
    /\ In!PassOver
    /\ outbox' = Append(outbox, inPos)
    /\ accepted' = accepted \cup {inPos}
    /\ UNCHANGED <<streams, confirms, refused, refusals, crashes>>

\* The message handler, for a message with properties: publish.
Handle ==
    /\ In!Available /\ In!Message.selected
    /\ In!Message.properties # {}
    /\ In!Send
    /\ outbox' = Append(outbox, inPos)
    /\ UNCHANGED <<streams, confirms, accepted, refused, refusals, crashes>>

\* "Nothing to filter": the handler returns and the message stays unsettled.
HandleNothing ==
    /\ In!Available /\ In!Message.selected
    /\ In!Message.properties = {}
    /\ In!Send
    /\ UNCHANGED <<streams, outbox, confirms, accepted, refused, refusals, crashes>>

\* The broker does not send what the SQL filter is not true of.
FilterOut ==
    /\ In!Available /\ ~In!Message.selected
    /\ In!PassOver
    /\ UNCHANGED <<streams, outbox, confirms, accepted, refused, refusals, crashes>>

\* The message that is published: the body under the first entry of the map.
FirstEntry(properties) ==
    CHOOSE p \in properties : \A q \in properties : Rank[p] <= Rank[q]

\* Faulty: no property on the message.
OutputMsgBare(k) == [of |-> k, id |-> input[k].id]

OutputMsg(k) ==
    [of |-> k, id |-> input[k].id, property |-> FirstEntry(input[k].properties)]

\* The broker stores what it gets, in the order in which it was published, ...
BrokerStores ==
    /\ outbox # <<>>
    /\ output' = Append(output, OutputMsg(Head(outbox)))
    /\ confirms' = confirms \cup {Head(outbox)}
    /\ outbox' = Tail(outbox)
    /\ UNCHANGED <<offset, input, inPos, unsettled, accepted, refused, refusals, crashes>>

\* Faulty: the callback settles nothing.
PublishedUnsettled(k) ==
    /\ k \in confirms
    /\ confirms' = confirms \ {k}
    /\ accepted' = accepted \cup {k}
    /\ UNCHANGED <<streams, inPos, unsettled, outbox, refused, refusals, crashes>>

\* ... and its ACCEPTED reaches the callback, which accepts the input, ...
PublishedAccepted(k) ==
    /\ k \in confirms
    /\ confirms' = confirms \ {k}
    /\ accepted' = accepted \cup {k}
    /\ In!Settle(k)
    /\ UNCHANGED <<streams, outbox, refused, refusals, crashes>>

\* ... or it refuses it (REJECTED, or RELEASED by an exchange without a queue):
\* "do not accept message".
PublishedRefused ==
    /\ outbox # <<>>
    /\ refusals < MaxRefusals
    /\ refusals' = refusals + 1
    /\ refused' = refused \cup {Head(outbox)}
    /\ outbox' = Tail(outbox)
    /\ UNCHANGED <<streams, inPos, unsettled, confirms, accepted, crashes>>

\* The processor ends, at any point.
CrashFilter ==
    /\ crashes < MaxCrashes
    /\ crashes' = crashes + 1
    /\ In!Detach
    /\ outbox' = <<>>
    /\ confirms' = {}
    /\ refused' = {}
    /\ UNCHANGED <<streams, accepted, refusals>>

\* Somebody publishes to the input stream.
PublishInput ==
    /\ Len(input) < MaxInput
    /\ \E m \in Inputs : input' = Append(input, m)
    /\ UNCHANGED <<offset, output, filterVars>>

FilterStep == Handle \/ HandleNothing \/ FilterOut

FilterNext ==
    \/ StartFilter \/ FilterStep \/ BrokerStores \/ PublishedRefused \/ CrashFilter
    \/ \E k \in confirms : PublishedAccepted(k)

FilterSpec ==
    FilterInit /\ [][FilterNext \/ PublishInput]_<<streams, filterVars>>

\* The processor is started again, its link goes on, and the broker answers.
FilterFairness ==
    /\ WF_filterVars(StartFilter)
    /\ WF_filterVars(FilterStep)
    /\ WF_<<filterVars, output>>(BrokerStores \/ PublishedRefused)
    /\ WF_filterVars(\E k \in confirms : PublishedAccepted(k))

-----------------------------------------------------------------------------
(* Properties *)

Pending == {outbox[i] : i \in 1 .. Len(outbox)} \cup confirms

Forwarded(k) == \E i \in 1 .. Len(output) : output[i].of = k

(***************************************************************************)
(* An input message that has been accepted is in the output stream: the    *)
(* end of the processor between the publish and its callback, or an        *)
(* outcome other than ACCEPTED, never loses an accepted message.           *)
(***************************************************************************)
AcceptedIsForwarded == \A k \in accepted : Forwarded(k)

\* Messages that keep their credit for the rest of this run of the processor.
Leaked == {k \in unsettled : input[k].properties = {}} \cup refused

(***************************************************************************)
(* Credit is accounted for: a message is unsettled exactly while its       *)
(* publish is under way, or for good because it has no properties or its   *)
(* publish was refused; and never are more unsettled than the link allows. *)
(***************************************************************************)
CreditAccounted ==
    /\ unsettled = Pending \cup Leaked
    /\ Pending \cap Leaked = {}
    /\ Cardinality(unsettled) <= Credits

\* Nothing more is sent to the processor until it is started again.
Starved == Cardinality(Leaked) >= Credits

(***************************************************************************)
(* A processor that reads from the FIRST message in the end forwards every *)
(* selected message that has properties and has not been refused, across   *)
(* its crashes, unless it starves: Credits messages without properties or  *)
(* refused are enough to stop it for good.                                 *)
(***************************************************************************)
AllForwarded ==
    \A k \in 1 .. Len(input) :
        input[k].selected /\ input[k].properties # {} => Forwarded(k) \/ k \in refused

ForwardsUnlessStarved == offset = "FIRST" => <>[](AllForwarded \/ Starved)
=============================================================================
