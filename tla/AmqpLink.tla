------------------------------ MODULE AmqpLink ------------------------------
(***************************************************************************)
(* The receiving link of an AMQP 1.0 consumer on a stream, as the AMQP     *)
(* client of the processors and sinks uses it (external).                  *)
(*                                                                         *)
(* The broker sends the messages that pass the link's filter, in the order *)
(* of the stream, while the link has credit.  A message that has been sent *)
(* keeps its credit until the message handler settles it; a stream never   *)
(* sends it again on the same link.                                        *)
(***************************************************************************)
EXTENDS Naturals, Sequences, FiniteSets

CONSTANT
    Credits     \* messages that may be unsettled (100 in the client)

VARIABLES
    stream,     \* the messages of the stream
    pos,        \* next position to read, 0 when there is no link
    unsettled   \* positions sent to the handler and not settled

linkVars == <<pos, unsettled>>

LinkTypeOK ==
    /\ pos \in Nat
    /\ unsettled \in SUBSET Nat

LinkInit == pos = 0 /\ unsettled = {}

\* Where a new link begins; "LAST" is the first message of the last chunk,
\* whose size only the broker knows.
Beginning(offset) ==
    CASE offset = "FIRST" -> {1}
      [] offset = "NEXT"  -> {Len(stream) + 1}
      [] offset = "LAST"  -> IF stream = <<>> THEN {1} ELSE 1 .. Len(stream)

Attach(offset) ==
    /\ pos = 0
    /\ pos' \in Beginning(offset)
    /\ UNCHANGED unsettled

Message == stream[pos]
Available == pos \in 1 .. Len(stream)

\* The next message passes the filter and goes to the handler, ...
Send ==
    /\ Cardinality(unsettled) < Credits
    /\ unsettled' = unsettled \cup {pos}
    /\ pos' = pos + 1

\* ... or the broker passes over it.
PassOver ==
    /\ pos' = pos + 1
    /\ UNCHANGED unsettled

Settle(k) ==
    /\ unsettled' = unsettled \ {k}
    /\ UNCHANGED pos

\* The application ends: whatever is not settled is forgotten.
Detach ==
    /\ pos > 0
    /\ pos' = 0
    /\ unsettled' = {}
=============================================================================
