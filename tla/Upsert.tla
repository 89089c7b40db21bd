------------------------------- MODULE Upsert -------------------------------
(***************************************************************************)
(* jdbc-upsert: UpsertConsumer.accept parses the message, runs the update  *)
(* SQL and, when it counted no row, the insert SQL.  The two statements    *)
(* are not in one transaction, and several workers (instances or listener  *)
(* threads) take messages from the same queue.                             *)
(*                                                                         *)
(* External: the database, whose table has a primary key (docs/DEMO/Local/ *)
(* Verticals/insurance/Insurance-demo.md), and the binder, which calls     *)
(* accept again when it throws, up to MaxAttempts times, then rejects the  *)
(* message; a message that is not acknowledged is delivered again.         *)
(***************************************************************************)
EXTENDS Naturals, Sequences

CONSTANTS
    Messages,       \* messages sent to the queue
    Keys,           \* values of the primary key
    KeyOf,          \* the key in each message
    Malformed,      \* messages whose payload is not JSON
    Workers,        \* concurrent consumers
    MaxAttempts,    \* attempts the binder makes (external, default 3)
    MaxFaults,      \* bound: statements that fail
    MaxCrashes      \* bound: workers that die

ASSUME UpsertAssumption ==
    /\ KeyOf \in [Messages -> Keys]
    /\ Malformed \subseteq Messages
    /\ MaxAttempts \in Nat \ {0, 1}
    /\ MaxFaults \in Nat
    /\ MaxCrashes \in Nat

VARIABLES
    ready,      \* messages in the queue, in no particular order
    rows,       \* rows[key]: the rows of the table with the key
    pc,         \* pc[w]: what worker w does next
    cur,        \* cur[w]: the message it has
    attempts,   \* attempts[w]: failed attempts at it
    raced,      \* raced[w]: attempts of these lost to the key constraint
    applied,    \* messages whose update or insert has succeeded (history)
    acked, rejected,
    faults, crashes

workVars == <<pc, cur, attempts, raced>>
vars == <<ready, rows, workVars, applied, acked, rejected, faults, crashes>>

TypeOK ==
    /\ ready \subseteq Messages
    /\ rows \in [Keys -> Seq(Messages)]
    /\ pc \in [Workers -> {"idle", "parse", "update", "insert", "ack"}]
    /\ cur \in [Workers -> Messages]
    /\ attempts \in [Workers -> 0 .. (MaxAttempts - 1)]
    /\ raced \in [Workers -> Nat]
    /\ applied \subseteq Messages
    /\ acked \subseteq Messages
    /\ rejected \subseteq Messages
    /\ faults \in 0 .. MaxFaults
    /\ crashes \in 0 .. MaxCrashes

Init ==
    /\ ready = Messages
    /\ rows = [key \in Keys |-> <<>>]
    /\ pc = [w \in Workers |-> "idle"]
    /\ cur \in [Workers -> Messages]
    /\ attempts = [w \in Workers |-> 0]
    /\ raced = [w \in Workers |-> 0]
    /\ applied = {} /\ acked = {} /\ rejected = {}
    /\ faults = 0 /\ crashes = 0

Key(w) == KeyOf[cur[w]]

\* Faulty: automatic acknowledgement.
ReceiveAutoAck(w) ==
    /\ pc[w] = "idle"
    /\ \E m \in ready :
          /\ ready' = ready \ {m}
          /\ cur' = [cur EXCEPT ![w] = m]
          /\ acked' = acked \cup {m}
    /\ pc' = [pc EXCEPT ![w] = "parse"]
    /\ attempts' = [attempts EXCEPT ![w] = 0]
    /\ raced' = [raced EXCEPT ![w] = 0]
    /\ UNCHANGED <<rows, applied, rejected, faults, crashes>>

\* The broker delivers a message to w.
Receive(w) ==
    /\ pc[w] = "idle"
    /\ \E m \in ready :
          /\ ready' = ready \ {m}
          /\ cur' = [cur EXCEPT ![w] = m]
    /\ pc' = [pc EXCEPT ![w] = "parse"]
    /\ attempts' = [attempts EXCEPT ![w] = 0]
    /\ raced' = [raced EXCEPT ![w] = 0]
    /\ UNCHANGED <<rows, applied, acked, rejected, faults, crashes>>

\* Faulty: the binder never gives up.
ThrowForever(w) ==
    /\ UNCHANGED <<ready, rows, cur, applied, acked, rejected, crashes>>
    /\ attempts' = [attempts EXCEPT ![w] = @ + 1]
    /\ pc' = [pc EXCEPT ![w] = "parse"]

\* accept throws: the binder tries again, or gives up and rejects.
Throw(w) ==
    /\ UNCHANGED <<ready, rows, cur, applied, acked, crashes>>
    /\ IF attempts[w] + 1 < MaxAttempts
       THEN /\ attempts' = [attempts EXCEPT ![w] = @ + 1]
            /\ pc' = [pc EXCEPT ![w] = "parse"]
            /\ UNCHANGED rejected
       ELSE /\ rejected' = rejected \cup {cur[w]}
            /\ pc' = [pc EXCEPT ![w] = "idle"]
            /\ UNCHANGED attempts

\* accept: objectMapper.readValue
Parse(w) ==
    /\ pc[w] = "parse"
    /\ IF cur[w] \in Malformed
       THEN Throw(w)
       ELSE /\ pc' = [pc EXCEPT ![w] = "update"]
            /\ UNCHANGED <<ready, rows, cur, attempts, applied, acked, rejected, crashes>>
    /\ UNCHANGED <<raced, faults>>

\* Faulty: the count of updated rows is lost, so that the insert always follows.
UpdateMiscounts(w) ==
    /\ pc[w] = "update"
    /\ pc' = [pc EXCEPT ![w] = "insert"]
    /\ UNCHANGED <<ready, rows, cur, attempts, raced, applied, acked, rejected, faults, crashes>>

\* upsert: jdbcTemplate.update(updateSql, inputMap) and its count
Update(w) ==
    /\ pc[w] = "update"
    /\ IF rows[Key(w)] = <<>>
       THEN /\ pc' = [pc EXCEPT ![w] = "insert"]
            /\ UNCHANGED <<rows, applied>>
       ELSE /\ rows' = [rows EXCEPT ![Key(w)] = [r \in 1 .. Len(@) |-> cur[w]]]
            /\ applied' = applied \cup {cur[w]}
            /\ pc' = [pc EXCEPT ![w] = "ack"]
    /\ UNCHANGED <<ready, cur, attempts, raced, acked, rejected, faults, crashes>>

\* Faulty: a table without a primary key.
InsertWithoutKey(w) ==
    /\ pc[w] = "insert"
    /\ rows' = [rows EXCEPT ![Key(w)] = Append(@, cur[w])]
    /\ applied' = applied \cup {cur[w]}
    /\ pc' = [pc EXCEPT ![w] = "ack"]
    /\ UNCHANGED <<ready, cur, attempts, raced, acked, rejected, faults, crashes>>

\* upsert: jdbcTemplate.update(insertSql, inputMap); the primary key refuses a
\* second row.
Insert(w) ==
    /\ pc[w] = "insert"
    /\ rows[Key(w)] = <<>>
    /\ rows' = [rows EXCEPT ![Key(w)] = Append(@, cur[w])]
    /\ applied' = applied \cup {cur[w]}
    /\ pc' = [pc EXCEPT ![w] = "ack"]
    /\ UNCHANGED <<ready, cur, attempts, raced, acked, rejected, faults, crashes>>

DuplicateKey(w) ==
    /\ pc[w] = "insert"
    /\ rows[Key(w)] # <<>>
    /\ Throw(w)
    /\ raced' = [raced EXCEPT ![w] = @ + 1]
    /\ UNCHANGED faults

\* Either statement fails for another reason.
StatementFails(w) ==
    /\ pc[w] \in {"update", "insert"}
    /\ faults < MaxFaults
    /\ faults' = faults + 1
    /\ Throw(w)
    /\ UNCHANGED raced

Ack(w) ==
    /\ pc[w] = "ack"
    /\ acked' = acked \cup {cur[w]}
    /\ pc' = [pc EXCEPT ![w] = "idle"]
    /\ UNCHANGED <<ready, rows, cur, attempts, raced, applied, rejected, faults, crashes>>

\* Faulty: the message in hand is not delivered again.
CrashDrops(w) ==
    /\ pc[w] # "idle"
    /\ crashes < MaxCrashes
    /\ crashes' = crashes + 1
    /\ pc' = [pc EXCEPT ![w] = "idle"]
    /\ UNCHANGED <<ready, rows, cur, attempts, raced, applied, acked, rejected, faults>>

\* The worker dies: the message it has is delivered again.
Crash(w) ==
    /\ pc[w] # "idle"
    /\ crashes < MaxCrashes
    /\ crashes' = crashes + 1
    /\ ready' = ready \cup {cur[w]}
    /\ pc' = [pc EXCEPT ![w] = "idle"]
    /\ UNCHANGED <<rows, cur, attempts, raced, applied, acked, rejected, faults>>

Step(w) ==
    Receive(w) \/ Parse(w) \/ Update(w) \/ Insert(w) \/ DuplicateKey(w) \/ Ack(w)

Next == \E w \in Workers : Step(w) \/ StatementFails(w) \/ Crash(w)

Spec == Init /\ [][Next]_vars

\* Every worker keeps working.
FairSpec == Spec /\ \A w \in Workers : WF_vars(Step(w))

-----------------------------------------------------------------------------
(* Properties *)

\* The messages visible under each key.
Visible == [key \in Keys |-> {rows[key][r] : r \in 1 .. Len(rows[key])}]

Store == INSTANCE KeyedStore WITH table <- Visible

(***************************************************************************)
(* Update-then-insert implements an atomic put: whatever the interleaving  *)
(* of the two statements of UpsertConsumer.upsert, a key never has two     *)
(* rows and never loses its row.                                           *)
(***************************************************************************)
ImplementsStore == Store!Spec

(***************************************************************************)
(* Losing the race between update and insert costs a message at most one   *)
(* of its attempts, so a well-formed message is only rejected when the     *)
(* database has failed at least MaxAttempts - 1 times.                     *)
(***************************************************************************)
RejectedOnlyByFaults ==
    rejected \subseteq Malformed \/ faults >= MaxAttempts - 1

(***************************************************************************)
(* An acknowledged message has reached the table, and a message is never   *)
(* out of everyone's hands: it is in the queue, with a worker,             *)
(* acknowledged or rejected.                                               *)
(***************************************************************************)
NothingLost ==
    /\ acked \subseteq applied
    /\ \A m \in applied : rows[KeyOf[m]] # <<>>
    /\ \A m \in Messages \ (ready \cup acked \cup rejected) :
          \E w \in Workers : pc[w] # "idle" /\ cur[w] = m

(***************************************************************************)
(* Every message is acknowledged or rejected in the end.                   *)
(***************************************************************************)
EverySettled == <>(acked \cup rejected = Messages)

-----------------------------------------------------------------------------
(* The inductive invariant *)

\* What the binder has counted against the message in w's hands.
WorkerInv(w) ==
    pc[w] # "idle" =>
        /\ raced[w] <= 1
        /\ raced[w] = 1 => rows[Key(w)] # <<>>
        /\ raced[w] = 1 => pc[w] # "insert"
        /\ cur[w] \notin Malformed => attempts[w] <= faults + raced[w]
        /\ pc[w] \in {"update", "insert"} => cur[w] \notin Malformed
        /\ pc[w] = "ack" => cur[w] \in applied

UpsertInv ==
    /\ TypeOK
    /\ \A w \in Workers : WorkerInv(w)
    /\ \A key \in Keys : Len(rows[key]) <= 1
    /\ RejectedOnlyByFaults
    /\ NothingLost
=============================================================================
