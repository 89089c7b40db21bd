---------------------------- MODULE UpsertProofs ----------------------------
(***************************************************************************)
(* Proofs about Upsert, for any messages, keys, workers and bounds.        *)
(***************************************************************************)
EXTENDS Upsert, TLAPS

(* Rows stay sequences of messages: overwriting all of them, adding one. *)
LEMMA RowFacts ==
    ASSUME NEW s \in Seq(Messages), NEW m \in Messages
    PROVE  /\ [r \in 1 .. Len(s) |-> m] \in Seq(Messages)
           /\ Len([r \in 1 .. Len(s) |-> m]) = Len(s)
           /\ s # <<>> => Len(s) > 0
           /\ Len(<<>>) = 0
           /\ Append(<<>>, m) \in Seq(Messages)
           /\ Len(Append(<<>>, m)) = 1
           /\ Append(<<>>, m)[1] = m
  OBVIOUS

(* One is the only count between nothing and one. *)
LEMMA ExactlyOne == \A n \in Nat : n <= 1 /\ n > 0 => n = 1
  OBVIOUS

(* The inductive invariant holds at the start. *)
LEMMA UpsertInvInit == Init => UpsertInv
<1> SUFFICES ASSUME Init PROVE UpsertInv
  OBVIOUS
<1> USE UpsertAssumption DEF Init
<1>1. TypeOK
  BY DEF TypeOK
<1>2. \A key \in Keys : Len(rows[key]) <= 1
  BY Len(<<>>) = 0
<1> QED
  BY <1>1, <1>2 DEF UpsertInv, WorkerInv, RejectedOnlyByFaults, NothingLost

(* A failed attempt: the common part of Parse, DuplicateKey, StatementFails. *)
LEMMA ThrowPreserves ==
    ASSUME UpsertInv, NEW w \in Workers, pc[w] \in {"parse", "update", "insert"},
           Throw(w),
           \/ cur[w] \in Malformed /\ raced' = raced /\ faults' = faults
           \/ /\ pc[w] = "insert" /\ rows[Key(w)] # <<>>
              /\ raced' = [raced EXCEPT ![w] = @ + 1] /\ faults' = faults
           \/ /\ pc[w] \in {"update", "insert"} /\ raced' = raced
              /\ faults < MaxFaults /\ faults' = faults + 1
    PROVE  UpsertInv'
<1> USE UpsertAssumption DEF Throw
<1>0. /\ attempts[w] \in Nat /\ raced[w] \in Nat /\ faults \in Nat /\ faults' \in Nat
      /\ cur[w] \in Messages /\ faults' >= faults /\ faults' \in 0 .. MaxFaults
      /\ raced' \in [Workers -> Nat]
      /\ WorkerInv(w)
  <2>1. /\ attempts[w] \in 0 .. (MaxAttempts - 1) /\ raced \in [Workers -> Nat]
        /\ faults \in 0 .. MaxFaults /\ cur[w] \in Messages /\ WorkerInv(w)
    BY DEF UpsertInv, TypeOK
  <2>2. raced' = raced \/ raced' = [raced EXCEPT ![w] = @ + 1]
    OBVIOUS
  <2>4. raced[w] \in Nat
    BY <2>1
  <2>5. raced' \in [Workers -> Nat]
    BY <2>1, <2>2, <2>4
  <2>3. faults' = faults \/ (faults < MaxFaults /\ faults' = faults + 1)
    OBVIOUS
  <2> QED
    BY <2>1, <2>3, <2>4, <2>5
<1>1. TypeOK'
  <2>1. attempts' \in [Workers -> 0 .. (MaxAttempts - 1)]
    <3>1. attempts \in [Workers -> 0 .. (MaxAttempts - 1)]
      BY DEF UpsertInv, TypeOK
    <3>2. CASE attempts' = attempts
      BY <3>1, <3>2
    <3>3. CASE /\ attempts[w] + 1 < MaxAttempts
               /\ attempts' = [attempts EXCEPT ![w] = @ + 1]
      <4>1. attempts[w] + 1 \in 0 .. (MaxAttempts - 1)
        BY <1>0, <3>3
      <4> QED
        BY <3>1, <3>3, <4>1
    <3> QED
      BY <3>2, <3>3
  <2>2. pc' \in [Workers -> {"idle", "parse", "update", "insert", "ack"}]
    BY DEF UpsertInv, TypeOK
  <2>3. rejected' \subseteq Messages
    BY <1>0 DEF UpsertInv, TypeOK
  <2> QED
    BY <1>0, <2>1, <2>2, <2>3 DEF UpsertInv, TypeOK
<1>2. UNCHANGED <<ready, rows, cur, applied, acked, crashes>>
  OBVIOUS
<1>3. ASSUME NEW v \in Workers
      PROVE  WorkerInv(v)'
  <2>0. WorkerInv(v) /\ attempts[v] \in Nat /\ raced[v] \in Nat
    BY DEF UpsertInv, TypeOK
  <2>1. CASE v # w
    <3>1. pc'[v] = pc[v] /\ raced'[v] = raced[v] /\ attempts'[v] = attempts[v]
      BY <2>1 DEF UpsertInv, TypeOK
    <3> QED
      BY <1>0, <1>2, <2>0, <3>1 DEF WorkerInv, Key
  <2>2. CASE v = w /\ attempts[w] + 1 < MaxAttempts
    <3>1. pc'[w] = "parse" /\ attempts'[w] = attempts[w] + 1
      BY <2>2 DEF UpsertInv, TypeOK
    <3>2. CASE raced' = raced
      BY <1>0, <1>2, <2>2, <3>1, <3>2 DEF WorkerInv, Key
    <3>3. CASE /\ pc[w] = "insert" /\ rows[Key(w)] # <<>>
               /\ raced' = [raced EXCEPT ![w] = @ + 1] /\ faults' = faults
      <4>1. raced[w] = 0 /\ raced'[w] = 1
        BY <1>0, <3>3 DEF UpsertInv, TypeOK, WorkerInv
      <4> QED
        BY <1>0, <1>2, <2>2, <3>1, <3>3, <4>1 DEF WorkerInv, Key
    <3> QED
      BY <3>2, <3>3
  <2>3. CASE v = w /\ ~(attempts[w] + 1 < MaxAttempts)
    <3>1. pc'[w] = "idle"
      BY <2>3 DEF UpsertInv, TypeOK
    <3> QED
      BY <2>3, <3>1 DEF WorkerInv
  <2> QED
    BY <2>1, <2>2, <2>3
<1>4. RejectedOnlyByFaults'
  <2>1. CASE rejected' = rejected
    BY <1>0, <2>1 DEF UpsertInv, RejectedOnlyByFaults
  <2>2. CASE ~(attempts[w] + 1 < MaxAttempts) /\ rejected' = rejected \cup {cur[w]}
    <3>1. CASE cur[w] \in Malformed
      BY <1>0, <2>2, <3>1 DEF UpsertInv, RejectedOnlyByFaults
    <3>2. CASE cur[w] \notin Malformed
      <4>1. attempts[w] <= faults + raced[w] /\ raced[w] <= 1
        BY <1>0, <3>2 DEF WorkerInv
      <4>2. pc[w] = "insert" => raced[w] = 0
        BY <1>0, <4>1 DEF WorkerInv
      <4>3. faults' >= MaxAttempts - 1
        BY <1>0, <2>2, <3>2, <4>1, <4>2
      <4> QED
        BY <4>3 DEF RejectedOnlyByFaults
    <3> QED
      BY <3>1, <3>2
  <2> QED
    BY <2>1, <2>2
<1>5. NothingLost'
  <2> SUFFICES ASSUME NEW m \in Messages, m \notin ready \cup acked \cup rejected'
               PROVE  \E v \in Workers : pc'[v] # "idle" /\ cur[v] = m
    BY <1>2 DEF UpsertInv, NothingLost
  <2>1. PICK v \in Workers : pc[v] # "idle" /\ cur[v] = m
    BY DEF UpsertInv, NothingLost
  <2>2. pc'[v] # "idle"
    BY <2>1 DEF UpsertInv, TypeOK
  <2> QED
    BY <2>1, <2>2
<1> QED
  BY <1>1, <1>2, <1>3, <1>4, <1>5 DEF UpsertInv

(* The statement that succeeds: the row now holds the message. *)
LEMMA ApplyPreserves ==
    ASSUME UpsertInv, NEW w \in Workers, pc[w] \in {"update", "insert"},
           NEW s \in Seq(Messages), s # <<>>, Len(s) <= 1,
           rows' = [rows EXCEPT ![Key(w)] = s],
           applied' = applied \cup {cur[w]},
           pc' = [pc EXCEPT ![w] = "ack"],
           UNCHANGED <<ready, cur, attempts, raced, acked, rejected, faults, crashes>>
    PROVE  UpsertInv'
<1> USE UpsertAssumption
<1>0. cur[w] \in Messages /\ Key(w) \in Keys /\ rows \in [Keys -> Seq(Messages)]
      /\ rows' \in [Keys -> Seq(Messages)] /\ rows'[Key(w)] = s
      /\ \A key \in Keys : key # Key(w) => rows'[key] = rows[key]
  BY DEF UpsertInv, TypeOK, Key
<1>1. TypeOK'
  BY <1>0 DEF UpsertInv, TypeOK
<1>2. \A key \in Keys : rows[key] # <<>> => rows'[key] # <<>>
  BY <1>0
<1>3. ASSUME NEW v \in Workers
      PROVE  WorkerInv(v)'
  <2>0. WorkerInv(v) /\ cur[v] \in Messages /\ Key(v) \in Keys /\ Key(v)' = Key(v)
    BY DEF UpsertInv, TypeOK, Key
  <2>1. CASE v # w
    <3>1. pc'[v] = pc[v]
      BY <2>1 DEF UpsertInv, TypeOK
    <3> QED
      BY <1>2, <2>0, <3>1 DEF WorkerInv
  <2>2. CASE v = w
    <3>1. pc'[v] = "ack" /\ pc[v] # "idle" /\ cur'[v] \in applied'
      BY <2>2 DEF UpsertInv, TypeOK
    <3> QED
      BY <1>2, <2>0, <2>2, <3>1 DEF WorkerInv
  <2> QED
    BY <2>1, <2>2
<1>4. \A key \in Keys : Len(rows'[key]) <= 1
  BY <1>0 DEF UpsertInv
<1>5. NothingLost'
  <2>1. \A v \in Workers : pc[v] # "idle" => pc'[v] # "idle"
    BY DEF UpsertInv, TypeOK
  <2>2. acked' \subseteq applied'
    BY DEF UpsertInv, NothingLost
  <2>3. \A m \in applied' : rows'[KeyOf[m]] # <<>>
    <3> SUFFICES ASSUME NEW m \in applied' PROVE rows'[KeyOf[m]] # <<>>
      OBVIOUS
    <3>1. CASE m = cur[w]
      BY <1>0, <3>1 DEF Key
    <3>2. CASE m \in applied
      <4>1. rows[KeyOf[m]] # <<>> /\ KeyOf[m] \in Keys
        BY <3>2 DEF UpsertInv, NothingLost, TypeOK
      <4> QED
        BY <1>2, <4>1
    <3> QED
      BY <3>1, <3>2
  <2> QED
    BY <2>1, <2>2, <2>3 DEF UpsertInv, NothingLost
<1>6. RejectedOnlyByFaults'
  BY DEF UpsertInv, RejectedOnlyByFaults
<1> QED
  BY <1>1, <1>3, <1>4, <1>5, <1>6 DEF UpsertInv

(* Every step keeps the inductive invariant. *)
LEMMA UpsertInvStep == UpsertInv /\ [Next]_vars => UpsertInv'
<1> SUFFICES ASSUME UpsertInv, [Next]_vars PROVE UpsertInv'
  OBVIOUS
<1> USE UpsertAssumption
<1>0. /\ rows \in [Keys -> Seq(Messages)]
      /\ \A w \in Workers : cur[w] \in Messages /\ Key(w) \in Keys /\ WorkerInv(w)
  BY DEF UpsertInv, TypeOK, Key
<1>1. ASSUME NEW w \in Workers, Receive(w)
      PROVE  UpsertInv'
  <2>1. PICK m \in ready : ready' = ready \ {m} /\ cur' = [cur EXCEPT ![w] = m]
    BY <1>1 DEF Receive
  <2>2. /\ m \in Messages /\ pc[w] = "idle" /\ pc' = [pc EXCEPT ![w] = "parse"]
        /\ attempts' = [attempts EXCEPT ![w] = 0] /\ raced' = [raced EXCEPT ![w] = 0]
        /\ UNCHANGED <<rows, applied, acked, rejected, faults, crashes>>
    BY <1>1 DEF Receive, UpsertInv, TypeOK
  <2>3. TypeOK'
    BY <2>1, <2>2 DEF UpsertInv, TypeOK
  <2>4. ASSUME NEW v \in Workers
        PROVE  WorkerInv(v)'
    <3>1. CASE v # w
      <4>1. /\ pc'[v] = pc[v] /\ cur'[v] = cur[v] /\ attempts'[v] = attempts[v]
            /\ raced'[v] = raced[v]
        BY <2>1, <2>2, <3>1 DEF UpsertInv, TypeOK
      <4> QED
        BY <1>0, <2>2, <4>1 DEF WorkerInv, Key
    <3>2. CASE v = w
      <4>1. pc'[v] = "parse" /\ attempts'[v] = 0 /\ raced'[v] = 0 /\ faults \in Nat
        BY <2>2, <3>2 DEF UpsertInv, TypeOK
      <4> QED
        BY <2>2, <4>1 DEF WorkerInv
    <3> QED
      BY <3>1, <3>2
  <2>5. NothingLost'
    <3> SUFFICES ASSUME NEW x \in Messages, x \notin ready' \cup acked \cup rejected
                 PROVE  \E v \in Workers : pc'[v] # "idle" /\ cur'[v] = x
      BY <2>2 DEF UpsertInv, NothingLost
    <3>1. CASE x = m
      BY <2>1, <2>2, <3>1 DEF UpsertInv, TypeOK
    <3>2. CASE x # m
      <4>1. PICK v \in Workers : pc[v] # "idle" /\ cur[v] = x
        BY <2>1, <3>2 DEF UpsertInv, NothingLost
      <4>2. v # w
        BY <2>2, <4>1
      <4> QED
        BY <2>1, <2>2, <4>1, <4>2 DEF UpsertInv, TypeOK
    <3> QED
      BY <3>1, <3>2
  <2> QED
    BY <2>2, <2>3, <2>4, <2>5 DEF UpsertInv, RejectedOnlyByFaults
<1>2. ASSUME NEW w \in Workers, Parse(w)
      PROVE  UpsertInv'
  <2>1. CASE cur[w] \in Malformed
    BY <1>2, <2>1, ThrowPreserves DEF Parse
  <2>2. CASE cur[w] \notin Malformed
    <3>1. /\ pc[w] = "parse" /\ pc' = [pc EXCEPT ![w] = "update"]
          /\ UNCHANGED <<ready, rows, cur, attempts, raced, applied, acked, rejected,
                         faults, crashes>>
      BY <1>2, <2>2 DEF Parse
    <3>2. TypeOK'
      BY <3>1 DEF UpsertInv, TypeOK
    <3>3. \A v \in Workers : pc'[v] = IF v = w THEN "update" ELSE pc[v]
      BY <3>1 DEF UpsertInv, TypeOK
    <3>4. \A v \in Workers : WorkerInv(v)'
      BY <1>0, <2>2, <3>1, <3>3 DEF WorkerInv, Key
    <3>5. NothingLost' /\ RejectedOnlyByFaults'
      BY <3>1, <3>3 DEF UpsertInv, NothingLost, RejectedOnlyByFaults
    <3> QED
      BY <3>1, <3>2, <3>4, <3>5 DEF UpsertInv
  <2> QED
    BY <2>1, <2>2
<1>3. ASSUME NEW w \in Workers, Update(w)
      PROVE  UpsertInv'
  <2>1. CASE rows[Key(w)] = <<>>
    <3>1. /\ pc[w] = "update" /\ pc' = [pc EXCEPT ![w] = "insert"]
          /\ UNCHANGED <<ready, rows, cur, attempts, raced, applied, acked, rejected,
                         faults, crashes>>
      BY <1>3, <2>1 DEF Update
    <3>2. TypeOK'
      BY <3>1 DEF UpsertInv, TypeOK
    <3>3. \A v \in Workers : pc'[v] = IF v = w THEN "insert" ELSE pc[v]
      BY <3>1 DEF UpsertInv, TypeOK
    <3>4. \A v \in Workers : WorkerInv(v)'
      BY <1>0, <2>1, <3>1, <3>3 DEF WorkerInv, Key
    <3>5. NothingLost' /\ RejectedOnlyByFaults'
      BY <3>1, <3>3 DEF UpsertInv, NothingLost, RejectedOnlyByFaults
    <3> QED
      BY <3>1, <3>2, <3>4, <3>5 DEF UpsertInv
  <2>2. CASE rows[Key(w)] # <<>>
    <3> DEFINE s == [r \in 1 .. Len(rows[Key(w)]) |-> cur[w]]
    <3>1. s \in Seq(Messages) /\ Len(s) = Len(rows[Key(w)]) /\ Len(rows[Key(w)]) > 0
      BY <1>0, <2>2, RowFacts
    <3>2. s # <<>> /\ Len(s) <= 1
      BY <1>0, <3>1, Len(<<>>) = 0 DEF UpsertInv
    <3>3. /\ rows' = [rows EXCEPT ![Key(w)] = s] /\ applied' = applied \cup {cur[w]}
          /\ pc' = [pc EXCEPT ![w] = "ack"] /\ pc[w] \in {"update", "insert"}
          /\ UNCHANGED <<ready, cur, attempts, raced, acked, rejected, faults, crashes>>
      BY <1>0, <1>3, <2>2 DEF Update
    <3> HIDE DEF s
    <3> QED
      BY <3>1, <3>2, <3>3, ApplyPreserves
  <2> QED
    BY <2>1, <2>2
<1>4. ASSUME NEW w \in Workers, Insert(w)
      PROVE  UpsertInv'
  <2> DEFINE s == Append(<<>>, cur[w])
  <2>1. s \in Seq(Messages) /\ Len(s) = 1 /\ Len(s) <= 1 /\ s # <<>>
    BY <1>0, Len(<<>>) = 0
  <2>2. /\ rows' = [rows EXCEPT ![Key(w)] = s] /\ applied' = applied \cup {cur[w]}
        /\ pc' = [pc EXCEPT ![w] = "ack"] /\ pc[w] \in {"update", "insert"}
        /\ UNCHANGED <<ready, cur, attempts, raced, acked, rejected, faults, crashes>>
    BY <1>0, <1>4 DEF Insert
  <2> HIDE DEF s
  <2> QED
    BY <2>1, <2>2, ApplyPreserves
<1>5. ASSUME NEW w \in Workers, DuplicateKey(w)
      PROVE  UpsertInv'
  BY <1>5, ThrowPreserves DEF DuplicateKey
<1>6. ASSUME NEW w \in Workers, StatementFails(w)
      PROVE  UpsertInv'
  BY <1>6, ThrowPreserves DEF StatementFails
<1>7. ASSUME NEW w \in Workers, Ack(w) \/ Crash(w)
      PROVE  UpsertInv'
  <2>1. /\ pc[w] # "idle" /\ pc' = [pc EXCEPT ![w] = "idle"]
        /\ UNCHANGED <<rows, cur, attempts, raced, applied, rejected, faults>>
    BY <1>7 DEF Ack, Crash
  <2>2. /\ acked' \subseteq applied /\ crashes' \in 0 .. MaxCrashes
        /\ ready' \subseteq Messages /\ ready \subseteq ready' /\ acked \subseteq acked'
        /\ cur[w] \in ready' \cup acked'
    BY <1>0, <1>7 DEF Ack, Crash, UpsertInv, TypeOK, WorkerInv, NothingLost
  <2>3. TypeOK'
    BY <2>1, <2>2 DEF UpsertInv, TypeOK
  <2>4. \A v \in Workers : pc'[v] = IF v = w THEN "idle" ELSE pc[v]
    BY <2>1 DEF UpsertInv, TypeOK
  <2>5. \A v \in Workers : WorkerInv(v)'
    BY <1>0, <2>1, <2>4 DEF WorkerInv, Key
  <2>6. NothingLost'
    BY <2>1, <2>2, <2>4 DEF UpsertInv, NothingLost
  <2> QED
    BY <2>1, <2>3, <2>5, <2>6 DEF UpsertInv, RejectedOnlyByFaults
<1>8. CASE UNCHANGED vars
  BY <1>0, <1>8 DEF vars, workVars, UpsertInv, TypeOK, WorkerInv, Key, NothingLost,
               RejectedOnlyByFaults
<1> QED
  BY <1>1, <1>2, <1>3, <1>4, <1>5, <1>6, <1>7, <1>8 DEF Next, Step

(***************************************************************************)
(* The inductive invariant of the upsert sink.                             *)
(***************************************************************************)
THEOREM UpsertInvariant == Spec => []UpsertInv
<1> QED
  BY UpsertInvInit, UpsertInvStep, PTL DEF Spec

(***************************************************************************)
(* Type correctness of the workers, the queue and the table of the upsert  *)
(* sink.                                                                   *)
(***************************************************************************)
THEOREM UpsertTypeCorrect == Spec => []TypeOK
<1>1. UpsertInv => TypeOK
  BY DEF UpsertInv
<1> QED
  BY <1>1, UpsertInvariant, PTL

(***************************************************************************)
(* Losing the race between update and insert never gets a message          *)
(* rejected.                                                               *)
(***************************************************************************)
THEOREM UpsertRejectedOnlyByFaults == Spec => []RejectedOnlyByFaults
<1>1. UpsertInv => RejectedOnlyByFaults
  BY DEF UpsertInv
<1> QED
  BY <1>1, UpsertInvariant, PTL

(***************************************************************************)
(* No message is lost between the queue, the workers and the table.        *)
(***************************************************************************)
THEOREM UpsertNothingLost == Spec => []NothingLost
<1>1. UpsertInv => NothingLost
  BY DEF UpsertInv
<1> QED
  BY <1>1, UpsertInvariant, PTL

(***************************************************************************)
(* Update-then-insert implements the atomic put of KeyedStore.             *)
(***************************************************************************)
THEOREM UpsertImplementsStore == Spec => ImplementsStore
<1>1. Init => Store!Init
  BY Len(<<>>) = 0 DEF Init, Store!Init, Visible
<1>2. UpsertInv /\ [Next]_vars => [Store!Next]_Visible
  <2> SUFFICES ASSUME UpsertInv, [Next]_vars PROVE [Store!Next]_Visible
    OBVIOUS
  <2> USE UpsertAssumption
  <2>0. /\ rows \in [Keys -> Seq(Messages)]
        /\ \A w \in Workers : cur[w] \in Messages /\ Key(w) \in Keys
    BY DEF UpsertInv, TypeOK, Key
  <2>1. CASE rows' = rows
    BY <2>1 DEF Visible
  <2>2. ASSUME NEW w \in Workers, NEW s \in Seq(Messages), Len(s) = 1, s[1] = cur[w],
               rows' = [rows EXCEPT ![Key(w)] = s]
        PROVE  Store!Next
    <3>1. \A key \in Keys : rows'[key] = IF key = Key(w) THEN s ELSE rows[key]
      BY <2>0, <2>2
    <3>2. {s[r] : r \in 1 .. Len(s)} = {cur[w]}
      BY <2>2
    <3>3. Visible' = [Visible EXCEPT ![KeyOf[cur[w]]] = {cur[w]}]
      <4>1. KeyOf[cur[w]] = Key(w) /\ Key(w) \in Keys
        BY <2>0 DEF Key
      <4>2. Visible' = [key \in Keys |-> {rows'[key][r] : r \in 1 .. Len(rows'[key])}]
        BY DEF Visible
      <4>3. \A key \in Keys :
                {rows'[key][r] : r \in 1 .. Len(rows'[key])} =
                    IF key = Key(w) THEN {cur[w]} ELSE Visible[key]
        BY <3>1, <3>2 DEF Visible
      <4>4. Visible' = [key \in Keys |-> IF key = Key(w) THEN {cur[w]} ELSE Visible[key]]
        BY <4>2, <4>3
      <4>5. DOMAIN Visible = Keys
        BY DEF Visible
      <4>6. Visible = [key \in Keys |-> Visible[key]]
        BY DEF Visible
      <4> QED
        BY <4>1, <4>4, <4>5, <4>6
    <3> QED
      BY <2>0, <3>3 DEF Store!Next, Store!Put
  <2>3. ASSUME NEW w \in Workers, Update(w)
        PROVE  rows' = rows \/ Store!Next
    <3>1. CASE rows[Key(w)] = <<>>
      BY <2>3, <3>1 DEF Update
    <3>2. CASE rows[Key(w)] # <<>>
      <4>0. rows[Key(w)] \in Seq(Messages) /\ Key(w) \in Keys /\ cur[w] \in Messages
        BY <2>0
      <4>5. Len(rows[Key(w)]) \in Nat
        BY <4>0
      <4>6. Len(rows[Key(w)]) <= 1
        BY <4>0 DEF UpsertInv
      <4>7. Len(rows[Key(w)]) > 0
        BY <4>0, <3>2, RowFacts
      <4>2. Len(rows[Key(w)]) = 1
        BY <4>5, <4>6, <4>7, ExactlyOne
      <4> DEFINE s == [r \in 1 .. Len(rows[Key(w)]) |-> cur[w]]
      <4>1. s \in Seq(Messages) /\ Len(s) = Len(rows[Key(w)])
        BY <4>0, RowFacts
      <4>3. s[1] = cur[w]
        BY <4>2
      <4>4. rows' = [rows EXCEPT ![Key(w)] = s]
        BY <2>0, <2>3, <3>2 DEF Update
      <4> HIDE DEF s
      <4> QED
        BY <2>2, <4>1, <4>2, <4>3, <4>4
    <3> QED
      BY <3>1, <3>2
  <2>4. ASSUME NEW w \in Workers, Insert(w)
        PROVE  Store!Next
    <3>1. rows' = [rows EXCEPT ![Key(w)] = Append(<<>>, cur[w])]
      BY <2>0, <2>4 DEF Insert
    <3>2. /\ Append(<<>>, cur[w]) \in Seq(Messages) /\ Len(Append(<<>>, cur[w])) = 1
          /\ Append(<<>>, cur[w])[1] = cur[w]
      BY <2>0
    <3> QED
      BY <2>2, <3>1, <3>2
  <2>5. ASSUME NEW w \in Workers,
               \/ Receive(w) \/ Parse(w) \/ DuplicateKey(w) \/ Ack(w)
               \/ StatementFails(w) \/ Crash(w)
        PROVE  rows' = rows
    BY <2>5 DEF Receive, Parse, DuplicateKey, Ack, StatementFails, Crash, Throw
  <2>6. CASE UNCHANGED vars
    BY <2>1, <2>6 DEF vars
  <2> QED
    BY <2>1, <2>3, <2>4, <2>5, <2>6 DEF Next, Step
<1> QED
  BY <1>1, <1>2, UpsertInvariant, PTL DEF Spec, ImplementsStore, Store!Spec
=============================================================================
