------------------------- MODULE AccountSinkProofs --------------------------
(***************************************************************************)
(* Proofs about AccountSink, for all instances, partitions, deployments    *)
(* and bounds, and for any publisher.                                      *)
(***************************************************************************)
EXTENDS AccountSink, TLAPS

(* Updating one entry of a table of positions. *)
LEMMA UpdateEntry ==
    ASSUME NEW I, NEW P, NEW f \in [I -> [P -> Nat]],
           NEW i \in I, NEW p \in P, NEW v \in Nat
    PROVE  /\ [f EXCEPT ![i][p] = v] \in [I -> [P -> Nat]]
           /\ \A j \in I, q \in P :
                 [f EXCEPT ![i][p] = v][j][q] =
                     IF j = i /\ q = p THEN v ELSE f[j][q]
  OBVIOUS

(* Replacing one row of it. *)
LEMMA UpdateRow ==
    ASSUME NEW I, NEW P, NEW f \in [I -> [P -> Nat]],
           NEW i \in I, NEW row \in [P -> Nat]
    PROVE  /\ [f EXCEPT ![i] = row] \in [I -> [P -> Nat]]
           /\ \A j \in I, q \in P :
                 [f EXCEPT ![i] = row][j][q] = IF j = i THEN row[q] ELSE f[j][q]
  OBVIOUS

(* A log with one more message has the old messages in their places. *)
LEMMA LogAppend ==
    ASSUME NEW s \in Seq(Event), NEW e \in Event
    PROVE  /\ Append(s, e) \in Seq(Event)
           /\ Len(s) \in Nat
           /\ Len(Append(s, e)) = Len(s) + 1
           /\ \A k \in 1 .. Len(s) : Append(s, e)[k] = s[k]
  OBVIOUS

(* A subscription begins inside the log or just after it. *)
LEMMA BeginningFacts ==
    ASSUME BrokerTypeOK, NEW p \in Partitions
    PROVE  \A first \in Beginning(p) :
               first \in Nat /\ first > 0 /\ first <= Len(log[p]) + 1
<1>1. log[p] \in Seq(Event) /\ Len(log[p]) \in Nat
  BY DEF BrokerTypeOK
<1>2. Offset \in {"first", "next", "last"}
  BY DeploymentsAssumption DEF BrokerTypeOK, Deployment, Offset
<1>3. Beginning(p) \subseteq 1 .. (Len(log[p]) + 1)
  BY <1>1, <1>2 DEF Beginning
<1> QED
  BY <1>1, <1>3

(* The table entries are natural numbers and the deployment is fixed. *)
LEMMA SinkTypes ==
    ASSUME SinkInv
    PROVE  /\ \A p \in Partitions :
                 /\ log[p] \in Seq(Event) /\ Len(log[p]) \in Nat
                 /\ stored[p] \in Nat /\ base[p] \in Nat
                 /\ stored[p] <= Len(log[p])
           /\ \A i \in Instances, p \in Partitions :
                 /\ pos[i][p] \in Nat /\ busy[i][p] \in Nat /\ done[i][p] \in Nat
                 /\ pos[i][p] <= Len(log[p]) + 1
                 /\ busy[i][p] <= Len(log[p])
                 /\ done[i][p] <= Len(log[p])
<1>1. /\ \A p \in Partitions :
            log[p] \in Seq(Event) /\ stored[p] \in Nat /\ base[p] \in Nat
      /\ \A i \in Instances, p \in Partitions :
            pos[i][p] \in Nat /\ busy[i][p] \in Nat /\ done[i][p] \in Nat
  BY DEF SinkInv, BrokerTypeOK, SinkTypeOK
<1>2. \A p \in Partitions : Len(log[p]) \in Nat
  BY <1>1
<1> QED
  BY <1>1, <1>2 DEF SinkInv, WithinLog

(* The inductive invariant holds at the start. *)
LEMMA SinkInvInit == SinkInit => SinkInv
<1> SUFFICES ASSUME SinkInit PROVE SinkInv
  OBVIOUS
<1> USE DEF BrokerInit, SinkInit, NoPosition, NoRows
<1>1. BrokerTypeOK /\ SinkTypeOK
  BY SinkBounds DEF BrokerTypeOK, SinkTypeOK
<1>2. /\ \A p \in Partitions : stored[p] = 0 /\ base[p] = 0 /\ log[p] = <<>> /\ Len(<<>>) = 0
      /\ \A i \in Instances, p \in Partitions :
            pos[i][p] = 0 /\ busy[i][p] = 0 /\ done[i][p] = 0
  OBVIOUS
<1>3. WithinLog
  BY <1>2 DEF WithinLog
<1>4. OneReader /\ \A i \in Instances, p \in Partitions : ReaderInv(i, p)
  BY <1>2 DEF OneReader, ReaderInv
<1>5. StoredFromBase
  BY <1>2 DEF StoredFromBase
<1> QED
  BY <1>1, <1>3, <1>4, <1>5 DEF SinkInv

(* A publisher leaves what is in the log in its place. *)
LEMMA LogGrows ==
    ASSUME BrokerTypeOK, Publishing
    PROVE  /\ log' \in [Partitions -> Seq(Event)]
           /\ \A p \in Partitions :
                 /\ Len(log'[p]) \in Nat /\ Len(log[p]) <= Len(log'[p])
                 /\ \A k \in 1 .. Len(log[p]) : log'[p][k] = log[p][k]
<1>0. log \in [Partitions -> Seq(Event)]
  BY DEF BrokerTypeOK
<1>1. CASE log' = log
  BY <1>0, <1>1
<1>2. ASSUME NEW q \in Partitions, NEW e \in Event, AppendTo(q, e)
      PROVE  /\ log' \in [Partitions -> Seq(Event)]
             /\ \A p \in Partitions :
                   /\ Len(log'[p]) \in Nat /\ Len(log[p]) <= Len(log'[p])
                   /\ \A k \in 1 .. Len(log[p]) : log'[p][k] = log[p][k]
  <2>1. log' = [log EXCEPT ![q] = Append(log[q], e)]
    BY <1>0, <1>2 DEF AppendTo
  <2>2. log[q] \in Seq(Event)
    BY <1>0
  <2>3. /\ Append(log[q], e) \in Seq(Event) /\ Len(log[q]) \in Nat
        /\ Len(Append(log[q], e)) = Len(log[q]) + 1
        /\ \A k \in 1 .. Len(log[q]) : Append(log[q], e)[k] = log[q][k]
    BY <2>2, LogAppend
  <2>4. log'[q] = Append(log[q], e) /\ \A p \in Partitions \ {q} : log'[p] = log[p]
    BY <1>0, <2>1
  <2>5. log' \in [Partitions -> Seq(Event)]
    BY <1>0, <2>1, <2>3
  <2>6. ASSUME NEW p \in Partitions
        PROVE  /\ Len(log'[p]) \in Nat /\ Len(log[p]) <= Len(log'[p])
               /\ \A k \in 1 .. Len(log[p]) : log'[p][k] = log[p][k]
    <3>1. CASE p = q
      BY <2>3, <2>4, <3>1
    <3>2. CASE p # q
      BY <1>0, <2>4, <3>2
    <3> QED
      BY <3>1, <3>2
  <2> QED
    BY <2>5, <2>6
<1> QED
  BY <1>1, <1>2 DEF Publishing

(* What the publishers append leaves the sinks' invariant alone. *)
LEMMA PublishingPreserves ==
    ASSUME SinkInv, Publishing, UNCHANGED sinkVars
    PROVE  SinkInv'
<1> USE DEF sinkVars, readVars, tableVars, sinkCounters
<1>1. conf' = conf /\ \A e : Due(e)' = Due(e)
  BY DEF Publishing, Due, Filtering
<1>2. /\ log' \in [Partitions -> Seq(Event)]
      /\ \A p \in Partitions :
            /\ Len(log'[p]) \in Nat /\ Len(log[p]) <= Len(log'[p])
            /\ \A k \in 1 .. Len(log[p]) : log'[p][k] = log[p][k]
  BY LogGrows DEF SinkInv
<1>3. (BrokerTypeOK /\ SinkTypeOK)'
  BY <1>1, <1>2 DEF SinkInv, BrokerTypeOK, SinkTypeOK
<1>4. WithinLog'
  BY <1>2, SinkTypes DEF WithinLog
<1>5. SingleActive' = SingleActive /\ (OneReader <=> OneReader')
  BY <1>1 DEF SingleActive, OneReader
<1>6. ASSUME NEW i \in Instances, NEW p \in Partitions, ReaderInv(i, p)
      PROVE  ReaderInv(i, p)'
  <2>1. \A k : k \in 1 .. (pos[i][p] - 1) => k \in 1 .. Len(log[p])
    BY SinkTypes
  <2> QED
    BY <1>1, <1>2, <1>6, <2>1, SinkTypes DEF ReaderInv, HandledUpTo, Handled
<1>7. StoredFromBase'
  BY <1>1, <1>2, <1>5, SinkTypes DEF SinkInv, StoredFromBase, Handled
<1> QED
  BY <1>3, <1>4, <1>5, <1>6, <1>7 DEF SinkInv
-----------------------------------------------------------------------------
(* Steps of the sinks *)

(* A step that touches neither the reading of p by i nor loses a handled   *)
(* event of p keeps the invariant of the reader.                           *)
LEMMA KeepReader ==
    ASSUME NEW i \in Instances, NEW p \in Partitions,
           UNCHANGED <<conf, log>>, base'[p] = base[p],
           pos'[i][p] = pos[i][p], busy'[i][p] = busy[i][p],
           done'[i][p] = done[i][p],
           conf.ddlAuto # "create" => \A k : Handled(p, k) => Handled(p, k)',
           ReaderInv(i, p)
    PROVE  ReaderInv(i, p)'
<1>1. \A e : Due(e)' = Due(e)
  BY DEF Due, Filtering
<1> QED
  BY <1>1 DEF ReaderInv, HandledUpTo

(* A step that stores no offset and loses no handled event keeps           *)
(* StoredFromBase.                                                         *)
LEMMA KeepStored ==
    ASSUME UNCHANGED <<conf, log, stored, from, base>>,
           conf.ddlAuto # "create" =>
               \A p \in Partitions : \A k : Handled(p, k) => Handled(p, k)',
           StoredFromBase
    PROVE  StoredFromBase'
<1>1. SingleActive' = SingleActive /\ \A e : Due(e)' = Due(e)
  BY DEF Due, Filtering, SingleActive
<1> QED
  BY <1>1 DEF StoredFromBase

(* An instance that starts has no subscription yet. *)
LEMMA StartPreserves ==
    ASSUME SinkInv, NEW i \in Instances, StartInstance(i)
    PROVE  SinkInv'
<1> USE DEF StartInstance, sinkCounters
<1>1. (BrokerTypeOK /\ SinkTypeOK)'
  <2>1. db' \in [Ids -> Nat] /\ saved' \in [Partitions -> SUBSET Nat]
    BY DEF SinkInv, SinkTypeOK, NoRows
  <2>2. up' \subseteq Instances
    BY DEF SinkInv, SinkTypeOK
  <2> QED
    BY <2>1, <2>2 DEF SinkInv, BrokerTypeOK, SinkTypeOK
<1>2. WithinLog' /\ (OneReader => OneReader') /\ SingleActive' = SingleActive
  BY DEF SinkInv, WithinLog, OneReader, SingleActive
<1>3. conf.ddlAuto # "create" =>
          \A p \in Partitions : \A k : Handled(p, k) => Handled(p, k)'
  BY DEF Handled
<1>4. StoredFromBase'
  BY <1>3, KeepStored DEF SinkInv
<1>5. \A j \in Instances, q \in Partitions : ReaderInv(j, q) => ReaderInv(j, q)'
  BY <1>3, KeepReader
<1> QED
  BY <1>1, <1>2, <1>4, <1>5 DEF SinkInv

(* Where a subscription begins. *)
LEMMA SubscribeEffect ==
    ASSUME SinkInv, NEW i \in Instances, NEW p \in Partitions, Subscribe(i, p)
    PROVE  \E start \in Nat :
              /\ start > 0 /\ start <= Len(log[p]) + 1
              /\ \/ base' = base /\ start = stored[p] + 1
                 \/ base' = [base EXCEPT ![p] = start] /\ (SingleActive => stored[p] = 0)
              /\ pos' \in [Instances -> [Partitions -> Nat]]
              /\ \A j \in Instances, q \in Partitions :
                    pos'[j][q] = IF j = i /\ q = p THEN start ELSE pos[j][q]
              /\ done' \in [Instances -> [Partitions -> Nat]]
              /\ \A j \in Instances, q \in Partitions :
                    done'[j][q] = IF j = i /\ q = p THEN 0 ELSE done[j][q]
<1> USE DEF Subscribe
<1>1. PICK start \in Nat :
          /\ start > 0 /\ start <= Len(log[p]) + 1
          /\ pos' = [pos EXCEPT ![i][p] = start]
          /\ \/ base' = base /\ start = stored[p] + 1
             \/ base' = [base EXCEPT ![p] = start] /\ (SingleActive => stored[p] = 0)
  <2>1. CASE Named /\ stored[p] > 0
    <3>1. stored[p] + 1 \in Nat /\ stored[p] + 1 > 0 /\ stored[p] + 1 <= Len(log[p]) + 1
      BY SinkTypes
    <3>2. base' = base /\ pos' = [pos EXCEPT ![i][p] = stored[p] + 1]
      BY <2>1
    <3> QED
      BY <3>1, <3>2
  <2>2. CASE ~(Named /\ stored[p] > 0)
    <3>1. PICK first \in Beginning(p) :
              /\ pos' = [pos EXCEPT ![i][p] = first]
              /\ base' = [base EXCEPT ![p] = first]
      BY <2>2
    <3>2. first \in Nat /\ first > 0 /\ first <= Len(log[p]) + 1
      BY BeginningFacts DEF SinkInv
    <3>3. SingleActive => stored[p] = 0
      BY <2>2, SinkTypes DEF Named
    <3> QED
      BY <3>1, <3>2, <3>3
  <2> QED
    BY <2>1, <2>2
<1>2. /\ pos \in [Instances -> [Partitions -> Nat]]
      /\ done \in [Instances -> [Partitions -> Nat]]
  BY DEF SinkInv, SinkTypeOK
<1>3. /\ pos' \in [Instances -> [Partitions -> Nat]]
      /\ \A j \in Instances, q \in Partitions :
            pos'[j][q] = IF j = i /\ q = p THEN start ELSE pos[j][q]
      /\ done' \in [Instances -> [Partitions -> Nat]]
      /\ \A j \in Instances, q \in Partitions :
            done'[j][q] = IF j = i /\ q = p THEN 0 ELSE done[j][q]
  <2>1. pos' = [pos EXCEPT ![i][p] = start] /\ done' = [done EXCEPT ![i][p] = 0] /\ 0 \in Nat
    BY <1>1
  <2>2. <1>3!1 /\ <1>3!2
    BY <2>1, <1>2, UpdateEntry
  <2>3. <1>3!3 /\ <1>3!4
    BY <2>1, <1>2, UpdateEntry
  <2> QED
    BY <2>2, <2>3
<1> QED
  BY <1>1, <1>3

(* The first reader stays, the base moves with a reader without an offset. *)
LEMMA SubscribeBases ==
    ASSUME BrokerTypeOK, SinkTypeOK, NEW i \in Instances, NEW p \in Partitions,
           Subscribe(i, p)
    PROVE  /\ from' \in [Partitions -> Nat]
           /\ \A q \in Partitions \ {p} : from'[q] = from[q] /\ base'[q] = base[q]
           /\ \/ from' = from /\ base' = base /\ stored[p] > 0
              \/ /\ base'[p] \in Beginning(p) /\ base'[p] > 0
                 /\ from'[p] = IF from[p] = 0 THEN base'[p] ELSE from[p]
<1>1. from \in [Partitions -> Nat] /\ base \in [Partitions -> Nat]
  BY DEF SinkTypeOK
<1>2. CASE Named /\ stored[p] > 0
  BY <1>1, <1>2 DEF Subscribe
<1>3. CASE ~(Named /\ stored[p] > 0)
  <2>1. PICK first \in Beginning(p) :
            /\ base' = [base EXCEPT ![p] = first]
            /\ from' = [from EXCEPT ![p] = IF from[p] = 0 THEN first ELSE from[p]]
    BY <1>3 DEF Subscribe
  <2>2. first \in Nat /\ first > 0
    BY BeginningFacts
  <2> QED
    BY <1>1, <2>1, <2>2
<1> QED
  BY <1>2, <1>3

(* A new subscription begins no later than what has been handled. *)
LEMMA SubscribePreserves ==
    ASSUME SinkInv, NEW i \in Instances, NEW p \in Partitions, Subscribe(i, p)
    PROVE  SinkInv'
<1>1. PICK start \in Nat :
          /\ start > 0 /\ start <= Len(log[p]) + 1
          /\ \/ base' = base /\ start = stored[p] + 1
             \/ base' = [base EXCEPT ![p] = start] /\ (SingleActive => stored[p] = 0)
          /\ pos' \in [Instances -> [Partitions -> Nat]]
          /\ \A j \in Instances, q \in Partitions :
                pos'[j][q] = IF j = i /\ q = p THEN start ELSE pos[j][q]
          /\ done' \in [Instances -> [Partitions -> Nat]]
          /\ \A j \in Instances, q \in Partitions :
                done'[j][q] = IF j = i /\ q = p THEN 0 ELSE done[j][q]
  BY SubscribeEffect
<1> USE DEF Subscribe, tableVars, sinkCounters
<1>2. base \in [Partitions -> Nat]
  BY DEF SinkInv, SinkTypeOK
<1>3. /\ pos' \in [Instances -> [Partitions -> Nat]]
      /\ \A j \in Instances, q \in Partitions :
            pos'[j][q] = IF j = i /\ q = p THEN start ELSE pos[j][q]
      /\ done' \in [Instances -> [Partitions -> Nat]]
      /\ \A j \in Instances, q \in Partitions :
            done'[j][q] = IF j = i /\ q = p THEN 0 ELSE done[j][q]
  BY <1>1
<1>4. base' \in [Partitions -> Nat] /\ \A q \in Partitions \ {p} : base'[q] = base[q]
  BY <1>1, <1>2
<1>5. (BrokerTypeOK /\ SinkTypeOK)'
  <2>1. from' \in [Partitions -> Nat]
    BY SubscribeBases DEF SinkInv
  <2> QED
    BY <1>3, <1>4, <2>1 DEF SinkInv, BrokerTypeOK, SinkTypeOK
<1>6. WithinLog'
  BY <1>1, <1>3, SinkTypes DEF WithinLog
<1>7. /\ SingleActive' = SingleActive
      /\ \A e : Due(e)' = Due(e)
      /\ \A q \in Partitions : \A k : Handled(q, k)' = Handled(q, k)
  BY DEF SingleActive, Due, Filtering, Handled
<1>8. ASSUME SingleActive
      PROVE  OneReader'
  <2>1. \A j \in Instances : pos[j][p] = 0
    BY <1>8
  <2> QED
    BY <1>3, <1>8, <2>1 DEF SinkInv, OneReader
<1>9. StoredFromBase'
  <2> SUFFICES ASSUME SingleActive, conf.ddlAuto # "create", NEW q \in Partitions,
                      NEW k \in base'[q] .. stored[q], k > 0, Due(log[q][k])
               PROVE  Handled(q, k)
    BY <1>7 DEF StoredFromBase
  <2>1. CASE base'[q] = base[q]
    BY <2>1 DEF SinkInv, StoredFromBase
  <2>2. CASE q = p /\ stored[p] = 0
    BY <2>2, <1>4
  <2> QED
    BY <2>1, <2>2, <1>1, <1>2, <1>4
<1>10. ASSUME SingleActive, NEW j \in Instances, NEW q \in Partitions
       PROVE  ReaderInv(j, q)'
  <2>1. ReaderInv(j, q)
    BY <1>10 DEF SinkInv
  <2>2. CASE q # p
    BY <2>1, <2>2, <1>3, <1>4, <1>7, KeepReader
  <2>3. CASE q = p /\ j # i
    BY <2>3, <1>3, <1>10 DEF ReaderInv
  <2>4. CASE q = p /\ j = i
    <3>1. pos'[j][q] = start /\ done'[j][q] = 0 /\ busy'[j][q] = 0
      BY <2>4, <1>3
    <3>2. ASSUME conf.ddlAuto # "create"
          PROVE  HandledUpTo(q, start - 1, 0)'
      <4> SUFFICES ASSUME NEW k \in base'[p] .. (start - 1), k > 0, Due(log[p][k])
                   PROVE  Handled(p, k)
        BY <2>4, <1>7 DEF HandledUpTo
      <4>1. CASE base' = base /\ start = stored[p] + 1
        <5>1. k \in base[p] .. stored[p]
          BY <4>1, SinkTypes
        <5> QED
          BY <5>1, <3>2, <1>10 DEF SinkInv, StoredFromBase
      <4>2. CASE base' = [base EXCEPT ![p] = start]
        BY <4>2, <1>2
      <4> QED
        BY <4>1, <4>2, <1>1
    <3> QED
      BY <3>1, <3>2 DEF ReaderInv
  <2> QED
    BY <2>2, <2>3, <2>4
<1> QED
  BY <1>5, <1>6, <1>7, <1>8, <1>9, <1>10 DEF SinkInv

(* The next event of the log, which a filter may keep back. *)
Hand(i, p) == IF Due(log[p][pos[i][p]]) THEN pos[i][p] ELSE 0

LEMMA DeliverEffect ==
    ASSUME SinkInv, NEW i \in Instances, NEW p \in Partitions,
           Deliver(i, p) \/ Skip(i, p)
    PROVE  /\ pos[i][p] + 1 \in Nat /\ Hand(i, p) \in Nat /\ pos[i][p] \in 1 .. Len(log[p])
           /\ busy[i][p] = 0
           /\ UNCHANGED <<conf, log, up, done, from, base, stored, db, saved, threw,
                          sinkCrashes, sinkDrops, dbFaults>>
           /\ pos' \in [Instances -> [Partitions -> Nat]]
           /\ \A j \in Instances, q \in Partitions :
                 pos'[j][q] = IF j = i /\ q = p THEN pos[i][p] + 1 ELSE pos[j][q]
           /\ busy' \in [Instances -> [Partitions -> Nat]]
           /\ \A j \in Instances, q \in Partitions :
                 busy'[j][q] = IF j = i /\ q = p THEN Hand(i, p) ELSE busy[j][q]
<1> DEFINE next == pos[i][p] + 1
<1>0. /\ pos \in [Instances -> [Partitions -> Nat]]
      /\ busy \in [Instances -> [Partitions -> Nat]]
  BY DEF SinkInv, SinkTypeOK
<1>1. /\ next \in Nat /\ Hand(i, p) \in Nat /\ pos[i][p] \in 1 .. Len(log[p])
      /\ busy[i][p] = 0
      /\ pos' = [pos EXCEPT ![i][p] = next]
      /\ busy' = [busy EXCEPT ![i][p] = Hand(i, p)]
      /\ UNCHANGED <<conf, log, up, done, from, base, stored, db, saved, threw,
                     sinkCrashes, sinkDrops, dbFaults>>
  <2>1. pos[i][p] \in Nat /\ next \in Nat /\ Hand(i, p) \in Nat
    BY SinkTypes DEF Hand
  <2>2. /\ pos[i][p] \in 1 .. Len(log[p]) /\ busy[i][p] = 0
        /\ pos' = [pos EXCEPT ![i][p] = next]
        /\ UNCHANGED <<conf, log, up, done, from, base, stored, db, saved, threw,
                       sinkCrashes, sinkDrops, dbFaults>>
    BY DEF Deliver, Skip, tableVars, sinkCounters
  <2>3. ASSUME Deliver(i, p) PROVE busy' = [busy EXCEPT ![i][p] = Hand(i, p)]
    BY <2>3 DEF Deliver, Hand
  <2>4. ASSUME Skip(i, p) PROVE busy' = [busy EXCEPT ![i][p] = Hand(i, p)]
    <3>1. busy' = busy /\ Hand(i, p) = 0
      BY <2>4 DEF Skip, Hand
    <3>2. busy = [busy EXCEPT ![i][p] = 0]
      BY <1>0, <2>2
    <3> QED
      BY <3>1, <3>2
  <2>5. busy' = [busy EXCEPT ![i][p] = Hand(i, p)]
    BY <2>3, <2>4
  <2> QED
    BY <2>1, <2>2, <2>5
<1> HIDE DEF next
<1>2. /\ pos' \in [Instances -> [Partitions -> Nat]]
      /\ \A j \in Instances, q \in Partitions :
            pos'[j][q] = IF j = i /\ q = p THEN next ELSE pos[j][q]
  BY <1>0, <1>1, UpdateEntry
<1>3. /\ busy' \in [Instances -> [Partitions -> Nat]]
      /\ \A j \in Instances, q \in Partitions :
            busy'[j][q] = IF j = i /\ q = p THEN Hand(i, p) ELSE busy[j][q]
  BY <1>0, <1>1, UpdateEntry
<1> QED
  BY <1>1, <1>2, <1>3 DEF next

(* The next event of the log is handed to the listener. *)
LEMMA DeliverPreserves ==
    ASSUME SinkInv, NEW i \in Instances, NEW p \in Partitions,
           Deliver(i, p) \/ Skip(i, p)
    PROVE  SinkInv'
<1> DEFINE next == pos[i][p] + 1
           hand == Hand(i, p)
<1>1. /\ next \in Nat /\ hand \in Nat /\ pos[i][p] \in 1 .. Len(log[p])
      /\ busy[i][p] = 0
      /\ UNCHANGED <<conf, log, up, done, from, base, stored, db, saved, threw,
                     sinkCrashes, sinkDrops, dbFaults>>
  BY DeliverEffect
<1>2. /\ pos' \in [Instances -> [Partitions -> Nat]]
      /\ \A j \in Instances, q \in Partitions :
            pos'[j][q] = IF j = i /\ q = p THEN next ELSE pos[j][q]
  BY DeliverEffect
<1>3. /\ busy' \in [Instances -> [Partitions -> Nat]]
      /\ \A j \in Instances, q \in Partitions :
            busy'[j][q] = IF j = i /\ q = p THEN hand ELSE busy[j][q]
  BY DeliverEffect
<1>4. (BrokerTypeOK /\ SinkTypeOK)'
  BY <1>1, <1>2, <1>3 DEF SinkInv, BrokerTypeOK, SinkTypeOK
<1>5. WithinLog'
  <2>1. hand <= Len(log[p]) /\ next <= Len(log[p]) + 1
    BY <1>1, SinkTypes DEF Hand
  <2> HIDE DEF hand, next
  <2> QED
    BY <1>1, <1>2, <1>3, <2>1, SinkTypes DEF WithinLog
<1>6. SingleActive' = SingleActive /\ \A q \in Partitions : \A k : Handled(q, k)' = Handled(q, k)
  BY <1>1 DEF SingleActive, Handled
<1>7. OneReader => OneReader'
  <2>0. pos[i][p] > 0
    BY <1>1, SinkTypes
  <2>1. \A j \in Instances, q \in Partitions : pos'[j][q] > 0 => pos[j][q] > 0
    <3> HIDE DEF next
    <3> QED
      BY <1>2, <2>0
  <2> QED
    BY <2>1 DEF OneReader
<1>8. StoredFromBase'
  BY <1>1, <1>6, KeepStored DEF SinkInv
<1>9. ASSUME NEW j \in Instances, NEW q \in Partitions, ReaderInv(j, q)
      PROVE  ReaderInv(j, q)'
  <2>1. CASE j = i /\ q = p
    <3>1. done[i][p] < pos[i][p] /\ pos[i][p] \in Nat /\ done[i][p] \in Nat
      BY <1>1, <1>9, <2>1, SinkTypes DEF ReaderInv
    <3>2. ASSUME conf.ddlAuto # "create", NEW k \in base[p] .. pos[i][p],
                 k > 0, k # hand, Due(log[p][k])
          PROVE  Handled(p, k)
      BY <1>1, <1>9, <2>1, <3>2, SinkTypes DEF Hand, ReaderInv, HandledUpTo
    <3>3. base' = base /\ log' = log /\ conf' = conf /\ \A e : Due(e)' = Due(e)
      BY <1>1 DEF Due, Filtering
    <3>4. pos'[j][q] = pos[i][p] + 1 /\ busy'[j][q] = hand /\ done'[j][q] = done[i][p]
      BY <1>1, <1>2, <1>3, <2>1
    <3>5. hand = 0 \/ hand = pos[i][p]
      BY DEF Hand
    <3>6. conf.ddlAuto # "create" => HandledUpTo(q, pos[j][q] - 1, busy[j][q])'
      <4> HIDE DEF hand
      <4> QED
        BY <1>6, <2>1, <3>1, <3>2, <3>3, <3>4 DEF HandledUpTo
    <3> HIDE DEF hand
    <3> QED
      BY <3>1, <3>3, <3>4, <3>5, <3>6 DEF ReaderInv
  <2>2. CASE ~(j = i /\ q = p)
    BY <1>1, <1>2, <1>3, <1>6, <1>9, <2>2, KeepReader
  <2> QED
    BY <2>1, <2>2
<1> QED
  BY <1>4, <1>5, <1>6, <1>7, <1>8, <1>9 DEF SinkInv

(* The event in the listener's hands is saved, or its save throws. *)
LEMMA FinishEffect ==
    ASSUME SinkInv, NEW i \in Instances, NEW p \in Partitions,
           Save(i, p) \/ SaveThrows(i, p)
    PROVE  /\ busy[i][p] \in 1 .. Len(log[p])
           /\ UNCHANGED <<conf, log, up, pos, from, base, stored, sinkCrashes, sinkDrops>>
           /\ busy' \in [Instances -> [Partitions -> Nat]]
           /\ \A j \in Instances, q \in Partitions :
                 busy'[j][q] = IF j = i /\ q = p THEN 0 ELSE busy[j][q]
           /\ done' \in [Instances -> [Partitions -> Nat]]
           /\ \A j \in Instances, q \in Partitions :
                 ~(j = i /\ q = p) => done'[j][q] = done[j][q]
           /\ IF Save(i, p) THEN done'[i][p] = busy[i][p] ELSE done' = done
<1> DEFINE k == busy[i][p]
<1>0. /\ busy \in [Instances -> [Partitions -> Nat]]
      /\ done \in [Instances -> [Partitions -> Nat]]
  BY DEF SinkInv, SinkTypeOK
<1>1. /\ k \in 1 .. Len(log[p])
      /\ busy' = [busy EXCEPT ![i][p] = 0]
      /\ UNCHANGED <<conf, log, up, pos, from, base, stored, sinkCrashes, sinkDrops>>
  BY SinkTypes DEF Save, SaveThrows, sinkCounters
<1>2. /\ busy' \in [Instances -> [Partitions -> Nat]]
      /\ \A j \in Instances, q \in Partitions :
            busy'[j][q] = IF j = i /\ q = p THEN 0 ELSE busy[j][q]
  BY <1>0, <1>1, UpdateEntry
<1>3. /\ done' \in [Instances -> [Partitions -> Nat]]
      /\ \A j \in Instances, q \in Partitions :
            ~(j = i /\ q = p) => done'[j][q] = done[j][q]
      /\ IF Save(i, p) THEN done'[i][p] = k ELSE done' = done
  <2>1. CASE Save(i, p)
    <3>1. done' = [done EXCEPT ![i][p] = k] /\ k \in Nat
      BY <1>1, <2>1 DEF Save
    <3> HIDE DEF k
    <3> QED
      BY <1>0, <2>1, <3>1, UpdateEntry
  <2>2. CASE ~Save(i, p)
    BY <1>0, <2>2 DEF SaveThrows
  <2> QED
    BY <2>1, <2>2
<1> QED
  BY <1>1, <1>2, <1>3

LEMMA FinishPreserves ==
    ASSUME SinkInv, NEW i \in Instances, NEW p \in Partitions,
           Save(i, p) \/ SaveThrows(i, p)
    PROVE  SinkInv'
<1> DEFINE k == busy[i][p]
<1>0. /\ db \in [Ids -> Nat]
      /\ saved \in [Partitions -> SUBSET Nat] /\ threw \in [Partitions -> SUBSET Nat]
      /\ dbFaults \in 0 .. MaxDbFaults
  BY DEF SinkInv, SinkTypeOK
<1>1. /\ k \in 1 .. Len(log[p])
      /\ UNCHANGED <<conf, log, up, pos, from, base, stored, sinkCrashes, sinkDrops>>
  BY FinishEffect
<1>2. /\ busy' \in [Instances -> [Partitions -> Nat]]
      /\ \A j \in Instances, q \in Partitions :
            busy'[j][q] = IF j = i /\ q = p THEN 0 ELSE busy[j][q]
  BY FinishEffect
<1>3. /\ done' \in [Instances -> [Partitions -> Nat]]
      /\ \A j \in Instances, q \in Partitions :
            ~(j = i /\ q = p) => done'[j][q] = done[j][q]
      /\ done'[i][p] = k \/ done'[i][p] = done[i][p]
  BY FinishEffect
<1>4. /\ \A q \in Partitions : \A m : Handled(q, m) => Handled(q, m)'
      /\ \A m : m = k => Handled(p, m)'
      /\ saved' \in [Partitions -> SUBSET Nat] /\ threw' \in [Partitions -> SUBSET Nat]
  <2>1. CASE Save(i, p)
    <3>1. saved' = [saved EXCEPT ![p] = saved[p] \cup {k}] /\ threw' = threw /\ k \in Nat
      BY <1>1, <2>1 DEF Save
    <3> HIDE DEF k
    <3> QED
      BY <1>0, <3>1 DEF Handled
  <2>2. CASE SaveThrows(i, p)
    <3>1. threw' = [threw EXCEPT ![p] = threw[p] \cup {k}] /\ saved' = saved /\ k \in Nat
      BY <1>1, <2>2 DEF SaveThrows
    <3> HIDE DEF k
    <3> QED
      BY <1>0, <3>1 DEF Handled
  <2> QED
    BY <2>1, <2>2
<1>5. db' \in [Ids -> Nat] /\ dbFaults' \in 0 .. MaxDbFaults
  <2>1. CASE Save(i, p)
    <3>1. log[p][k] \in Event
      BY <1>1, SinkTypes
    <3>2. log[p][k].id # NoId => log[p][k].id \in Ids /\ log[p][k].n \in Nat
      BY <3>1 DEF Event
    <3>3. log[p][k].n \in Nat
      BY <3>1 DEF Event
    <3>4. log[p][k].id # NoId /\ db' = [db EXCEPT ![log[p][k].id] = log[p][k].n]
      BY <2>1 DEF Save
    <3> QED
      BY <1>0, <2>1, <3>2, <3>3, <3>4 DEF Save, sinkCounters
  <2>2. CASE SaveThrows(i, p)
    BY <1>0, <2>2, SinkBounds DEF SaveThrows
  <2> QED
    BY <2>1, <2>2
<1>6. (BrokerTypeOK /\ SinkTypeOK)'
  BY <1>1, <1>2, <1>3, <1>4, <1>5 DEF SinkInv, BrokerTypeOK, SinkTypeOK
<1>7. WithinLog'
  BY <1>1, <1>2, <1>3, SinkTypes DEF WithinLog
<1>8. SingleActive' = SingleActive /\ (OneReader => OneReader') /\ \A e : Due(e)' = Due(e)
  BY <1>1 DEF SingleActive, OneReader, Due, Filtering
<1>9. StoredFromBase'
  BY <1>1, <1>4, KeepStored DEF SinkInv
<1>10. ASSUME NEW j \in Instances, NEW q \in Partitions, ReaderInv(j, q)
       PROVE  ReaderInv(j, q)'
  <2>1. CASE ~(j = i /\ q = p)
    BY <1>1, <1>2, <1>3, <1>4, <1>10, <2>1, KeepReader
  <2>2. CASE j = i /\ q = p
    <3>1. pos'[i][p] = pos[i][p] /\ busy'[i][p] = 0 /\ pos[i][p] \in Nat
      BY <1>1, <1>2, SinkTypes
    <3>2. ASSUME pos[i][p] > 0
          PROVE  done'[i][p] < pos'[i][p]
      BY <1>1, <1>3, <1>10, <2>2, <3>1, <3>2 DEF ReaderInv
    <3>3. ASSUME pos[i][p] > 0, conf.ddlAuto # "create"
          PROVE  HandledUpTo(p, pos[i][p] - 1, busy[i][p])'
      <4>1. HandledUpTo(p, pos[i][p] - 1, k)
        BY <1>10, <2>2, <3>3 DEF ReaderInv
      <4> HIDE DEF k
      <4> QED
        BY <1>1, <1>4, <1>8, <3>1, <4>1 DEF HandledUpTo
    <3> QED
      BY <1>1, <2>2, <3>1, <3>2, <3>3 DEF ReaderInv
  <2> QED
    BY <2>1, <2>2
<1> QED
  BY <1>6, <1>7, <1>8, <1>9, <1>10 DEF SinkInv

(* The offset stored is one whose events have all been handled. *)
LEMMA StorePreserves ==
    ASSUME SinkInv, NEW i \in Instances, NEW p \in Partitions, StoreOffset(i, p)
    PROVE  SinkInv'
<1> USE DEF StoreOffset, readVars, tableVars, sinkCounters
<1>1. /\ stored' \in [Partitions -> Nat] /\ stored'[p] = done[i][p]
      /\ \A q \in Partitions \ {p} : stored'[q] = stored[q]
      /\ done[i][p] <= Len(log[p])
  BY SinkTypes DEF SinkInv, SinkTypeOK
<1>2. (BrokerTypeOK /\ SinkTypeOK)'
  BY <1>1 DEF SinkInv, BrokerTypeOK, SinkTypeOK
<1>3. WithinLog'
  BY <1>1 DEF SinkInv, WithinLog
<1>4. /\ SingleActive' = SingleActive /\ (OneReader => OneReader')
      /\ \A e : Due(e)' = Due(e)
      /\ \A q \in Partitions : \A k : Handled(q, k)' = Handled(q, k)
  BY DEF SingleActive, OneReader, Due, Filtering, Handled
<1>5. \A j \in Instances, q \in Partitions : ReaderInv(j, q) => ReaderInv(j, q)'
  BY <1>4, KeepReader
<1>6. StoredFromBase'
  <2> SUFFICES ASSUME SingleActive, conf.ddlAuto # "create", NEW q \in Partitions,
                      NEW k \in base[q] .. stored'[q], k > 0, Due(log[q][k])
               PROVE  Handled(q, k)
    BY <1>4 DEF StoredFromBase
  <2>1. CASE q # p
    BY <1>1, <2>1 DEF SinkInv, StoredFromBase
  <2>2. CASE q = p
    <3>1. ReaderInv(i, p)
      BY DEF SinkInv
    <3>2. k <= done[i][p] /\ k \in base[p] .. (pos[i][p] - 1) /\ k # busy[i][p]
      BY <1>1, <2>2, <3>1, SinkTypes DEF ReaderInv
    <3> QED
      BY <2>2, <3>1, <3>2 DEF ReaderInv, HandledUpTo
  <2> QED
    BY <2>1, <2>2
<1> QED
  BY <1>2, <1>3, <1>4, <1>5, <1>6 DEF SinkInv

(* Losing a subscription, or the whole instance. *)
LEMMA LeaveEffect ==
    ASSUME SinkInv, NEW i \in Instances, LoseConnection(i) \/ CrashInstance(i)
    PROVE  /\ UNCHANGED <<conf, log, from, base, stored, db, saved, threw, dbFaults>>
           /\ sinkCrashes' \in 0 .. MaxSinkCrashes /\ sinkDrops' \in 0 .. MaxSinkDrops
           /\ up' \subseteq Instances
           /\ pos' \in [Instances -> [Partitions -> Nat]]
           /\ \A j \in Instances, q \in Partitions :
                 /\ j # i => pos'[j][q] = pos[j][q]
                 /\ pos'[i][q] = 0 \/ (Replay /\ pos'[i][q] = 1 /\ pos[i][q] > 0)
           /\ busy' \in [Instances -> [Partitions -> Nat]]
           /\ done' \in [Instances -> [Partitions -> Nat]]
           /\ \A j \in Instances, q \in Partitions :
                 /\ j # i => busy'[j][q] = busy[j][q] /\ done'[j][q] = done[j][q]
                 /\ busy'[j][q] = 0 \/ busy'[j][q] = busy[j][q]
                 /\ done'[j][q] = 0 \/ done'[j][q] = done[j][q]
           /\ CrashInstance(i) => sinkDrops' = sinkDrops /\ \A q \in Partitions : busy'[i][q] = 0
<1> DEFINE row == [p \in Partitions |-> IF Replay /\ pos[i][p] > 0 THEN 1 ELSE 0]
<1>0. /\ pos \in [Instances -> [Partitions -> Nat]]
      /\ busy \in [Instances -> [Partitions -> Nat]]
      /\ done \in [Instances -> [Partitions -> Nat]]
      /\ NoPosition \in [Partitions -> Nat] /\ row \in [Partitions -> Nat]
      /\ up \subseteq Instances
      /\ sinkCrashes \in 0 .. MaxSinkCrashes /\ sinkDrops \in 0 .. MaxSinkDrops
  BY DEF SinkInv, SinkTypeOK, NoPosition
<1>1. /\ UNCHANGED <<conf, log, from, base, stored, db, saved, threw, dbFaults>>
      /\ sinkCrashes' \in 0 .. MaxSinkCrashes /\ sinkDrops' \in 0 .. MaxSinkDrops
      /\ up' \subseteq Instances
  BY <1>0, SinkBounds DEF LoseConnection, CrashInstance, tableVars
<1>2. /\ pos' \in [Instances -> [Partitions -> Nat]]
      /\ \A j \in Instances, q \in Partitions :
            /\ j # i => pos'[j][q] = pos[j][q]
            /\ pos'[i][q] = 0 \/ (Replay /\ pos'[i][q] = 1 /\ pos[i][q] > 0)
  <2>1. CASE LoseConnection(i)
    <3>1. pos' = [pos EXCEPT ![i] = row]
      BY <1>0, <2>1 DEF LoseConnection
    <3>2. /\ pos' \in [Instances -> [Partitions -> Nat]]
          /\ \A j \in Instances, q \in Partitions :
                pos'[j][q] = IF j = i THEN row[q] ELSE pos[j][q]
      <4> HIDE DEF row
      <4> QED
        BY <1>0, <3>1, UpdateRow
    <3> QED
      BY <3>2
  <2>2. CASE CrashInstance(i)
    <3>1. /\ pos' \in [Instances -> [Partitions -> Nat]]
          /\ \A j \in Instances, q \in Partitions :
                pos'[j][q] = IF j = i THEN NoPosition[q] ELSE pos[j][q]
      BY <1>0, <2>2, UpdateRow DEF CrashInstance
    <3> QED
      BY <3>1 DEF NoPosition
  <2> QED
    BY <2>1, <2>2
<1>3. /\ busy' \in [Instances -> [Partitions -> Nat]]
      /\ done' \in [Instances -> [Partitions -> Nat]]
      /\ \A j \in Instances, q \in Partitions :
            /\ j # i => busy'[j][q] = busy[j][q] /\ done'[j][q] = done[j][q]
            /\ busy'[j][q] = 0 \/ busy'[j][q] = busy[j][q]
            /\ done'[j][q] = 0 \/ done'[j][q] = done[j][q]
  <2>1. CASE LoseConnection(i)
    BY <1>0, <2>1 DEF LoseConnection
  <2>2. CASE CrashInstance(i)
    <3>1. \A q \in Partitions : NoPosition[q] = 0
      BY DEF NoPosition
    <3>2. /\ busy' \in [Instances -> [Partitions -> Nat]]
          /\ \A j \in Instances, q \in Partitions :
                busy'[j][q] = IF j = i THEN NoPosition[q] ELSE busy[j][q]
      BY <1>0, <2>2, UpdateRow DEF CrashInstance
    <3>3. /\ done' \in [Instances -> [Partitions -> Nat]]
          /\ \A j \in Instances, q \in Partitions :
                done'[j][q] = IF j = i THEN NoPosition[q] ELSE done[j][q]
      BY <1>0, <2>2, UpdateRow DEF CrashInstance
    <3> QED
      BY <3>1, <3>2, <3>3
  <2> QED
    BY <2>1, <2>2
<1>4. CrashInstance(i) => sinkDrops' = sinkDrops /\ \A q \in Partitions : busy'[i][q] = 0
  BY <1>0 DEF CrashInstance, NoPosition
<1> HIDE DEF row
<1> QED
  BY <1>1, <1>2, <1>3, <1>4

LEMMA LeavePreserves ==
    ASSUME SinkInv, NEW i \in Instances, LoseConnection(i) \/ CrashInstance(i)
    PROVE  SinkInv'
<1>1. /\ UNCHANGED <<conf, log, from, base, stored, db, saved, threw, dbFaults>>
      /\ sinkCrashes' \in 0 .. MaxSinkCrashes /\ sinkDrops' \in 0 .. MaxSinkDrops
      /\ up' \subseteq Instances
  BY LeaveEffect
<1>2. /\ pos' \in [Instances -> [Partitions -> Nat]]
      /\ \A j \in Instances, q \in Partitions :
            /\ j # i => pos'[j][q] = pos[j][q]
            /\ pos'[i][q] = 0 \/ (Replay /\ pos'[i][q] = 1 /\ pos[i][q] > 0)
  BY LeaveEffect
<1>3. /\ busy' \in [Instances -> [Partitions -> Nat]]
      /\ done' \in [Instances -> [Partitions -> Nat]]
      /\ \A j \in Instances, q \in Partitions :
            /\ j # i => busy'[j][q] = busy[j][q] /\ done'[j][q] = done[j][q]
            /\ busy'[j][q] = 0 \/ busy'[j][q] = busy[j][q]
            /\ done'[j][q] = 0 \/ done'[j][q] = done[j][q]
  BY LeaveEffect
<1>4. (BrokerTypeOK /\ SinkTypeOK)'
  BY <1>1, <1>2, <1>3 DEF SinkInv, BrokerTypeOK, SinkTypeOK
<1>5. WithinLog'
  <2> SUFFICES ASSUME NEW q \in Partitions, NEW j \in Instances
               PROVE  /\ pos'[j][q] <= Len(log[q]) + 1
                      /\ busy'[j][q] <= Len(log[q]) /\ done'[j][q] <= Len(log[q])
    BY <1>1, SinkTypes DEF WithinLog
  <2>1. pos'[j][q] = pos[j][q] \/ pos'[j][q] = 0 \/ pos'[j][q] = 1
    BY <1>2
  <2>2. pos[j][q] \in Nat /\ Len(log[q]) \in Nat /\ pos[j][q] <= Len(log[q]) + 1
    BY SinkTypes
  <2>3. busy[j][q] <= Len(log[q]) /\ done[j][q] <= Len(log[q])
    BY SinkTypes
  <2>4. busy'[j][q] \in {0, busy[j][q]} /\ done'[j][q] \in {0, done[j][q]}
    BY <1>3
  <2>5. pos'[j][q] <= Len(log[q]) + 1
    BY <2>1, <2>2
  <2> QED
    BY <2>2, <2>3, <2>4, <2>5
<1>6. SingleActive' = SingleActive /\ (SingleActive => ~Replay)
  BY <1>1 DEF SingleActive, Replay
<1>7. OneReader => OneReader'
  BY <1>2 DEF OneReader
<1>8. \A q \in Partitions : \A k : Handled(q, k) => Handled(q, k)'
  BY <1>1 DEF Handled
<1>9. StoredFromBase'
  BY <1>1, <1>8, KeepStored DEF SinkInv
<1>10. ASSUME SingleActive, NEW j \in Instances, NEW q \in Partitions, ReaderInv(j, q)
       PROVE  ReaderInv(j, q)'
  <2>1. CASE j # i
    BY <1>1, <1>2, <1>3, <1>8, <1>10, <2>1, KeepReader
  <2>2. CASE j = i
    BY <1>2, <1>6, <1>10, <2>2 DEF ReaderInv
  <2> QED
    BY <2>1, <2>2
<1> QED
  BY <1>4, <1>5, <1>6, <1>7, <1>9, <1>10 DEF SinkInv

(* Every step of the sinks and of their publishers keeps the invariant. *)
LEMMA SinkInvStep ==
    /\ SinkInv
    /\ [SinkNext \/ (Publishing /\ UNCHANGED sinkVars)]_<<conf, log, sinkVars>>
    => SinkInv'
<1> SUFFICES ASSUME SinkInv,
                    [SinkNext \/ (Publishing /\ UNCHANGED sinkVars)]_<<conf, log, sinkVars>>
             PROVE  SinkInv'
  OBVIOUS
<1>1. CASE SinkNext
  <2>1. ASSUME NEW i \in Instances,
               StartInstance(i) \/ LoseConnection(i) \/ CrashInstance(i)
        PROVE  SinkInv'
    BY <2>1, StartPreserves, LeavePreserves
  <2>2. ASSUME NEW i \in Instances, NEW p \in Partitions,
               \/ Subscribe(i, p) \/ Deliver(i, p) \/ Skip(i, p)
               \/ Save(i, p) \/ SaveThrows(i, p) \/ StoreOffset(i, p)
        PROVE  SinkInv'
    BY <2>2, SubscribePreserves, DeliverPreserves, FinishPreserves, StorePreserves
  <2> QED
    BY <1>1, <2>1, <2>2 DEF SinkNext
<1>2. CASE Publishing /\ UNCHANGED sinkVars
  BY <1>2, PublishingPreserves
<1>3. CASE UNCHANGED <<conf, log, sinkVars>>
  BY <1>3, PublishingPreserves DEF Publishing
<1> QED
  BY <1>1, <1>2, <1>3

(***************************************************************************)
(* The sinks' inductive invariant: types, positions within the log, one    *)
(* reader for a partition under a single active consumer, and each reader  *)
(* has handled what it has read.                                           *)
(***************************************************************************)
THEOREM SinkInvariant == SinkSpec => []SinkInv
<1> QED
  BY SinkInvInit, SinkInvStep, PTL DEF SinkSpec

(***************************************************************************)
(* Type correctness of the sinks: the positions that RabbitStreamConfig's  *)
(* consumers read, hold and store, and the account table.                  *)
(***************************************************************************)
THEOREM SinkTypeCorrect == SinkSpec => []SinkTypeInv
<1>1. SinkInv => SinkTypeInv
  BY DEF SinkInv, SinkTypeInv
<1> QED
  BY <1>1, SinkInvariant, PTL

-----------------------------------------------------------------------------
(* Where reading began *)

(* Only a subscription moves where reading began, and only a crash or a    *)
(* lost connection ends a reading.                                         *)
LEMMA BaseInvStep ==
    ASSUME SinkInv, BaseInv,
           [SinkNext \/ (Publishing /\ UNCHANGED sinkVars)]_<<conf, log, sinkVars>>
    PROVE  BaseInv'
<1>1. ASSUME UNCHANGED <<conf, from, base>>,
             \/ sinkCrashes' # 0 \/ sinkDrops' # 0
             \/ /\ UNCHANGED <<sinkCrashes, sinkDrops>>
                /\ \A i \in Instances, p \in Partitions : pos[i][p] > 0 => pos'[i][p] > 0
      PROVE  BaseInv'
  BY <1>1 DEF BaseInv, BaseIsFirst, Uninterrupted, SingleActive, Offset
<1>2. ASSUME Publishing, UNCHANGED sinkVars PROVE BaseInv'
  BY <1>1, <1>2 DEF Publishing, sinkVars, readVars, sinkCounters
<1>3. ASSUME NEW i \in Instances, StartInstance(i) PROVE BaseInv'
  BY <1>1, <1>3 DEF StartInstance, sinkCounters
<1>4. ASSUME NEW i \in Instances, LoseConnection(i) PROVE BaseInv'
  BY <1>1, <1>4 DEF LoseConnection, SinkInv, SinkTypeOK
<1>5. ASSUME NEW i \in Instances, CrashInstance(i) PROVE BaseInv'
  BY <1>1, <1>5 DEF CrashInstance, SinkInv, SinkTypeOK
<1>6. ASSUME NEW i \in Instances, NEW p \in Partitions, Subscribe(i, p) PROVE BaseInv'
  <2>1. /\ \A q \in Partitions \ {p} : from'[q] = from[q] /\ base'[q] = base[q]
        /\ \/ from' = from /\ base' = base /\ stored[p] > 0
           \/ /\ base'[p] \in Beginning(p) /\ base'[p] > 0
              /\ from'[p] = IF from[p] = 0 THEN base'[p] ELSE from[p]
    BY <1>6, SubscribeBases DEF SinkInv
  <2>2. PICK start \in Nat :
            /\ start > 0
            /\ \A j \in Instances, q \in Partitions :
                  pos'[j][q] = IF j = i /\ q = p THEN start ELSE pos[j][q]
    BY <1>6, SubscribeEffect
  <2>3. conf' = conf /\ UNCHANGED <<sinkCrashes, sinkDrops>> /\ pos[i][p] = 0
        /\ (SingleActive => \A j \in Instances : pos[j][p] = 0)
    BY <1>6 DEF Subscribe, sinkCounters
  <2>4. BaseIsFirst'
    <3>1. Offset' = Offset
      BY <2>3 DEF Offset
    <3>2. Offset = "first" => Beginning(p) = {1}
      BY DEF Beginning
    <3> QED
      BY <2>1, <3>1, <3>2 DEF BaseInv, BaseIsFirst
  <2>5. Uninterrupted'
    <3> SUFFICES ASSUME SingleActive, sinkCrashes = 0, sinkDrops = 0, NEW q \in Partitions
                 PROVE  /\ base'[q] = from'[q]
                        /\ from'[q] > 0 => \E j \in Instances : pos'[j][q] > 0
      BY <2>3 DEF Uninterrupted, SingleActive
    <3>1. /\ base[q] = from[q]
          /\ from[q] > 0 => \E j \in Instances : pos[j][q] > 0
      BY DEF BaseInv, Uninterrupted
    <3>2. CASE q # p
      BY <2>1, <2>2, <3>1, <3>2
    <3>3. CASE q = p
      <4>1. from[p] = 0
        <5>1. from[p] \in Nat
          BY DEF SinkInv, SinkTypeOK
        <5> QED
          BY <2>3, <3>1, <3>3, <5>1
      <4>2. pos'[i][p] > 0
        BY <2>2
      <4> QED
        BY <2>1, <3>1, <3>3, <4>1, <4>2
    <3> QED
      BY <3>2, <3>3
  <2> QED
    BY <2>4, <2>5 DEF BaseInv
<1>7. ASSUME NEW i \in Instances, NEW p \in Partitions, Deliver(i, p) \/ Skip(i, p)
      PROVE  BaseInv'
  <2>1. /\ UNCHANGED <<conf, from, base, sinkCrashes, sinkDrops>>
        /\ \A j \in Instances, q \in Partitions :
              pos'[j][q] = IF j = i /\ q = p THEN pos[i][p] + 1 ELSE pos[j][q]
        /\ pos[i][p] + 1 > 0
    BY <1>7, DeliverEffect, SinkTypes
  <2> QED
    BY <1>1, <2>1
<1>8. ASSUME NEW i \in Instances, NEW p \in Partitions,
             Save(i, p) \/ SaveThrows(i, p) \/ StoreOffset(i, p)
      PROVE  BaseInv'
  BY <1>1, <1>8 DEF Save, SaveThrows, StoreOffset, readVars, sinkCounters
<1>9. CASE SinkNext
  BY <1>3, <1>4, <1>5, <1>6, <1>7, <1>8, <1>9 DEF SinkNext
<1>10. CASE UNCHANGED <<conf, log, sinkVars>>
  BY <1>2, <1>10 DEF Publishing
<1> QED
  BY <1>2, <1>9, <1>10

(***************************************************************************)
(* With offset first every reading without a stored offset begins at the   *)
(* first event; and with any offset a single active sink goes on where it  *)
(* first began, until an instance crashes or loses its connection.         *)
(***************************************************************************)
THEOREM SinkBaseInvariant == SinkSpec => []BaseInv
<1>1. SinkInit => BaseInv
  BY DEF SinkInit, NoPosition, BaseInv, BaseIsFirst, Uninterrupted
<1>2. SinkInv /\ BaseInv
      /\ [SinkNext \/ (Publishing /\ UNCHANGED sinkVars)]_<<conf, log, sinkVars>>
      => BaseInv'
  BY BaseInvStep
<1> QED
  BY <1>1, <1>2, SinkInvariant, PTL DEF SinkSpec

(***************************************************************************)
(* The offset kept in the broker never runs ahead of the table, whatever   *)
(* instances crash, lose their connection or take turns: with offset first *)
(* it passes no unhandled event at all, otherwise none since the reader    *)
(* began that stored the first offset.                                     *)
(***************************************************************************)
THEOREM SinkStoredIsHandled == SinkSpec => []StoredIsHandled
<1>1. SinkInv /\ BaseInv => StoredIsHandled
  <2> SUFFICES ASSUME SinkInv, BaseInv, SingleActive, conf.ddlAuto # "create",
                      NEW p \in Partitions, NEW k \in Since(p) .. stored[p],
                      k > 0, Due(log[p][k])
               PROVE  Handled(p, k)
    BY DEF StoredIsHandled
  <2>1. base[p] \in Nat /\ stored[p] \in Nat
    BY SinkTypes
  <2>2. k \in base[p] .. stored[p]
    BY <2>1 DEF Since, BaseInv, BaseIsFirst
  <2> QED
    BY <2>2 DEF SinkInv, StoredFromBase
<1> QED
  BY <1>1, SinkInvariant, SinkBaseInvariant, PTL

-----------------------------------------------------------------------------
(* What reaches the table was due *)

\* The events saved are due events of the log, and so is one in a handler's hands.
SavedInv ==
    \A p \in Partitions :
        /\ \A k \in saved[p] : k \in 1 .. Len(log[p]) /\ Due(log[p][k])
        /\ \A i \in Instances : busy[i][p] > 0 => Due(log[p][busy[i][p]])

LEMMA SavedInvStep ==
    ASSUME SinkInv, SavedInv,
           [SinkNext \/ (Publishing /\ UNCHANGED sinkVars)]_<<conf, log, sinkVars>>
    PROVE  SavedInv'
<1>0. conf' = conf => \A e : Due(e)' = Due(e)
  BY DEF Due, Filtering
<1>1. ASSUME Publishing, UNCHANGED sinkVars PROVE SavedInv'
  <2>1. conf' = conf /\ UNCHANGED <<busy, saved>>
    BY <1>1 DEF Publishing, sinkVars, readVars, tableVars
  <2>2. \A p \in Partitions :
            /\ Len(log'[p]) \in Nat /\ Len(log[p]) \in Nat /\ Len(log[p]) <= Len(log'[p])
            /\ \A k \in 1 .. Len(log[p]) : log'[p][k] = log[p][k]
    BY <1>1, LogGrows, SinkTypes DEF SinkInv
  <2>3. \A p \in Partitions, i \in Instances : busy[i][p] > 0 => busy[i][p] \in 1 .. Len(log[p])
    BY SinkTypes
  <2> QED
    BY <1>0, <2>1, <2>2, <2>3 DEF SavedInv
<1>2. ASSUME NEW i \in Instances, StartInstance(i) PROVE SavedInv'
  <2>1. /\ UNCHANGED <<conf, log, busy>>
        /\ saved' = saved \/ \A p \in Partitions : saved'[p] = {}
    BY <1>2 DEF StartInstance
  <2> QED
    BY <1>0, <2>1 DEF SavedInv
<1>3. ASSUME NEW i \in Instances, LoseConnection(i) \/ CrashInstance(i) PROVE SavedInv'
  <2>1. /\ UNCHANGED <<conf, log, saved>>
        /\ \A j \in Instances, q \in Partitions : busy'[j][q] = 0 \/ busy'[j][q] = busy[j][q]
    BY <1>3, LeaveEffect
  <2> QED
    BY <1>0, <2>1 DEF SavedInv
<1>4. ASSUME NEW i \in Instances, NEW p \in Partitions, Subscribe(i, p) \/ StoreOffset(i, p)
      PROVE  SavedInv'
  <2>1. UNCHANGED <<conf, log, busy, saved>>
    BY <1>4 DEF Subscribe, StoreOffset, readVars, tableVars
  <2> QED
    BY <1>0, <2>1 DEF SavedInv
<1>5. ASSUME NEW i \in Instances, NEW p \in Partitions, Deliver(i, p) \/ Skip(i, p)
      PROVE  SavedInv'
  <2>1. Hand(i, p) > 0 => Due(log[p][Hand(i, p)])
    BY DEF Hand
  <2>2. /\ UNCHANGED <<conf, log, saved>>
        /\ \A j \in Instances, q \in Partitions :
              busy'[j][q] = IF j = i /\ q = p THEN Hand(i, p) ELSE busy[j][q]
    BY <1>5, DeliverEffect
  <2> QED
    BY <1>0, <2>1, <2>2 DEF SavedInv
<1>6. ASSUME NEW i \in Instances, NEW p \in Partitions, Save(i, p) \/ SaveThrows(i, p)
      PROVE  SavedInv'
  <2> DEFINE k == busy[i][p]
  <2>1. /\ k \in 1 .. Len(log[p]) /\ UNCHANGED <<conf, log>>
        /\ \A j \in Instances, q \in Partitions :
              busy'[j][q] = IF j = i /\ q = p THEN 0 ELSE busy[j][q]
    BY <1>6, FinishEffect
  <2>2. Due(log[p][k])
    BY <2>1 DEF SavedInv
  <2>3. saved' = saved \/ saved' = [saved EXCEPT ![p] = saved[p] \cup {k}]
    BY <1>6 DEF Save, SaveThrows
  <2>4. saved \in [Partitions -> SUBSET Nat]
    BY DEF SinkInv, SinkTypeOK
  <2> HIDE DEF k
  <2>5. \A q \in Partitions : \A m \in saved'[q] : m \in saved[q] \/ (q = p /\ m = k)
    BY <2>3, <2>4
  <2> QED
    BY <1>0, <2>1, <2>2, <2>5 DEF SavedInv
<1>7. CASE UNCHANGED <<conf, log, sinkVars>>
  BY <1>1, <1>7 DEF Publishing
<1>8. CASE SinkNext
  BY <1>2, <1>3, <1>4, <1>5, <1>6, <1>8 DEF SinkNext
<1> QED
  BY <1>1, <1>7, <1>8

(***************************************************************************)
(* Only due events reach the table: the post filter of RabbitStreamConfig  *)
(* compares every message before AccountConsumer gets it.                  *)
(***************************************************************************)
THEOREM SinkSavedIsDue == SinkSpec => []SavedInv
<1>1. SinkInit => SavedInv
  BY DEF SinkInit, SavedInv, NoPosition
<1>2. SinkInv /\ SavedInv
      /\ [SinkNext \/ (Publishing /\ UNCHANGED sinkVars)]_<<conf, log, sinkVars>>
      => SavedInv'
  BY SavedInvStep
<1> QED
  BY <1>1, <1>2, SinkInvariant, PTL DEF SinkSpec

-----------------------------------------------------------------------------
(* The account table behind a single active consumer *)

(***************************************************************************)
(* What the row of an id shows when the events up to last have been read.  *)
(* D is the set of positions of the id's events in the log lg, thrown are  *)
(* those whose save has thrown, and value is the number in its row: that   *)
(* of the newest of these events, or of a later one, left by an earlier    *)
(* reader who had come further.                                            *)
(***************************************************************************)
Newest(D, first, last, k) ==
    first <= k /\ k <= last /\ \A j \in D : j <= last => j <= k

ShownTo(D, lg, thrown, value, first, last) ==
    \A k \in D : Newest(D, first, last, k) =>
        k \in thrown \/ \E j \in D : (j = k \/ j > last) /\ value = lg[j].n

\* All due events of the id are in p.
OnlyIn(p, id) == \A q \in Consumed \ {p} : DueAt(q, id) = {}

RowShownTo(p, id, last) ==
    ShownTo(DueAt(p, id), log[p], threw[p], db[id], base[p], last)

\* The last position that i has finished with.
Finished(i, p) == IF busy[i][p] > 0 THEN busy[i][p] - 1 ELSE pos[i][p] - 1

\* Without lost connections only a subscribed instance has an event in hand, the
\* last one that it has read, and what is stored lies before it.
HandInv(i, p) ==
    /\ pos[i][p] > 0 => p \in Consumed /\ stored[p] < pos[i][p]
    /\ busy[i][p] > 0 => pos[i][p] = busy[i][p] + 1 /\ stored[p] < busy[i][p]

RowInv(p, id) ==
    /\ RowShownTo(p, id, stored[p])
    /\ \A i \in Instances : pos[i][p] > 0 =>
          RowShownTo(p, id, done[i][p]) /\ RowShownTo(p, id, Finished(i, p))

TableKept == SingleActive /\ conf.ddlAuto # "create" /\ sinkDrops = 0

TableInv ==
    TableKept =>
        \A p \in Partitions :
            /\ \A i \in Instances : HandInv(i, p)
            /\ \A id \in Ids : OnlyIn(p, id) => RowInv(p, id)

(* Nothing has been read up to last, ... *)
LEMMA ShownNothing ==
    ASSUME NEW D \in SUBSET (Nat \ {0}), NEW lg, NEW thrown, NEW value,
           NEW first \in Nat, NEW last \in Nat, last < first \/ last = 0
    PROVE  ShownTo(D, lg, thrown, value, first, last)
  BY DEF ShownTo, Newest

(* ... the log has grown beyond last, ... *)
LEMMA ShownGrows ==
    ASSUME NEW D, NEW lg, NEW thrown, NEW value, NEW first \in Nat, NEW last \in Nat,
           NEW E \in SUBSET Nat, NEW lg2, D \subseteq E,
           \A j \in E \ D : j > last, \A j \in D : lg2[j] = lg[j],
           ShownTo(D, lg, thrown, value, first, last)
    PROVE  ShownTo(E, lg2, thrown, value, first, last)
<1> SUFFICES ASSUME NEW k \in E, Newest(E, first, last, k), k \notin thrown
             PROVE  \E j \in E : (j = k \/ j > last) /\ value = lg2[j].n
  BY DEF ShownTo
<1>1. k \in D /\ Newest(D, first, last, k)
  BY DEF Newest
<1>2. PICK j \in D : (j = k \/ j > last) /\ value = lg[j].n
  BY <1>1 DEF ShownTo
<1> QED
  BY <1>2

(* ... the reader goes past an event that is none of the id's, ... *)
LEMMA ShownPast ==
    ASSUME NEW D \in SUBSET Nat, NEW lg, NEW thrown, NEW value,
           NEW first \in Nat, NEW last \in Nat, last + 1 \notin D,
           ShownTo(D, lg, thrown, value, first, last)
    PROVE  ShownTo(D, lg, thrown, value, first, last + 1)
<1> SUFFICES ASSUME NEW k \in D, Newest(D, first, last + 1, k), k \notin thrown
             PROVE  \E j \in D : (j = k \/ j > last + 1) /\ value = lg[j].n
  BY DEF ShownTo
<1>1. Newest(D, first, last, k)
  BY DEF Newest
<1>2. PICK j \in D : (j = k \/ j > last) /\ value = lg[j].n
  BY <1>1 DEF ShownTo
<1>3. j = k \/ j > last + 1
  BY <1>2
<1> QED
  BY <1>2, <1>3

(* ... one of its events is saved, ... *)
LEMMA ShownSaved ==
    ASSUME NEW D \in SUBSET Nat, NEW lg, NEW thrown,
           NEW first \in Nat, NEW last \in Nat, NEW b \in D, last <= b
    PROVE  ShownTo(D, lg, thrown, lg[b].n, first, last)
<1> SUFFICES ASSUME NEW k \in D, Newest(D, first, last, k)
             PROVE  \E j \in D : (j = k \/ j > last) /\ lg[b].n = lg[j].n
  BY DEF ShownTo
<1>1. b = k \/ b > last
  BY DEF Newest
<1> QED
  BY <1>1

(* ... or its save throws. *)
LEMMA ShownThrown ==
    ASSUME NEW D \in SUBSET Nat, NEW lg, NEW thrown, NEW value,
           NEW first \in Nat, NEW b \in D, b \in thrown
    PROVE  ShownTo(D, lg, thrown, value, first, b)
<1> SUFFICES ASSUME NEW k \in D, Newest(D, first, b, k) PROVE k = b
  BY DEF ShownTo
<1> QED
  BY DEF Newest

LEMMA ShownMonotone ==
    ASSUME NEW D, NEW lg, NEW thrown, NEW value, NEW first, NEW last, NEW thrown2,
           thrown \subseteq thrown2, ShownTo(D, lg, thrown, value, first, last)
    PROVE  ShownTo(D, lg, thrown2, value, first, last)
  BY DEF ShownTo

(* The positions of the due events are positions of the log ... *)
LEMMA DueFacts ==
    ASSUME SinkInv
    PROVE  \A p \in Partitions : \A id :
               /\ DueAt(p, id) \in SUBSET Nat /\ DueAt(p, id) \in SUBSET (Nat \ {0})
               /\ \A k \in DueAt(p, id) : k <= Len(log[p])
  BY SinkTypes DEF DueAt

(* ... and stay as long as the log and the deployment do. *)
LEMMA SameDue ==
    ASSUME UNCHANGED <<conf, log>>
    PROVE  /\ Consumed' = Consumed /\ SingleActive' = SingleActive
           /\ \A p, id : DueAt(p, id)' = DueAt(p, id) /\ OnlyIn(p, id)' = OnlyIn(p, id)
<1>1. \A e : Due(e)' = Due(e)
  BY DEF Due, Filtering
<1>2. Consumed' = Consumed /\ SingleActive' = SingleActive
  BY DEF Consumed, SingleActive
<1>3. \A p, id : DueAt(p, id)' = DueAt(p, id)
  BY <1>1 DEF DueAt
<1> QED
  BY <1>2, <1>3 DEF OnlyIn

(* Instances start or crash: nothing is read, saved or stored. *)
LEMMA QuietStep ==
    ASSUME SinkInv, TableInv, UNCHANGED <<conf, log, db, threw, from, base, stored>>,
           sinkDrops' = 0 => sinkDrops = 0,
           \A i \in Instances, p \in Partitions :
               \/ pos'[i][p] = 0 /\ busy'[i][p] = 0
               \/ /\ pos'[i][p] = pos[i][p] /\ busy'[i][p] = busy[i][p]
                  /\ done'[i][p] = done[i][p]
    PROVE  TableInv'
<1> SUFFICES ASSUME TableKept'
             PROVE  \A p \in Partitions :
                        /\ \A i \in Instances : HandInv(i, p)'
                        /\ \A id \in Ids : OnlyIn(p, id)' => RowInv(p, id)'
  BY DEF TableInv
<1>1. TableKept
  BY SameDue DEF TableKept
<1> TAKE p \in Partitions
<1>2. \A i \in Instances : HandInv(i, p)'
  BY <1>1, SameDue DEF TableInv, HandInv
<1>3. ASSUME NEW id \in Ids, OnlyIn(p, id)' PROVE RowInv(p, id)'
  <2>1. RowInv(p, id)
    BY <1>1, <1>3, SameDue DEF TableInv
  <2>2. DueAt(p, id)' = DueAt(p, id)
    BY SameDue
  <2>3. \A i \in Instances : pos'[i][p] > 0 =>
            pos[i][p] > 0 /\ done'[i][p] = done[i][p] /\ Finished(i, p)' = Finished(i, p)
    BY DEF Finished
  <2> QED
    BY <2>1, <2>2, <2>3 DEF RowInv, RowShownTo
<1> QED
  BY <1>2, <1>3

(* The offset that is stored is one up to which the rows are shown. *)
LEMMA StoreKeepsTable ==
    ASSUME SinkInv, TableInv, NEW i \in Instances, NEW p \in Partitions, StoreOffset(i, p)
    PROVE  TableInv'
<1> SUFFICES ASSUME TableKept'
             PROVE  \A q \in Partitions :
                        /\ \A j \in Instances : HandInv(j, q)'
                        /\ \A id \in Ids : OnlyIn(q, id)' => RowInv(q, id)'
  BY DEF TableInv
<1>1. /\ UNCHANGED <<conf, log, db, threw, from, base, pos, busy, done, sinkDrops>> /\ pos[i][p] > 0
      /\ stored'[p] = done[i][p] /\ \A q \in Partitions \ {p} : stored'[q] = stored[q]
  BY SinkTypes DEF StoreOffset, readVars, tableVars, sinkCounters, SinkInv, SinkTypeOK
<1>2. TableKept
  BY <1>1, SameDue DEF TableKept
<1> TAKE q \in Partitions
<1>3. ASSUME NEW j \in Instances PROVE HandInv(j, q)'
  <2>1. HandInv(j, q) /\ Consumed' = Consumed
    BY <1>1, <1>2, SameDue DEF TableInv
  <2>2. CASE q # p
    BY <1>1, <2>1, <2>2 DEF HandInv
  <2>3. CASE q = p
    <3>1. busy[j][p] > 0 => pos[j][p] > 0
      BY <2>1, <2>3, SinkTypes DEF HandInv
    <3>2. pos[j][p] > 0 => j = i
      BY <1>1, <1>2 DEF SinkInv, OneReader, TableKept
    <3>3. /\ done[i][p] < pos[i][p]
          /\ busy[i][p] > 0 => done[i][p] < busy[i][p]
      BY <1>1, <1>2 DEF SinkInv, ReaderInv, TableKept
    <3> QED
      BY <1>1, <2>1, <2>3, <3>1, <3>2, <3>3 DEF HandInv
  <2> QED
    BY <2>2, <2>3
<1>4. ASSUME NEW id \in Ids, OnlyIn(q, id)' PROVE RowInv(q, id)'
  <2>1. RowInv(q, id) /\ DueAt(q, id)' = DueAt(q, id)
    BY <1>1, <1>2, <1>4, SameDue DEF TableInv
  <2>2. \A j \in Instances : Finished(j, q)' = Finished(j, q)
    BY <1>1 DEF Finished
  <2> QED
    BY <1>1, <2>1, <2>2 DEF RowInv, RowShownTo
<1> QED
  BY <1>3, <1>4

(* A subscription begins where the rows are shown up to, or anew. *)
LEMMA SubscribeKeepsTable ==
    ASSUME SinkInv, TableInv, NEW i \in Instances, NEW p \in Partitions, Subscribe(i, p)
    PROVE  TableInv'
<1> SUFFICES ASSUME TableKept'
             PROVE  \A q \in Partitions :
                        /\ \A j \in Instances : HandInv(j, q)'
                        /\ \A id \in Ids : OnlyIn(q, id)' => RowInv(q, id)'
  BY DEF TableInv
<1>1. /\ UNCHANGED <<conf, log, db, threw, busy, stored, sinkDrops>>
      /\ p \in Consumed /\ busy[i][p] = 0
      /\ SingleActive => \A j \in Instances : pos[j][p] = 0
  BY DEF Subscribe, tableVars, sinkCounters
<1>2. TableKept /\ SingleActive
  BY <1>1, SameDue DEF TableKept
<1>3. PICK start \in Nat :
          /\ start > 0 /\ start <= Len(log[p]) + 1
          /\ \/ base' = base /\ start = stored[p] + 1
             \/ base' = [base EXCEPT ![p] = start] /\ (SingleActive => stored[p] = 0)
          /\ pos' \in [Instances -> [Partitions -> Nat]]
          /\ \A j \in Instances, q \in Partitions :
                pos'[j][q] = IF j = i /\ q = p THEN start ELSE pos[j][q]
          /\ done' \in [Instances -> [Partitions -> Nat]]
          /\ \A j \in Instances, q \in Partitions :
                done'[j][q] = IF j = i /\ q = p THEN 0 ELSE done[j][q]
  BY SubscribeEffect
<1>4. \A q \in Partitions \ {p} : base'[q] = base[q]
  BY <1>3 DEF SinkInv, SinkTypeOK
<1>5. \A j \in Instances : pos[j][p] = 0 /\ busy[j][p] = 0
  <2> TAKE j \in Instances
  <2>1. pos[j][p] = 0 /\ HandInv(j, p)
    BY <1>1, <1>2 DEF TableInv
  <2> QED
    BY <2>1, SinkTypes DEF HandInv
<1>6. /\ stored[p] \in Nat /\ stored[p] < start
      /\ base'[p] \in Nat /\ start - 1 \in Nat
      /\ (stored[p] = start - 1 /\ base' = base) \/ (stored[p] = 0 /\ base'[p] = start)
  <2>1. base \in [Partitions -> Nat] /\ stored[p] \in Nat
    BY DEF SinkInv, SinkTypeOK
  <2> QED
    BY <1>2, <1>3, <2>1
<1> TAKE q \in Partitions
<1>7. ASSUME NEW j \in Instances PROVE HandInv(j, q)'
  <2>1. HandInv(j, q) /\ Consumed' = Consumed
    BY <1>1, <1>2, SameDue DEF TableInv
  <2>2. CASE j = i /\ q = p
    BY <1>1, <1>3, <1>6, <2>1, <2>2 DEF HandInv
  <2>3. CASE ~(j = i /\ q = p)
    BY <1>1, <1>3, <2>1, <2>3 DEF HandInv
  <2> QED
    BY <2>2, <2>3
<1>8. ASSUME NEW id \in Ids, OnlyIn(q, id)' PROVE RowInv(q, id)'
  <2>1. RowInv(q, id) /\ DueAt(q, id)' = DueAt(q, id)
    BY <1>1, <1>2, <1>8, SameDue DEF TableInv
  <2>2. CASE q # p
    <3>1. \A j \in Instances : /\ Finished(j, q)' = Finished(j, q)
                               /\ pos'[j][q] = pos[j][q] /\ done'[j][q] = done[j][q]
      BY <1>1, <1>3, <2>2 DEF Finished
    <3>2. base'[q] = base[q]
      BY <1>4, <2>2
    <3> QED
      BY <1>1, <2>1, <3>1, <3>2 DEF RowInv, RowShownTo
  <2>3. CASE q = p
    <3> DEFINE D == DueAt(p, id)
    <3>0. D \in SUBSET (Nat \ {0})
      BY DueFacts
    <3>1. ShownTo(D, log[p], threw[p], db[id], base'[p], stored[p])
      <4>1. CASE base' = base
        BY <2>1, <2>3, <4>1 DEF RowInv, RowShownTo
      <4>2. CASE stored[p] = 0
        <5> HIDE DEF D
        <5> QED
          BY <1>6, <3>0, <4>2, ShownNothing
      <4> QED
        BY <1>6, <4>1, <4>2
    <3>2. ShownTo(D, log[p], threw[p], db[id], base'[p], 0)
      <4> HIDE DEF D
      <4> QED
        BY <1>6, <3>0, ShownNothing
    <3>3. ShownTo(D, log[p], threw[p], db[id], base'[p], start - 1)
      <4>1. CASE stored[p] = start - 1
        BY <3>1, <4>1
      <4>2. CASE base'[p] = start
        <5>1. start - 1 < base'[p]
          BY <4>2
        <5> HIDE DEF D
        <5> QED
          BY <1>6, <3>0, <5>1, ShownNothing
      <4> QED
        BY <1>6, <4>1, <4>2
    <3>4. \A j \in Instances : pos'[j][p] > 0 =>
              done'[j][p] = 0 /\ Finished(j, p)' = start - 1
      <4>1. ASSUME NEW j \in Instances, pos'[j][p] > 0 PROVE j = i
        <5>1. j # i => pos'[j][p] = pos[j][p]
          BY <1>3
        <5>2. pos[j][p] = 0
          BY <1>5
        <5> QED
          BY <4>1, <5>1, <5>2
      <4>2. pos'[i][p] = start /\ done'[i][p] = 0 /\ busy'[i][p] = 0
        BY <1>1, <1>3
      <4>3. Finished(i, p)' = start - 1
        BY <4>2 DEF Finished
      <4> QED
        BY <4>1, <4>2, <4>3
    <3> HIDE DEF D
    <3>5. DueAt(p, id)' = D
      BY <2>1, <2>3 DEF D
    <3> QED
      BY <1>1, <2>3, <3>1, <3>2, <3>3, <3>4, <3>5 DEF RowInv, RowShownTo
  <2> QED
    BY <2>2, <2>3
<1> QED
  BY <1>7, <1>8

(* The reader gets its next event, or goes past it. *)
LEMMA DeliverKeepsTable ==
    ASSUME SinkInv, TableInv, NEW i \in Instances, NEW p \in Partitions,
           Deliver(i, p) \/ Skip(i, p)
    PROVE  TableInv'
<1> SUFFICES ASSUME TableKept'
             PROVE  \A q \in Partitions :
                        /\ \A j \in Instances : HandInv(j, q)'
                        /\ \A id \in Ids : OnlyIn(q, id)' => RowInv(q, id)'
  BY DEF TableInv
<1> DEFINE k == pos[i][p]
           hand == Hand(i, p)
<1>1. /\ UNCHANGED <<conf, log, db, threw, done, from, base, stored, sinkDrops>>
      /\ k \in Nat /\ k > 0 /\ busy[i][p] = 0
      /\ \A j \in Instances, q \in Partitions :
            /\ pos'[j][q] = IF j = i /\ q = p THEN k + 1 ELSE pos[j][q]
            /\ busy'[j][q] = IF j = i /\ q = p THEN hand ELSE busy[j][q]
  BY DeliverEffect, SinkTypes
<1>2. TableKept
  BY <1>1, SameDue DEF TableKept
<1>3. (Due(log[p][k]) /\ hand = k) \/ (~Due(log[p][k]) /\ hand = 0)
  BY DEF Hand
<1> HIDE DEF hand, k
<1> TAKE q \in Partitions
<1>4. ASSUME NEW j \in Instances PROVE HandInv(j, q)'
  <2>1. HandInv(j, q) /\ Consumed' = Consumed
    BY <1>1, <1>2, SameDue DEF TableInv
  <2>2. CASE j = i /\ q = p
    <3>1. p \in Consumed /\ stored[p] < k /\ stored[p] \in Nat
      BY <1>1, <2>1, <2>2, SinkTypes DEF HandInv, k
    <3>2. pos'[j][q] = k + 1 /\ busy'[j][q] = hand
      BY <1>1, <2>2
    <3> QED
      BY <1>1, <1>3, <2>1, <2>2, <3>1, <3>2 DEF HandInv
  <2>3. CASE ~(j = i /\ q = p)
    BY <1>1, <2>1, <2>3 DEF HandInv
  <2> QED
    BY <2>2, <2>3
<1>5. ASSUME NEW id \in Ids, OnlyIn(q, id)' PROVE RowInv(q, id)'
  <2>1. RowInv(q, id) /\ DueAt(q, id)' = DueAt(q, id)
    BY <1>1, <1>2, <1>5, SameDue DEF TableInv
  <2>2. ASSUME NEW j \in Instances, pos'[j][q] > 0
        PROVE  RowShownTo(q, id, done[j][q])' /\ RowShownTo(q, id, Finished(j, q))'
    <3>1. CASE ~(j = i /\ q = p)
      <4>1. pos[j][q] > 0 /\ Finished(j, q)' = Finished(j, q)
        BY <1>1, <2>2, <3>1 DEF Finished
      <4> QED
        BY <1>1, <2>1, <4>1 DEF RowInv, RowShownTo
    <3>2. CASE j = i /\ q = p
      <4>1. RowShownTo(p, id, done[i][p]) /\ RowShownTo(p, id, k - 1)
        BY <1>1, <2>1, <3>2 DEF RowInv, Finished, k
      <4>2. Finished(j, q)' = IF hand > 0 THEN hand - 1 ELSE k
        BY <1>1, <3>2 DEF Finished
      <4>3. CASE hand = k
        BY <1>1, <2>1, <3>2, <4>1, <4>2, <4>3 DEF RowShownTo
      <4>4. CASE hand = 0 /\ ~Due(log[p][k])
        <5> DEFINE D == DueAt(p, id)
        <5>1. k \notin D /\ D \in SUBSET Nat
          BY <4>4, DueFacts DEF DueAt
        <5>2. ShownTo(D, log[p], threw[p], db[id], base[p], k - 1)
          BY <4>1 DEF RowShownTo
        <5>3. /\ k - 1 \in Nat /\ (k - 1) + 1 = k /\ base[p] \in Nat
          BY <1>1, SinkTypes
        <5> HIDE DEF D
        <5>4. ShownTo(D, log[p], threw[p], db[id], base[p], (k - 1) + 1)
          BY <5>1, <5>2, <5>3, ShownPast
        <5>5. Finished(j, q)' = k
          BY <4>2, <4>4
        <5> QED
          BY <1>1, <2>1, <3>2, <4>1, <5>3, <5>4, <5>5 DEF RowShownTo, D
      <4> QED
        BY <1>3, <4>3, <4>4
    <3> QED
      BY <3>1, <3>2
  <2>3. RowShownTo(q, id, stored[q])'
    BY <1>1, <2>1 DEF RowInv, RowShownTo
  <2> QED
    BY <2>2, <2>3 DEF RowInv
<1> QED
  BY <1>4, <1>5

(* The event in hand is saved, or its save throws. *)
LEMMA FinishKeepsTable ==
    ASSUME SinkInv, SavedInv, TableInv, NEW i \in Instances, NEW p \in Partitions,
           Save(i, p) \/ SaveThrows(i, p)
    PROVE  TableInv'
<1> SUFFICES ASSUME TableKept'
             PROVE  \A q \in Partitions :
                        /\ \A j \in Instances : HandInv(j, q)'
                        /\ \A id \in Ids : OnlyIn(q, id)' => RowInv(q, id)'
  BY DEF TableInv
<1> DEFINE b == busy[i][p]
           event == log[p][b]
<1>1. /\ b \in 1 .. Len(log[p]) /\ UNCHANGED <<conf, log, pos, from, base, stored, sinkDrops>>
      /\ \A j \in Instances, q \in Partitions :
            /\ busy'[j][q] = IF j = i /\ q = p THEN 0 ELSE busy[j][q]
            /\ ~(j = i /\ q = p) => done'[j][q] = done[j][q]
      /\ IF Save(i, p) THEN done'[i][p] = b ELSE done'[i][p] = done[i][p]
  BY FinishEffect
<1>2. TableKept /\ b \in Nat /\ b > 0 /\ Due(event)
  <2>1. TableKept
    BY <1>1, SameDue DEF TableKept
  <2>2. b \in Nat /\ b > 0
    BY <1>1, SinkTypes
  <2> QED
    BY <2>1, <2>2 DEF SavedInv
<1>3. /\ pos[i][p] = b + 1 /\ stored[p] < b /\ stored[p] \in Nat /\ p \in Consumed
      /\ \A j \in Instances : pos[j][p] > 0 => j = i
  <2>1. pos[i][p] = b + 1 /\ stored[p] < b /\ stored[p] \in Nat
    BY <1>2, SinkTypes DEF TableInv, HandInv
  <2>2. p \in Consumed
    BY <1>2, <2>1 DEF TableInv, HandInv
  <2> QED
    BY <1>2, <2>1, <2>2 DEF SinkInv, OneReader, TableKept
<1>4. /\ \A id \in Ids : event.id # id => db'[id] = db[id]
      /\ \A q \in Partitions : threw[q] \subseteq threw'[q]
      /\ \/ Save(i, p) /\ \A id \in Ids : event.id = id => db'[id] = event.n
         \/ ~Save(i, p) /\ b \in threw'[p] /\ db' = db
  <2>0. db \in [Ids -> Nat] /\ threw \in [Partitions -> SUBSET Nat]
    BY DEF SinkInv, SinkTypeOK
  <2>1. CASE Save(i, p)
    <3>1. db' = [db EXCEPT ![event.id] = event.n] /\ threw' = threw
      BY <2>1 DEF Save
    <3> QED
      BY <2>0, <2>1, <3>1
  <2>2. CASE ~Save(i, p)
    <3>1. db' = db /\ threw' = [threw EXCEPT ![p] = threw[p] \cup {b}]
      BY <2>2 DEF SaveThrows
    <3> HIDE DEF b
    <3> QED
      BY <2>0, <2>2, <3>1
  <2> QED
    BY <2>1, <2>2
<1> HIDE DEF b
<1> TAKE q \in Partitions
<1>5. ASSUME NEW j \in Instances PROVE HandInv(j, q)'
  <2>1. HandInv(j, q) /\ Consumed' = Consumed
    BY <1>1, <1>2, SameDue DEF TableInv
  <2>2. busy'[j][q] = 0 \/ busy'[j][q] = busy[j][q]
    BY <1>1
  <2> QED
    BY <1>1, <2>1, <2>2 DEF HandInv
<1>6. ASSUME NEW id \in Ids, OnlyIn(q, id)' PROVE RowInv(q, id)'
  <2>1. OnlyIn(q, id) /\ RowInv(q, id) /\ DueAt(q, id)' = DueAt(q, id)
    BY <1>1, <1>2, <1>6, SameDue DEF TableInv
  <2>2. event.id = id => b \in DueAt(p, id)
    BY <1>1, <1>2 DEF DueAt
  <2>3. CASE q # p
    <3>1. db'[id] = db[id]
      BY <1>3, <1>4, <2>1, <2>2, <2>3 DEF OnlyIn
    <3>2. \A last : RowShownTo(q, id, last) =>
              ShownTo(DueAt(q, id)', log'[q], threw'[q], db'[id], base'[q], last)
      BY <1>1, <1>4, <2>1, <3>1, ShownMonotone DEF RowShownTo
    <3>3. \A j \in Instances : Finished(j, q)' = Finished(j, q) /\ done'[j][q] = done[j][q]
      BY <1>1, <2>3 DEF Finished
    <3> QED
      BY <1>1, <2>1, <3>2, <3>3 DEF RowInv, RowShownTo
  <2>4. CASE q = p
    <3> DEFINE D == DueAt(p, id)
               Shown(last) == ShownTo(D, log[p], threw'[p], db'[id], base[p], last)
    <3>0. D \in SUBSET Nat /\ base[p] \in Nat /\ done[i][p] \in Nat
      BY DueFacts, SinkTypes
    <3>1. /\ RowShownTo(p, id, stored[p]) /\ RowShownTo(p, id, done[i][p])
          /\ RowShownTo(p, id, b - 1)
      BY <1>2, <1>3, <2>1, <2>4 DEF RowInv, Finished, b
    <3>2. CASE event.id # id
      <4>1. b \notin D /\ db'[id] = db[id]
        BY <1>4, <3>2 DEF DueAt
      <4>2. Shown(stored[p]) /\ Shown(done[i][p]) /\ Shown(b - 1)
        BY <1>4, <3>1, <4>1, ShownMonotone DEF RowShownTo
      <4>3. b - 1 \in Nat /\ (b - 1) + 1 = b
        BY <1>2
      <4> HIDE DEF D
      <4>4. Shown((b - 1) + 1)
        BY <3>0, <4>1, <4>2, <4>3, ShownPast
      <4> QED
        <5>1. Shown(stored[p]) /\ Shown(b) /\ Shown(done'[i][p])
          BY <1>1, <4>2, <4>3, <4>4
        <5>2. \A j \in Instances : pos'[j][p] > 0 => j = i /\ Finished(j, p)' = b
          BY <1>1, <1>2, <1>3 DEF Finished
        <5> QED
          BY <1>1, <2>1, <2>4, <5>1, <5>2 DEF RowInv, RowShownTo, D
    <3>3. CASE event.id = id
      <4>1. b \in D
        BY <2>2, <3>3
      <4>2. Shown(stored[p]) /\ Shown(b) /\ Shown(done'[i][p])
        <5>1. CASE Save(i, p)
          <6>1. db'[id] = log[p][b].n /\ done'[i][p] = b
            BY <1>1, <1>4, <3>3, <5>1
          <6> HIDE DEF D
          <6>2. \A last \in Nat : last <= b => ShownTo(D, log[p], threw'[p], log[p][b].n, base[p], last)
            BY <3>0, <4>1, ShownSaved
          <6>3. stored[p] <= b /\ b <= b
            BY <1>2, <1>3
          <6> QED
            BY <1>2, <1>3, <6>1, <6>2, <6>3
        <5>2. CASE ~Save(i, p)
          <6>1. db'[id] = db[id] /\ b \in threw'[p] /\ done'[i][p] = done[i][p]
            BY <1>1, <1>4, <5>2
          <6>2. Shown(stored[p]) /\ Shown(done[i][p])
            BY <1>4, <3>1, <6>1, ShownMonotone DEF RowShownTo
          <6> HIDE DEF D
          <6>3. Shown(b)
            BY <3>0, <4>1, <6>1, ShownThrown
          <6> QED
            BY <6>1, <6>2, <6>3
        <5> QED
          BY <5>1, <5>2
      <4>3. \A j \in Instances : pos'[j][p] > 0 => j = i /\ Finished(j, p)' = b
        BY <1>1, <1>2, <1>3 DEF Finished
      <4> HIDE DEF D
      <4> QED
        BY <1>1, <2>1, <2>4, <4>2, <4>3 DEF RowInv, RowShownTo, D
    <3> QED
      BY <3>2, <3>3
  <2> QED
    BY <2>3, <2>4
<1> QED
  BY <1>5, <1>6

(* The publishers only append events that nobody has read. *)
LEMMA PublishingKeepsTable ==
    ASSUME SinkInv, TableInv, Publishing, UNCHANGED sinkVars
    PROVE  TableInv'
<1> SUFFICES ASSUME TableKept'
             PROVE  \A p \in Partitions :
                        /\ \A i \in Instances : HandInv(i, p)'
                        /\ \A id \in Ids : OnlyIn(p, id)' => RowInv(p, id)'
  BY DEF TableInv
<1>1. conf' = conf /\ UNCHANGED <<pos, busy, done, stored, db, threw, from, base, sinkDrops>>
  BY DEF Publishing, sinkVars, readVars, tableVars, sinkCounters
<1>2. TableKept /\ Consumed' = Consumed /\ \A e : Due(e)' = Due(e)
  BY <1>1 DEF TableKept, SingleActive, Consumed, Due, Filtering
<1>3. \A p \in Partitions :
          /\ Len(log'[p]) \in Nat /\ Len(log[p]) \in Nat /\ Len(log[p]) <= Len(log'[p])
          /\ \A k \in 1 .. Len(log[p]) : log'[p][k] = log[p][k]
  BY LogGrows, SinkTypes DEF SinkInv
<1>4. ASSUME NEW p \in Partitions, NEW id
      PROVE  /\ DueAt(p, id) \subseteq DueAt(p, id)' /\ DueAt(p, id)' \in SUBSET Nat
             /\ \A k \in DueAt(p, id)' \ DueAt(p, id) : k > Len(log[p])
             /\ \A k \in DueAt(p, id) : log'[p][k] = log[p][k]
  BY <1>2, <1>3 DEF DueAt
<1> TAKE p \in Partitions
<1>5. \A i \in Instances : HandInv(i, p)'
  BY <1>1, <1>2 DEF TableInv, HandInv
<1>6. ASSUME NEW id \in Ids, OnlyIn(p, id)' PROVE RowInv(p, id)'
  <2>1. OnlyIn(p, id)
    <3>1. Consumed \subseteq Partitions
      BY RoutingAssumption DEF Consumed
    <3> QED
      BY <1>2, <1>4, <1>6, <3>1 DEF OnlyIn
  <2>2. RowInv(p, id)
    BY <1>2, <2>1 DEF TableInv
  <2> DEFINE D == DueAt(p, id)
             E == DueAt(p, id)'
  <2>3. ASSUME NEW last \in Nat, last <= Len(log[p]), RowShownTo(p, id, last)
        PROVE  ShownTo(E, log'[p], threw[p], db[id], base[p], last)
    <3>1. /\ D \subseteq E /\ E \in SUBSET Nat /\ base[p] \in Nat
          /\ \A k \in E \ D : k > last
          /\ \A k \in D : log'[p][k] = log[p][k]
      BY <1>3, <1>4, <2>3, SinkTypes
    <3>2. ShownTo(D, log[p], threw[p], db[id], base[p], last)
      BY <2>3 DEF RowShownTo
    <3> HIDE DEF D, E
    <3> QED
      BY <3>1, <3>2, ShownGrows
  <2>4. ASSUME NEW i \in Instances, pos[i][p] > 0
        PROVE  /\ Finished(i, p) \in Nat /\ Finished(i, p) <= Len(log[p])
               /\ done[i][p] \in Nat /\ done[i][p] <= Len(log[p])
               /\ Finished(i, p)' = Finished(i, p)
    BY <1>1, <2>4, SinkTypes DEF Finished
  <2>5. stored[p] \in Nat /\ stored[p] <= Len(log[p])
    BY SinkTypes
  <2> HIDE DEF D, E
  <2> QED
    BY <1>1, <2>2, <2>3, <2>4, <2>5 DEF RowInv, RowShownTo, E
<1> QED
  BY <1>5, <1>6

LEMMA TableInvStep ==
    ASSUME SinkInv, SavedInv, TableInv,
           [SinkNext \/ (Publishing /\ UNCHANGED sinkVars)]_<<conf, log, sinkVars>>
    PROVE  TableInv'
<1>1. ASSUME Publishing, UNCHANGED sinkVars PROVE TableInv'
  BY <1>1, PublishingKeepsTable
<1>2. ASSUME NEW i \in Instances, StartInstance(i) PROVE TableInv'
  <2>1. CASE conf.ddlAuto = "create"
    BY <1>2, <2>1 DEF StartInstance, TableInv, TableKept
  <2>2. CASE conf.ddlAuto # "create"
    <3>1. UNCHANGED <<conf, log, db, threw, from, base, stored, pos, busy, done, sinkDrops>>
      BY <1>2, <2>2 DEF StartInstance, sinkCounters
    <3> QED
      BY <3>1, QuietStep
  <2> QED
    BY <2>1, <2>2
<1>3. ASSUME NEW i \in Instances, LoseConnection(i) PROVE TableInv'
  <2>1. sinkDrops' # 0
    BY <1>3 DEF LoseConnection, SinkInv, SinkTypeOK
  <2> QED
    BY <2>1 DEF TableInv, TableKept
<1>4. ASSUME NEW i \in Instances, CrashInstance(i) PROVE TableInv'
  <2>1. /\ UNCHANGED <<conf, log, db, threw, from, base, stored, sinkDrops>>
        /\ \A j \in Instances, q \in Partitions :
              /\ j # i => /\ pos'[j][q] = pos[j][q] /\ busy'[j][q] = busy[j][q]
                          /\ done'[j][q] = done[j][q]
              /\ busy'[i][q] = 0
    BY <1>4, LeaveEffect
  <2>2. \A q \in Partitions : pos'[i][q] = 0
    BY <1>4 DEF CrashInstance, NoPosition, SinkInv, SinkTypeOK
  <2>3. \A j \in Instances, q \in Partitions :
            \/ pos'[j][q] = 0 /\ busy'[j][q] = 0
            \/ /\ pos'[j][q] = pos[j][q] /\ busy'[j][q] = busy[j][q]
               /\ done'[j][q] = done[j][q]
    BY <2>1, <2>2
  <2> QED
    BY <2>1, <2>3, QuietStep
<1>5. ASSUME NEW i \in Instances, NEW p \in Partitions,
             \/ Subscribe(i, p) \/ Deliver(i, p) \/ Skip(i, p)
             \/ Save(i, p) \/ SaveThrows(i, p) \/ StoreOffset(i, p)
      PROVE  TableInv'
  BY <1>5, SubscribeKeepsTable, DeliverKeepsTable, FinishKeepsTable, StoreKeepsTable
<1>6. CASE SinkNext
  BY <1>2, <1>3, <1>4, <1>5, <1>6 DEF SinkNext
<1>7. CASE UNCHANGED <<conf, log, sinkVars>>
  BY <1>1, <1>7 DEF Publishing
<1> QED
  BY <1>1, <1>6, <1>7

(***************************************************************************)
(* The row of an id is that of its newest event read, or one that a reader *)
(* ahead has left and that will be read again.                             *)
(***************************************************************************)
THEOREM SinkTableInvariant == SinkSpec => []TableInv
<1>1. SinkInit => TableInv
  <2> SUFFICES ASSUME SinkInit PROVE TableInv
    OBVIOUS
  <2>1. /\ \A p \in Partitions : stored[p] = 0 /\ base[p] = 0
        /\ \A i \in Instances, p \in Partitions : pos[i][p] = 0 /\ busy[i][p] = 0
    BY DEF SinkInit, NoPosition
  <2>2. \A p \in Partitions : \A id : DueAt(p, id) = {}
    BY DEF SinkInit, BrokerInit, DueAt
  <2> QED
    BY <2>1, <2>2 DEF TableInv, HandInv, RowInv, RowShownTo, ShownTo
<1>2. SinkInv /\ SavedInv /\ TableInv
      /\ [SinkNext \/ (Publishing /\ UNCHANGED sinkVars)]_<<conf, log, sinkVars>>
      => TableInv'
  BY TableInvStep
<1> QED
  BY <1>1, <1>2, SinkInvariant, SinkSavedIsDue, PTL DEF SinkSpec

(***************************************************************************)
(* When the single active consumer has caught up, the table shows the last *)
(* account of each id whose events are all in its partition, unless its    *)
(* save threw: events saved again after a crash leave no older account.    *)
(***************************************************************************)
THEOREM SinkTableShowsLast == SinkSpec => []TableShowsLast
<1>1. SinkInv /\ BaseInv /\ TableInv => TableShowsLast
  <2> SUFFICES ASSUME SinkInv, BaseInv, TableInv, TableKept, NEW p \in Consumed, NEW id \in Ids,
                      CaughtUp(p), \A q \in Consumed \ {p} : DueAt(q, id) = {},
                      NEW k \in DueAt(p, id), \A j \in DueAt(p, id) : j <= k, k >= Since(p),
                      k \notin threw[p]
               PROVE  db[id] = log[p][k].n
    BY DEF TableShowsLast, TableKept
  <2>1. p \in Partitions
    BY RoutingAssumption DEF Consumed
  <2>2. PICK i \in Instances : pos[i][p] = Len(log[p]) + 1 /\ busy[i][p] = 0
    BY DEF CaughtUp
  <2>3. /\ Len(log[p]) \in Nat /\ base[p] \in Nat /\ k \in Nat /\ k <= Len(log[p])
        /\ \A j \in DueAt(p, id) : j \in Nat /\ j <= Len(log[p])
    BY <2>1, SinkTypes, DueFacts
  <2>4. Finished(i, p) = Len(log[p]) /\ pos[i][p] > 0
    BY <2>2, <2>3 DEF Finished
  <2>5. RowShownTo(p, id, Len(log[p]))
    BY <2>1, <2>4 DEF TableInv, OnlyIn, RowInv
  <2>6. Newest(DueAt(p, id), base[p], Len(log[p]), k)
    <3>1. k >= 1 /\ base[p] <= k
      BY <2>1, <2>3 DEF DueAt, Since, BaseInv, BaseIsFirst
    <3> QED
      BY <2>3, <3>1 DEF Newest
  <2>7. PICK j \in DueAt(p, id) : (j = k \/ j > Len(log[p])) /\ db[id] = log[p][j].n
    BY <2>5, <2>6 DEF RowShownTo, ShownTo
  <2> QED
    BY <2>3, <2>7
<1> QED
  BY <1>1, SinkInvariant, SinkBaseInvariant, SinkTableInvariant, PTL
=============================================================================
