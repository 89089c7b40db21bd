----------------------- MODULE AccountPipelineProofs ------------------------
(***************************************************************************)
(* Proofs about AccountSource and about AccountPipeline, for all ids,      *)
(* types, partitions, deployments and bounds.  The pipeline implements its *)
(* two components, so what is proved of each holds of the whole, and the   *)
(* end-to-end properties follow.  (The sink is in AccountSinkProofs.)      *)
(***************************************************************************)
EXTENDS AccountPipeline, AccountSinkProofs


-----------------------------------------------------------------------------
(* Sequences *)

(* What appending a message does to a sequence. *)
LEMMA AppendFacts ==
    ASSUME NEW S, NEW s \in Seq(S), NEW e \in S
    PROVE  /\ Append(s, e) \in Seq(S)
           /\ Len(Append(s, e)) = Len(s) + 1
           /\ \A k \in 1 .. Len(s) : Append(s, e)[k] = s[k]
           /\ Append(s, e)[Len(s) + 1] = e
  OBVIOUS

(* What removing its head does to a sequence that is not empty. *)
LEMMA TailFacts ==
    ASSUME NEW S, NEW s \in Seq(S), s # <<>>
    PROVE  /\ Tail(s) \in Seq(S)
           /\ Len(s) \in Nat \ {0}
           /\ Len(Tail(s)) = Len(s) - 1
           /\ \A k \in 1 .. (Len(s) - 1) : Tail(s)[k] = s[k + 1]
           /\ Head(s) = s[1]
           /\ Head(s) \in S
  OBVIOUS

(* The messages of a sequence have numbers. *)
LEMMA EventNumbers ==
    ASSUME NEW s \in Seq(Event)
    PROVE  \A k \in 1 .. Len(s) : s[k] \in Event /\ s[k].n \in Nat
<1>1. \A e \in Event : e.n \in Nat
  BY DEF Event
<1>2. \A k \in 1 .. Len(s) : s[k] \in Event
  OBVIOUS
<1> QED
  BY <1>1, <1>2

(* A message held by a log is held by the log with one more message. *)
LEMMA HoldsAppend ==
    ASSUME NEW S, NEW lg \in Seq(S), NEW e \in S, NEW m, Holds(lg, m) \/ m = e
    PROVE  Holds(Append(lg, e), m)
  BY AppendFacts DEF Holds

-----------------------------------------------------------------------------
(* One producer *)

(* Handing a new message to the producer keeps its invariant. *)
LEMMA ProducerPost ==
    ASSUME NEW out \in Seq(Event), NEW w \in Nat, NEW lg \in Seq(Event),
           NEW last \in Nat, NEW m \in Event, m.n = last + 1,
           ProducerInv(out, w, lg, last)
    PROVE  ProducerInv(Append(out, m), w, lg, last + 1)
<1> DEFINE new == Append(out, m)
<1>1. /\ Len(new) = Len(out) + 1
      /\ \A k \in 1 .. Len(out) : new[k] = out[k]
      /\ new[Len(out) + 1] = m
      /\ Len(out) \in Nat /\ Len(lg) \in Nat
  BY AppendFacts
<1>2. /\ \A k \in 1 .. Len(out) : out[k] \in Event /\ out[k].n \in Nat
      /\ \A k \in 1 .. Len(lg) : lg[k] \in Event /\ lg[k].n \in Nat
  BY EventNumbers
<1> HIDE DEF new
<1>3. WrittenIsLogged(new, w, lg)
  <2>1. w <= Len(out) /\ \A k \in 1 .. w : Holds(lg, out[k])
    BY DEF ProducerInv, WrittenIsLogged
  <2>2. \A k \in 1 .. w : k \in 1 .. Len(out)
    BY <2>1, <1>1
  <2>3. \A k \in 1 .. w : Holds(lg, new[k])
    BY <2>1, <2>2, <1>1
  <2>4. w <= Len(new)
    BY <2>1, <1>1
  <2> QED
    BY <2>3, <2>4 DEF WrittenIsLogged
<1>4. InPostingOrder(new)
  <2> SUFFICES ASSUME NEW i \in 1 .. Len(new), NEW j \in 1 .. Len(new), i < j
               PROVE  new[i].n < new[j].n
    BY DEF InPostingOrder
  <2>1. i \in 1 .. Len(out) /\ new[i] = out[i] /\ out[i].n \in Nat
    BY <1>1, <1>2
  <2>2. CASE j \in 1 .. Len(out)
    BY <2>1, <2>2, <1>1 DEF ProducerInv, InPostingOrder
  <2>3. CASE j = Len(out) + 1
    <3>1. out[i].n <= last
      BY <2>1 DEF ProducerInv, NumbersUpTo
    <3> QED
      BY <3>1, <2>1, <2>3, <1>1
  <2>4. j \in 1 .. Len(out) \/ j = Len(out) + 1
    BY <1>1
  <2> QED
    BY <2>2, <2>3, <2>4
<1>5. LoggedOrNewer(new, lg)
  BY <1>1, <1>2 DEF ProducerInv, LoggedOrNewer, NumbersUpTo
<1>6. NumbersUpTo(new, last + 1) /\ NumbersUpTo(lg, last + 1)
  <2>1. \A k \in 1 .. Len(lg) : lg[k].n <= last + 1
    BY <1>2 DEF ProducerInv, NumbersUpTo
  <2>2. \A k \in 1 .. Len(out) : new[k].n <= last + 1
    BY <1>1, <1>2 DEF ProducerInv, NumbersUpTo
  <2>3. new[Len(out) + 1].n <= last + 1
    BY <1>1
  <2>4. \A k \in 1 .. Len(new) : new[k].n <= last + 1
    BY <2>2, <2>3, <1>1
  <2> QED
    BY <2>1, <2>4 DEF NumbersUpTo
<1>7. FirstCopies(lg)
  BY DEF ProducerInv
<1> QED
  BY <1>3, <1>4, <1>5, <1>6, <1>7 DEF ProducerInv, new

(* A number given out for another producer keeps the invariant. *)
LEMMA ProducerGrow ==
    ASSUME NEW out \in Seq(Event), NEW w \in Nat, NEW lg \in Seq(Event),
           NEW last \in Nat, ProducerInv(out, w, lg, last)
    PROVE  ProducerInv(out, w, lg, last + 1)
<1>1. /\ \A k \in 1 .. Len(out) : out[k].n \in Nat
      /\ \A k \in 1 .. Len(lg) : lg[k].n \in Nat
  BY EventNumbers
<1> QED
  BY <1>1 DEF ProducerInv, NumbersUpTo

(* The broker's write of the next message keeps the invariant.  If it is a *)
(* new message it is newer than the log; if it is a copy, the message it   *)
(* copies was already in order.                                            *)
LEMMA ProducerWrite ==
    ASSUME NEW out \in Seq(Event), NEW w \in Nat, NEW lg \in Seq(Event),
           NEW last \in Nat, w < Len(out), ProducerInv(out, w, lg, last)
    PROVE  ProducerInv(out, w + 1, Append(lg, out[w + 1]), last)
<1> DEFINE e == out[w + 1]
           new == Append(lg, e)
<1>0. w + 1 \in 1 .. Len(out) /\ Len(out) \in Nat /\ Len(lg) \in Nat
  OBVIOUS
<1>1. e \in Event
  BY <1>0
<1>2. /\ Len(new) = Len(lg) + 1
      /\ \A k \in 1 .. Len(lg) : new[k] = lg[k]
      /\ new[Len(lg) + 1] = e
  BY <1>1, AppendFacts
<1>3. /\ \A k \in 1 .. Len(out) : out[k] \in Event /\ out[k].n \in Nat
      /\ \A k \in 1 .. Len(lg) : lg[k] \in Event /\ lg[k].n \in Nat
      /\ e.n \in Nat
  BY <1>0, EventNumbers
<1>4. \A m : Holds(lg, m) \/ m = e => Holds(new, m)
  BY <1>1, HoldsAppend
<1> HIDE DEF new
<1>5. WrittenIsLogged(out, w + 1, new)
  BY <1>0, <1>4 DEF ProducerInv, WrittenIsLogged
<1>6. LoggedOrNewer(out, new)
  <2> SUFFICES ASSUME NEW k \in 1 .. Len(out), ~ Holds(new, out[k]),
                      NEW j \in 1 .. Len(new)
               PROVE  new[j].n < out[k].n
    BY DEF LoggedOrNewer
  <2>1. ~ Holds(lg, out[k]) /\ out[k] # e
    BY <1>4
  <2>2. CASE j \in 1 .. Len(lg)
    BY <2>1, <2>2, <1>2 DEF ProducerInv, LoggedOrNewer
  <2>3. CASE j = Len(lg) + 1
    <3>1. k > w
      BY <2>1, <1>0 DEF ProducerInv, WrittenIsLogged
    <3>2. k # w + 1
      BY <2>1
    <3> QED
      BY <3>1, <3>2, <2>3, <1>0, <1>2 DEF ProducerInv, InPostingOrder
  <2> QED
    BY <2>2, <2>3, <1>0, <1>2
<1>7. NumbersUpTo(new, last)
  BY <1>0, <1>2, <1>3 DEF ProducerInv, NumbersUpTo
<1>8. FirstCopies(new)
  <2> SUFFICES ASSUME NEW i \in 1 .. Len(new), NEW j \in 1 .. Len(new),
                      i < j, new[j].n < new[i].n
               PROVE  \E k \in 1 .. (i - 1) : new[k] = new[j]
    BY DEF FirstCopies
  <2>0. i \in 1 .. Len(lg) /\ new[i] = lg[i]
    BY <1>0, <1>2
  <2>1. CASE j \in 1 .. Len(lg)
    <3>1. \E k \in 1 .. (i - 1) : lg[k] = lg[j]
      BY <2>0, <2>1, <1>2 DEF ProducerInv, FirstCopies
    <3> QED
      BY <3>1, <2>0, <2>1, <1>0, <1>2
  <2>2. CASE j = Len(lg) + 1
    <3>1. e.n < lg[i].n
      BY <2>0, <2>2, <1>2
    <3>2. Holds(lg, e)
      BY <3>1, <2>0, <1>0, <1>3 DEF ProducerInv, LoggedOrNewer
    <3>3. PICK m \in 1 .. Len(lg) : lg[m] = e
      BY <3>2 DEF Holds
    <3>4. CASE m < i
      BY <3>3, <3>4, <2>0, <2>2, <1>0, <1>2
    <3>5. CASE i < m
      <4>1. \E k \in 1 .. (i - 1) : lg[k] = lg[m]
        BY <3>1, <3>3, <3>5, <2>0 DEF ProducerInv, FirstCopies
      <4> QED
        BY <4>1, <3>3, <2>0, <2>2, <1>0, <1>2
    <3>6. m # i
      BY <3>1, <3>3, <2>0, <1>3
    <3> QED
      BY <3>4, <3>5, <3>6, <2>0, <1>0
  <2> QED
    BY <2>1, <2>2, <1>0, <1>2
<1> QED
  BY <1>5, <1>6, <1>7, <1>8 DEF ProducerInv, new, e

(* Dropping the oldest message, confirmed or given up, keeps the invariant. *)
LEMMA ProducerDrop ==
    ASSUME NEW out \in Seq(Event), NEW w \in Nat, NEW lg \in Seq(Event),
           NEW last \in Nat, out # <<>>, ProducerInv(out, w, lg, last),
           NEW v \in Nat, v = 0 \/ v = w - 1
    PROVE  ProducerInv(Tail(out), v, lg, last)
<1>1. /\ Len(out) \in Nat \ {0}
      /\ Len(Tail(out)) = Len(out) - 1
      /\ \A k \in 1 .. (Len(out) - 1) : Tail(out)[k] = out[k + 1]
  BY TailFacts
<1>2. WrittenIsLogged(Tail(out), v, lg)
  BY <1>1 DEF ProducerInv, WrittenIsLogged
<1>3. InPostingOrder(Tail(out))
  BY <1>1 DEF ProducerInv, InPostingOrder
<1>4. LoggedOrNewer(Tail(out), lg)
  BY <1>1 DEF ProducerInv, LoggedOrNewer
<1>5. NumbersUpTo(Tail(out), last)
  BY <1>1 DEF ProducerInv, NumbersUpTo
<1> QED
  BY <1>2, <1>3, <1>4, <1>5 DEF ProducerInv

(* Forgetting what was written, or all that is not confirmed, keeps it. *)
LEMMA ProducerReset ==
    ASSUME NEW out \in Seq(Event), NEW w \in Nat, NEW lg \in Seq(Event),
           NEW last \in Nat, ProducerInv(out, w, lg, last)
    PROVE  /\ ProducerInv(out, 0, lg, last)
           /\ ProducerInv(<<>>, 0, lg, last)
<1>1. ProducerInv(out, 0, lg, last)
  BY DEF ProducerInv, WrittenIsLogged
<1>2. Len(<<>>) = 0
  OBVIOUS
<1>3. ProducerInv(<<>>, 0, lg, last)
  BY <1>2 DEF ProducerInv, WrittenIsLogged, InPostingOrder, LoggedOrNewer, NumbersUpTo
<1> QED
  BY <1>1, <1>3
-----------------------------------------------------------------------------
(* Request numbers *)

(* How the numbers of a sequence change. *)
LEMMA NumbersFacts ==
    ASSUME NEW s \in Seq(Event), NEW e \in Event
    PROVE  /\ Numbers(Append(s, e)) = Numbers(s) \cup {e.n}
           /\ s # <<>> => Numbers(s) = Numbers(Tail(s)) \cup {Head(s).n}
           /\ Holds(s, e) => e.n \in Numbers(s)
<1>1. Numbers(Append(s, e)) = Numbers(s) \cup {e.n}
  <2>1. /\ Len(Append(s, e)) = Len(s) + 1 /\ Len(s) \in Nat
        /\ \A k \in 1 .. Len(s) : Append(s, e)[k] = s[k]
        /\ Append(s, e)[Len(s) + 1] = e
    BY AppendFacts
  <2> QED
    BY <2>1 DEF Numbers
<1>2. ASSUME s # <<>>
      PROVE  Numbers(s) = Numbers(Tail(s)) \cup {Head(s).n}
  <2>1. /\ Len(s) \in Nat \ {0} /\ Len(Tail(s)) = Len(s) - 1
        /\ \A k \in 1 .. (Len(s) - 1) : Tail(s)[k] = s[k + 1]
        /\ Head(s) = s[1]
    BY <1>2, TailFacts
  <2>2. ASSUME NEW k \in 1 .. Len(s)
        PROVE  s[k].n \in Numbers(Tail(s)) \cup {Head(s).n}
    <3>1. CASE k = 1
      BY <3>1, <2>1
    <3>2. CASE k # 1
      <4>1. k - 1 \in 1 .. Len(Tail(s)) /\ Tail(s)[k - 1] = s[k]
        BY <3>2, <2>1
      <4> QED
        BY <4>1 DEF Numbers
    <3> QED
      BY <3>1, <3>2
  <2>3. Head(s).n \in Numbers(s)
    BY <2>1 DEF Numbers
  <2>4. ASSUME NEW k \in 1 .. Len(Tail(s))
        PROVE  Tail(s)[k].n \in Numbers(s)
    <3>1. k + 1 \in 1 .. Len(s) /\ Tail(s)[k] = s[k + 1]
      BY <2>1
    <3> QED
      BY <3>1 DEF Numbers
  <2> QED
    BY <2>2, <2>3, <2>4 DEF Numbers
<1>3. Holds(s, e) => e.n \in Numbers(s)
  BY DEF Holds, Numbers
<1> QED
  BY <1>1, <1>2, <1>3

(* The messages the publishers build are events with a new number. *)
LEMMA MessageFacts ==
    ASSUME posted \in Nat, NEW id \in Ids \cup {NoId}
    PROVE  /\ \A type \in Types \cup {NoType}, location \in States \cup {NoLocation} :
                 /\ StreamMessage(id, type, location) \in Event
                 /\ StreamMessage(id, type, location).n = posted + 1
           /\ \A type \in Types :
                 /\ SuperStreamMessage(id, type) \in Event
                 /\ SuperStreamMessage(id, type).n = posted + 1
                 /\ SuperStreamRouting(SuperStreamMessage(id, type)) \in Partitions
  BY RoutingAssumption
     DEF StreamMessage, SuperStreamMessage, SuperStreamRouting, StateOf, Event

-----------------------------------------------------------------------------
(* The invariant *)

(* The inductive invariant holds at the start. *)
LEMMA SourceInvInit == SourceInit => SourceInv
<1> SUFFICES ASSUME SourceInit PROVE SourceInv
  OBVIOUS
<1> USE DEF BrokerInit, SourceInit
<1>1. BrokerTypeOK /\ SourceTypeOK
  BY SourceBounds DEF BrokerTypeOK, SourceTypeOK, Requests
<1>2. ASSUME NEW p \in Partitions
      PROVE  ProducerInv(outbox[p], written[p], log[p], posted)
  <2>1. outbox[p] = <<>> /\ log[p] = <<>> /\ written[p] = 0 /\ Len(<<>>) = 0
    OBVIOUS
  <2> QED
    BY <2>1 DEF ProducerInv, WrittenIsLogged, InPostingOrder, LoggedOrNewer,
                NumbersUpTo, FirstCopies
<1>3. AcceptedDurable /\ BlockedIsOutstanding
  BY DEF AcceptedDurable, BlockedIsOutstanding
<1> QED
  BY <1>1, <1>2, <1>3 DEF SourceInv

(* A new request: its message joins one outbox, its number is fresh. *)
LEMMA PostPreserves ==
    ASSUME SourceInv, posted < MaxPosts, posted' = posted + 1,
           NEW q \in Partitions, NEW m \in Event, m.n = posted + 1,
           outbox' = [outbox EXCEPT ![q] = Append(@, m)],
           UNCHANGED <<conf, log, written, failed, reconnects, sourceCrashes>>,
           \/ /\ conf.profile = "stream"
              /\ accepted' = accepted \cup {posted + 1} /\ waiting' = waiting
           \/ waiting' = waiting \cup {posted + 1} /\ accepted' = accepted
    PROVE  SourceInv'
<1> USE DEF SourceInv
<1>1. (BrokerTypeOK /\ SourceTypeOK)'
  <2>1. outbox[q] \in Seq(Event) /\ posted + 1 \in Requests /\ posted + 1 \in 0 .. MaxPosts
    BY SourceBounds DEF SourceTypeOK, Requests
  <2>2. Append(outbox[q], m) \in Seq(Event)
    BY <2>1, AppendFacts
  <2>3. outbox' \in [Partitions -> Seq(Event)]
    BY <2>2 DEF SourceTypeOK
  <2> QED
    BY <2>1, <2>3 DEF BrokerTypeOK, SourceTypeOK
<1>2. ASSUME NEW p \in Partitions
      PROVE  ProducerInv(outbox[p], written[p], log[p], posted)'
  <2>1. /\ outbox[p] \in Seq(Event) /\ log[p] \in Seq(Event)
        /\ written[p] \in Nat /\ posted \in Nat
    BY SourceBounds DEF BrokerTypeOK, SourceTypeOK
  <2>2. ProducerInv(outbox[p], written[p], log[p], posted)
    OBVIOUS
  <2>3. CASE p = q
    <3>1. outbox'[p] = Append(outbox[p], m)
      BY <2>3 DEF SourceTypeOK
    <3> QED
      BY <2>1, <2>2, <3>1, ProducerPost
  <2>4. CASE p # q
    <3>1. outbox'[p] = outbox[p]
      BY <2>4 DEF SourceTypeOK
    <3> QED
      BY <2>1, <2>2, <3>1, ProducerGrow
  <2> QED
    BY <2>3, <2>4
<1>3. (waiting \cup accepted \cup failed \subseteq 1 .. posted)'
  BY SourceBounds DEF SourceTypeOK
<1>4. AcceptedDurable'
  BY DEF AcceptedDurable, Logged
<1>5. /\ \A p \in Partitions : Numbers(outbox[p]) \subseteq Numbers(outbox'[p])
      /\ posted + 1 \in Numbers(outbox'[q])
  <2>1. \A p \in Partitions : outbox[p] \in Seq(Event)
    BY DEF SourceTypeOK
  <2>2. outbox'[q] = Append(outbox[q], m) /\ \A p \in Partitions \ {q} : outbox'[p] = outbox[p]
    BY DEF SourceTypeOK
  <2> QED
    BY <2>1, <2>2, NumbersFacts
<1>6. posted + 1 \notin waiting \cup accepted \cup failed
  BY SourceBounds DEF SourceTypeOK
<1>7. BlockedIsOutstanding'
  BY <1>5, <1>6 DEF BlockedIsOutstanding
<1> QED
  BY <1>1, <1>2, <1>3, <1>4, <1>7

(* The oldest message of an outbox is settled: a success only for a message *)
(* that is in the log, and the other waiting requests keep their messages.  *)
LEMMA SettlePreserves ==
    ASSUME SourceInv, NEW q \in Partitions, outbox[q] # <<>>,
           NEW lg \in Seq(Event), log' = [log EXCEPT ![q] = lg],
           Numbers(log[q]) \subseteq Numbers(lg),
           NEW v \in Nat, written' = [written EXCEPT ![q] = v],
           ProducerInv(Tail(outbox[q]), v, lg, posted),
           outbox' = [outbox EXCEPT ![q] = Tail(@)],
           waiting' = waiting \ {Head(outbox[q]).n},
           \/ /\ Head(outbox[q]).n \in Numbers(lg) /\ failed' = failed
              /\ accepted' = IF Head(outbox[q]).n \in waiting
                             THEN accepted \cup {Head(outbox[q]).n} ELSE accepted
           \/ /\ accepted' = accepted
              /\ failed' = IF Head(outbox[q]).n \in waiting
                           THEN failed \cup {Head(outbox[q]).n} ELSE failed,
           UNCHANGED <<conf, posted, reconnects, sourceCrashes>>
    PROVE  SourceInv'
<1> DEFINE n == Head(outbox[q]).n
<1> USE DEF SourceInv
<1>0. outbox[q] \in Seq(Event) /\ outbox \in [Partitions -> Seq(Event)]
      /\ log \in [Partitions -> Seq(Event)] /\ written \in [Partitions -> Nat]
  BY DEF SourceTypeOK, BrokerTypeOK
<1>1. (BrokerTypeOK /\ SourceTypeOK)'
  BY <1>0, TailFacts, SourceBounds DEF BrokerTypeOK, SourceTypeOK, Requests
<1>2. ASSUME NEW p \in Partitions
      PROVE  ProducerInv(outbox[p], written[p], log[p], posted)'
  <2>1. CASE p = q
    BY <2>1, <1>0
  <2>2. CASE p # q
    BY <2>2, <1>0
  <2> QED
    BY <2>1, <2>2
<1>3. (waiting \cup accepted \cup failed \subseteq 1 .. posted)'
  OBVIOUS
<1>4. AcceptedDurable'
  <2>1. \A p \in Partitions : Numbers(log[p]) \subseteq Numbers(log'[p])
    BY <1>0
  <2>2. log'[q] = lg
    BY <1>0
  <2>3. conf' = conf /\ \A k : Logged(k) => Logged(k)'
    BY <2>1 DEF Logged
  <2>4. \A k \in accepted' : k \in accepted \/ k \in Numbers(lg)
    OBVIOUS
  <2>5. \A k \in Numbers(lg) : Logged(k)'
    BY <2>2 DEF Logged
  <2> QED
    BY <2>3, <2>4, <2>5 DEF AcceptedDurable
<1>5. \A p \in Partitions : Numbers(outbox[p]) \subseteq Numbers(outbox'[p]) \cup {n}
  <2>1. Head(outbox[q]) \in Event
    BY <1>0, TailFacts
  <2>2. Numbers(outbox[q]) = Numbers(Tail(outbox[q])) \cup {n}
    BY <1>0, <2>1, NumbersFacts
  <2> QED
    BY <1>0, <2>2
<1>6. BlockedIsOutstanding'
  BY <1>5 DEF BlockedIsOutstanding
<1> QED
  BY <1>1, <1>2, <1>3, <1>4, <1>6

(* Every step of the source keeps the inductive invariant. *)
LEMMA SourceInvStep ==
    SourceInv /\ [SourceNext]_<<conf, log, sourceVars>> => SourceInv'
<1> SUFFICES ASSUME SourceInv, [SourceNext]_<<conf, log, sourceVars>>
             PROVE  SourceInv'
  OBVIOUS
<1>0. /\ posted \in Nat
      /\ \A p \in Partitions :
            /\ outbox[p] \in Seq(Event) /\ log[p] \in Seq(Event)
            /\ written[p] \in Nat
            /\ ProducerInv(outbox[p], written[p], log[p], posted)
  BY SourceBounds DEF SourceInv, SourceTypeOK, BrokerTypeOK
<1>1. ASSUME NEW id \in Ids \cup {NoId}, NEW type \in Types \cup {NoType},
             NEW location \in States \cup {NoLocation},
             PostStream(id, type, location)
      PROVE  SourceInv'
  <2>1. /\ StreamMessage(id, type, location) \in Event
        /\ StreamMessage(id, type, location).n = posted + 1
    BY <1>0, MessageFacts
  <2> QED
    BY <1>1, <2>1, PostPreserves, RoutingAssumption DEF PostStream
<1>2. ASSUME NEW id \in Ids \cup {NoId}, NEW type \in Types,
             PostSuperStream(id, type)
      PROVE  SourceInv'
  <2>1. /\ SuperStreamMessage(id, type) \in Event
        /\ SuperStreamMessage(id, type).n = posted + 1
        /\ SuperStreamRouting(SuperStreamMessage(id, type)) \in Partitions
    BY <1>0, MessageFacts
  <2> QED
    BY <1>2, <2>1, PostPreserves DEF PostSuperStream
<1>3. ASSUME PostWithoutRoutingKey
      PROVE  SourceInv'
  <2> USE <1>3 DEF PostWithoutRoutingKey
  <2>1. (BrokerTypeOK /\ SourceTypeOK)'
    BY SourceBounds DEF SourceInv, BrokerTypeOK, SourceTypeOK, Requests
  <2>2. \A p \in Partitions : ProducerInv(outbox[p], written[p], log[p], posted)'
    BY <1>0, ProducerGrow
  <2>3. (waiting \cup accepted \cup failed \subseteq 1 .. posted)'
    BY <1>0 DEF SourceInv
  <2>4. AcceptedDurable'
    BY DEF SourceInv, AcceptedDurable, Logged
  <2>5. posted + 1 \notin waiting \cup accepted
    BY <1>0 DEF SourceInv
  <2>6. BlockedIsOutstanding'
    BY <2>5 DEF SourceInv, BlockedIsOutstanding
  <2> QED
    BY <2>1, <2>2, <2>3, <2>4, <2>6 DEF SourceInv
<1>4. ASSUME NEW q \in Partitions, Write(q)
      PROVE  SourceInv'
  <2> DEFINE e == outbox[q][written[q] + 1]
  <2>1. e \in Event /\ Append(log[q], e) \in Seq(Event)
    <3>1. written[q] + 1 \in 1 .. Len(outbox[q])
      BY <1>0, <1>4 DEF Write
    <3>2. e \in Event
      BY <1>0, <3>1
    <3> QED
      BY <1>0, <3>2, AppendFacts
  <2>2. /\ log' = [log EXCEPT ![q] = Append(log[q], e)]
        /\ written' = [written EXCEPT ![q] = written[q] + 1]
        /\ log \in [Partitions -> Seq(Event)] /\ written \in [Partitions -> Nat]
    BY <1>4 DEF Write, AppendTo, SourceInv, BrokerTypeOK, SourceTypeOK
  <2>3. UNCHANGED <<conf, posted, outbox, waiting, accepted, failed, reconnects, sourceCrashes>>
    BY <1>4 DEF Write, requestVars
  <2>4. (BrokerTypeOK /\ SourceTypeOK)'
    <3> HIDE DEF e
    <3> QED
      BY <1>0, <2>1, <2>2, <2>3 DEF SourceInv, BrokerTypeOK, SourceTypeOK, Requests
  <2>5. ASSUME NEW p \in Partitions
        PROVE  ProducerInv(outbox[p], written[p], log[p], posted)'
    <3>1. CASE p = q
      <4>1. log'[p] = Append(log[p], outbox[p][written[p] + 1]) /\ written'[p] = written[p] + 1
        BY <2>2, <3>1
      <4>2. written[p] < Len(outbox[p])
        BY <1>4, <3>1 DEF Write
      <4> QED
        BY <1>0, <2>3, <4>1, <4>2, ProducerWrite
    <3>2. CASE p # q
      BY <1>0, <2>2, <2>3, <3>2
    <3> QED
      BY <3>1, <3>2
  <2>6. AcceptedDurable'
    <3>1. \A p \in Partitions : Numbers(log[p]) \subseteq Numbers(log'[p])
      BY <1>0, <2>1, <2>2, NumbersFacts
    <3> QED
      BY <2>3, <3>1 DEF SourceInv, AcceptedDurable, Logged
  <2>7. BlockedIsOutstanding' /\ (waiting \cup accepted \cup failed \subseteq 1 .. posted)'
    BY <2>3 DEF SourceInv, BlockedIsOutstanding
  <2> QED
    BY <2>4, <2>5, <2>6, <2>7 DEF SourceInv
<1>5. ASSUME NEW q \in Partitions, Confirm(q)
      PROVE  SourceInv'
  <2>1. outbox[q] # <<>> /\ 1 \in 1 .. written[q]
    BY <1>0, <1>5 DEF Confirm, ProducerInv, WrittenIsLogged
  <2>2. Head(outbox[q]) \in Event /\ Head(outbox[q]) = outbox[q][1]
    BY <1>0, <2>1, TailFacts
  <2>3. Head(outbox[q]).n \in Numbers(log[q])
    <3>1. Holds(log[q], Head(outbox[q]))
      BY <1>0, <2>1, <2>2 DEF ProducerInv, WrittenIsLogged
    <3> QED
      BY <1>0, <2>2, <3>1, NumbersFacts
  <2>4. written[q] - 1 \in Nat /\ log' = [log EXCEPT ![q] = log[q]]
    BY <1>0, <1>5 DEF Confirm, SourceInv, BrokerTypeOK
  <2>5. ProducerInv(Tail(outbox[q]), written[q] - 1, log[q], posted)
    BY <1>0, <2>1, <2>4, ProducerDrop
  <2>6. /\ outbox' = [outbox EXCEPT ![q] = Tail(@)]
        /\ written' = [written EXCEPT ![q] = written[q] - 1]
        /\ waiting' = waiting \ {Head(outbox[q]).n}
        /\ failed' = failed
        /\ accepted' = IF Head(outbox[q]).n \in waiting
                       THEN accepted \cup {Head(outbox[q]).n} ELSE accepted
        /\ UNCHANGED <<conf, posted, reconnects, sourceCrashes>>
    BY <1>5 DEF Confirm
  <2> QED
    BY <1>0, <2>1, <2>3, <2>4, <2>5, <2>6, SettlePreserves
<1>6. ASSUME NEW q \in Partitions, NEW late \in BOOLEAN, Unconfirmed(q, late)
      PROVE  SourceInv'
  <2>1. outbox[q] # <<>>
    BY <1>6 DEF Unconfirmed
  <2>2. Head(outbox[q]) \in Event /\ Head(outbox[q]) = outbox[q][1] /\ Len(outbox[q]) > 0
    BY <1>0, <2>1, TailFacts
  <2> DEFINE v == IF written[q] > 0 THEN written[q] - 1 ELSE 0
             lg == IF late THEN Append(log[q], Head(outbox[q])) ELSE log[q]
  <2>3. v \in Nat /\ (v = 0 \/ v = written[q] - 1)
    BY <1>0
  <2>4. lg \in Seq(Event) /\ Numbers(log[q]) \subseteq Numbers(lg)
    BY <1>0, <2>2, AppendFacts, NumbersFacts
  <2>5. ProducerInv(Tail(outbox[q]), v, lg, posted)
    <3>1. CASE ~late
      BY <1>0, <2>1, <2>3, <3>1, ProducerDrop
    <3>2. CASE late
      <4>1. written[q] = 0
        BY <1>6, <3>2 DEF Unconfirmed
      <4>2. ProducerInv(outbox[q], 1, lg, posted)
        <5>1. ProducerInv(outbox[q], written[q] + 1,
                          Append(log[q], outbox[q][written[q] + 1]), posted)
          BY <1>0, <2>2, <4>1, ProducerWrite
        <5> QED
          BY <5>1, <4>1, <3>2, <2>2
      <4> HIDE DEF lg
      <4> QED
        BY <1>0, <2>1, <2>4, <4>1, <4>2, ProducerDrop
    <3> QED
      BY <3>1, <3>2
  <2>6. log' = [log EXCEPT ![q] = lg]
    BY <1>6 DEF Unconfirmed, AppendTo, SourceInv, BrokerTypeOK
  <2>7. /\ outbox' = [outbox EXCEPT ![q] = Tail(@)]
        /\ written' = [written EXCEPT ![q] = v]
        /\ waiting' = waiting \ {Head(outbox[q]).n}
        /\ accepted' = accepted
        /\ failed' = IF Head(outbox[q]).n \in waiting
                     THEN failed \cup {Head(outbox[q]).n} ELSE failed
        /\ UNCHANGED <<conf, posted, reconnects, sourceCrashes>>
    BY <1>6 DEF Unconfirmed
  <2> HIDE DEF v, lg
  <2> QED
    BY <2>1, <2>3, <2>4, <2>5, <2>6, <2>7, SettlePreserves
<1>7. ASSUME NEW q \in Partitions, Reconnect(q)
      PROVE  SourceInv'
  <2> USE <1>7 DEF Reconnect, requestVars
  <2>1. (BrokerTypeOK /\ SourceTypeOK)'
    BY SourceBounds DEF SourceInv, BrokerTypeOK, SourceTypeOK, Requests
  <2>2. ASSUME NEW p \in Partitions
        PROVE  ProducerInv(outbox[p], written[p], log[p], posted)'
    <3>1. written'[p] = written[p] \/ written'[p] = 0
      BY DEF SourceInv, SourceTypeOK
    <3> QED
      BY <1>0, <3>1, ProducerReset
  <2>3. AcceptedDurable' /\ BlockedIsOutstanding'
    BY DEF SourceInv, AcceptedDurable, Logged, BlockedIsOutstanding
  <2> QED
    BY <2>1, <2>2, <2>3 DEF SourceInv
<1>8. ASSUME SourceCrash
      PROVE  SourceInv'
  <2> USE <1>8 DEF SourceCrash
  <2>1. (BrokerTypeOK /\ SourceTypeOK)'
    BY SourceBounds DEF SourceInv, BrokerTypeOK, SourceTypeOK, Requests
  <2>2. \A p \in Partitions : ProducerInv(outbox[p], written[p], log[p], posted)'
    BY <1>0, ProducerReset
  <2>3. AcceptedDurable' /\ BlockedIsOutstanding'
    BY DEF SourceInv, AcceptedDurable, Logged, BlockedIsOutstanding
  <2> QED
    BY <2>1, <2>2, <2>3 DEF SourceInv
<1>9. CASE UNCHANGED <<conf, log, sourceVars>>
  BY <1>9 DEF SourceInv, sourceVars, producerVars, requestVars, BrokerTypeOK,
              SourceTypeOK, AcceptedDurable, Logged, BlockedIsOutstanding
<1> QED
  BY <1>1, <1>2, <1>3, <1>4, <1>5, <1>6, <1>7, <1>8, <1>9 DEF SourceNext

(***************************************************************************)
(* The source's inductive invariant: types, and what each producer has in  *)
(* its outbox, for every client, routing and bound.                        *)
(***************************************************************************)
THEOREM SourceInvariant == SourceSpec => []SourceInv
<1> QED
  BY SourceInvInit, SourceInvStep, PTL DEF SourceSpec

(***************************************************************************)
(* Type correctness of the source: the numbers of AccountController's      *)
(* requests and of the messages its producers have outstanding or sent.    *)
(***************************************************************************)
THEOREM SourceTypeCorrect == SourceSpec => []SourceTypeInv
<1>1. SourceInv => SourceTypeInv
  BY DEF SourceInv, SourceTypeInv
<1> QED
  BY <1>1, SourceInvariant, PTL

(***************************************************************************)
(* Success under superStream means stored: AccountController answers only  *)
(* after send(..).get(), and neither sending again nor giving up on a      *)
(* confirm can undo it.                                                    *)
(***************************************************************************)
THEOREM SourceAcceptedDurable == SourceSpec => []AcceptedDurable
<1>1. SourceInv => AcceptedDurable
  BY DEF SourceInv
<1> QED
  BY <1>1, SourceInvariant, PTL

(***************************************************************************)
(* The first copies of the accounts of a partition are in posting order.   *)
(***************************************************************************)
THEOREM SourceFirstCopies == SourceSpec => []FirstCopiesInOrder
<1>1. SourceInv => FirstCopiesInOrder
  BY DEF SourceInv, FirstCopiesInOrder, ProducerInv
<1> QED
  BY <1>1, SourceInvariant, PTL

(***************************************************************************)
(* A blocked request can still be answered, and is answered at most once.  *)
(***************************************************************************)
THEOREM SourceBlockedIsOutstanding == SourceSpec => []BlockedIsOutstanding
<1>1. SourceInv => BlockedIsOutstanding
  BY DEF SourceInv
<1> QED
  BY <1>1, SourceInvariant, PTL

-----------------------------------------------------------------------------
(* The filter value of a message *)

\* Every message of s was stored with its stateProvince as its filter value, if the
\* source sets filter values.
Tagged(s, useFilter) ==
    \A k \in 1 .. Len(s) : s[k].filterValue = IF useFilter THEN s[k].state ELSE NoValue

TaggedInv ==
    conf.profile = "stream" =>
        \A p \in Partitions : Tagged(outbox[p], conf.isUseFilter) /\ Tagged(log[p], conf.isUseFilter)

LEMMA TaggedAppend ==
    ASSUME NEW s \in Seq(Event), NEW e \in Event, NEW use, Tagged(s, use),
           e.filterValue = IF use THEN e.state ELSE NoValue
    PROVE  Tagged(Append(s, e), use)
<1>1. /\ Len(s) \in Nat /\ Len(Append(s, e)) = Len(s) + 1
      /\ \A k \in 1 .. Len(s) : Append(s, e)[k] = s[k]
      /\ Append(s, e)[Len(s) + 1] = e
  BY AppendFacts
<1>2. \A k \in 1 .. (Len(s) + 1) : k \in 1 .. Len(s) \/ k = Len(s) + 1
  BY <1>1
<1> QED
  BY <1>1, <1>2 DEF Tagged

LEMMA TaggedTail ==
    ASSUME NEW s \in Seq(Event), s # <<>>, NEW use, Tagged(s, use)
    PROVE  /\ Tagged(Tail(s), use)
           /\ Head(s).filterValue = IF use THEN Head(s).state ELSE NoValue
<1>1. /\ Len(s) \in Nat \ {0} /\ Len(Tail(s)) = Len(s) - 1 /\ Head(s) = s[1]
      /\ \A k \in 1 .. (Len(s) - 1) : Tail(s)[k] = s[k + 1]
  BY TailFacts
<1>2. \A k \in 1 .. (Len(s) - 1) : k + 1 \in 1 .. Len(s)
  BY <1>1
<1>3. 1 \in 1 .. Len(s)
  BY <1>1
<1> QED
  BY <1>1, <1>2, <1>3 DEF Tagged

LEMMA TaggedInvStep ==
    ASSUME SourceInv, TaggedInv, [SourceNext]_<<conf, log, sourceVars>>
    PROVE  TaggedInv'
<1> DEFINE use == conf.isUseFilter
<1>0. /\ outbox \in [Partitions -> Seq(Event)] /\ log \in [Partitions -> Seq(Event)]
      /\ written \in [Partitions -> Nat] /\ posted \in Nat
  BY SourceBounds DEF SourceInv, SourceTypeOK, BrokerTypeOK
<1>1. conf' = conf
  BY DEF SourceNext, PostStream, PostSuperStream, PostWithoutRoutingKey, Write, Confirm,
         Unconfirmed, Reconnect, SourceCrash
<1> SUFFICES ASSUME conf.profile = "stream", NEW p \in Partitions
             PROVE  Tagged(outbox'[p], use) /\ Tagged(log'[p], use)
  BY <1>1 DEF TaggedInv
<1>2. Tagged(outbox[p], use) /\ Tagged(log[p], use)
  BY DEF TaggedInv
<1> HIDE DEF use
<1>3. ASSUME NEW id \in Ids \cup {NoId}, NEW type \in Types \cup {NoType},
             NEW location \in States \cup {NoLocation}, PostStream(id, type, location)
      PROVE  Tagged(outbox'[p], use) /\ Tagged(log'[p], use)
  <2> DEFINE m == StreamMessage(id, type, location)
  <2>1. m \in Event
    BY <1>0, MessageFacts
  <2>2. m.filterValue = IF use THEN m.state ELSE NoValue
    BY DEF StreamMessage, use
  <2> HIDE DEF m
  <2>3. /\ log' = log
        /\ outbox'[p] = outbox[p] \/ outbox'[p] = Append(outbox[p], m)
    BY <1>0, <1>3 DEF PostStream, m
  <2> QED
    BY <1>0, <1>2, <2>1, <2>2, <2>3, TaggedAppend
<1>4. ASSUME NEW q \in Partitions, Write(q)
      PROVE  Tagged(outbox'[p], use) /\ Tagged(log'[p], use)
  <2> DEFINE m == outbox[q][written[q] + 1]
  <2>1. written[q] + 1 \in 1 .. Len(outbox[q])
    BY <1>0, <1>4 DEF Write
  <2>2. m \in Event /\ m.filterValue = IF use THEN m.state ELSE NoValue
    BY <1>0, <2>1 DEF TaggedInv, Tagged, use
  <2> HIDE DEF m
  <2>3. outbox' = outbox /\ (log'[p] = log[p] \/ log'[p] = Append(log[p], m))
    BY <1>0, <1>4 DEF Write, AppendTo, m
  <2> QED
    BY <1>0, <1>2, <2>2, <2>3, TaggedAppend
<1>5. ASSUME NEW q \in Partitions, NEW late \in BOOLEAN, Unconfirmed(q, late)
      PROVE  Tagged(outbox'[p], use) /\ Tagged(log'[p], use)
  <2> DEFINE m == Head(outbox[q])
  <2>1. outbox[q] # <<>> /\ outbox[q] \in Seq(Event) /\ Tagged(outbox[q], use)
    BY <1>0, <1>5 DEF Unconfirmed, TaggedInv, use
  <2>2. /\ Tagged(Tail(outbox[q]), use) /\ m \in Event
        /\ m.filterValue = IF use THEN m.state ELSE NoValue
    BY <2>1, TaggedTail, TailFacts
  <2> HIDE DEF m
  <2>3. /\ outbox'[p] = outbox[p] \/ (p = q /\ outbox'[p] = Tail(outbox[q]))
        /\ log'[p] = log[p] \/ log'[p] = Append(log[p], m)
    BY <1>0, <1>5 DEF Unconfirmed, AppendTo, m
  <2> QED
    BY <1>0, <1>2, <2>2, <2>3, TaggedAppend
<1>6. ASSUME NEW q \in Partitions, Confirm(q)
      PROVE  Tagged(outbox'[p], use) /\ Tagged(log'[p], use)
  <2>1. outbox[q] \in Seq(Event) /\ Tagged(outbox[q], use) /\ outbox[q] # <<>>
    <3>1. WrittenIsLogged(outbox[q], written[q], log[q]) /\ written[q] > 0
      BY <1>6 DEF SourceInv, ProducerInv, Confirm
    <3> QED
      BY <1>0, <3>1 DEF WrittenIsLogged, TaggedInv, use
  <2>2. Tagged(Tail(outbox[q]), use)
    BY <2>1, TaggedTail
  <2>3. /\ log' = log
        /\ outbox'[p] = outbox[p] \/ (p = q /\ outbox'[p] = Tail(outbox[q]))
    BY <1>0, <1>6 DEF Confirm
  <2> QED
    BY <1>2, <2>2, <2>3
<1>7. ASSUME \/ PostWithoutRoutingKey \/ SourceCrash \/ UNCHANGED <<conf, log, sourceVars>>
             \/ \E q \in Partitions : Reconnect(q)
      PROVE  Tagged(outbox'[p], use) /\ Tagged(log'[p], use)
  <2>1. log' = log /\ (outbox' = outbox \/ outbox'[p] = <<>>)
    BY <1>7 DEF PostWithoutRoutingKey, SourceCrash, Reconnect, sourceVars, producerVars
  <2>2. Tagged(<<>>, use)
    BY Len(<<>>) = 0 DEF Tagged
  <2> QED
    BY <1>2, <2>1, <2>2
<1>8. \A id \in Ids \cup {NoId}, type \in Types : ~PostSuperStream(id, type)
  BY DEF PostSuperStream
<1> QED
  BY <1>3, <1>4, <1>5, <1>6, <1>7, <1>8 DEF SourceNext

(***************************************************************************)
(* Under the stream profile every message is stored with its stateProvince *)
(* as filter value exactly when use.filter is set, also a message that is  *)
(* sent again or written late (RabbitStreamConfig.publisher).              *)
(***************************************************************************)
THEOREM SourceTagsMessages == SourceSpec => []TaggedInv
<1>1. SourceInit => TaggedInv
  BY Len(<<>>) = 0 DEF SourceInit, BrokerInit, TaggedInv, Tagged
<1>2. SourceInv /\ TaggedInv /\ [SourceNext]_<<conf, log, sourceVars>> => TaggedInv'
  BY TaggedInvStep
<1> QED
  BY <1>1, <1>2, SourceInvariant, PTL DEF SourceSpec

-----------------------------------------------------------------------------
(* The pipeline *)

(* The sinks never touch the stream. *)
LEMMA SinkLeavesLog == SinkNext => UNCHANGED <<conf, log>>
  BY DEF SinkNext, StartInstance, LoseConnection, CrashInstance, Subscribe,
         Deliver, Skip, Save, SaveThrows, StoreOffset

(* The source is a publisher: all it does to the stream is append events. *)
LEMMA SourcePublishes == SourceInv /\ SourceNext => Publishing
<1> SUFFICES ASSUME SourceInv, SourceNext PROVE Publishing
  OBVIOUS
<1>0. \A p \in Partitions : outbox[p] \in Seq(Event) /\ written[p] \in Nat
  BY DEF SourceInv, SourceTypeOK
<1>1. ASSUME NEW p \in Partitions, Write(p)
      PROVE  Publishing
  <2>1. outbox[p][written[p] + 1] \in Event
    BY <1>0, <1>1 DEF Write
  <2> QED
    BY <1>1, <2>1 DEF Write, Publishing
<1>2. ASSUME NEW p \in Partitions, NEW late \in BOOLEAN, Unconfirmed(p, late)
      PROVE  Publishing
  <2>1. Head(outbox[p]) \in Event
    BY <1>0, <1>2, TailFacts DEF Unconfirmed
  <2> QED
    BY <1>2, <2>1 DEF Unconfirmed, Publishing
<1>3. ASSUME \/ \E id \in Ids \cup {NoId} :
                  \/ \E type \in Types \cup {NoType}, location \in States \cup {NoLocation} :
                        PostStream(id, type, location)
                  \/ \E type \in Types : PostSuperStream(id, type)
             \/ PostWithoutRoutingKey
             \/ \E p \in Partitions : Confirm(p) \/ Reconnect(p)
             \/ SourceCrash
      PROVE  Publishing
  BY <1>3 DEF PostStream, PostSuperStream, PostWithoutRoutingKey, Confirm,
              Reconnect, SourceCrash, Publishing
<1> QED
  BY <1>1, <1>2, <1>3 DEF SourceNext

(***************************************************************************)
(* The pipeline implements the source alone: the sinks never disturb it.   *)
(***************************************************************************)
THEOREM PipelineImplementsSource == Spec => SourceSpec
<1>1. Init => SourceInit
  BY DEF Init
<1>2. [Next]_vars => [SourceNext]_<<conf, log, sourceVars>>
  BY SinkLeavesLog DEF Next, vars
<1> QED
  BY <1>1, <1>2, PTL DEF Spec, SourceSpec

(***************************************************************************)
(* The pipeline implements the sinks under some publisher.                 *)
(***************************************************************************)
THEOREM PipelineImplementsSink == Spec => SinkSpec
<1>1. Init => SinkInit
  BY DEF Init
<1>2. SourceInv /\ [Next]_vars =>
          [SinkNext \/ (Publishing /\ UNCHANGED sinkVars)]_<<conf, log, sinkVars>>
  BY SourcePublishes DEF Next, vars
<1>3. Spec => []SourceInv
  BY PipelineImplementsSource, SourceInvariant, PTL
<1> QED
  BY <1>1, <1>2, <1>3, PTL DEF Spec, SinkSpec

(***************************************************************************)
(* An account accepted under superStream is in the stream, and a single    *)
(* active sink's offset does not pass it unhandled, unless an instance was *)
(* interrupted before the first offset was stored and the next reader      *)
(* began after the account.                                                *)
(***************************************************************************)
THEOREM PipelineAcceptedNotPassedOver == Spec => []AcceptedNotPassedOver
<1>1. SourceInv /\ SinkInv /\ BaseInv => AcceptedNotPassedOver
  <2> SUFFICES ASSUME SourceInv, SinkInv, BaseInv, conf.profile = "superStream",
                      SingleActive, conf.ddlAuto # "create", NEW n \in accepted
               PROVE  \E p \in Partitions : \E k \in 1 .. Len(log[p]) :
                          /\ log[p][k].n = n
                          /\ k \in from[p] .. stored[p] =>
                                \/ Handled(p, k)
                                \/ k < base[p] /\ sinkCrashes + sinkDrops > 0
    BY DEF AcceptedNotPassedOver
  <2>1. PICK p \in Partitions : n \in Numbers(log[p])
    BY DEF SourceInv, AcceptedDurable, Logged
  <2>2. PICK k \in 1 .. Len(log[p]) : log[p][k].n = n
    BY <2>1 DEF Numbers
  <2>3. Due(log[p][k])
    BY DEF Due, Filtering
  <2>4. ASSUME k \in from[p] .. stored[p], ~Handled(p, k)
        PROVE  k < base[p] /\ sinkCrashes + sinkDrops > 0
    <3>1. /\ base[p] \in Nat /\ from[p] \in Nat /\ stored[p] \in Nat /\ k \in Nat
          /\ sinkCrashes \in Nat /\ sinkDrops \in Nat
      BY <2>2, SinkBounds DEF SinkInv, SinkTypeOK
    <3>2. k > 0
      BY <2>2
    <3>3. k \notin base[p] .. stored[p]
      BY <2>3, <2>4, <3>2 DEF SinkInv, StoredFromBase
    <3>4. k < base[p]
      BY <2>4, <3>1, <3>3
    <3>5. base[p] # from[p]
      BY <2>4, <3>1, <3>4
    <3>6. ~(sinkCrashes = 0 /\ sinkDrops = 0)
      BY <3>5 DEF BaseInv, Uninterrupted
    <3> QED
      BY <3>1, <3>4, <3>6
  <2> QED
    BY <2>2, <2>4
<1>2. Spec => []SourceInv
  BY PipelineImplementsSource, SourceInvariant, PTL
<1>3. Spec => [](SinkInv /\ BaseInv)
  BY PipelineImplementsSink, SinkInvariant, SinkBaseInvariant, PTL
<1> QED
  BY <1>1, <1>2, <1>3, PTL

(***************************************************************************)
(* The filter works end to end, although it is set in two applications:    *)
(* what the sink asked for is due, and nothing else reaches the table.     *)
(***************************************************************************)
THEOREM PipelineFilterEndToEnd == Spec => []FilterEndToEnd
<1>1. SourceInv /\ TaggedInv /\ SavedInv => FilterEndToEnd
  <2> SUFFICES ASSUME SourceInv, TaggedInv, SavedInv, Filtering,
                      NEW p \in Partitions, NEW k \in 1 .. Len(log[p])
               PROVE  /\ k \in saved[p] => log[p][k].state \in conf.filterValues
                      /\ conf.isUseFilter /\ log[p][k].state \in conf.filterValues
                             => Due(log[p][k])
    BY DEF FilterEndToEnd
  <2>1. k \in saved[p] => log[p][k].state \in conf.filterValues
    BY DEF SavedInv, Due
  <2>2. ASSUME conf.isUseFilter, log[p][k].state \in conf.filterValues
        PROVE  Due(log[p][k])
    <3>1. log[p][k].filterValue = log[p][k].state
      BY <2>2 DEF TaggedInv, Tagged, Filtering
    <3>2. conf.filterValues \subseteq States
      BY DeploymentsAssumption DEF SourceInv, BrokerTypeOK, Deployment
    <3>3. log[p][k].state # NoValue
      BY <2>2, <3>2, DistinctMarkers
    <3> QED
      BY <2>2, <3>1, <3>3 DEF Due
  <2> QED
    BY <2>1, <2>2
<1>2. Spec => []SourceInv /\ []TaggedInv
  BY PipelineImplementsSource, SourceInvariant, SourceTagsMessages, PTL
<1>3. Spec => []SavedInv
  BY PipelineImplementsSink, SinkSavedIsDue, PTL
<1> QED
  BY <1>1, <1>2, <1>3, PTL
=============================================================================
