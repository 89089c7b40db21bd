------------------------ MODULE FilterPipelineProofs ------------------------
(***************************************************************************)
(* Proofs about stream-sql-filter-processor in the pipeline with           *)
(* account-sink, for any messages, properties, credit and bounds.          *)
(***************************************************************************)
EXTENDS FilterPipeline, FiniteSetTheorems, WellFoundedInduction, TLAPS

(***************************************************************************)
(* The inductive invariant.  Where the messages are that the link counts   *)
(* as unsettled: ...                                                       *)
(***************************************************************************)
PlaceInv ==
    /\ inPos <= Len(input) + 1
    /\ inPos = 0 => unsettled = {} /\ outbox = <<>> /\ confirms = {} /\ refused = {}
    /\ \A k \in unsettled : k \in 1 .. Len(input) /\ k < inPos
    /\ \A i \in 1 .. Len(outbox) :
          outbox[i] \in unsettled /\ input[outbox[i]].properties # {}
    /\ \A k \in confirms \cup refused : k \in unsettled /\ input[k].properties # {}

(* ... in one place each, ... *)
OnceInv ==
    /\ \A i, j \in 1 .. Len(outbox) : outbox[i] = outbox[j] => i = j
    /\ \A i \in 1 .. Len(outbox) : outbox[i] \notin confirms /\ outbox[i] \notin refused
    /\ \A k \in confirms : k \notin refused

(* ... and in none other. *)
CoverInv ==
    \A k \in unsettled :
        \/ input[k].properties = {}
        \/ k \in confirms \cup refused
        \/ \E i \in 1 .. Len(outbox) : outbox[i] = k

BoundInv == IsFiniteSet(unsettled) /\ Cardinality(unsettled) <= Credits

(* What has been stored for the callback, or accepted, is in the output. *)
StoredInv == \A k \in accepted \cup confirms : Forwarded(k)

FilterInv == FilterTypeOK /\ PlaceInv /\ OnceInv /\ CoverInv /\ BoundInv /\ StoredInv

-----------------------------------------------------------------------------
(* A message with properties has a first one. *)
LEMMA FirstEntryType ==
    ASSUME NEW properties \in SUBSET Properties, properties # {}
    PROVE  FirstEntry(properties) \in Properties
<1> DEFINE Ranks == {Rank[p] : p \in properties}
           Less == {ss \in Nat \X Nat : ss[1] < ss[2]}
<1>1. Ranks \subseteq Nat /\ Ranks # {}
  BY FilterAssumption
<1>2. IsWellFoundedOn(Less, Nat)
  BY NatLessThanWellFounded, Zenon DEF OpToRel
<1>3. \E x \in Ranks : \A y \in Ranks : ~(<<y, x>> \in Less)
  <2> HIDE DEF Ranks, Less
  <2> QED
    BY <1>1, <1>2, WFMin
<1>4. PICK x \in Ranks : \A y \in Ranks : ~(<<y, x>> \in Less)
  BY <1>3
<1>5. \A y \in Ranks : x <= y
  <2> SUFFICES ASSUME NEW y \in Ranks PROVE x <= y
    OBVIOUS
  <2>1. x \in Nat /\ y \in Nat
    BY <1>1
  <2>2. ~(<<y, x>> \in Less)
    BY <1>4
  <2> QED
    BY <2>1, <2>2
<1>6. \E p \in properties : \A q \in properties : Rank[p] <= Rank[q]
  <2>1. PICK p \in properties : x = Rank[p]
    BY <1>4
  <2> QED
    BY <1>5, <2>1
<1> QED
  BY <1>6 DEF FirstEntry

(* Types that the steps use. *)
LEMMA FilterTypes ==
    ASSUME FilterInv
    PROVE  /\ inPos \in Nat /\ Len(input) \in Nat /\ Len(outbox) \in Nat /\ Len(output) \in Nat
           /\ \A k \in 1 .. Len(input) :
                 /\ input[k] \in Inputs
                 /\ input[k].properties \in SUBSET Properties
                 /\ input[k].id \in Ids \cup {NotJson}
           /\ Credits \in Nat
  BY FilterAssumption DEF FilterInv, FilterTypeOK, In!LinkTypeOK

LEMMA InitFilterInv == FilterInit => FilterInv
  BY FS_EmptySet, FilterAssumption
  DEF FilterInit, FilterInv, FilterTypeOK, In!LinkTypeOK, In!LinkInit, PlaceInv, OnceInv,
      CoverInv, BoundInv, StoredInv

LEMMA StartFilterInv ==
    ASSUME FilterInv, StartFilter
    PROVE  FilterInv'
<1> USE FilterTypes
<1>1. inPos = 0 /\ unsettled = {} /\ outbox = <<>> /\ confirms = {} /\ refused = {}
  BY DEF FilterInv, PlaceInv, StartFilter, In!Attach
<1>2. inPos' \in 1 .. (Len(input) + 1)
  BY FilterAssumption DEF FilterInv, FilterTypeOK, StartFilter, In!Attach, In!Beginning
<1>3. UNCHANGED <<streams, unsettled, outbox, confirms, accepted, refused, refusals, crashes>>
  BY DEF StartFilter, In!Attach
<1>4. FilterTypeOK'
  BY <1>2, <1>3 DEF streams, FilterInv, FilterTypeOK, In!LinkTypeOK
<1>5. PlaceInv'
  BY <1>1, <1>2, <1>3 DEF streams, PlaceInv
<1>6. OnceInv' /\ CoverInv'
  BY <1>1, <1>3 DEF streams, OnceInv, CoverInv
<1>7. BoundInv'
  BY <1>3 DEF FilterInv, BoundInv
<1>8. StoredInv'
  BY <1>3 DEF streams, FilterInv, StoredInv, Forwarded
<1> QED
  BY <1>4, <1>5, <1>6, <1>7, <1>8 DEF FilterInv

(* The link sends a message: one more is unsettled. *)
LEMMA SendBound ==
    ASSUME FilterInv, In!Send, In!Available
    PROVE  BoundInv'
<1>1. IsFiniteSet(unsettled) /\ Cardinality(unsettled) \in Nat
  BY FS_CardinalityType DEF FilterInv, BoundInv
<1>2. Cardinality(unsettled) < Credits /\ unsettled' = unsettled \cup {inPos} /\ Credits \in Nat
  <2>1. In!Cardinality(unsettled) = Cardinality(unsettled)
    BY Zenon DEF Cardinality, In!Cardinality
  <2> QED
    BY <2>1, FilterAssumption DEF In!Send
<1>3. /\ IsFiniteSet(unsettled \cup {inPos})
      /\ \/ Cardinality(unsettled \cup {inPos}) = Cardinality(unsettled)
         \/ Cardinality(unsettled \cup {inPos}) = Cardinality(unsettled) + 1
  BY <1>1, FS_AddElement
<1>4. Cardinality(unsettled \cup {inPos}) <= Credits
  BY <1>1, <1>2, <1>3
<1> QED
  BY <1>2, <1>3, <1>4 DEF BoundInv

LEMMA HandleInv ==
    ASSUME FilterInv, Handle
    PROVE  FilterInv'
<1> USE FilterTypes
<1>1. /\ inPos \in 1 .. Len(input) /\ input[inPos].properties # {}
      /\ inPos' = inPos + 1 /\ unsettled' = unsettled \cup {inPos}
      /\ outbox' = Append(outbox, inPos) /\ inPos \notin unsettled
      /\ UNCHANGED <<offset, input, output, confirms, accepted, refused, refusals, crashes>>
  BY DEF Handle, In!Available, In!Message, In!Send, streams, FilterInv, PlaceInv
<1>2. outbox \in Seq(Nat)
  BY DEF FilterInv, FilterTypeOK
<1>3. /\ outbox' \in Seq(Nat) /\ Len(outbox') = Len(outbox) + 1
      /\ outbox'[Len(outbox) + 1] = inPos
      /\ \A i \in 1 .. Len(outbox) : outbox'[i] = outbox[i]
  BY <1>1, <1>2
<1>4. FilterTypeOK'
  BY <1>1, <1>3 DEF FilterInv, FilterTypeOK, In!LinkTypeOK
<1>5. PlaceInv'
  <2>1. inPos' <= Len(input') + 1 /\ inPos' # 0
    BY <1>1
  <2>2. \A k \in unsettled' : k \in 1 .. Len(input') /\ k < inPos'
    BY <1>1 DEF FilterInv, PlaceInv
  <2>3. \A i \in 1 .. Len(outbox') :
            outbox'[i] \in unsettled' /\ input'[outbox'[i]].properties # {}
    <3> TAKE i \in 1 .. Len(outbox')
    <3>1. CASE i = Len(outbox) + 1
      BY <3>1, <1>1, <1>3
    <3>2. CASE i \in 1 .. Len(outbox)
      BY <3>2, <1>1, <1>3 DEF FilterInv, PlaceInv
    <3> QED
      BY <3>1, <3>2, <1>3
  <2>4. \A k \in confirms' \cup refused' : k \in unsettled' /\ input'[k].properties # {}
    BY <1>1 DEF FilterInv, PlaceInv
  <2> QED
    BY <2>1, <2>2, <2>3, <2>4 DEF PlaceInv
<1>6. OnceInv'
  BY <1>1, <1>3 DEF FilterInv, PlaceInv, OnceInv
<1>7. CoverInv'
  <2> SUFFICES ASSUME NEW k \in unsettled', input[k].properties # {},
                      k \notin confirms \cup refused
               PROVE  \E i \in 1 .. Len(outbox') : outbox'[i] = k
    BY <1>1 DEF CoverInv
  <2>1. CASE k = inPos
    BY <2>1, <1>3
  <2>2. CASE k \in unsettled
    <3>1. PICK i \in 1 .. Len(outbox) : outbox[i] = k
      BY <2>2 DEF FilterInv, CoverInv
    <3>2. i \in 1 .. Len(outbox') /\ outbox'[i] = k
      BY <3>1, <1>3
    <3> QED
      BY <3>2
  <2> QED
    BY <2>1, <2>2, <1>1
<1>8. BoundInv'
  BY SendBound DEF Handle
<1>9. StoredInv'
  BY <1>1 DEF FilterInv, StoredInv, Forwarded
<1> QED
  BY <1>4, <1>5, <1>6, <1>7, <1>8, <1>9 DEF FilterInv

LEMMA HandleNothingInv ==
    ASSUME FilterInv, HandleNothing
    PROVE  FilterInv'
<1> USE FilterTypes
<1>1. /\ inPos \in 1 .. Len(input) /\ input[inPos].properties = {}
      /\ inPos' = inPos + 1 /\ unsettled' = unsettled \cup {inPos}
      /\ UNCHANGED <<offset, input, output, outbox, confirms, accepted, refused, refusals, crashes>>
  BY DEF HandleNothing, In!Available, In!Message, In!Send, streams
<1>2. FilterTypeOK' /\ StoredInv' /\ OnceInv'
  BY <1>1 DEF FilterInv, FilterTypeOK, In!LinkTypeOK, StoredInv, Forwarded, OnceInv
<1>3. PlaceInv'
  BY <1>1 DEF FilterInv, PlaceInv
<1>4. CoverInv'
  BY <1>1 DEF FilterInv, CoverInv
<1>5. BoundInv'
  BY SendBound DEF HandleNothing
<1> QED
  BY <1>2, <1>3, <1>4, <1>5 DEF FilterInv

LEMMA FilterOutInv ==
    ASSUME FilterInv, FilterOut
    PROVE  FilterInv'
<1> USE FilterTypes
<1>1. /\ inPos \in 1 .. Len(input) /\ inPos' = inPos + 1
      /\ UNCHANGED <<offset, input, output, unsettled, outbox, confirms, accepted, refused,
                     refusals, crashes>>
  BY DEF FilterOut, In!PassOver, In!Available, streams
<1>2. FilterTypeOK' /\ StoredInv'
  BY <1>1 DEF FilterInv, FilterTypeOK, In!LinkTypeOK, StoredInv, Forwarded
<1>3. PlaceInv'
  BY <1>1 DEF FilterInv, PlaceInv
<1>4. OnceInv' /\ CoverInv' /\ BoundInv'
  BY <1>1 DEF FilterInv, OnceInv, CoverInv, BoundInv
<1> QED
  BY <1>2, <1>3, <1>4 DEF FilterInv

(* What the head of the outbox is, and what is left without it. *)
LEMMA OutboxHead ==
    ASSUME FilterInv, outbox # <<>>
    PROVE  /\ Len(outbox) > 0 /\ Head(outbox) = outbox[1]
           /\ Tail(outbox) \in Seq(Nat) /\ Len(Tail(outbox)) = Len(outbox) - 1
           /\ \A i \in 1 .. Len(Tail(outbox)) : Tail(outbox)[i] = outbox[i + 1]
           /\ \A i \in 1 .. Len(Tail(outbox)) : Tail(outbox)[i] # Head(outbox)
           /\ Head(outbox) \in unsettled /\ Head(outbox) \in 1 .. Len(input)
           /\ input[Head(outbox)].properties # {}
           /\ Head(outbox) \notin confirms /\ Head(outbox) \notin refused
<1>1. outbox \in Seq(Nat)
  BY DEF FilterInv, FilterTypeOK
<1>2. /\ Len(outbox) \in Nat /\ Len(outbox) > 0 /\ Head(outbox) = outbox[1]
      /\ Tail(outbox) \in Seq(Nat) /\ Len(Tail(outbox)) = Len(outbox) - 1
      /\ \A i \in 1 .. Len(Tail(outbox)) : Tail(outbox)[i] = outbox[i + 1]
  BY <1>1
<1>3. \A i \in 1 .. Len(Tail(outbox)) : Tail(outbox)[i] # Head(outbox)
  BY <1>2 DEF FilterInv, OnceInv
<1> QED
  BY <1>2, <1>3 DEF FilterInv, PlaceInv, OnceInv

(* A message that leaves the outbox for the callback or the refused ones. *)
LEMMA LeavesOutbox ==
    ASSUME FilterInv, outbox # <<>>, outbox' = Tail(outbox),
           UNCHANGED <<input, inPos, unsettled>>,
           \/ confirms' = confirms \cup {Head(outbox)} /\ refused' = refused
           \/ confirms' = confirms /\ refused' = refused \cup {Head(outbox)}
    PROVE  PlaceInv' /\ OnceInv' /\ CoverInv' /\ BoundInv'
<1> USE FilterTypes, OutboxHead
<1>0. \A i \in 1 .. Len(outbox') : i + 1 \in 1 .. Len(outbox) /\ outbox'[i] = outbox[i + 1]
  OBVIOUS
<1>1. PlaceInv'
  <2>1. /\ inPos' <= Len(input') + 1 /\ inPos' # 0
        /\ \A k \in unsettled' : k \in 1 .. Len(input') /\ k < inPos'
    BY DEF FilterInv, PlaceInv
  <2>2. \A i \in 1 .. Len(outbox') :
            outbox'[i] \in unsettled' /\ input'[outbox'[i]].properties # {}
    BY <1>0 DEF FilterInv, PlaceInv
  <2>3. \A k \in confirms' \cup refused' : k \in unsettled' /\ input'[k].properties # {}
    BY DEF FilterInv, PlaceInv
  <2> QED
    BY <2>1, <2>2, <2>3 DEF PlaceInv
<1>2. OnceInv'
  <2>1. \A i, j \in 1 .. Len(outbox') : outbox'[i] = outbox'[j] => i = j
    BY <1>0 DEF FilterInv, OnceInv
  <2>2. \A i \in 1 .. Len(outbox') : outbox'[i] \notin confirms' /\ outbox'[i] \notin refused'
    BY <1>0 DEF FilterInv, OnceInv
  <2>3. \A k \in confirms' : k \notin refused'
    BY DEF FilterInv, OnceInv
  <2> QED
    BY <2>1, <2>2, <2>3 DEF OnceInv
<1>3. CoverInv'
  <2> SUFFICES ASSUME NEW k \in unsettled, input[k].properties # {},
                      k \notin confirms' \cup refused'
               PROVE  \E i \in 1 .. Len(outbox') : outbox'[i] = k
    BY DEF CoverInv
  <2>1. PICK i \in 1 .. Len(outbox) : outbox[i] = k
    BY DEF FilterInv, CoverInv
  <2>2. i # 1 /\ i - 1 \in 1 .. Len(outbox')
    BY <2>1
  <2>3. outbox'[i - 1] = k
    BY <2>1, <2>2, <1>0
  <2> QED
    BY <2>2, <2>3
<1>4. BoundInv'
  BY DEF FilterInv, BoundInv
<1> QED
  BY <1>1, <1>2, <1>3, <1>4

LEMMA BrokerStoresInv ==
    ASSUME FilterInv, BrokerStores
    PROVE  FilterInv'
<1> DEFINE k == Head(outbox)
<1> USE FilterTypes, OutboxHead
<1>1. PlaceInv' /\ OnceInv' /\ CoverInv' /\ BoundInv'
  BY LeavesOutbox DEF BrokerStores
<1>2. OutputMsg(k) \in Outputs /\ OutputMsg(k).of = k
  <2>1. /\ k \in Nat /\ input[k].id \in Ids \cup {NotJson}
        /\ input[k].properties \in SUBSET Properties /\ input[k].properties # {}
    BY DEF BrokerStores
  <2>2. FirstEntry(input[k].properties) \in Properties
    BY <2>1, FirstEntryType
  <2> QED
    BY <2>1, <2>2 DEF OutputMsg, Outputs
<1>3. /\ output \in Seq(Outputs) /\ output' = Append(output, OutputMsg(k))
  BY DEF BrokerStores, FilterInv, FilterTypeOK
<1>4. /\ output' \in Seq(Outputs) /\ Len(output') = Len(output) + 1
      /\ output'[Len(output) + 1] = OutputMsg(k)
      /\ \A i \in 1 .. Len(output) : output'[i] = output[i]
  BY <1>2, <1>3
<1>5. FilterTypeOK'
  BY <1>4 DEF BrokerStores, FilterInv, FilterTypeOK, In!LinkTypeOK
<1>6. StoredInv'
  <2> SUFFICES ASSUME NEW n \in accepted \cup confirms \cup {k}
               PROVE  \E i \in 1 .. Len(output') : output'[i].of = n
    BY DEF StoredInv, Forwarded, BrokerStores
  <2>1. CASE n = k
    BY <2>1, <1>2, <1>4
  <2>2. CASE n \in accepted \cup confirms
    <3>1. PICK i \in 1 .. Len(output) : output[i].of = n
      BY <2>2 DEF FilterInv, StoredInv, Forwarded
    <3> QED
      BY <3>1, <1>4
  <2> QED
    BY <2>1, <2>2
<1> QED
  BY <1>1, <1>5, <1>6 DEF FilterInv

LEMMA PublishedAcceptedInv ==
    ASSUME FilterInv, NEW k \in confirms, PublishedAccepted(k)
    PROVE  FilterInv'
<1> USE FilterTypes
<1>1. /\ confirms' = confirms \ {k} /\ accepted' = accepted \cup {k}
      /\ unsettled' = unsettled \ {k} /\ k \in unsettled
      /\ UNCHANGED <<offset, input, output, inPos, outbox, refused, refusals, crashes>>
  BY DEF PublishedAccepted, In!Settle, streams, FilterInv, PlaceInv
<1>2. FilterTypeOK' /\ StoredInv'
  BY <1>1 DEF FilterInv, FilterTypeOK, In!LinkTypeOK, StoredInv, Forwarded
<1>3. PlaceInv'
  BY <1>1 DEF FilterInv, PlaceInv, OnceInv
<1>4. OnceInv' /\ CoverInv'
  BY <1>1 DEF FilterInv, OnceInv, CoverInv
<1>5. BoundInv'
  <2>1. IsFiniteSet(unsettled) /\ Cardinality(unsettled) \in Nat
    BY FS_CardinalityType DEF FilterInv, BoundInv
  <2>2. /\ IsFiniteSet(unsettled \ {k})
        /\ Cardinality(unsettled \ {k}) = Cardinality(unsettled) - 1
    BY <2>1, <1>1, FS_RemoveElement
  <2>3. Cardinality(unsettled) - 1 <= Credits
    BY <2>1 DEF FilterInv, BoundInv
  <2> QED
    BY <2>2, <2>3, <1>1 DEF BoundInv
<1> QED
  BY <1>2, <1>3, <1>4, <1>5 DEF FilterInv

LEMMA PublishedRefusedInv ==
    ASSUME FilterInv, PublishedRefused
    PROVE  FilterInv'
<1> USE FilterTypes, OutboxHead
<1>1. PlaceInv' /\ OnceInv' /\ CoverInv' /\ BoundInv'
  BY LeavesOutbox DEF PublishedRefused, streams
<1>2. FilterTypeOK'
  <2>1. refused' \in SUBSET Nat
    <3>1. Head(outbox) \in Nat /\ refused \in SUBSET Nat
      BY DEF PublishedRefused, FilterInv, FilterTypeOK
    <3> QED
      BY <3>1 DEF PublishedRefused
  <2>2. refusals' \in 0 .. MaxRefusals
    BY FilterAssumption DEF PublishedRefused, FilterInv, FilterTypeOK
  <2>3. outbox' \in Seq(Nat)
    BY DEF PublishedRefused
  <2> QED
    BY <2>1, <2>2, <2>3 DEF PublishedRefused, streams, FilterInv, FilterTypeOK, In!LinkTypeOK
<1>3. StoredInv'
  BY DEF PublishedRefused, streams, FilterInv, StoredInv, Forwarded
<1> QED
  BY <1>1, <1>2, <1>3 DEF FilterInv

LEMMA CrashFilterInv ==
    ASSUME FilterInv, CrashFilter
    PROVE  FilterInv'
<1> USE FilterTypes
<1>1. PlaceInv' /\ OnceInv' /\ CoverInv' /\ StoredInv'
  BY DEF CrashFilter, In!Detach, streams, FilterInv, PlaceInv, OnceInv, CoverInv, StoredInv,
         Forwarded
<1>2. BoundInv'
  BY FS_EmptySet, FilterAssumption DEF CrashFilter, In!Detach, BoundInv
<1>3. FilterTypeOK'
  BY FilterAssumption DEF CrashFilter, In!Detach, streams, FilterInv, FilterTypeOK, In!LinkTypeOK
<1> QED
  BY <1>1, <1>2, <1>3 DEF FilterInv

LEMMA PublishInputInv ==
    ASSUME FilterInv, PublishInput
    PROVE  FilterInv'
<1> USE FilterTypes
<1>1. PICK m \in Inputs : input' = Append(input, m)
  BY DEF PublishInput
<1>2. input \in Seq(Inputs)
  BY DEF FilterInv, FilterTypeOK
<1>3. /\ input' \in Seq(Inputs) /\ Len(input') = Len(input) + 1
      /\ \A k \in 1 .. Len(input) : input'[k] = input[k]
  BY <1>1, <1>2
<1>4. UNCHANGED <<offset, output, inPos, unsettled, outbox, confirms, accepted, refused,
                  refusals, crashes>>
  BY DEF PublishInput, filterVars
<1>5. FilterTypeOK' /\ OnceInv' /\ BoundInv' /\ StoredInv'
  BY <1>3, <1>4
  DEF FilterInv, FilterTypeOK, In!LinkTypeOK, OnceInv, BoundInv, StoredInv, Forwarded
<1>6. \A k \in unsettled : k \in 1 .. Len(input) /\ k < inPos /\ input'[k] = input[k]
  BY <1>3 DEF FilterInv, PlaceInv
<1>7. PlaceInv'
  <2>1. /\ inPos' <= Len(input') + 1
        /\ inPos' = 0 => unsettled' = {} /\ outbox' = <<>> /\ confirms' = {} /\ refused' = {}
        /\ \A k \in unsettled' : k \in 1 .. Len(input') /\ k < inPos'
    BY <1>3, <1>4, <1>6 DEF FilterInv, PlaceInv
  <2>2. \A i \in 1 .. Len(outbox') :
            outbox'[i] \in unsettled' /\ input'[outbox'[i]].properties # {}
    BY <1>4, <1>6 DEF FilterInv, PlaceInv
  <2>3. \A k \in confirms' \cup refused' : k \in unsettled' /\ input'[k].properties # {}
    BY <1>4, <1>6 DEF FilterInv, PlaceInv
  <2> QED
    BY <2>1, <2>2, <2>3 DEF PlaceInv
<1>8. CoverInv'
  BY <1>4, <1>6 DEF FilterInv, CoverInv
<1> QED
  BY <1>5, <1>7, <1>8 DEF FilterInv

(* The variables of the processor and the streams do not change. *)
LEMMA UnchangedInv ==
    ASSUME FilterInv, UNCHANGED <<streams, filterVars>>
    PROVE  FilterInv'
  BY DEF streams, filterVars, FilterInv, FilterTypeOK, In!LinkTypeOK, PlaceInv, OnceInv,
         CoverInv, BoundInv, StoredInv, Forwarded

LEMMA NextFilterInv ==
    ASSUME FilterInv, [Next]_vars
    PROVE  FilterInv'
<1>1. CASE FilterNext
  BY <1>1, StartFilterInv, HandleInv, HandleNothingInv, FilterOutInv, BrokerStoresInv,
     PublishedAcceptedInv, PublishedRefusedInv, CrashFilterInv
  DEF FilterNext, FilterStep
<1>2. CASE PublishInput
  BY <1>2, PublishInputInv
<1>3. CASE Sink!MapSinkNext /\ UNCHANGED <<offset, input, filterVars>>
  <2>1. output' = output
    BY <1>3
    DEF Sink!MapSinkNext, Sink!StartSink, Sink!SinkStep, Sink!Accept, Sink!ConvertThrows,
        Sink!NotPassed, Sink!CrashSink
  <2> QED
    BY <1>3, <2>1, UnchangedInv DEF streams
<1>4. CASE UNCHANGED vars
  BY <1>4, UnchangedInv DEF vars
<1> QED
  BY <1>1, <1>2, <1>3, <1>4 DEF Next

(***************************************************************************)
(* FilterInv is an invariant of the pipeline.                              *)
(***************************************************************************)
THEOREM FilterInvariant == Spec => []FilterInv
<1>1. Init => FilterInv
  BY InitFilterInv DEF Init
<1>2. FilterInv /\ [Next]_vars => FilterInv'
  BY NextFilterInv
<1> QED
  BY <1>1, <1>2, PTL DEF Spec

-----------------------------------------------------------------------------
(* The sink: what it saves is what the output has. *)
LEMMA NextSinkType ==
    ASSUME FilterInv, Sink!MapSinkTypeOK, Sink!MapSinkNext
    PROVE  Sink!MapSinkTypeOK'
<1> USE DEF Sink!MapSinkTypeOK, Sink!Link!LinkTypeOK, Sink!EmptyMap
<1>1. CASE Sink!StartSink
  BY <1>1 DEF Sink!StartSink, Sink!Link!Attach, Sink!Link!Beginning
<1>2. CASE Sink!Accept
  <2>1. /\ sinkPos' = sinkPos + 1 /\ sinkUnsettled' = sinkUnsettled /\ sinkCrashes' = sinkCrashes
        /\ sinkPos \in 1 .. Len(output) /\ output[sinkPos].id # NotJson
        /\ table' = [table EXCEPT ![output[sinkPos].id] = output[sinkPos].of]
    BY <1>2 DEF Sink!Accept, Sink!Passes, Sink!Link!Available, Sink!Link!Message,
                Sink!Link!PassOver
  <2>2. output[sinkPos] \in Outputs
    BY <2>1 DEF FilterInv, FilterTypeOK
  <2>3. output[sinkPos].of \in Nat /\ output[sinkPos].id \in Ids
    BY <2>1, <2>2 DEF Outputs
  <2> QED
    BY <2>1, <2>3
<1>3. CASE Sink!ConvertThrows
  BY <1>3 DEF Sink!ConvertThrows, Sink!Link!Send
<1>4. CASE Sink!NotPassed
  BY <1>4 DEF Sink!NotPassed, Sink!Link!PassOver
<1>5. CASE Sink!CrashSink
  <2>1. sinkCrashes' \in 0 .. MaxSinkCrashes
    BY <1>5, MapSinkAssumption DEF Sink!CrashSink
  <2> QED
    BY <1>5, <2>1 DEF Sink!CrashSink, Sink!Link!Detach
<1> QED
  BY <1>1, <1>2, <1>3, <1>4, <1>5 DEF Sink!MapSinkNext, Sink!SinkStep

(***************************************************************************)
(* The types of the two applications and of the streams between them: the  *)
(* table only ever holds accounts, because the processor forwards a        *)
(* message under a property that it has.                                   *)
(***************************************************************************)
THEOREM FilterPipelineTypes == Spec => []TypeOK
<1>1. Init => Sink!MapSinkTypeOK
  BY MapSinkAssumption
  DEF Init, Sink!MapSinkInit, Sink!MapSinkTypeOK, Sink!Link!LinkInit, Sink!Link!LinkTypeOK,
      Sink!EmptyMap
<1>2. FilterInv /\ Sink!MapSinkTypeOK /\ [Next]_vars => Sink!MapSinkTypeOK'
  <2> SUFFICES ASSUME FilterInv, Sink!MapSinkTypeOK, [Next]_vars
               PROVE  Sink!MapSinkTypeOK'
    OBVIOUS
  <2>1. CASE UNCHANGED mapSinkVars
    BY <2>1 DEF mapSinkVars, Sink!MapSinkTypeOK, Sink!Link!LinkTypeOK
  <2>2. CASE Sink!MapSinkNext
    BY <2>2, NextSinkType
  <2> QED
    BY <2>1, <2>2 DEF Next, vars
<1>3. FilterInv /\ Sink!MapSinkTypeOK => TypeOK
  BY DEF FilterInv, TypeOK
<1> QED
  BY <1>1, <1>2, <1>3, FilterInvariant, PTL DEF Spec

(***************************************************************************)
(* No message that the processor has accepted is missing from the output   *)
(* stream, wherever it crashes and whatever publish is refused.            *)
(***************************************************************************)
THEOREM FilterAcceptedIsForwarded == Spec => []AcceptedIsForwarded
<1>1. FilterInv => AcceptedIsForwarded
  BY DEF FilterInv, StoredInv, AcceptedIsForwarded
<1> QED
  BY <1>1, FilterInvariant, PTL

(***************************************************************************)
(* Credit is kept by publishes under way, by messages without properties   *)
(* and by refused ones, and by nothing else.                               *)
(***************************************************************************)
THEOREM FilterCreditAccounted == Spec => []CreditAccounted
<1>1. FilterInv => CreditAccounted
  <2> SUFFICES ASSUME FilterInv PROVE CreditAccounted
    OBVIOUS
  <2>1. \A k \in unsettled : k \in Pending \cup Leaked
    BY DEF FilterInv, CoverInv, Pending, Leaked
  <2>2. \A k \in Pending \cup Leaked : k \in unsettled
    BY DEF FilterInv, PlaceInv, Pending, Leaked
  <2>3. Pending \cap Leaked = {}
    BY DEF FilterInv, PlaceInv, OnceInv, Pending, Leaked
  <2> QED
    BY <2>1, <2>2, <2>3 DEF FilterInv, BoundInv, CreditAccounted
<1> QED
  BY <1>1, FilterInvariant, PTL
=============================================================================
