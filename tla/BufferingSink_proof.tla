------------------------- MODULE BufferingSink_proof -------------------------
(***************************************************************************)
(* Proofs about sinks.  The buffering sink: its types, that accepted       *)
(* elements are delivered or owed, that it implements the write-behind     *)
(* promise, and that only make_append_space() discards anything.  And      *)
(* Si::copy: for any number of sinks under the multi_sink, of any of the   *)
(* classes, and whatever the source returns, losses are reported, and a    *)
(* throwing_sink leaves no holes.  What a source is does not matter to     *)
(* them.                                                                   *)
(***************************************************************************)
EXTENDS BufferingSink, Streams, SequenceTheorems, FiniteSetTheorems, WellFoundedInduction, TLAPS

USE DEF TypeOK

-----------------------------------------------------------------------------
(* Facts about the array and about the destination.                        *)

(* The pending elements are a sequence of m_buffer_used elements. *)
LEMMA PendingIsSequence ==
  ASSUME TypeOK
  PROVE  Pending \in Seq(Elements) /\ Len(Pending) = used
BY CapacityAssumption DEF Pending

(* Copying data that fits keeps the array an array of elements. *)
LEMMA CopiedIsArray ==
  ASSUME TypeOK, NEW data \in Seq(Elements), NEW at \in 0..Capacity
  PROVE  CopiedInto(data, at) \in [1..Capacity -> Elements]
BY CapacityAssumption DEF CopiedInto

(***************************************************************************)
(* boost::range::copy behind the pending elements appends to them.         *)
(***************************************************************************)
LEMMA CopyAppends ==
  ASSUME TypeOK, NEW data \in Seq(Elements),
         Len(data) <= Capacity - used
  PROVE  [i \in 1..used + Len(data) |-> CopiedInto(data, used)[i]]
           = Pending \o data
<1>1. /\ Len(data) \in Nat
      /\ Pending \in Seq(Elements)
      /\ Len(Pending) = used
  BY PendingIsSequence, LenProperties
<1>2. /\ Pending \o data \in Seq(Elements)
      /\ Len(Pending \o data) = used + Len(data)
      /\ \A i \in 1..used + Len(data) :
           (Pending \o data)[i] = IF i <= used THEN Pending[i] ELSE data[i - used]
  BY <1>1, ConcatProperties
<1>3. ASSUME NEW i \in 1..used + Len(data)
      PROVE  CopiedInto(data, used)[i] = (Pending \o data)[i]
  BY <1>1, <1>2, CapacityAssumption DEF CopiedInto, Pending
<1> DEFINE grown == [i \in 1..used + Len(data) |-> CopiedInto(data, used)[i]]
<1>4. grown \in Seq(Elements) /\ Len(grown) = used + Len(data)
  <2>1. \A i \in 1..used + Len(data) : CopiedInto(data, used)[i] \in Elements
    BY <1>1, CopiedIsArray, CapacityAssumption
  <2> QED
    BY <1>1, <2>1
<1>5. \A i \in 1..Len(grown) : grown[i] = (Pending \o data)[i]
  BY <1>3, <1>4
<1> HIDE DEF grown
<1>6. grown = Pending \o data
  BY <1>2, <1>4, <1>5, SeqEqual
<1> QED
  BY <1>6 DEF grown

(* What a call of the destination can have taken. *)
LEMMA OutcomeTypes ==
  ASSUME NEW data \in Seq(Elements), NEW sent \in Outcomes(data)
  PROVE  /\ sent.ok \in BOOLEAN
         /\ sent.taken \in Seq(Elements)
         /\ sent.ok => sent.taken = data
<1>1. CASE sent = [ok |-> TRUE, taken |-> data]
  BY <1>1
<1>2. CASE sent \in {[ok |-> FALSE, taken |-> SubSeq(data, 1, n)] : n \in 0..Longest(data)}
  <2>1. PICK n \in 0..Longest(data) :
          sent = [ok |-> FALSE, taken |-> SubSeq(data, 1, n)]
    BY <1>2
  <2>2. n <= Len(data) /\ n \in Nat
    BY <2>1, LenProperties, PartialAssumption DEF Longest
  <2>3. SubSeq(data, 1, n) \in Seq(Elements)
    BY <2>2, LenProperties, SubSeqProperties
  <2> QED
    BY <2>1, <2>3
<1> QED
  BY <1>1, <1>2 DEF Outcomes

(* How a concatenation is grouped does not matter. *)
LEMMA Regroup ==
  ASSUME NEW r \in Seq(Elements), NEW s \in Seq(Elements), NEW t \in Seq(Elements)
  PROVE  (r \o s) \o t = r \o (s \o t)
BY ConcatAssociative

(* A sequence is the beginning of its concatenation with another one. *)
LEMMA BeginsConcat ==
  ASSUME NEW s \in Seq(Elements), NEW t \in Seq(Elements)
  PROVE  /\ Len(s) <= Len(s \o t)
         /\ SubSeq(s \o t, 1, Len(s)) = s
<1>1. /\ Len(s) \in Nat
      /\ Len(t) \in Nat
      /\ Len(s \o t) = Len(s) + Len(t)
      /\ \A i \in 1..Len(s) : s[i] \in Elements /\ (s \o t)[i] = s[i]
  BY ConcatProperties, LenProperties, ElementOfSeq
<1>2. /\ SubSeq(s \o t, 1, Len(s)) \in Seq(Elements)
      /\ Len(SubSeq(s \o t, 1, Len(s))) = Len(s)
      /\ \A i \in 1..Len(s) : SubSeq(s \o t, 1, Len(s))[i] = (s \o t)[i]
  BY <1>1, SubSeqProperties
<1>3. SubSeq(s \o t, 1, Len(s)) = s
  BY <1>1, <1>2, SeqEqual
<1> QED
  BY <1>1, <1>3

-----------------------------------------------------------------------------
(***************************************************************************)
(* Every step leaves the variables in their types, whatever the            *)
(* destination takes and whatever callers do with the append space.        *)
(***************************************************************************)
LEMMA StepKeepsTypes ==
  ASSUME TypeOK, [Next]_vars
  PROVE  TypeOK'
<1> USE CapacityAssumption
<1>p. Pending \in Seq(Elements) /\ Len(Pending) = used
  BY PendingIsSequence
<1>e. <<>> \in Seq(Elements) /\ Len(<<>>) = 0
  BY EmptySeq
<1>1. ASSUME NEW data \in Inputs, AppendBuffered(data)
      PROVE  TypeOK'
  <2>1. data \in Seq(Elements) /\ Len(data) \in Nat
    BY InputsAssumption, LenProperties
  <2>2. buffer' \in [1..Capacity -> Elements]
    BY <1>1, <2>1, CopiedIsArray DEF AppendBuffered
  <2>3. accepted' \in Seq(Elements)
    BY <1>1, <2>1, ConcatProperties DEF AppendBuffered
  <2> QED
    BY <1>1, <2>1, <2>2, <2>3 DEF AppendBuffered
<1>2. ASSUME NEW data \in Inputs, AppendFlushFails(data)
      PROVE  TypeOK'
  <2>1. destination' \in Seq(Elements)
    BY <1>2, <1>p, OutcomeTypes, ConcatProperties DEF AppendFlushFails
  <2>2. torn' \in BOOLEAN
    BY <1>2 DEF AppendFlushFails, Torn
  <2> QED
    BY <1>2, <2>1, <2>2 DEF AppendFlushFails
<1>3. ASSUME NEW data \in Inputs, AppendDirect(data)
      PROVE  TypeOK'
  <2>1. data \in Seq(Elements)
    BY InputsAssumption
  <2>2. PICK sent \in Outcomes(data) :
          /\ destination' = (destination \o Pending) \o sent.taken
          /\ accepted' = IF sent.ok THEN accepted \o data ELSE accepted
    BY <1>3 DEF AppendDirect
  <2>3. sent.taken \in Seq(Elements)
    BY <2>1, <2>2, OutcomeTypes
  <2>4. destination' \in Seq(Elements) /\ accepted' \in Seq(Elements)
    BY <1>p, <2>1, <2>2, <2>3, ConcatProperties
  <2>5. torn' \in BOOLEAN
    BY <1>3 DEF AppendDirect, Torn
  <2> QED
    BY <1>3, <2>4, <2>5 DEF AppendDirect
<1>4. ASSUME NEW data \in Inputs, WriteSpace(data)
      PROVE  TypeOK'
  <2>1. buffer' \in [1..Capacity -> Elements]
    BY <1>4, InputsAssumption, CopiedIsArray DEF WriteSpace
  <2> QED
    BY <1>4, <2>1 DEF WriteSpace
<1>5. ASSUME Flush
      PROVE  TypeOK'
  <2>1. PICK sent \in Outcomes(Pending) :
          /\ destination' = destination \o sent.taken
          /\ used' = IF sent.ok THEN 0 ELSE used
    BY <1>5 DEF Flush
  <2>2. destination' \in Seq(Elements)
    BY <1>p, <2>1, OutcomeTypes, ConcatProperties
  <2>3. torn' \in BOOLEAN
    BY <1>5 DEF Flush, Torn
  <2> QED
    BY <1>5, <2>1, <2>2, <2>3 DEF Flush
<1>6. ASSUME NEW size \in 0 .. Capacity + 1, MakeAppendSpace(size)
      PROVE  TypeOK'
  <2>1. torn' \in BOOLEAN
    BY <1>6 DEF MakeAppendSpace
  <2> QED
    BY <1>6, <2>1 DEF MakeAppendSpace
<1>7. ASSUME FlushAppendSpace
      PROVE  TypeOK'
  <2>1. PICK sent \in (IF used = 0 THEN {[ok |-> TRUE, taken |-> <<>>]}
                                   ELSE Outcomes(Pending)) :
          /\ destination' = destination \o sent.taken
          /\ used' = IF sent.ok THEN 0 ELSE used
          /\ lent' = ~sent.ok
          /\ accepted' = IF sent.ok THEN accepted \o Pending ELSE accepted
    BY <1>7 DEF FlushAppendSpace
  <2>2. sent.ok \in BOOLEAN /\ sent.taken \in Seq(Elements)
    <3>1. CASE used = 0
      <4>1. sent = [ok |-> TRUE, taken |-> <<>>]
        BY <3>1
      <4> QED
        BY <1>e, <4>1
    <3>2. CASE used # 0
      BY <1>p, <2>1, <3>2, OutcomeTypes
    <3> QED
      BY <3>1, <3>2
  <2>3. destination' \in Seq(Elements) /\ accepted' \in Seq(Elements)
    BY <1>p, <2>1, <2>2, ConcatProperties
  <2>4. lent' \in BOOLEAN
    BY <2>1, <2>2
  <2>5. torn' \in BOOLEAN
    BY <1>7 DEF FlushAppendSpace, Torn
  <2> QED
    BY <1>7, <2>1, <2>3, <2>4, <2>5 DEF FlushAppendSpace
<1>8. CASE UNCHANGED vars
  BY <1>8 DEF vars
<1> QED
  BY <1>1, <1>2, <1>3, <1>4, <1>5, <1>6, <1>7, <1>8 DEF Next

(* The sink's state has its types in every reachable state. *)
THEOREM TypeCorrect == Spec => []TypeOK
<1>1. Init => TypeOK
  <2>1. <<>> \in Seq(Elements)
    BY EmptySeq
  <2>2. ASSUME Init PROVE buffer \in [1..Capacity -> Elements]
    BY <2>2, ElementsAssumption DEF Init
  <2>3. ASSUME Init PROVE used \in 0..Capacity
    BY <2>3, CapacityAssumption DEF Init
  <2> QED
    BY <2>1, <2>2, <2>3 DEF Init
<1>2. TypeOK /\ [Next]_vars => TypeOK'
  BY StepKeepsTypes
<1> QED
  BY <1>1, <1>2, PTL DEF Spec

-----------------------------------------------------------------------------
(***************************************************************************)
(* The inductive invariant, until the history is torn.  While the array is *)
(* not lent, the accepted elements are the delivered and the pending ones; while it is lent they  *)
(* are the delivered ones, because the array was empty when it was lent    *)
(* and nothing but append space is handed on until it is given back.       *)
(***************************************************************************)
Delivery ==
  ~torn => /\ ~lent => accepted = destination \o Pending
           /\ lent => accepted = destination

(* Nothing but a failure without effect leaves the history as it is.       *)
LEMMA StaysWhole ==
  ASSUME TypeOK, ~torn', NEW sent, sent.ok \in BOOLEAN, Torn(sent)
  PROVE  ~torn /\ (~sent.ok => sent.taken = <<>>)
BY DEF Torn

(* Sending on all that is pending, or nothing, keeps the accounts. *)
LEMMA NothingPending ==
  ASSUME used = 0
  PROVE  Pending = <<>>
BY DEF Pending

(* Pending after a step that keeps the array and its filling. *)
LEMMA PendingUnchanged ==
  ASSUME UNCHANGED <<buffer, used>>
  PROVE  Pending' = Pending
BY DEF Pending

(* The accounts balance after every step. *)
LEMMA StepKeepsDelivery ==
  ASSUME TypeOK, Delivery, [Next]_vars
  PROVE  Delivery'
<1> SUFFICES ASSUME ~torn'
             PROVE  Delivery'
  BY DEF Delivery
<1> USE CapacityAssumption
<1>p. Pending \in Seq(Elements) /\ Len(Pending) = used
  BY PendingIsSequence
<1>e. <<>> \in Seq(Elements) /\ Len(<<>>) = 0
  BY EmptySeq
<1>z. used' = 0 => Pending' = <<>>
  BY DEF Pending
<1>n. /\ destination \o <<>> = destination
      /\ accepted \o <<>> = accepted
  BY ConcatEmptySeq
<1>1. ASSUME NEW data \in Inputs, AppendBuffered(data)
      PROVE  Delivery'
  <2>1. data \in Seq(Elements) /\ Len(data) \in Nat
    BY InputsAssumption, LenProperties
  <2>2. Pending' = Pending \o data
    <3>1. Pending' = [i \in 1..used + Len(data) |-> CopiedInto(data, used)[i]]
      BY <1>1 DEF AppendBuffered, Pending
    <3> QED
      BY <1>1, <2>1, <3>1, CopyAppends DEF AppendBuffered
  <2>3. (destination \o Pending) \o data = destination \o (Pending \o data)
    BY <1>p, <2>1, Regroup
  <2>4. ~torn
    BY <1>1 DEF AppendBuffered
  <2> QED
    BY <1>1, <2>2, <2>3, <2>4 DEF AppendBuffered, Delivery
<1>2. ASSUME NEW data \in Inputs, AppendFlushFails(data)
      PROVE  Delivery'
  <2>1. PICK sent \in Outcomes(Pending) :
          ~sent.ok /\ destination' = destination \o sent.taken /\ Torn(sent)
    BY <1>2 DEF AppendFlushFails
  <2>2. destination' = destination /\ ~torn
    BY <1>p, <1>n, <2>1, OutcomeTypes, StaysWhole
  <2>3. Pending' = Pending
    BY <1>2, PendingUnchanged DEF AppendFlushFails
  <2> QED
    BY <1>2, <2>2, <2>3 DEF AppendFlushFails, Delivery
<1>3. ASSUME NEW data \in Inputs, AppendDirect(data)
      PROVE  Delivery'
  <2>1. data \in Seq(Elements)
    BY InputsAssumption
  <2>2. PICK sent \in Outcomes(data) :
          /\ destination' = (destination \o Pending) \o sent.taken
          /\ Torn(sent)
          /\ accepted' = IF sent.ok THEN accepted \o data ELSE accepted
    BY <1>3 DEF AppendDirect
  <2>3. /\ sent.ok \in BOOLEAN
        /\ sent.taken = IF sent.ok THEN data ELSE <<>>
        /\ ~torn
    BY <2>1, <2>2, OutcomeTypes, StaysWhole
  <2>4. /\ destination \o Pending \in Seq(Elements)
        /\ (destination \o Pending) \o <<>> = destination \o Pending
    BY <1>p, ConcatProperties, ConcatEmptySeq
  <2>5. accepted' = destination' /\ destination' \in Seq(Elements)
    BY <1>3, <2>1, <2>2, <2>3, <2>4, ConcatProperties DEF AppendDirect, Delivery
  <2>6. destination' \o <<>> = destination'
    BY <2>5, ConcatEmptySeq
  <2> QED
    BY <1>3, <1>z, <2>5, <2>6 DEF AppendDirect, Delivery
<1>4. ASSUME NEW data \in Inputs, WriteSpace(data)
      PROVE  Delivery'
  BY <1>4 DEF WriteSpace, Delivery
<1>5. ASSUME Flush
      PROVE  Delivery'
  <2>1. PICK sent \in Outcomes(Pending) :
          /\ destination' = destination \o sent.taken
          /\ Torn(sent)
          /\ used' = IF sent.ok THEN 0 ELSE used
    BY <1>5 DEF Flush
  <2>2. /\ sent.ok \in BOOLEAN
        /\ sent.taken = IF sent.ok THEN Pending ELSE <<>>
        /\ ~torn
    BY <1>p, <2>1, OutcomeTypes, StaysWhole
  <2>3. CASE sent.ok
    <3>1. accepted' = destination' /\ destination' \in Seq(Elements)
      BY <1>5, <1>p, <2>1, <2>2, <2>3, ConcatProperties DEF Flush, Delivery
    <3>2. destination' \o <<>> = destination'
      BY <3>1, ConcatEmptySeq
    <3> QED
      BY <1>5, <1>z, <2>1, <2>3, <3>1, <3>2 DEF Flush, Delivery
  <2>4. CASE ~sent.ok
    <3>1. destination' = destination /\ UNCHANGED <<buffer, used>>
      BY <1>5, <1>n, <2>1, <2>2, <2>4 DEF Flush
    <3>2. Pending' = Pending
      BY <3>1, PendingUnchanged
    <3> QED
      BY <1>5, <2>2, <3>1, <3>2 DEF Flush, Delivery
  <2> QED
    BY <2>2, <2>3, <2>4
<1>6. ASSUME NEW size \in 0 .. Capacity + 1, MakeAppendSpace(size)
      PROVE  Delivery'
  <2>0. ~torn /\ (lent \/ used = 0)
    <3>1. torn' = (torn \/ (~lent /\ used > 0))
      BY <1>6 DEF MakeAppendSpace
    <3>2. ~torn /\ (lent \/ ~(used > 0))
      BY <3>1, Zenon
    <3> QED
      BY <3>2
  <2>1. CASE lent
    BY <1>6, <2>0, <2>1 DEF MakeAppendSpace, Delivery
  <2>2. CASE ~lent
    <3>1. used = 0
      BY <2>0, <2>2
    <3>2. accepted = destination
      BY <1>n, <2>0, <2>2, <3>1, NothingPending DEF Delivery
    <3> QED
      BY <1>6, <3>2 DEF MakeAppendSpace, Delivery
  <2> QED
    BY <2>1, <2>2
<1>7. ASSUME FlushAppendSpace
      PROVE  Delivery'
  <2>1. PICK sent \in (IF used = 0 THEN {[ok |-> TRUE, taken |-> <<>>]}
                                   ELSE Outcomes(Pending)) :
          /\ destination' = destination \o sent.taken
          /\ Torn(sent)
          /\ used' = IF sent.ok THEN 0 ELSE used
          /\ lent' = ~sent.ok
          /\ accepted' = IF sent.ok THEN accepted \o Pending ELSE accepted
    BY <1>7 DEF FlushAppendSpace
  <2>2. /\ sent.ok \in BOOLEAN
        /\ sent.taken = IF sent.ok THEN Pending ELSE <<>>
        /\ ~torn
    <3>1. CASE used = 0
      <4>1. sent = [ok |-> TRUE, taken |-> <<>>]
        BY <3>1
      <4>2. sent.ok /\ sent.taken = Pending
        BY <3>1, <4>1, NothingPending
      <4>3. torn' = (torn \/ (~sent.ok /\ sent.taken # <<>>))
        BY <2>1 DEF Torn
      <4> QED
        BY <4>2, <4>3, Zenon
    <3>2. CASE used # 0
      BY <1>p, <2>1, <3>2, OutcomeTypes, StaysWhole
    <3> QED
      BY <3>1, <3>2
  <2>3. accepted = destination
    BY <1>7, <2>2 DEF FlushAppendSpace, Delivery
  <2>4. accepted' = destination' /\ destination' \in Seq(Elements)
    BY <1>p, <1>n, <2>1, <2>2, <2>3, ConcatProperties
  <2>5. sent.ok => used' = 0 /\ ~lent'
    BY <2>1
  <2>6. ~sent.ok => lent'
    BY <2>1
  <2>7. destination' \o <<>> = destination'
    BY <2>4, ConcatEmptySeq
  <2> QED
    BY <1>z, <2>2, <2>4, <2>5, <2>6, <2>7 DEF Delivery
<1>8. CASE UNCHANGED vars
  BY <1>8, PendingUnchanged DEF vars, Delivery
<1> QED
  BY <1>1, <1>2, <1>3, <1>4, <1>5, <1>6, <1>7, <1>8 DEF Next

(***************************************************************************)
(* No element that a caller was told is accepted is lost, doubled or       *)
(* reordered, for every array size and every kind of element.              *)
(***************************************************************************)
THEOREM DeliveryCorrect == Spec => []AcceptedIsDeliveredOrOwed
<1>1. Init => Delivery
  <2>1. <<>> \o <<>> = <<>>
    BY EmptySeq, ConcatEmptySeq
  <2> QED
    BY <2>1, NothingPending DEF Init, Delivery
<1>2. TypeOK /\ Delivery /\ [Next]_vars => Delivery'
  BY StepKeepsDelivery
<1>3. TypeOK /\ Delivery => AcceptedIsDeliveredOrOwed
  <2>1. TypeOK => destination \o <<>> = destination
    BY ConcatEmptySeq
  <2> QED
    BY <2>1 DEF Delivery, AcceptedIsDeliveredOrOwed, Owed
<1> QED
  BY <1>1, <1>2, <1>3, TypeCorrect, PTL DEF Spec

-----------------------------------------------------------------------------
(***************************************************************************)
(* The sink implements the write-behind promise.                           *)
(***************************************************************************)

(* The histories only grow, and by elements. *)
LEMMA HistoriesGrow ==
  ASSUME TypeOK, [Next]_vars
  PROVE  /\ \E more \in Seq(Elements) : accepted' = accepted \o more
         /\ \E more \in Seq(Elements) : destination' = destination \o more
<1>p. Pending \in Seq(Elements)
  BY PendingIsSequence
<1>e. /\ <<>> \in Seq(Elements)
      /\ accepted \o <<>> = accepted
      /\ destination \o <<>> = destination
  BY EmptySeq, ConcatEmptySeq
<1>d. \A data \in Inputs : data \in Seq(Elements)
  BY InputsAssumption
<1>1. ASSUME NEW data \in Inputs,
             AppendBuffered(data) \/ AppendFlushFails(data) \/ WriteSpace(data)
      PROVE  /\ \E more \in Seq(Elements) : accepted' = accepted \o more
             /\ \E more \in Seq(Elements) : destination' = destination \o more
  BY <1>1, <1>p, <1>e, <1>d, OutcomeTypes
     DEF AppendBuffered, AppendFlushFails, WriteSpace
<1>2. ASSUME NEW data \in Inputs, AppendDirect(data)
      PROVE  /\ \E more \in Seq(Elements) : accepted' = accepted \o more
             /\ \E more \in Seq(Elements) : destination' = destination \o more
  <2>1. PICK t \in Seq(Elements) : destination' = (destination \o Pending) \o t
    BY <1>2, <1>d, OutcomeTypes DEF AppendDirect
  <2>2. (destination \o Pending) \o t = destination \o (Pending \o t)
    BY <1>p, ConcatAssociative
  <2>3. Pending \o t \in Seq(Elements)
    BY <1>p, ConcatProperties
  <2>4. \E more \in Seq(Elements) : accepted' = accepted \o more
    BY <1>2, <1>d, <1>e DEF AppendDirect
  <2> QED
    BY <2>1, <2>2, <2>3, <2>4
<1>3. ASSUME Flush
      PROVE  /\ \E more \in Seq(Elements) : accepted' = accepted \o more
             /\ \E more \in Seq(Elements) : destination' = destination \o more
  BY <1>3, <1>p, <1>e, OutcomeTypes DEF Flush
<1>4. ASSUME NEW size \in 0 .. Capacity + 1, MakeAppendSpace(size)
      PROVE  /\ \E more \in Seq(Elements) : accepted' = accepted \o more
             /\ \E more \in Seq(Elements) : destination' = destination \o more
  BY <1>4, <1>e DEF MakeAppendSpace
<1>5. ASSUME FlushAppendSpace
      PROVE  /\ \E more \in Seq(Elements) : accepted' = accepted \o more
             /\ \E more \in Seq(Elements) : destination' = destination \o more
  <2>1. PICK sent \in (IF used = 0 THEN {[ok |-> TRUE, taken |-> <<>>]}
                                   ELSE Outcomes(Pending)) :
          /\ destination' = destination \o sent.taken
          /\ accepted' = IF sent.ok THEN accepted \o Pending ELSE accepted
    BY <1>5 DEF FlushAppendSpace
  <2>2. sent.taken \in Seq(Elements)
    <3>1. CASE used = 0
      <4>1. sent = [ok |-> TRUE, taken |-> <<>>]
        BY <3>1
      <4> QED
        BY <1>e, <4>1
    <3>2. CASE used # 0
      BY <1>p, <2>1, <3>2, OutcomeTypes
    <3> QED
      BY <3>1, <3>2
  <2> QED
    BY <1>p, <1>e, <2>1, <2>2
<1>6. CASE UNCHANGED vars
  BY <1>6, <1>e DEF vars
<1> QED
  BY <1>1, <1>2, <1>3, <1>4, <1>5, <1>6 DEF Next

(* What is torn stays torn. *)
LEMMA TornStays ==
  ASSUME TypeOK, [Next]_vars, torn
  PROVE  torn'
<1>1. \A data \in Inputs : AppendBuffered(data) \/ WriteSpace(data) => torn'
  BY DEF AppendBuffered, WriteSpace
<1>2. \A data \in Inputs : AppendFlushFails(data) \/ AppendDirect(data) => torn'
  BY DEF AppendFlushFails, AppendDirect, Torn
<1>3. Flush => torn'
  BY DEF Flush, Torn
<1>4. \A size \in 0 .. Capacity + 1 : MakeAppendSpace(size) => torn'
  BY DEF MakeAppendSpace
<1>5. FlushAppendSpace => torn'
  BY DEF FlushAppendSpace, Torn
<1>6. UNCHANGED vars => torn'
  BY DEF vars
<1> QED
  BY <1>1, <1>2, <1>3, <1>4, <1>5, <1>6 DEF Next

(***************************************************************************)
(* Every step of the sink is a step of the promise or leaves its variables *)
(* alone, so a caller may think of the sink as the promise.                *)
(***************************************************************************)
THEOREM Implementation == Spec => ImplementsWriteBehind
<1>1. Init => Promise!Init
  BY DEF Init, Promise!Init
<1>2. ASSUME TypeOK, TypeOK', Delivery', [Next]_vars
      PROVE  Promise!Progress
  <2>1. PICK a \in Seq(Elements) : accepted' = accepted \o a
    BY <1>2, HistoriesGrow
  <2>2. PICK d \in Seq(Elements) : destination' = destination \o d
    BY <1>2, HistoriesGrow
  <2>3. Promise!Extends(accepted', accepted)
    BY <1>2, <2>1, BeginsConcat DEF Promise!Extends
  <2>4. Promise!Extends(destination', destination)
    BY <1>2, <2>2, BeginsConcat DEF Promise!Extends
  <2>5. Pending' \in Seq(Elements) /\ Len(Pending') = used'
    BY <1>2, CapacityAssumption DEF Pending
  <2>6. ~torn' => \E o \in Seq(Elements) : accepted' = destination' \o o /\ Len(o) <= Capacity
    <3> SUFFICES ASSUME ~torn'
                 PROVE  \E o \in Seq(Elements) :
                          accepted' = destination' \o o /\ Len(o) <= Capacity
      OBVIOUS
    <3>1. <<>> \in Seq(Elements) /\ Len(<<>>) = 0 /\ destination' \o <<>> = destination'
      BY <1>2, EmptySeq, ConcatEmptySeq
    <3>2. CASE lent'
      <4>1. accepted' = destination' \o <<>> /\ Len(<<>>) <= Capacity
        BY <1>2, <3>1, <3>2, CapacityAssumption DEF Delivery
      <4> QED
        BY <3>1, <4>1
    <3>3. CASE ~lent'
      <4>1. accepted' = destination' \o Pending' /\ used' <= Capacity
        BY <1>2, <3>3, CapacityAssumption DEF Delivery
      <4> QED
        BY <2>5, <4>1
    <3> QED
      BY <3>2, <3>3
  <2>7. ~torn' => /\ Promise!Extends(accepted', destination')
                  /\ Len(accepted') - Len(destination') <= Capacity
    <3> SUFFICES ASSUME ~torn'
                 PROVE  /\ Promise!Extends(accepted', destination')
                        /\ Len(accepted') - Len(destination') <= Capacity
      OBVIOUS
    <3>0. PICK o \in Seq(Elements) : accepted' = destination' \o o /\ Len(o) <= Capacity
      BY <2>6
    <3>1. Len(destination') \in Nat /\ Len(o) \in Nat
      BY <1>2, LenProperties
    <3>2. Len(accepted') = Len(destination') + Len(o)
      BY <1>2, <3>0, ConcatProperties
    <3> QED
      BY <1>2, <3>0, <3>1, <3>2, CapacityAssumption, BeginsConcat
         DEF Promise!Extends
  <2>8. torn' \in BOOLEAN /\ (torn => torn')
    BY <1>2, TornStays
  <2> QED
    BY <1>2, <2>3, <2>4, <2>7, <2>8 DEF Promise!Progress
<1>3. Init => Delivery
  <2>1. <<>> \o <<>> = <<>>
    BY EmptySeq, ConcatEmptySeq
  <2> QED
    BY <2>1, NothingPending DEF Init, Delivery
<1>4. TypeOK /\ Delivery /\ [Next]_vars => Delivery'
  BY StepKeepsDelivery
<1>5. TypeOK /\ TypeOK' /\ Delivery' /\ [Next]_vars => [Promise!Progress]_(Promise!vars)
  BY <1>2
<1> QED
  BY <1>1, <1>3, <1>4, <1>5, TypeCorrect, PTL
     DEF Spec, ImplementsWriteBehind, Promise!Spec

-----------------------------------------------------------------------------
(* Induction.                                                              *)

(***************************************************************************)
(* Every set of numbers has a smallest one, from the theorem of the        *)
(* library that is about sets, so that the provers can use it.             *)
(***************************************************************************)
LEMMA SmallestNumber ==
  ASSUME NEW T \in SUBSET Nat, T # {}
  PROVE  \E n \in T : \A m \in T : n <= m
<1> DEFINE less == OpToRel(<, Nat)
<1>1. IsWellFoundedOn(less, Nat)
  BY NatLessThanWellFounded
<1>2. \A x, y \in Nat : x < y => <<x, y>> \in less
  BY DEF OpToRel
<1> HIDE DEF less
<1>3. PICK n \in T : \A m \in T : ~ (<<m, n>> \in less)
  BY <1>1, WFMin
<1>4. \A m \in T : ~ (m < n)
  BY <1>2, <1>3
<1>5. \A m \in T : n <= m
  BY <1>4
<1> QED
  BY <1>3, <1>5

LEMMA SetInduction ==
  ASSUME NEW T \in SUBSET Nat, 0 \in T, \A n \in T : n + 1 \in T
  PROVE  T = Nat
<1> SUFFICES ASSUME Nat \ T # {} PROVE FALSE
  OBVIOUS
<1>1. PICK n \in Nat \ T : \A m \in Nat \ T : n <= m
  BY SmallestNumber
<1>2. n # 0 /\ n - 1 \in Nat
  BY <1>1
<1>3. n - 1 \in T
  BY <1>1, <1>2
<1>4. (n - 1) + 1 \in T
  BY <1>3
<1> QED
  BY <1>1, <1>2, <1>4

-----------------------------------------------------------------------------
(* The greedy match.                                                       *)

(* The table of the match for the first k elements of outer. *)
Matching(m, inner, outer, k) ==
  /\ m \in [0..k -> 0..Len(inner)]
  /\ m[0] = 0
  /\ \A n \in 1..k :
       m[n] = IF m[n-1] < Len(inner) /\ inner[m[n-1] + 1] = outer[n]
              THEN m[n-1] + 1 ELSE m[n-1]

LEMMA MatchingExists ==
  ASSUME NEW inner \in Seq(Elements), NEW outer \in Seq(Elements)
  PROVE  \A k \in Nat : \E m : Matching(m, inner, outer, k)
<1> DEFINE T == {k \in Nat : \E m : Matching(m, inner, outer, k)}
<1>1. 0 \in T
  <2> DEFINE m == [n \in 0..0 |-> 0]
  <2>1. m \in [0..0 -> 0..Len(inner)] /\ m[0] = 0 /\ 1..0 = {}
    BY LenProperties
  <2>2. Matching(m, inner, outer, 0)
    BY <2>1 DEF Matching
  <2> QED
    BY <2>2
<1>2. ASSUME NEW k \in T PROVE k + 1 \in T
  <2>1. PICK m : Matching(m, inner, outer, k)
    OBVIOUS
  <2>2. k \in Nat
    OBVIOUS
  <2> DEFINE next == IF m[k] < Len(inner) /\ inner[m[k] + 1] = outer[k + 1]
                     THEN m[k] + 1 ELSE m[k]
             g == [n \in 0 .. k + 1 |-> IF n = k + 1 THEN next ELSE m[n]]
  <2>3. m \in [0..k -> 0..Len(inner)] /\ m[0] = 0 /\ k \in 0..k
    BY <2>1, <2>2 DEF Matching
  <2>4. next \in 0..Len(inner)
    BY <2>3, LenProperties
  <2>5. g \in [0 .. k + 1 -> 0..Len(inner)] /\ g[0] = 0
    BY <2>2, <2>3, <2>4
  <2>6. ASSUME NEW n \in 1 .. k + 1
        PROVE  g[n] = IF g[n-1] < Len(inner) /\ inner[g[n-1] + 1] = outer[n]
                      THEN g[n-1] + 1 ELSE g[n-1]
    <3>1. CASE n = k + 1
      <4>1. n - 1 = k /\ n - 1 \in 0 .. k + 1 /\ n - 1 # k + 1 /\ n \in 0 .. k + 1
        BY <2>2, <3>1
      <4>2. g[n - 1] = m[k] /\ g[n] = next
        BY <3>1, <4>1
      <4> QED
        BY <3>1, <4>2
    <3>2. CASE n # k + 1
      <4>1. n \in 1..k /\ n - 1 \in 0 .. k + 1 /\ n - 1 # k + 1 /\ n \in 0 .. k + 1
        BY <2>2, <3>2
      <4>2. g[n - 1] = m[n - 1] /\ g[n] = m[n]
        BY <3>2, <4>1
      <4> QED
        BY <2>1, <4>1, <4>2 DEF Matching
    <3> QED
      BY <3>1, <3>2
  <2> HIDE DEF g
  <2>7. Matching(g, inner, outer, k + 1)
    BY <2>5, <2>6 DEF Matching
  <2> QED
    BY <2>2, <2>7
<1> HIDE DEF T
<1>3. T \in SUBSET Nat
  BY DEF T
<1>4. T = Nat
  BY <1>1, <1>2, <1>3, SetInduction
<1> QED
  BY <1>4 DEF T

(* Matched is the end of such a table. *)
LEMMA MatchedIs ==
  ASSUME NEW inner \in Seq(Elements), NEW outer \in Seq(Elements)
  PROVE  \E m : /\ Matching(m, inner, outer, Len(outer))
                /\ Matched(inner, outer) = m[Len(outer)]
<1> DEFINE Body(f) ==
             [n \in 0..Len(outer) |->
                IF n = 0 THEN 0
                ELSE IF f[n-1] < Len(inner) /\ inner[f[n-1] + 1] = outer[n]
                     THEN f[n-1] + 1 ELSE f[n-1]]
           m == CHOOSE f : f = Body(f)
<1>0. Len(outer) \in Nat /\ Len(inner) \in Nat
  BY LenProperties
<1>1. PICK g : Matching(g, inner, outer, Len(outer))
  BY <1>0, MatchingExists
<1>2. g = Body(g)
  BY <1>0, <1>1 DEF Matching
<1>3. m = Body(m)
  BY <1>2
<1>4. Matched(inner, outer) = m[Len(outer)]
  BY DEF Matched
<1> HIDE DEF m
<1> DEFINE T == {k \in Nat : k <= Len(outer) => m[k] = g[k]}
<1>5. 0 \in T
  BY <1>0, <1>1, <1>3 DEF Matching
<1>6. ASSUME NEW k \in T PROVE k + 1 \in T
  <2> SUFFICES ASSUME k + 1 <= Len(outer) PROVE m[k + 1] = g[k + 1]
    OBVIOUS
  <2>1. k \in Nat /\ k + 1 \in 1..Len(outer) /\ (k + 1) - 1 = k /\ m[k] = g[k]
    BY <1>0
  <2>2. g[k + 1] = IF g[k] < Len(inner) /\ inner[g[k] + 1] = outer[k + 1]
                   THEN g[k] + 1 ELSE g[k]
    BY <1>1, <2>1 DEF Matching
  <2>3. m[k + 1] = IF m[k] < Len(inner) /\ inner[m[k] + 1] = outer[k + 1]
                   THEN m[k] + 1 ELSE m[k]
    BY <1>0, <1>3, <2>1
  <2> QED
    BY <2>1, <2>2, <2>3
<1> HIDE DEF T
<1>7. T \in SUBSET Nat
  BY DEF T
<1>8. T = Nat
  BY <1>5, <1>6, <1>7, SetInduction
<1>9. m[Len(outer)] = g[Len(outer)]
  BY <1>0, <1>8 DEF T
<1> QED
  BY <1>1, <1>4, <1>9

(***************************************************************************)
(* The elements of one sequence are in another one, in the same order: f   *)
(* says where.                                                             *)
(***************************************************************************)
Embeds(f, p, inner, n, outer) ==
  /\ f \in [1..p -> 1..n]
  /\ \A i, j \in 1..p : i < j => f[i] < f[j]
  /\ \A i \in 1..p : inner[i] = outer[f[i]]

Within(inner, outer) == \E f : Embeds(f, Len(inner), inner, Len(outer), outer)

(* What the greedy match finds is there. *)
LEMMA MatchIsSound ==
  ASSUME NEW inner \in Seq(Elements), NEW outer \in Seq(Elements),
         Matched(inner, outer) = Len(inner)
  PROVE  Within(inner, outer)
<1>0. Len(outer) \in Nat /\ Len(inner) \in Nat
  BY LenProperties
<1>1. PICK m : Matching(m, inner, outer, Len(outer)) /\ Matched(inner, outer) = m[Len(outer)]
  BY MatchedIs
<1> DEFINE Found(n) == \E f : Embeds(f, m[n], inner, n, outer)
           T == {n \in Nat : n <= Len(outer) => Found(n)}
<1>2. 0 \in T
  <2>1. m[0] = 0 /\ 1..0 = {}
    BY <1>1 DEF Matching
  <2> DEFINE f == [i \in {} |-> 0]
  <2>2. f \in [1..m[0] -> 1..0]
    BY <2>1
  <2>3. Embeds(f, m[0], inner, 0, outer)
    BY <2>1, <2>2 DEF Embeds
  <2> QED
    BY <2>3
<1>3. ASSUME NEW n \in T PROVE n + 1 \in T
  <2> SUFFICES ASSUME n + 1 <= Len(outer) PROVE Found(n + 1)
    OBVIOUS
  <2>1. n \in Nat /\ n + 1 \in 1..Len(outer) /\ (n + 1) - 1 = n /\ n \in 0..Len(outer)
    BY <1>0
  <2>2. PICK f : Embeds(f, m[n], inner, n, outer)
    BY <1>0, <2>1
  <2>3. m[n] \in Nat
    BY <1>0, <1>1, <2>1 DEF Matching
  <2>4. m[n + 1] = IF m[n] < Len(inner) /\ inner[m[n] + 1] = outer[n + 1]
                   THEN m[n] + 1 ELSE m[n]
    BY <1>1, <2>1 DEF Matching
  <2>5. /\ f \in [1..m[n] -> 1..n]
        /\ \A i, j \in 1..m[n] : i < j => f[i] < f[j]
        /\ \A i \in 1..m[n] : inner[i] = outer[f[i]]
    BY <2>2 DEF Embeds
  <2>6. CASE m[n + 1] = m[n]
    <3>1. f \in [1..m[n] -> 1 .. n + 1]
      BY <2>1, <2>5
    <3>2. Embeds(f, m[n], inner, n + 1, outer)
      BY <2>5, <3>1 DEF Embeds
    <3> QED
      BY <2>6, <3>2
  <2>7. CASE m[n + 1] = m[n] + 1 /\ inner[m[n] + 1] = outer[n + 1]
    <3> DEFINE p == m[n]
               g == [i \in 1 .. p + 1 |-> IF i = p + 1 THEN n + 1 ELSE f[i]]
    <3> HIDE DEF p
    <3>0. p \in Nat /\ p = m[n]
      BY <2>3 DEF p
    <3>a. \A i \in 1..p : i \in 1 .. p + 1 /\ i # p + 1
      BY <3>0
    <3>b. \A i \in 1..p : f[i] \in 1..n
      BY <2>5, <3>0
    <3>1. \A i \in 1..p : g[i] = f[i] /\ f[i] \in 1..n /\ i \in 1 .. p + 1
      BY <3>a, <3>b
    <3>2. g[p + 1] = n + 1
      BY <3>0
    <3>3. \A i \in 1 .. p + 1 : i \in 1..p \/ i = p + 1
      BY <3>0
    <3>c. \A i \in 1 .. p + 1 : (IF i = p + 1 THEN n + 1 ELSE f[i]) \in 1 .. n + 1
      <4>1. n + 1 \in 1 .. n + 1 /\ \A x \in 1..n : x \in 1 .. n + 1
        BY <2>1
      <4> QED
        BY <3>3, <3>b, <4>1
    <3>4. g \in [1 .. p + 1 -> 1 .. n + 1]
      BY <3>c
    <3> HIDE DEF g
    <3>5. \A i, j \in 1 .. p + 1 : i < j => g[i] < g[j]
      <4> SUFFICES ASSUME NEW i \in 1 .. p + 1, NEW j \in 1 .. p + 1, i < j
                   PROVE  g[i] < g[j]
        OBVIOUS
      <4>1. i \in 1..p
        BY <3>0
      <4>2. CASE j \in 1..p
        BY <2>5, <3>0, <3>1, <4>1, <4>2
      <4>3. CASE j = p + 1
        BY <2>1, <3>1, <3>2, <4>1, <4>3
      <4> QED
        BY <3>3, <4>2, <4>3
    <3>6. \A i \in 1 .. p + 1 : inner[i] = outer[g[i]]
      BY <2>5, <2>7, <3>0, <3>1, <3>2, <3>3
    <3>7. Embeds(g, p + 1, inner, n + 1, outer)
      BY <3>4, <3>5, <3>6 DEF Embeds
    <3> QED
      BY <2>7, <3>0, <3>7
  <2> QED
    BY <2>4, <2>6, <2>7
<1> HIDE DEF T
<1>4. T \in SUBSET Nat
  BY DEF T
<1>5. T = Nat
  BY <1>2, <1>3, <1>4, SetInduction
<1>6. \E f : Embeds(f, m[Len(outer)], inner, Len(outer), outer)
  BY <1>0, <1>5 DEF T
<1> QED
  BY <1>1, <1>6 DEF Within

(* The greedy match finds what is there. *)
LEMMA MatchIsComplete ==
  ASSUME NEW inner \in Seq(Elements), NEW outer \in Seq(Elements), Within(inner, outer)
  PROVE  Matched(inner, outer) = Len(inner)
<1>0. Len(outer) \in Nat /\ Len(inner) \in Nat
  BY LenProperties
<1>1. PICK m : Matching(m, inner, outer, Len(outer)) /\ Matched(inner, outer) = m[Len(outer)]
  BY MatchedIs
<1>2. PICK f : Embeds(f, Len(inner), inner, Len(outer), outer)
  BY DEF Within
<1>3. /\ f \in [1..Len(inner) -> 1..Len(outer)]
      /\ \A i, j \in 1..Len(inner) : i < j => f[i] < f[j]
      /\ \A i \in 1..Len(inner) : inner[i] = outer[f[i]]
  BY <1>2 DEF Embeds
<1> DEFINE Reached(n) == \A i \in 1..Len(inner) : f[i] <= n => m[n] >= i
           T == {n \in Nat : n <= Len(outer) => Reached(n)}
<1>4. 0 \in T
  BY <1>3
<1>5. ASSUME NEW n \in T PROVE n + 1 \in T
  <2> SUFFICES ASSUME n + 1 <= Len(outer), NEW i \in 1..Len(inner), f[i] <= n + 1
               PROVE  m[n + 1] >= i
    OBVIOUS
  <2>1. /\ n \in Nat /\ n + 1 \in 1..Len(outer) /\ (n + 1) - 1 = n
        /\ n \in 0..Len(outer) /\ f[i] \in Nat /\ f[i] \in 1..Len(outer)
    BY <1>0, <1>3
  <2>2. m[n] \in 0..Len(inner)
    BY <1>1, <2>1 DEF Matching
  <2>3. m[n + 1] = IF m[n] < Len(inner) /\ inner[m[n] + 1] = outer[n + 1]
                   THEN m[n] + 1 ELSE m[n]
    BY <1>1, <2>1 DEF Matching
  <2>4. \A j \in 1..Len(inner) : f[j] <= n => m[n] >= j
    BY <1>0, <2>1
  <2>5. CASE m[n] >= i
    BY <2>2, <2>3, <2>5
  <2>6. CASE m[n] < i
    <3>1. f[i] = n + 1
      BY <2>1, <2>2, <2>4, <2>6
    <3>2. m[n] >= i - 1
      <4>1. CASE i = 1
        BY <2>2, <4>1
      <4>2. CASE i # 1
        <5> DEFINE h == i - 1
        <5>1. h \in 1..Len(inner) /\ h < i
          BY <4>2
        <5> HIDE DEF h
        <5>2. f[h] < f[i]
          BY <1>3, <5>1
        <5>3. f[h] \in Nat
          BY <1>3, <5>1
        <5>4. f[h] <= n
          BY <2>1, <3>1, <5>2, <5>3
        <5>5. m[n] >= h
          BY <2>4, <5>1, <5>4
        <5> QED
          BY <5>5 DEF h
      <4> QED
        BY <4>1, <4>2
    <3>3. m[n] + 1 = i /\ m[n] < Len(inner)
      BY <1>0, <2>2, <2>6, <3>2
    <3>4. inner[m[n] + 1] = outer[n + 1]
      BY <1>3, <3>1, <3>3
    <3> QED
      BY <2>3, <3>3, <3>4
  <2> QED
    BY <2>2, <2>5, <2>6
<1> HIDE DEF T
<1>6. T \in SUBSET Nat
  BY DEF T
<1>7. T = Nat
  BY <1>4, <1>5, <1>6, SetInduction
<1>8. Reached(Len(outer))
  BY <1>0, <1>7 DEF T
<1>9. m[Len(outer)] \in 0..Len(inner)
  BY <1>0, <1>1 DEF Matching
<1>10. CASE Len(inner) = 0
  BY <1>1, <1>9, <1>10
<1>11. CASE Len(inner) # 0
  <2>1. Len(inner) \in 1..Len(inner) /\ f[Len(inner)] <= Len(outer)
    BY <1>0, <1>3, <1>11
  <2>2. m[Len(outer)] >= Len(inner)
    BY <1>8, <2>1
  <2> QED
    BY <1>0, <1>1, <1>9, <2>2
<1> QED
  BY <1>10, <1>11

-----------------------------------------------------------------------------
(* What keeps a sequence within another one.                               *)

(* Elements come into the second one, somewhere. *)
WithinMore(a, d, t, p) == Within(a, d \o p) => Within(a, (d \o t) \o p)

LEMMA SomethingBetween ==
  ASSUME NEW a \in Seq(Elements), NEW d \in Seq(Elements),
         NEW t \in Seq(Elements), NEW p \in Seq(Elements)
  PROVE  WithinMore(a, d, t, p)
<1> SUFFICES ASSUME Within(a, d \o p) PROVE Within(a, (d \o t) \o p)
  BY DEF WithinMore
<1> DEFINE old == d \o p
           new == (d \o t) \o p
           k == Len(d)
           l == Len(t)
           n == Len(p)
<1>1. /\ k \in Nat /\ l \in Nat /\ n \in Nat /\ Len(a) \in Nat
      /\ Len(old) = k + n
      /\ \A i \in 1..k : old[i] = d[i]
      /\ \A i \in k + 1 .. k + n : old[i] = p[i - k]
  BY LenProperties, ConcatProperties
<1>2. /\ d \o t \in Seq(Elements) /\ Len(d \o t) = k + l
      /\ \A i \in 1..k : (d \o t)[i] = d[i]
  BY LenProperties, ConcatProperties
<1>3. /\ Len(new) = k + l + n
      /\ \A i \in 1..k : new[i] = d[i]
      /\ \A i \in k + l + 1 .. k + l + n : new[i] = p[i - (k + l)]
  BY <1>1, <1>2, LenProperties, ConcatProperties
<1>4. PICK f : Embeds(f, Len(a), a, Len(old), old)
  BY DEF Within
<1> HIDE DEF old, new, k, l, n
<1>5. /\ f \in [1..Len(a) -> 1 .. k + n]
      /\ \A i, j \in 1..Len(a) : i < j => f[i] < f[j]
      /\ \A i \in 1..Len(a) : a[i] = old[f[i]]
  BY <1>1, <1>4 DEF Embeds
<1> DEFINE moved(x) == IF x <= k THEN x ELSE x + l
           g == [i \in 1..Len(a) |-> moved(f[i])]
<1>6. \A x \in 1 .. k + n : moved(x) \in 1 .. k + l + n /\ new[moved(x)] = old[x]
  <2> SUFFICES ASSUME NEW x \in 1 .. k + n
               PROVE  moved(x) \in 1 .. k + l + n /\ new[moved(x)] = old[x]
    OBVIOUS
  <2>1. CASE x <= k
    <3>1. moved(x) = x /\ x \in 1..k /\ x \in 1 .. k + l + n
      BY <1>1, <2>1
    <3> QED
      BY <1>1, <1>3, <3>1
  <2>2. CASE x > k
    <3>1. /\ moved(x) = x + l /\ x \in k + 1 .. k + n
          /\ x + l \in k + l + 1 .. k + l + n /\ (x + l) - (k + l) = x - k
          /\ x + l \in 1 .. k + l + n
      BY <1>1, <2>2
    <3> QED
      BY <1>1, <1>3, <3>1
  <2> QED
    BY <1>1, <2>1, <2>2
<1>7. \A x, y \in 1 .. k + n : x < y => moved(x) < moved(y)
  BY <1>1
<1> HIDE DEF moved
<1>8. g \in [1..Len(a) -> 1 .. k + l + n] /\ \A i \in 1..Len(a) : g[i] = moved(f[i])
  BY <1>5, <1>6
<1>9. \A i, j \in 1..Len(a) : i < j => g[i] < g[j]
  BY <1>5, <1>7, <1>8
<1>10. \A i \in 1..Len(a) : a[i] = new[g[i]]
  BY <1>5, <1>6, <1>8
<1>11. Embeds(g, Len(a), a, Len(new), new)
  BY <1>3, <1>8, <1>9, <1>10 DEF Embeds
<1> QED
  BY <1>11 DEF Within, new

(* The same elements come behind both. *)
WithinBoth(a, d, t) == Within(a, d) => Within(a \o t, d \o t)

LEMMA SameBehindBoth ==
  ASSUME NEW a \in Seq(Elements), NEW d \in Seq(Elements), NEW t \in Seq(Elements)
  PROVE  WithinBoth(a, d, t)
<1> SUFFICES ASSUME Within(a, d) PROVE Within(a \o t, d \o t)
  BY DEF WithinBoth
<1> DEFINE inner == a \o t
           outer == d \o t
           p == Len(a)
           n == Len(d)
           l == Len(t)
<1>1. /\ p \in Nat /\ n \in Nat /\ l \in Nat
      /\ Len(inner) = p + l /\ Len(outer) = n + l
      /\ \A i \in 1..p : inner[i] = a[i]
      /\ \A i \in p + 1 .. p + l : inner[i] = t[i - p]
      /\ \A i \in 1..n : outer[i] = d[i]
      /\ \A i \in n + 1 .. n + l : outer[i] = t[i - n]
  BY LenProperties, ConcatProperties
<1>2. PICK f : Embeds(f, Len(a), a, Len(d), d)
  BY DEF Within
<1> HIDE DEF inner, outer, p, n, l
<1>3. /\ f \in [1..p -> 1..n]
      /\ \A i, j \in 1..p : i < j => f[i] < f[j]
      /\ \A i \in 1..p : a[i] = d[f[i]]
  BY <1>2 DEF Embeds, p, n
<1> DEFINE g == [i \in 1 .. p + l |-> IF i <= p THEN f[i] ELSE n + (i - p)]
<1>4. \A i \in 1..p : i \in 1 .. p + l /\ g[i] = f[i] /\ f[i] \in 1..n
  BY <1>1, <1>3
<1>5. \A i \in p + 1 .. p + l : g[i] = n + (i - p) /\ n + (i - p) \in n + 1 .. n + l
  BY <1>1
<1>6. \A i \in 1 .. p + l : i \in 1..p \/ i \in p + 1 .. p + l
  BY <1>1
<1>7. g \in [1 .. p + l -> 1 .. n + l]
  <2>1. \A x \in 1..n : x \in 1 .. n + l
    BY <1>1
  <2>2. \A x \in n + 1 .. n + l : x \in 1 .. n + l
    BY <1>1
  <2> HIDE DEF g
  <2>3. \A i \in 1 .. p + l : g[i] \in 1 .. n + l
    BY <1>4, <1>5, <1>6, <2>1, <2>2
  <2>4. g = [i \in 1 .. p + l |-> g[i]]
    BY DEF g
  <2> QED
    BY <2>3, <2>4
<1> HIDE DEF g
<1>8. \A i, j \in 1 .. p + l : i < j => g[i] < g[j]
  <2> SUFFICES ASSUME NEW i \in 1 .. p + l, NEW j \in 1 .. p + l, i < j
               PROVE  g[i] < g[j]
    OBVIOUS
  <2>1. CASE j \in 1..p
    <3>1. i \in 1..p
      BY <1>1, <2>1
    <3> QED
      BY <1>3, <1>4, <2>1, <3>1
  <2>2. CASE i \in 1..p /\ j \in p + 1 .. p + l
    <3>1. g[i] \in 1..n
      BY <1>4, <2>2
    <3>2. g[j] \in n + 1 .. n + l
      BY <1>5, <2>2
    <3> QED
      BY <1>1, <3>1, <3>2
  <2>3. CASE i \in p + 1 .. p + l
    <3>1. j \in p + 1 .. p + l
      BY <1>1, <2>3
    <3>2. g[i] = n + (i - p) /\ g[j] = n + (j - p)
      BY <1>5, <2>3, <3>1
    <3> QED
      BY <1>1, <3>2
  <2> QED
    BY <1>6, <2>1, <2>2, <2>3
<1>9. \A i \in 1 .. p + l : inner[i] = outer[g[i]]
  <2> SUFFICES ASSUME NEW i \in 1 .. p + l PROVE inner[i] = outer[g[i]]
    OBVIOUS
  <2>1. CASE i \in 1..p
    <3>1. g[i] = f[i] /\ f[i] \in 1..n
      BY <1>4, <2>1
    <3>2. inner[i] = a[i] /\ a[i] = d[f[i]]
      BY <1>1, <1>3, <2>1
    <3>3. outer[f[i]] = d[f[i]]
      BY <1>1, <3>1
    <3> QED
      BY <3>1, <3>2, <3>3
  <2>2. CASE i \in p + 1 .. p + l
    <3>1. g[i] = n + (i - p) /\ g[i] \in n + 1 .. n + l
      BY <1>5, <2>2
    <3>2. (n + (i - p)) - n = i - p
      BY <1>1, <2>2
    <3> QED
      BY <1>1, <2>2, <3>1, <3>2
  <2> QED
    BY <1>6, <2>1, <2>2
<1>10. Embeds(g, Len(inner), inner, Len(outer), outer)
  BY <1>1, <1>7, <1>8, <1>9 DEF Embeds
<1> QED
  BY <1>10 DEF Within, inner, outer

-----------------------------------------------------------------------------
(* What can make accepted elements disappear.                              *)

(* What has been delivered and what waits in the array. *)
Kept == destination \o Owed

KeptIsSound ==
  /\ Kept \in Seq(Elements) /\ Pending \in Seq(Elements)
  /\ ~lent => Kept = destination \o Pending
  /\ lent \/ used = 0 => Kept = destination
  /\ NothingMissing <=> Within(accepted, Kept)

LEMMA KeptIs == TypeOK => KeptIsSound
<1> SUFFICES ASSUME TypeOK PROVE KeptIsSound
  OBVIOUS
<1>1. Pending \in Seq(Elements)
  BY PendingIsSequence
<1>2. Owed \in Seq(Elements)
  BY <1>1, EmptySeq DEF Owed
<1>3. Kept \in Seq(Elements)
  BY <1>2, ConcatProperties DEF Kept
<1>4. destination \o <<>> = destination
  BY ConcatEmptySeq
<1>5. lent \/ used = 0 => Owed = <<>>
  BY NothingPending DEF Owed
<1>6. accepted \in Seq(Elements)
  OBVIOUS
<1>7. Matched(accepted, Kept) = Len(accepted) <=> Within(accepted, Kept)
  BY <1>3, <1>6, MatchIsSound, MatchIsComplete
<1>8. ~lent => Kept = destination \o Pending
  BY DEF Kept, Owed
<1>9. lent \/ used = 0 => Kept = destination
  BY <1>4, <1>5 DEF Kept
<1> QED
  BY <1>1, <1>3, <1>7, <1>8, <1>9 DEF NothingMissing, Kept, KeptIsSound

LEMMA KeptIsNext == TypeOK' => KeptIsSound'
BY KeptIs, PTL

(* More comes behind what there is. *)
Behind(a, d, t) == Within(a, d) => Within(a, d \o t)

LEMMA SomethingBehind ==
  ASSUME NEW a \in Seq(Elements), NEW d \in Seq(Elements), NEW t \in Seq(Elements)
  PROVE  Behind(a, d, t)
<1>1. d \o <<>> = d /\ <<>> \in Seq(Elements)
  BY ConcatEmptySeq, EmptySeq
<1>2. d \o t \in Seq(Elements)
  BY ConcatProperties
<1>3. (d \o t) \o <<>> = d \o t
  BY <1>2, ConcatEmptySeq
<1>4. WithinMore(a, d, t, <<>>)
  BY <1>1, SomethingBetween
<1> QED
  BY <1>1, <1>3, <1>4 DEF WithinMore, Behind

(* A step that is not the loan of an array with pending elements. *)
LEMMA StepDiscardsNothing ==
  ASSUME TypeOK, TypeOK', [Next]_vars, NothingMissing,
         ~(~lent /\ lent' /\ used > 0)
  PROVE  NothingMissing'
<1> USE CapacityAssumption
<1>k. /\ Kept \in Seq(Elements) /\ Pending \in Seq(Elements)
      /\ ~lent => Kept = destination \o Pending
      /\ lent \/ used = 0 => Kept = destination
      /\ Within(accepted, Kept)
  BY KeptIs DEF KeptIsSound
<1>n. /\ ~lent' => Kept' = destination' \o Pending'
      /\ lent' \/ used' = 0 => Kept' = destination'
      /\ NothingMissing' <=> Within(accepted', Kept')
  BY KeptIsNext DEF KeptIsSound
<1>t. accepted \in Seq(Elements) /\ destination \in Seq(Elements)
  OBVIOUS
<1> HIDE DEF TypeOK
<1>1. ASSUME NEW data \in Inputs, AppendBuffered(data)
      PROVE  Within(accepted', Kept')
  <2>1. data \in Seq(Elements) /\ Len(data) \in Nat /\ Len(data) <= Capacity - used
    BY <1>1, InputsAssumption, LenProperties DEF AppendBuffered
  <2>2. Pending' = Pending \o data
    <3>1. Pending' = [i \in 1..used + Len(data) |-> CopiedInto(data, used)[i]]
      BY <1>1 DEF AppendBuffered, Pending
    <3> QED
      BY <2>1, <3>1, CopyAppends
  <2>3. (destination \o Pending) \o data = destination \o (Pending \o data)
    BY <1>k, <1>t, <2>1, Regroup
  <2>4. Kept' = Kept \o data /\ accepted' = accepted \o data
    BY <1>1, <1>k, <1>n, <2>2, <2>3 DEF AppendBuffered
  <2>5. WithinBoth(accepted, Kept, data)
    BY <1>k, <1>t, <2>1, SameBehindBoth
  <2> QED
    BY <1>k, <2>4, <2>5 DEF WithinBoth
<1>2. ASSUME NEW data \in Inputs, AppendFlushFails(data)
      PROVE  Within(accepted', Kept')
  <2>1. PICK sent \in Outcomes(Pending) : destination' = destination \o sent.taken
    BY <1>2 DEF AppendFlushFails
  <2> DEFINE t == sent.taken
  <2>2. t \in Seq(Elements)
    BY <1>k, <2>1, OutcomeTypes
  <2>3. ~lent /\ ~lent' /\ Pending' = Pending /\ accepted' = accepted
    BY <1>2, PendingUnchanged DEF AppendFlushFails
  <2>4. Kept = destination \o Pending /\ Kept' = (destination \o t) \o Pending
    BY <1>k, <1>n, <2>1, <2>3
  <2> HIDE DEF t
  <2>5. WithinMore(accepted, destination, t, Pending)
    BY <1>k, <1>t, <2>2, SomethingBetween
  <2> QED
    BY <1>k, <2>3, <2>4, <2>5 DEF WithinMore
<1>3. ASSUME NEW data \in Inputs, AppendDirect(data)
      PROVE  Within(accepted', Kept')
  <2>1. data \in Seq(Elements)
    BY InputsAssumption
  <2>2. PICK sent \in Outcomes(data) :
          /\ destination' = (destination \o Pending) \o sent.taken
          /\ accepted' = IF sent.ok THEN accepted \o data ELSE accepted
    BY <1>3 DEF AppendDirect
  <2> DEFINE t == sent.taken
  <2>3. sent.ok \in BOOLEAN /\ t \in Seq(Elements) /\ (sent.ok => t = data)
    BY <2>1, <2>2, OutcomeTypes
  <2>4. Kept = destination \o Pending /\ Kept' = destination'
    BY <1>3, <1>k, <1>n DEF AppendDirect
  <2>5. Kept' = Kept \o t
    BY <2>2, <2>4
  <2>6. CASE sent.ok
    <3>1. accepted' = accepted \o data /\ Kept' = Kept \o data
      BY <2>2, <2>3, <2>5, <2>6
    <3>2. WithinBoth(accepted, Kept, data)
      BY <1>k, <1>t, <2>1, SameBehindBoth
    <3> QED
      BY <1>k, <3>1, <3>2 DEF WithinBoth
  <2>7. CASE ~sent.ok
    <3>1. accepted' = accepted
      BY <2>2, <2>7
    <3> HIDE DEF t
    <3>2. Behind(accepted, Kept, t)
      BY <1>k, <1>t, <2>3, SomethingBehind
    <3> QED
      BY <1>k, <2>5, <3>1, <3>2 DEF Behind
  <2> QED
    BY <2>3, <2>6, <2>7
<1>4. ASSUME NEW data \in Inputs, WriteSpace(data)
      PROVE  Within(accepted', Kept')
  BY <1>4, <1>k, <1>n DEF WriteSpace
<1>5. ASSUME Flush
      PROVE  Within(accepted', Kept')
  <2>1. PICK sent \in Outcomes(Pending) :
          /\ destination' = destination \o sent.taken
          /\ used' = IF sent.ok THEN 0 ELSE used
    BY <1>5 DEF Flush
  <2> DEFINE t == sent.taken
  <2>2. sent.ok \in BOOLEAN /\ t \in Seq(Elements) /\ (sent.ok => t = Pending)
    BY <1>k, <2>1, OutcomeTypes
  <2>3. /\ ~lent /\ ~lent' /\ accepted' = accepted /\ buffer' = buffer
        /\ Kept = destination \o Pending
    BY <1>5, <1>k DEF Flush
  <2>4. CASE sent.ok
    BY <1>k, <1>n, <2>1, <2>2, <2>3, <2>4
  <2>5. CASE ~sent.ok
    <3>1. used' = used
      BY <2>1, <2>5
    <3>2. Pending' = Pending
      BY <2>3, <3>1, PendingUnchanged
    <3>3. Kept' = (destination \o t) \o Pending
      BY <1>n, <2>1, <2>3, <3>2
    <3> HIDE DEF t
    <3>4. WithinMore(accepted, destination, t, Pending)
      BY <1>k, <1>t, <2>2, SomethingBetween
    <3> QED
      BY <1>k, <2>3, <3>3, <3>4 DEF WithinMore
  <2> QED
    BY <2>2, <2>4, <2>5
<1>6. ASSUME NEW size \in 0 .. Capacity + 1, MakeAppendSpace(size)
      PROVE  Within(accepted', Kept')
  <2>1. lent' /\ UNCHANGED <<destination, accepted>>
    BY <1>6 DEF MakeAppendSpace
  <2>2. used \in Nat
    BY DEF TypeOK
  <2>3. lent \/ used = 0
    BY <2>1, <2>2
  <2> QED
    BY <1>k, <1>n, <2>1, <2>3
<1>7. ASSUME FlushAppendSpace
      PROVE  Within(accepted', Kept')
  <2>1. PICK sent \in (IF used = 0 THEN {[ok |-> TRUE, taken |-> <<>>]}
                                   ELSE Outcomes(Pending)) :
          /\ destination' = destination \o sent.taken
          /\ used' = IF sent.ok THEN 0 ELSE used
          /\ lent' = ~sent.ok
          /\ accepted' = IF sent.ok THEN accepted \o Pending ELSE accepted
    BY <1>7 DEF FlushAppendSpace
  <2> DEFINE t == sent.taken
  <2>2. sent.ok \in BOOLEAN /\ t \in Seq(Elements) /\ (sent.ok => t = Pending)
    <3>1. CASE used = 0
      <4>1. sent = [ok |-> TRUE, taken |-> <<>>]
        BY <3>1
      <4>2. sent.ok = TRUE /\ t = <<>> /\ Pending = <<>>
        BY <3>1, <4>1, NothingPending
      <4> QED
        BY <1>k, <4>2
    <3>2. CASE used # 0
      BY <1>k, <2>1, <3>2, OutcomeTypes
    <3> QED
      BY <3>1, <3>2
  <2>3. Kept = destination
    BY <1>7, <1>k DEF FlushAppendSpace
  <2>4. Kept' = destination'
    BY <1>n, <2>1, <2>2
  <2>5. Kept' = Kept \o t
    BY <2>1, <2>3, <2>4
  <2>6. CASE sent.ok
    <3>1. accepted' = accepted \o Pending /\ Kept' = Kept \o Pending
      BY <2>1, <2>2, <2>5, <2>6
    <3>2. WithinBoth(accepted, Kept, Pending)
      BY <1>k, <1>t, SameBehindBoth
    <3> QED
      BY <1>k, <3>1, <3>2 DEF WithinBoth
  <2>7. CASE ~sent.ok
    <3>1. accepted' = accepted
      BY <2>1, <2>7
    <3> HIDE DEF t
    <3>2. Behind(accepted, Kept, t)
      BY <1>k, <1>t, <2>2, SomethingBehind
    <3> QED
      BY <1>k, <2>5, <3>1, <3>2 DEF Behind
  <2> QED
    BY <2>2, <2>6, <2>7
<1>8. ASSUME UNCHANGED vars
      PROVE  Within(accepted', Kept')
  <2>1. Kept' = Kept /\ accepted' = accepted
    BY <1>8 DEF vars, Kept, Owed, Pending
  <2> QED
    BY <1>k, <2>1
<1> QED
  BY <1>n, <1>1, <1>2, <1>3, <1>4, <1>5, <1>6, <1>7, <1>8 DEF Next

(***************************************************************************)
(* For every capacity, and whatever prefixes failing calls take: only the  *)
(* loan of an array with pending elements makes accepted elements          *)
(* disappear or change places.                                             *)
(***************************************************************************)
THEOREM DiscardsCorrect == Spec => OnlyMakeAppendSpaceDiscards
<1>1. /\ TypeOK /\ TypeOK' /\ [Next]_vars
      => [NothingMissing /\ ~NothingMissing' => ~lent /\ lent' /\ used > 0]_vars
  BY StepDiscardsNothing
<1> QED
  BY <1>1, TypeCorrect, PTL DEF Spec, OnlyMakeAppendSpaceDiscards

-----------------------------------------------------------------------------
(* Si::copy: one append() to the sinks.                                    *)

(* A sink that has received elements of S. *)
Child(S) == [class : ChildClasses, received : Seq(S), good : BOOLEAN]

Took(child, next, e) == next.received = Append(child.received, e)

(* What the sink next can be after append(e) to child. *)
Asked(child, next, e) ==
  /\ next.class = child.class
  /\ next.good => child.good
  /\ next.received = child.received \/ Took(child, next, e)

(* append() succeeded; only an ostream_ref_sink may have dropped e. *)
Succeeded(child, next, e) == Took(child, next, e) \/ Drops(next)

(* append() of each class either has the effect or not, and says so, but   *)
(* for ostream_ref_sink.                                                   *)
LEMMA ChildAsked ==
  ASSUME NEW S, NEW e \in S, NEW child \in Child(S), NEW o \in ChildAppend(child, e)
  PROVE  /\ o.sink \in Child(S)
         /\ Asked(child, o.sink, e)
         /\ o.result \in {"success", "error", "exception"}
         /\ o.result = "success" => Succeeded(child, o.sink, e)
<1> DEFINE got == [child EXCEPT !.received = Append(@, e)]
<1> DEFINE bad == [child EXCEPT !.good = FALSE]
<1>1. /\ child.class \in ChildClasses /\ child.received \in Seq(S) /\ child.good \in BOOLEAN
      /\ Append(child.received, e) \in Seq(S)
  BY DEF Child
<1>2. /\ got \in Child(S) /\ got.class = child.class /\ got.good = child.good
      /\ got.received = Append(child.received, e)
  BY <1>1 DEF Child
<1>3. /\ bad \in Child(S) /\ bad.class = child.class /\ bad.good = FALSE
      /\ bad.received = child.received
  BY <1>1 DEF Child
<1>4. Write(child, e) = (IF child.good THEN {got} ELSE {}) \cup {bad}
  BY DEF Write, Received
<1> HIDE DEF got, bad
<1>5. CASE child.class = "container"
  <2>1. o = [sink |-> got, result |-> "success"]
    BY <1>5 DEF ChildAppend, ContainerAppend, Result, Received, got
  <2> QED
    BY <1>2, <2>1 DEF Asked, Succeeded, Took
<1>6. CASE child.class = "function"
  <2>1. \/ o = [sink |-> got, result |-> "success"]
        \/ o = [sink |-> child, result |-> "error"]
    BY <1>6 DEF ChildAppend, FunctionAppend, Result, Received, got
  <2> QED
    BY <1>2, <2>1 DEF Asked, Succeeded, Took
<1>7. CASE child.class = "ostream_ref"
  <2>1. o \in {[sink |-> s, result |-> "success"] : s \in Write(child, e)}
    BY <1>7 DEF ChildAppend, OstreamRefAppend, Result
  <2>2. \/ o = [sink |-> got, result |-> "success"]
        \/ o = [sink |-> bad, result |-> "success"]
    BY <1>4, <2>1
  <2> QED
    BY <1>2, <1>3, <1>7, <2>2 DEF Asked, Succeeded, Took, Drops
<1>8. CASE child.class = "ostream"
  <2>1. o \in {[sink |-> s, result |-> IF s.good THEN "success" ELSE "exception"] :
                 s \in Write(child, e)}
    BY <1>8 DEF ChildAppend, OstreamAppend, Result
  <2>2. \/ o = [sink |-> got, result |-> IF got.good THEN "success" ELSE "exception"]
        \/ o = [sink |-> bad, result |-> IF bad.good THEN "success" ELSE "exception"]
    BY <1>4, <2>1
  <2> QED
    BY <1>2, <1>3, <2>2 DEF Asked, Succeeded, Took
<1> QED
  BY <1>1, <1>5, <1>6, <1>7, <1>8 DEF ChildClasses

(* multi_sink asks its children one after the other; it only reports a     *)
(* success if all of them did.                                             *)
LEMMA ChildrenAsked ==
  ASSUME NEW S, NEW e \in S, NEW cs \in Seq(Child(S)), NEW r \in MultiAppend(cs, e)
  PROVE  /\ r.children \in Seq(Child(S)) /\ DOMAIN r.children = DOMAIN cs
         /\ \A i \in DOMAIN cs : Asked(cs[i], r.children[i], e)
         /\ r.result \in {"success", "error", "exception"}
         /\ r.result = "success" => \A i \in DOMAIN cs : Succeeded(cs[i], r.children[i], e)
<1> DEFINE Reached(o, i) == \A j \in 1..(i - 1) : o[j].result = "success"
<1> DEFINE Stops(o, i) == Reached(o, i) /\ o[i].result # "success"
<1> DEFINE left(o) == [i \in DOMAIN cs |-> IF Reached(o, i) THEN o[i].sink ELSE cs[i]]
<1> DEFINE result(o) == IF \E i \in DOMAIN cs : Stops(o, i)
                        THEN o[CHOOSE i \in DOMAIN cs : Stops(o, i)].result ELSE "success"
<1>1. PICK o \in AllOutcomes(cs, e) : r = [children |-> left(o), result |-> result(o)]
  BY DEF MultiAppend
<1>2. r.children = left(o) /\ r.result = result(o)
  BY <1>1
<1>3. DOMAIN cs = 1..Len(cs) /\ Len(cs) \in Nat /\ \A i \in DOMAIN cs : cs[i] \in Child(S)
  OBVIOUS
<1>4. \A i \in DOMAIN cs : o[i] \in ChildAppend(cs[i], e)
  BY DEF AllOutcomes
<1>5. \A i \in DOMAIN cs :
        /\ o[i].sink \in Child(S)
        /\ Asked(cs[i], o[i].sink, e)
        /\ o[i].result \in {"success", "error", "exception"}
        /\ o[i].result = "success" => Succeeded(cs[i], o[i].sink, e)
  BY <1>3, <1>4, ChildAsked
<1>6. /\ DOMAIN left(o) = DOMAIN cs
      /\ \A i \in DOMAIN cs : left(o)[i] \in {o[i].sink, cs[i]}
      /\ \A i \in DOMAIN cs : Reached(o, i) => left(o)[i] = o[i].sink
  OBVIOUS
<1> HIDE DEF left
<1>7. ASSUME NEW i \in DOMAIN cs
      PROVE  left(o)[i] \in Child(S) /\ Asked(cs[i], left(o)[i], e)
  <2>1. left(o)[i] \in Child(S)
    BY <1>3, <1>5, <1>6
  <2>2. Asked(cs[i], cs[i], e)
    BY DEF Asked
  <2> QED
    BY <1>5, <1>6, <2>1, <2>2
<1>8. left(o) \in Seq(Child(S))
  <2>1. left(o) = [i \in 1..Len(cs) |-> left(o)[i]]
    BY <1>3, <1>6 DEF left
  <2> QED
    BY <1>3, <1>7, <2>1
<1>9. CASE \E i \in DOMAIN cs : Stops(o, i)
  <2> DEFINE first == CHOOSE i \in DOMAIN cs : Stops(o, i)
  <2>1. first \in DOMAIN cs /\ Stops(o, first)
    BY <1>9
  <2>2. result(o) = o[first].result
    BY <1>9
  <2> HIDE DEF first, result
  <2>3. result(o) \in {"error", "exception"}
    BY <1>5, <2>1, <2>2
  <2> QED
    BY <1>2, <1>6, <1>7, <1>8, <2>3
<1>10. CASE ~ \E i \in DOMAIN cs : Stops(o, i)
  <2> DEFINE failed == {i \in DOMAIN cs : o[i].result # "success"}
  <2>1. failed = {}
    <3> SUFFICES ASSUME failed # {} PROVE FALSE
      OBVIOUS
    <3>1. failed \in SUBSET Nat
      BY <1>3
    <3> HIDE DEF failed
    <3>2. PICK n \in failed : \A m \in failed : n <= m
      BY <3>1, SmallestNumber
    <3>3. \A j \in 1..(n - 1) : j \in DOMAIN cs /\ j \notin failed
      BY <1>3, <3>1, <3>2 DEF failed
    <3>4. Reached(o, n) /\ n \in DOMAIN cs /\ o[n].result # "success"
      BY <3>2, <3>3 DEF failed
    <3> QED
      BY <1>10, <3>4
  <2>2. \A i \in DOMAIN cs : Reached(o, i)
    BY <1>3, <2>1
  <2>3. \A i \in DOMAIN cs : left(o)[i] = o[i].sink /\ Succeeded(cs[i], o[i].sink, e)
    BY <1>5, <1>6, <2>1, <2>2
  <2>4. result(o) = "success"
    BY <1>10
  <2> QED
    BY <1>2, <1>6, <1>7, <1>8, <2>3, <2>4
<1> QED
  BY <1>9, <1>10

(* With a throwing_sink in front, what did not succeed is an exception.    *)
LEMMA SinkAsked ==
  ASSUME NEW S, NEW e \in S, NEW cs \in Seq(Child(S)), NEW t \in BOOLEAN,
         NEW r \in SinkAppend(t, cs, e)
  PROVE  /\ r.children \in Seq(Child(S)) /\ DOMAIN r.children = DOMAIN cs
         /\ \A i \in DOMAIN cs : Asked(cs[i], r.children[i], e)
         /\ r.result = "success" => \A i \in DOMAIN cs : Succeeded(cs[i], r.children[i], e)
         /\ t /\ r.result # "success" => r.result = "exception"
<1>1. CASE t
  <2>1. PICK q \in MultiAppend(cs, e) :
          r = [q EXCEPT !.result = IF @ = "error" THEN "exception" ELSE @]
    BY <1>1 DEF SinkAppend, ThrowingAppend
  <2>2. q = [children |-> q.children, result |-> q.result]
    BY DEF MultiAppend
  <2>3. /\ r.children = q.children
        /\ r.result = IF q.result = "error" THEN "exception" ELSE q.result
    BY <2>1, <2>2
  <2> QED
    BY <2>3, ChildrenAsked
<1>2. CASE ~t
  BY <1>2, ChildrenAsked DEF SinkAppend
<1> QED
  BY <1>1, <1>2

-----------------------------------------------------------------------------
(* The states.                                                             *)

(* Elements and sinks, over some set of elements. *)
Sequences(S) == taken \in Seq(S) /\ children \in Seq(Child(S))

CopyTypes ==
  /\ \E S : Sequences(S)
  /\ throwing \in BOOLEAN
  /\ copying \in {"before", "loop", "returned", "threw"}
  /\ copying = "before" => taken = <<>> /\ children = <<>>

(* Before the exception the children have everything. *)
NoHoles ==
  throwing =>
    \A i \in DOMAIN children :
      \/ Drops(children[i])
      \/ children[i].received = taken
      \/ copying = "threw" /\ taken # <<>> /\ children[i].received = Front(taken)

CopyInv == CopyTypes /\ NoHoles /\ LossesAreReported

LEMMA InvImplies == CopyInv => ThrowingSinkLeavesNoHoles /\ LossesAreReported
BY DEF CopyInv, NoHoles, ThrowingSinkLeavesNoHoles

LEMMA StreamInitHolds == StreamInit => CopyInv
<1> SUFFICES ASSUME StreamInit PROVE CopyInv
  OBVIOUS
<1>1. Sequences({})
  BY DEF StreamInit, Sequences
<1>2. CopyTypes
  BY <1>1 DEF StreamInit, CopyTypes
<1>3. DOMAIN children = {}
  BY DEF StreamInit
<1> QED
  BY <1>2, <1>3 DEF CopyInv, NoHoles, LossesAreReported

(* Nothing but the exception depends on where Si::copy is. *)
LEMMA OthersKeep ==
  ASSUME CopyInv, UNCHANGED <<throwing, children, taken, refused>>,
         copying' \in {copying, "returned", "threw"},
         copying' # copying => copying = "loop"
  PROVE  CopyInv'
<1>1. CopyTypes'
  <2>1. (\E S : Sequences(S))'
    BY DEF CopyInv, CopyTypes, Sequences
  <2>2. (throwing \in BOOLEAN)' /\ (copying \in {"before", "loop", "returned", "threw"})'
    BY DEF CopyInv, CopyTypes
  <2>3. copying' = "before" => copying = "before"
    OBVIOUS
  <2> QED
    BY <2>1, <2>2, <2>3 DEF CopyInv, CopyTypes
<1>2. NoHoles'
  BY DEF CopyInv, NoHoles, Drops
<1>3. LossesAreReported'
  BY DEF CopyInv, LossesAreReported, Drops
<1> QED
  BY <1>1, <1>2, <1>3 DEF CopyInv

(* The children begin with nothing, as Si::copy does. *)
LEMMA StartCopyKeeps == CopyInv /\ StartCopy => CopyInv'
<1> SUFFICES ASSUME CopyInv, StartCopy PROVE CopyInv'
  OBVIOUS
<1>1. taken = <<>> /\ taken' = <<>>
  BY DEF CopyInv, CopyTypes, StartCopy
<1> DEFINE Fresh == [class : ChildClasses, received : {<<>>}, good : BOOLEAN]
<1>2. children' \in Seq(Fresh)
  BY ChildrenAssumption DEF StartCopy
<1>3. \A i \in DOMAIN children' : children'[i] \in Fresh
  <2> HIDE DEF Fresh
  <2> QED
    BY <1>2
<1>4. \A i \in DOMAIN children' : children'[i].received = <<>> /\ children'[i] \in Child({})
  <2>1. <<>> \in Seq({})
    OBVIOUS
  <2> QED
    BY <1>3, <2>1 DEF Child
<1>5. children' \in Seq(Child({}))
  <2>1. Len(children') \in Nat /\ DOMAIN children' = 1..Len(children')
        /\ children' = [i \in 1..Len(children') |-> children'[i]]
    <3> HIDE DEF Fresh
    <3> QED
      BY <1>2
  <2> QED
    BY <1>4, <2>1
<1>6. CopyTypes'
  <2>1. Sequences({})'
    BY <1>1, <1>5 DEF Sequences
  <2> QED
    BY <2>1 DEF StartCopy, CopyTypes
<1>7. NoHoles'
  BY <1>1, <1>4 DEF NoHoles
<1>8. LossesAreReported'
  <2>1. DOMAIN taken' = {}
    BY <1>1
  <2>2. ASSUME NEW i \in DOMAIN children'
        PROVE  Selects(taken', {}, children'[i].received)
    BY <1>4, <2>2, FS_EmptySet DEF Selects
  <2> QED
    BY <2>1, <2>2 DEF LossesAreReported
<1> QED
  BY <1>6, <1>7, <1>8 DEF CopyInv

-----------------------------------------------------------------------------
(* An element.                                                             *)

(* A sequence of elements of S is one of T. *)
LEMMA Wider ==
  ASSUME NEW S, NEW T, S \subseteq T, NEW s \in Seq(S)
  PROVE  s \in Seq(T)
<1>1. Len(s) \in Nat /\ s = [i \in 1..Len(s) |-> s[i]] /\ \A i \in 1..Len(s) : s[i] \in T
  OBVIOUS
<1> QED
  BY <1>1

(* The positions stay right when the sequence grows. *)
LEMMA SelectsOld ==
  ASSUME NEW S, NEW t \in Seq(S), NEW s \in Seq(S), NEW e \in S,
         NEW ps \in SUBSET DOMAIN t, Selects(t, ps, s)
  PROVE  Selects(Append(t, e), ps, s)
<1>1. \A p \in ps : Append(t, e)[p] = t[p]
  OBVIOUS
<1> QED
  BY <1>1 DEF Selects

(* What gets the new element gets it at the new position. *)
LEMMA SelectsNew ==
  ASSUME NEW S, NEW t \in Seq(S), NEW s \in Seq(S), NEW e \in S,
         NEW ps \in SUBSET DOMAIN t, Selects(t, ps, s)
  PROVE  Selects(Append(t, e), ps \cup {Len(t) + 1}, Append(s, e))
<1> DEFINE last == Len(t) + 1
<1> DEFINE more == ps \cup {last}
<1>1. Len(t) \in Nat /\ ps \subseteq 1..Len(t) /\ last \notin ps /\ last \in Nat
  OBVIOUS
<1>2. IsFiniteSet(ps)
  <2>1. IsFiniteSet(1..Len(t))
    BY <1>1, FS_Interval
  <2> QED
    BY <1>1, <2>1, FS_Subset
<1>3. Cardinality(more) = Cardinality(ps) + 1 /\ Cardinality(ps) \in Nat
  BY <1>1, <1>2, FS_AddElement, FS_CardinalityType
<1>4. Len(s) = Cardinality(ps) /\ \A p \in ps : s[Cardinality(ps \cap 1..p)] = t[p]
  BY DEF Selects
<1>5. Len(Append(s, e)) = Cardinality(more)
  BY <1>3, <1>4
<1>6. ASSUME NEW p \in ps
      PROVE  Append(s, e)[Cardinality(more \cap 1..p)] = Append(t, e)[p]
  <2>1. more \cap 1..p = ps \cap 1..p
    BY <1>1
  <2>2. p \in ps \cap 1..p
    BY <1>1
  <2> DEFINE k == Cardinality(ps \cap 1..p)
  <2>3. IsFiniteSet(ps \cap 1..p) /\ k <= Cardinality(ps)
    BY <1>2, FS_Subset
  <2>4. k \in Nat /\ k # 0
    BY <2>2, <2>3, FS_CardinalityType, FS_EmptySet
  <2>5. s[k] = t[p]
    BY <1>4
  <2> HIDE DEF k
  <2>6. k \in 1..Len(s)
    BY <1>3, <1>4, <2>3, <2>4
  <2>7. Append(s, e)[k] = s[k] /\ Append(t, e)[p] = t[p]
    BY <1>1, <2>6
  <2> QED
    BY <2>1, <2>5, <2>7 DEF k
<1>7. Append(s, e)[Cardinality(more \cap 1..last)] = Append(t, e)[last]
  <2>1. more \cap 1..last = more
    BY <1>1
  <2>2. Append(s, e)[Len(s) + 1] = e /\ Append(t, e)[last] = e
    OBVIOUS
  <2> QED
    BY <1>3, <1>4, <2>1, <2>2
<1> HIDE DEF last
<1>8. Selects(Append(t, e), more, Append(s, e))
  BY <1>5, <1>6, <1>7 DEF Selects
<1> QED
  BY <1>8 DEF last

(***************************************************************************)
(* An element.  Without a throwing_sink the loop goes on after an error,   *)
(* but the position is in refused then, and no child has it that ought not *)
(* to.                                                                     *)
(***************************************************************************)
LEMMA CopyElementKeeps == CopyInv /\ CopyElement => CopyInv'
<1> SUFFICES ASSUME CopyInv, CopyElement PROVE CopyInv'
  OBVIOUS
<1>0. PICK e : e = Head(Get(source).out)
  OBVIOUS
<1>1. PICK r \in SinkAppend(throwing, children, e) :
        /\ children' = r.children
        /\ copying' = IF r.result = "exception" THEN "threw" ELSE "loop"
        /\ refused' = refused \cup (IF r.result = "success" THEN {} ELSE {Len(taken')})
  BY <1>0 DEF CopyElement
<1>2. taken' = Append(taken, e) /\ copying = "loop" /\ throwing' = throwing
  BY <1>0 DEF CopyElement
<1>3. PICK S0 : Sequences(S0)
  BY DEF CopyInv, CopyTypes
<1> DEFINE S == S0 \cup {e}
<1>4. taken \in Seq(S) /\ children \in Seq(Child(S)) /\ e \in S
  <2>1. Child(S0) \subseteq Child(S)
    <3>1. \A s \in Seq(S0) : s \in Seq(S)
      BY Wider
    <3> QED
      BY <3>1 DEF Child
  <2>2. taken \in Seq(S)
    BY <1>3, Wider DEF Sequences
  <2>3. children \in Seq(Child(S))
    BY <1>3, <2>1, Wider DEF Sequences
  <2> QED
    BY <2>2, <2>3
<1> HIDE DEF S
<1>5. throwing \in BOOLEAN
  BY DEF CopyInv, CopyTypes
<1>6. /\ children' \in Seq(Child(S)) /\ DOMAIN children' = DOMAIN children
      /\ \A i \in DOMAIN children : Asked(children[i], children'[i], e)
      /\ r.result = "success" =>
           \A i \in DOMAIN children : Succeeded(children[i], children'[i], e)
      /\ throwing /\ r.result # "success" => r.result = "exception"
  BY <1>1, <1>4, <1>5, SinkAsked
<1>7. /\ Len(taken) \in Nat /\ DOMAIN taken = 1..Len(taken)
      /\ taken' \in Seq(S) /\ Len(taken') = Len(taken) + 1
      /\ DOMAIN taken' = DOMAIN taken \cup {Len(taken) + 1}
      /\ taken' # <<>> /\ Front(taken') = taken
  <2>1. SubSeq(Append(taken, e), 1, Len(Append(taken, e)) - 1) = taken
    BY <1>4
  <2> QED
    BY <1>2, <1>4, <2>1 DEF Front
<1>8. \A i \in DOMAIN children : children[i] \in Child(S)
  BY <1>4
<1>9. CopyTypes'
  <2>1. Sequences(S)'
    BY <1>6, <1>7 DEF Sequences
  <2>2. (\E T : Sequences(T))'
    BY <2>1
  <2>3. copying' \in {"loop", "threw"}
    BY <1>1
  <2> QED
    BY <1>2, <1>5, <2>2, <2>3 DEF CopyTypes
<1>10. \A i \in DOMAIN children : Drops(children[i]) => Drops(children'[i])
  BY <1>6 DEF Drops, Asked
<1>11. NoHoles'
  <2> SUFFICES ASSUME throwing, NEW i \in DOMAIN children
               PROVE  \/ Drops(children'[i])
                      \/ children'[i].received = taken'
                      \/ copying' = "threw" /\ taken' # <<>>
                                            /\ children'[i].received = Front(taken')
    BY <1>2, <1>6 DEF NoHoles, Drops
  <2>1. Drops(children[i]) \/ children[i].received = taken
    BY <1>2 DEF CopyInv, NoHoles
  <2>2. CASE Drops(children[i])
    BY <1>10, <2>2
  <2>3. CASE children[i].received = taken /\ Took(children[i], children'[i], e)
    BY <1>2, <2>3 DEF Took
  <2>4. CASE children[i].received = taken /\ children'[i].received = children[i].received
    <3>1. CASE r.result = "success"
      BY <1>2, <1>6, <2>3, <2>4, <3>1 DEF Succeeded
    <3>2. CASE r.result # "success"
      BY <1>1, <1>6, <1>7, <2>4, <3>2
    <3> QED
      BY <3>1, <3>2
  <2> QED
    BY <1>6, <2>1, <2>2, <2>3, <2>4 DEF Asked
<1>12. LossesAreReported'
  <2> SUFFICES ASSUME NEW i \in DOMAIN children
               PROVE  \E positions \in SUBSET DOMAIN taken' :
                        /\ Selects(taken', positions, children'[i].received)
                        /\ Drops(children'[i]) \/ DOMAIN taken' \ positions \subseteq refused'
    BY <1>6 DEF LossesAreReported, Drops
  <2>1. PICK ps \in SUBSET DOMAIN taken :
          /\ Selects(taken, ps, children[i].received)
          /\ Drops(children[i]) \/ DOMAIN taken \ ps \subseteq refused
    BY DEF CopyInv, LossesAreReported
  <2>2. children[i].received \in Seq(S)
    BY <1>8 DEF Child
  <2>3. CASE Took(children[i], children'[i], e)
    <3>1. Selects(taken', ps \cup {Len(taken) + 1}, children'[i].received)
      BY <1>2, <1>4, <2>1, <2>2, <2>3, SelectsNew DEF Took
    <3>2. Drops(children'[i]) \/ DOMAIN taken' \ (ps \cup {Len(taken) + 1}) \subseteq refused'
      BY <1>1, <1>7, <1>10, <2>1
    <3>3. ps \cup {Len(taken) + 1} \in SUBSET DOMAIN taken'
      BY <1>7
    <3> QED
      BY <3>1, <3>2, <3>3
  <2>4. CASE children'[i].received = children[i].received /\ ~Took(children[i], children'[i], e)
    <3>1. Selects(taken', ps, children'[i].received)
      BY <1>2, <1>4, <2>1, <2>2, <2>4, SelectsOld
    <3>2. Drops(children'[i]) \/ DOMAIN taken' \ ps \subseteq refused'
      <4>1. CASE r.result = "success"
        BY <1>6, <2>4, <4>1 DEF Succeeded
      <4>2. CASE r.result # "success"
        BY <1>1, <1>7, <1>10, <2>1, <4>2
      <4> QED
        BY <4>1, <4>2
    <3>3. ps \in SUBSET DOMAIN taken'
      BY <1>7
    <3> QED
      BY <3>1, <3>2, <3>3
  <2> QED
    BY <1>6, <2>3, <2>4 DEF Asked
<1> QED
  BY <1>9, <1>11, <1>12 DEF CopyInv

-----------------------------------------------------------------------------
(* Si::copy.                                                               *)

LEMMA StreamStepKeeps == CopyInv /\ [StreamNext]_streamVars => CopyInv'
<1> SUFFICES ASSUME CopyInv, [StreamNext]_streamVars PROVE CopyInv'
  OBVIOUS
<1>1. CASE \E size \in 0..MaxSize :
             CallMapNext(size) \/ CallCopyNext(size) \/ CallSkip(size) \/ AsyncGet(size)
  <2>1. UNCHANGED sinkVars
    BY <1>1 DEF CallMapNext, CallCopyNext, CallSkip, AsyncGet
  <2> QED
    BY <2>1, OthersKeep DEF sinkVars
<1>2. CASE CopyReturns \/ CopyThrows
  BY <1>2, OthersKeep DEF CopyReturns, CopyThrows
<1>3. CASE UNCHANGED streamVars
  BY <1>3, OthersKeep DEF streamVars
<1> QED
  BY <1>1, <1>2, <1>3, StartCopyKeeps, CopyElementKeeps DEF StreamNext

(* Whatever a child of the multi_sink lacks was reported by an append(),   *)
(* and what it has it has once and in order (copy.hpp, multi_sink.hpp).    *)
THEOREM LossesCorrect == StreamSpec => []LossesAreReported
<1> QED
  BY StreamInitHolds, StreamStepKeeps, InvImplies, PTL DEF StreamSpec

(* With throwing_sink around the multi_sink the children have all of what  *)
(* came from the source, but for the last element after an exception.      *)
THEOREM ThrowingCorrect == StreamSpec => []ThrowingSinkLeavesNoHoles
<1> QED
  BY StreamInitHolds, StreamStepKeeps, InvImplies, PTL DEF StreamSpec

==============================================================================
