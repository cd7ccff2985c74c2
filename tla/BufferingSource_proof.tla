------------------------ MODULE BufferingSource_proof ------------------------
(***************************************************************************)
(* Proofs about the buffering source: its types, that no default element   *)
(* is handed to a caller unless a read has thrown, that an empty map_next  *)
(* means the end of the stream, and that every element comes out once and  *)
(* in order.                                                               *)
(***************************************************************************)
EXTENDS BufferingSource, SequenceTheorems, TLAPS

USE CapacityAssumption, StreamAssumption, SizeAssumption, ThrowsAssumption

-----------------------------------------------------------------------------
(* The inductive invariant.                                                *)

(***************************************************************************)
(* Which call waits where, and what the ring looks like meanwhile: pull()  *)
(* works on a ring of full size, and reads its second part only behind a   *)
(* filled first part.                                                      *)
(***************************************************************************)
Shape ==
  /\ control = "idle" <=> call = "none"
  /\ control = "rest" => call = "copy_next"
  /\ control = "one" => Len(ring) = Capacity
  /\ control = "two" => Len(ring) = Capacity /\ got = SizeOne

(* As long as no read has thrown, the received elements are 1, 2, 3, ... *)
ReceivedInOrder ==
  \A i \in 1..Len(received) : received[i] = i

(* The first n cells of the ring continue them, up to what was read. *)
RingContinues(n) ==
  /\ Len(received) + n = taken
  /\ \A i \in 1..n : ring[i] = Len(received) + i

Order ==
  throws = 0 =>
    /\ ReceivedInOrder
    /\ control \in {"idle", "rest"} => RingContinues(Len(ring))
    /\ control = "one" => RingContinues(0)
    /\ control = "two" => RingContinues(got)

IInv == TypeOK /\ Shape /\ Order

-----------------------------------------------------------------------------
(* Facts about the pieces calls put together.                              *)

(* The end of the ring behind its first n elements. *)
LEMMA BehindFacts ==
  ASSUME TypeOK, NEW n \in 0..Len(ring)
  PROVE  /\ Behind(n) \in Seq(Cells)
         /\ Len(Behind(n)) = Len(ring) - n
         /\ \A i \in 1 .. Len(ring) - n : Behind(n)[i] = ring[n + i]
<1>1. ring \in Seq(Cells) /\ Len(ring) \in Nat
  BY LenProperties DEF TypeOK
<1>2. \A i \in n + 1 .. Len(ring) : ring[i] \in Cells
  BY <1>1, ElementOfSeq
<1> QED
  BY <1>1, <1>2, SubSeqProperties DEF Behind

(* The first n elements of the ring. *)
LEMMA FrontFacts ==
  ASSUME TypeOK, NEW n \in 0..Len(ring)
  PROVE  /\ Front(n) \in Seq(Cells)
         /\ Len(Front(n)) = n
         /\ \A i \in 1..n : Front(n)[i] = ring[i]
<1>1. ring \in Seq(Cells) /\ Len(ring) \in Nat
  BY LenProperties DEF TypeOK
<1>2. \A i \in 1..n : ring[i] \in Cells
  BY <1>1, ElementOfSeq
<1> QED
  BY <1>1, <1>2, SubSeqProperties DEF Front

(* What a read that returns can have read. *)
LEMMA FreshFacts ==
  ASSUME TypeOK, NEW n \in Nat, NEW k \in Readable(n)
  PROVE  /\ k \in Nat /\ k <= n /\ taken + k <= arrived
         /\ Fresh(k) \in Seq(Cells)
         /\ Len(Fresh(k)) = k
         /\ \A i \in 1..k : Fresh(k)[i] = taken + i
         /\ k = 0 => n = 0 \/ (ended /\ taken = arrived)
<1>1. /\ k \in Nat /\ k <= n /\ taken + k <= arrived
      /\ k = 0 => n = 0 \/ (ended /\ taken = arrived)
  BY DEF TypeOK, Readable, Least
<1>2. \A i \in 1..k : taken + i \in Cells
  BY <1>1 DEF TypeOK, Cells, Blank
<1> QED
  BY <1>1, <1>2 DEF Fresh

(* A row of default elements. *)
LEMMA BlankFacts ==
  ASSUME NEW n \in Nat
  PROVE  Blanks(n) \in Seq(Cells) /\ Len(Blanks(n)) = n
<1>1. Blank \in Cells
  BY DEF Cells, Blank
<1> QED
  BY <1>1 DEF Blanks

(* Appending to what callers received. *)
LEMMA Appended ==
  ASSUME NEW s \in Seq(Cells), NEW t \in Seq(Cells)
  PROVE  /\ s \o t \in Seq(Cells)
         /\ Len(s \o t) = Len(s) + Len(t)
         /\ Len(s) \in Nat /\ Len(t) \in Nat
         /\ \A i \in 1 .. Len(s) + Len(t) :
              (s \o t)[i] = IF i <= Len(s) THEN s[i] ELSE t[i - Len(s)]
BY ConcatProperties, LenProperties

(* The same, with the second part counted from its own beginning. *)
Joins(s, t, m, n) ==
  /\ s \o t \in Seq(Cells)
  /\ Len(s \o t) = m + n
  /\ \A i \in 1..m : (s \o t)[i] = s[i]
  /\ \A i \in 1..n : (s \o t)[m + i] = t[i]

LEMMA Joined ==
  ASSUME NEW s \in Seq(Cells), NEW t \in Seq(Cells),
         NEW m \in Nat, NEW n \in Nat, Len(s) = m, Len(t) = n
  PROVE  Joins(s, t, m, n)
<1>1. /\ s \o t \in Seq(Cells)
      /\ Len(s \o t) = m + n
      /\ \A i \in 1 .. m + n : (s \o t)[i] = IF i <= m THEN s[i] ELSE t[i - m]
  BY Appended
<1>2. \A i \in 1..m : (s \o t)[i] = s[i]
  BY <1>1
<1>3. ASSUME NEW i \in 1..n PROVE (s \o t)[m + i] = t[i]
  <2>1. m + i \in 1 .. m + n /\ ~(m + i <= m) /\ (m + i) - m = i
    OBVIOUS
  <2> QED
    BY <1>1, <2>1
<1> QED
  BY <1>1, <1>2, <1>3 DEF Joins

(***************************************************************************)
(* When callers receive elements that continue what they have, all they    *)
(* have is still 1, 2, 3, ...                                              *)
(***************************************************************************)
LEMMA ReceiveMore ==
  ASSUME TypeOK, ReceivedInOrder, NEW t \in Seq(Cells),
         received' = received \o t,
         \A i \in 1..Len(t) : t[i] = Len(received) + i
  PROVE  ReceivedInOrder'
<1>1. received \in Seq(Cells)
  BY DEF TypeOK
<1>2. /\ Len(received') = Len(received) + Len(t)
      /\ Len(received) \in Nat /\ Len(t) \in Nat
      /\ \A i \in 1 .. Len(received) + Len(t) :
           received'[i] = IF i <= Len(received) THEN received[i] ELSE t[i - Len(received)]
  BY <1>1, Appended
<1>3. ASSUME NEW i \in 1 .. Len(received) + Len(t)
      PROVE  received'[i] = i
  <2>1. CASE i <= Len(received)
    BY <1>2, <2>1 DEF ReceivedInOrder
  <2>2. CASE i > Len(received)
    <3>1. i - Len(received) \in 1..Len(t)
      BY <1>2, <2>2
    <3> QED
      BY <1>2, <2>2, <3>1
  <2> QED
    BY <1>2, <2>1, <2>2
<1> QED
  BY <1>2, <1>3 DEF ReceivedInOrder

-----------------------------------------------------------------------------
(* The invariant holds initially and after every step.                     *)

LEMMA InitInvariant == Init => IInv
<1> SUFFICES ASSUME Init PROVE IInv
  OBVIOUS
<1>1. /\ ring \in Seq(Cells) /\ Len(ring) = 0
      /\ received \in Seq(Cells) /\ Len(received) = 0
  BY EmptySeq DEF Init
<1>2. TypeOK
  <2>1. ended \in BOOLEAN
    BY DEF Init
  <2>2. first \in 0 .. Capacity - 1 /\ taken \in 0..arrived
    BY DEF Init
  <2>3. wanted \in 0..MaxSize /\ got \in 0..Capacity /\ arrived \in 0..StreamLength
    BY DEF Init
  <2>4. throws \in 0..MaxThrows /\ Len(ring) <= Capacity
    BY <1>1 DEF Init
  <2>5. control \in {"idle", "one", "two", "rest"} /\ call \in {"none", "map_next", "copy_next"}
    BY DEF Init
  <2> QED
    BY <1>1, <2>1, <2>2, <2>3, <2>4, <2>5 DEF TypeOK
<1>3. Shape
  BY DEF Init, Shape
<1>4. Order
  BY <1>1 DEF Init, Order, ReceivedInOrder, RingContinues
<1> QED
  BY <1>2, <1>3, <1>4 DEF IInv

(* Steps that change neither the ring nor the histories. *)
LEMMA QuietKeeps ==
  ASSUME IInv, UNCHANGED <<ring, first, control, call, got, taken, throws, received>>
  PROVE  Shape' /\ Order'
<1>1. Shape'
  BY DEF IInv, Shape, SizeOne
<1>2. ReceivedInOrder' = ReceivedInOrder
  BY DEF ReceivedInOrder
<1>3. \A n : RingContinues(n)' = RingContinues(n)
  BY DEF RingContinues
<1>4. /\ RingContinues(Len(ring))' = RingContinues(Len(ring))
      /\ RingContinues(0)' = RingContinues(0)
      /\ RingContinues(got)' = RingContinues(got)
  BY DEF RingContinues
<1>5. Order'
  BY <1>2, <1>4 DEF IInv, Order
<1> QED
  BY <1>1, <1>5

(* The stream moves. *)
LEMMA StreamKeeps ==
  ASSUME IInv, Arrive \/ End
  PROVE  IInv'
<1>1. TypeOK'
  <2>1. arrived' \in 0..StreamLength /\ taken' \in 0..arrived'
    BY DEF IInv, TypeOK, Arrive, End
  <2>2. ended' \in BOOLEAN
    BY DEF IInv, TypeOK, Arrive, End
  <2>3. UNCHANGED <<ring, first, control, call, wanted, got, throws, received>>
    BY DEF Arrive, End
  <2> QED
    BY <2>1, <2>2, <2>3 DEF IInv, TypeOK
<1>2. Shape' /\ Order'
  BY QuietKeeps DEF Arrive, End
<1> QED
  BY <1>1, <1>2 DEF IInv

(* A call of map_next or copy_next begins. *)
LEMMA CallKeeps ==
  ASSUME IInv, NEW n \in 1..MaxSize, MapNext(n) \/ CopyNext(n)
  PROVE  IInv'
<1>1. CASE ring = <<>> /\ StartPull
  <2>1. ring' \in Seq(Cells) /\ Len(ring') = Capacity /\ Len(ring) = 0
    BY <1>1, BlankFacts, EmptySeq DEF StartPull
  <2>2. UNCHANGED <<first, got, arrived, taken, ended, throws, received>>
    BY DEF MapNext, CopyNext, stream
  <2>3. control = "idle" /\ control' = "one" /\ call' \in {"map_next", "copy_next"} /\ wanted' = n
    BY <1>1 DEF MapNext, CopyNext, StartPull
  <2> QED
    BY <2>1, <2>2, <2>3
       DEF IInv, TypeOK, Shape, Order, ReceivedInOrder, RingContinues
<1>2. CASE AskForRest /\ UNCHANGED ring
  <2>1. UNCHANGED <<ring, first, got, arrived, taken, ended, throws, received>>
    BY <1>2 DEF MapNext, CopyNext, stream
  <2>2. control = "idle" /\ control' = "rest" /\ call' = "copy_next" /\ wanted' = n
    BY <1>2 DEF MapNext, CopyNext, AskForRest, StartPull
  <2> QED
    BY <2>1, <2>2
       DEF IInv, TypeOK, Shape, Order, ReceivedInOrder, RingContinues
<1> QED
  BY <1>1, <1>2 DEF MapNext, CopyNext

LEMMA SkipKeeps ==
  ASSUME IInv, NEW count \in 1..MaxSize, Skip(count)
  PROVE  IInv'
<1> USE DEF IInv
<1> DEFINE n == Least(count, Len(ring))
<1>1. n \in 0..Len(ring) /\ Len(ring) \in Nat /\ ring \in Seq(Cells)
  BY LenProperties DEF TypeOK, Least
<1> HIDE DEF n
<1>2. /\ ring' = Behind(n)
      /\ first' = (first + n) % Capacity
      /\ received' = received \o Front(n)
  BY DEF Skip, EraseBegin, n
<1>3. UNCHANGED <<control, call, wanted, got, arrived, taken, ended, throws>> /\ control = "idle"
  BY DEF Skip, stream
<1>4. /\ ring' \in Seq(Cells) /\ Len(ring') = Len(ring) - n
      /\ \A i \in 1 .. Len(ring) - n : ring'[i] = ring[n + i]
  BY <1>1, <1>2, BehindFacts
<1>5. /\ Front(n) \in Seq(Cells) /\ Len(Front(n)) = n
      /\ \A i \in 1..n : Front(n)[i] = ring[i]
  BY <1>1, FrontFacts
<1>6. received \in Seq(Cells) /\ Len(received) \in Nat
  BY LenProperties DEF TypeOK
<1>7. received' \in Seq(Cells) /\ Len(received') = Len(received) + n
  BY <1>2, <1>5, <1>6, Appended
<1>8. TypeOK'
  BY <1>1, <1>2, <1>3, <1>4, <1>7 DEF TypeOK
<1>9. Shape'
  BY <1>3 DEF Shape
<1>10. ASSUME throws = 0 PROVE ReceivedInOrder' /\ RingContinues(Len(ring))'
  <2>1. /\ ReceivedInOrder
        /\ Len(received) + Len(ring) = taken
        /\ \A i \in 1..Len(ring) : ring[i] = Len(received) + i
    BY <1>3, <1>10 DEF Order, RingContinues
  <2>2. \A i \in 1..n : Front(n)[i] = Len(received) + i
    BY <1>1, <1>5, <2>1
  <2>3. ReceivedInOrder'
    BY <1>2, <1>5, <2>1, <2>2, ReceiveMore
  <2>4. Len(received') + Len(ring') = taken'
    BY <1>1, <1>3, <1>4, <1>6, <1>7, <2>1
  <2>5. ASSUME NEW i \in 1 .. Len(ring')
        PROVE  ring'[i] = Len(received') + i
    <3>1. n + i \in 1..Len(ring) /\ i \in 1 .. Len(ring) - n
      BY <1>1, <1>4
    <3> QED
      BY <1>1, <1>4, <1>6, <1>7, <2>1, <3>1
  <2> QED
    BY <2>3, <2>4, <2>5 DEF RingContinues
<1> QED
  BY <1>3, <1>8, <1>9, <1>10 DEF Order

(* The end of a pull() that read `content` in all. *)
LEMMA PullKeeps ==
  ASSUME IInv, control \in {"one", "two"},
         NEW content \in Seq(Cells), Len(content) <= Capacity,
         FinishPull(content),
         taken' \in 0..arrived,
         UNCHANGED <<first, arrived, ended, throws, received>>,
         throws = 0 => /\ Len(received) + Len(content) = taken'
                       /\ \A i \in 1..Len(content) : content[i] = Len(received) + i
  PROVE  IInv'
<1>1. /\ control' \in {"idle", "rest"}
      /\ control' = "idle" <=> call' = "none"
      /\ control' = "rest" => call' = "copy_next"
      /\ call' \in {"none", "map_next", "copy_next"}
      /\ wanted' \in 0..MaxSize
      /\ got' = 0
      /\ ring' = content
  BY DEF FinishPull, AskForRest, IInv, TypeOK, Shape
<1>2. TypeOK'
  BY <1>1 DEF IInv, TypeOK
<1>3. Shape'
  BY <1>1 DEF Shape
<1>4. ASSUME throws = 0 PROVE ReceivedInOrder' /\ RingContinues(Len(ring))'
  <2>1. ReceivedInOrder
    BY <1>4 DEF IInv, Order
  <2> QED
    BY <1>1, <1>4, <2>1 DEF ReceivedInOrder, RingContinues
<1>5. Order'
  BY <1>1, <1>4 DEF Order
<1> QED
  BY <1>2, <1>3, <1>5 DEF IInv

LEMMA ReadOneKeeps ==
  ASSUME IInv, ReadOne
  PROVE  IInv'
<1> USE DEF IInv
<1>1. SizeOne \in 1..Capacity /\ SizeTwo \in Nat /\ SizeOne + SizeTwo = Capacity
  BY DEF TypeOK, SizeOne, SizeTwo
<1>2. PICK k \in Readable(SizeOne) :
        /\ taken' = taken + k
        /\ IF k = SizeOne
             THEN /\ ring' = Fresh(k) \o Blanks(SizeTwo)
                  /\ control' = "two"
                  /\ got' = k
                  /\ UNCHANGED <<call, wanted>>
             ELSE FinishPull(Fresh(k))
  BY DEF ReadOne
<1>3. /\ k \in Nat /\ k <= SizeOne /\ taken + k <= arrived
      /\ Fresh(k) \in Seq(Cells)
      /\ Len(Fresh(k)) = k
      /\ \A i \in 1..k : Fresh(k)[i] = taken + i
  BY <1>1, <1>2, FreshFacts
<1>4. control = "one" /\ UNCHANGED <<first, arrived, ended, throws, received>>
  BY DEF ReadOne
<1>5. taken \in Nat /\ arrived \in Nat /\ Len(received) \in Nat
  BY LenProperties DEF TypeOK
<1>6. throws = 0 => Len(received) = taken /\ ReceivedInOrder
  BY <1>4, <1>5 DEF Order, RingContinues
<1>7. CASE k = SizeOne
  <2>1. Blanks(SizeTwo) \in Seq(Cells) /\ Len(Blanks(SizeTwo)) = SizeTwo
    BY <1>1, BlankFacts
  <2>2. /\ ring' \in Seq(Cells) /\ Len(ring') = Capacity
        /\ \A i \in 1..k : ring'[i] = taken + i
    <3>a. Joins(Fresh(k), Blanks(SizeTwo), k, SizeTwo)
      BY <1>1, <1>3, <2>1, Joined
    <3>1. /\ Fresh(k) \o Blanks(SizeTwo) \in Seq(Cells)
          /\ Len(Fresh(k) \o Blanks(SizeTwo)) = k + SizeTwo
          /\ \A i \in 1..k : (Fresh(k) \o Blanks(SizeTwo))[i] = Fresh(k)[i]
      BY <3>a DEF Joins
    <3>2. ring' = Fresh(k) \o Blanks(SizeTwo)
      BY <1>2, <1>7
    <3> QED
      BY <1>1, <1>3, <1>7, <3>1, <3>2
  <2>3. control' = "two" /\ got' = k /\ UNCHANGED <<call, wanted>>
    BY <1>2, <1>7
  <2>4. TypeOK'
    BY <1>1, <1>2, <1>3, <1>4, <1>5, <1>7, <2>2, <2>3 DEF TypeOK
  <2>5. Shape'
    BY <1>4, <1>7, <2>2, <2>3 DEF Shape, SizeOne
  <2>6. ASSUME throws = 0 PROVE ReceivedInOrder' /\ RingContinues(got)'
    BY <1>2, <1>3, <1>4, <1>5, <1>6, <2>2, <2>3, <2>6 DEF ReceivedInOrder, RingContinues
  <2>7. Order'
    BY <1>4, <2>3, <2>6 DEF Order
  <2> QED
    BY <2>4, <2>5, <2>7
<1>8. CASE k # SizeOne
  <2>1. FinishPull(Fresh(k)) /\ k <= Capacity /\ taken' \in 0..arrived
    BY <1>1, <1>2, <1>3, <1>5, <1>8
  <2>2. throws = 0 => /\ Len(received) + k = taken'
                      /\ \A i \in 1..k : Fresh(k)[i] = Len(received) + i
    BY <1>2, <1>3, <1>6
  <2> QED
    BY <1>3, <1>4, <2>1, <2>2, PullKeeps
<1> QED
  BY <1>7, <1>8

LEMMA ReadTwoKeeps ==
  ASSUME IInv, ReadTwo
  PROVE  IInv'
<1> USE DEF IInv
<1>1. control = "two" /\ UNCHANGED <<first, arrived, ended, throws, received>>
  BY DEF ReadTwo
<1>2. /\ SizeTwo \in Nat /\ got \in 1..Capacity /\ Len(ring) = Capacity
      /\ got + SizeTwo = Capacity
  BY <1>1 DEF TypeOK, Shape, SizeOne, SizeTwo
<1>3. PICK k \in Readable(SizeTwo) :
        taken' = taken + k /\ FinishPull(Front(got) \o Fresh(k))
  BY DEF ReadTwo
<1>4. /\ k \in Nat /\ k <= SizeTwo /\ taken + k <= arrived
      /\ Fresh(k) \in Seq(Cells)
      /\ Len(Fresh(k)) = k
      /\ \A i \in 1..k : Fresh(k)[i] = taken + i
  BY <1>2, <1>3, FreshFacts
<1>5. /\ Front(got) \in Seq(Cells)
      /\ Len(Front(got)) = got
      /\ \A i \in 1..got : Front(got)[i] = ring[i]
  <2>1. got \in 0..Len(ring)
    BY <1>2
  <2> QED
    BY <2>1, FrontFacts
<1>6. taken \in Nat /\ arrived \in Nat /\ Len(received) \in Nat
  BY LenProperties DEF TypeOK
<1> DEFINE content == Front(got) \o Fresh(k)
<1>7. /\ content \in Seq(Cells)
      /\ Len(content) = got + k
      /\ \A i \in 1..got : content[i] = ring[i]
      /\ \A i \in 1..k : content[got + i] = taken + i
  <2>a. got \in Nat
    BY <1>2
  <2>b. Joins(Front(got), Fresh(k), got, k)
    BY <1>4, <1>5, <2>a, Joined
  <2>1. /\ content \in Seq(Cells)
        /\ Len(content) = got + k
        /\ \A i \in 1..got : content[i] = Front(got)[i]
        /\ \A i \in 1..k : content[got + i] = Fresh(k)[i]
    BY <2>b DEF Joins
  <2> QED
    BY <1>4, <1>5, <2>1
<1> HIDE DEF content
<1>8. FinishPull(content)
  BY <1>3 DEF content
<1>9. throws = 0 => /\ Len(received) + Len(content) = taken'
                    /\ \A i \in 1..Len(content) : content[i] = Len(received) + i
  <2> SUFFICES ASSUME throws = 0
               PROVE  /\ Len(received) + Len(content) = taken'
                      /\ \A i \in 1..Len(content) : content[i] = Len(received) + i
    OBVIOUS
  <2>1. /\ Len(received) + got = taken
        /\ \A i \in 1..got : ring[i] = Len(received) + i
    BY <1>1 DEF Order, RingContinues
  <2>2. Len(received) + Len(content) = taken'
    <3>1. Len(content) = got + k /\ taken' = taken + k
      BY <1>3, <1>7
    <3>2. got \in Nat /\ k \in Nat /\ Len(received) \in Nat /\ Len(received) + got = taken
      BY <1>2, <1>4, <1>6, <2>1
    <3> QED
      BY <3>1, <3>2
  <2>3. ASSUME NEW i \in 1 .. got + k
        PROVE  content[i] = Len(received) + i
    <3>1. CASE i <= got
      BY <1>2, <1>7, <2>1, <3>1
    <3>2. CASE i > got
      <4> DEFINE j == i - got
      <4>1. j \in 1..k /\ i = got + j
        BY <1>2, <1>4, <3>2
      <4> HIDE DEF j
      <4>2. content[got + j] = taken + j
        BY <1>7, <4>1
      <4> QED
        BY <1>2, <1>4, <1>6, <2>1, <4>1, <4>2
    <3> QED
      BY <1>2, <1>4, <3>1, <3>2
  <2> QED
    BY <1>7, <2>2, <2>3
<1>10. Len(content) <= Capacity /\ taken' \in 0..arrived
  BY <1>2, <1>3, <1>4, <1>6, <1>7
<1> QED
  BY <1>1, <1>7, <1>8, <1>9, <1>10, PullKeeps

LEMMA ReadRestKeeps ==
  ASSUME IInv, ReadRest
  PROVE  IInv'
<1> USE DEF IInv
<1> DEFINE f == Least(wanted, Len(ring))
<1>1. /\ f \in 0..Len(ring) /\ f \in Nat /\ Len(ring) \in Nat /\ Len(ring) <= Capacity
      /\ wanted \in Nat /\ wanted - f \in Nat
      /\ wanted - f # 0 => f = Len(ring)
  BY LenProperties DEF TypeOK, Least
<1>2. PICK k \in Readable(wanted - f) :
        /\ taken' = taken + k
        /\ received' = received \o (Front(f) \o Fresh(k))
  BY DEF ReadRest
<1>3. /\ ring' = Behind(f)
      /\ first' = (first + f) % Capacity
      /\ control = "rest" /\ control' = "idle" /\ call' = "none" /\ wanted' = 0 /\ got' = 0
      /\ UNCHANGED <<arrived, ended, throws>>
  BY DEF ReadRest, EraseBegin, Return
<1> HIDE DEF f
<1>4. /\ k \in Nat /\ k <= wanted - f /\ taken + k <= arrived
      /\ Fresh(k) \in Seq(Cells)
      /\ Len(Fresh(k)) = k
      /\ \A i \in 1..k : Fresh(k)[i] = taken + i
  BY <1>1, <1>2, FreshFacts
<1>5. /\ ring' \in Seq(Cells) /\ Len(ring') = Len(ring) - f
      /\ \A i \in 1 .. Len(ring) - f : ring'[i] = ring[f + i]
  BY <1>1, <1>3, BehindFacts
<1>6. /\ Front(f) \in Seq(Cells) /\ Len(Front(f)) = f
      /\ \A i \in 1..f : Front(f)[i] = ring[i]
  BY <1>1, FrontFacts
<1> DEFINE more == Front(f) \o Fresh(k)
<1>7. /\ more \in Seq(Cells) /\ Len(more) = f + k
      /\ \A i \in 1..f : more[i] = ring[i]
      /\ \A i \in 1..k : more[f + i] = taken + i
  <2>1. /\ more \in Seq(Cells)
        /\ Len(more) = f + k
        /\ \A i \in 1..f : more[i] = Front(f)[i]
        /\ \A i \in 1..k : more[f + i] = Fresh(k)[i]
    <3>1. f \in Nat /\ k \in Nat
      BY <1>1, <1>4
    <3>2. Front(f) \in Seq(Cells) /\ Fresh(k) \in Seq(Cells)
      BY <1>4, <1>6
    <3>3. Len(Front(f)) = f /\ Len(Fresh(k)) = k
      BY <1>4, <1>6
    <3>4. Joins(Front(f), Fresh(k), f, k)
      BY <3>1, <3>2, <3>3, Joined
    <3> QED
      BY <3>4 DEF Joins
  <2> QED
    BY <1>4, <1>6, <2>1
<1>8. received' = received \o more
  BY <1>2
<1> HIDE DEF more
<1>9. /\ received \in Seq(Cells) /\ Len(received) \in Nat
      /\ taken \in Nat /\ arrived \in Nat
  BY LenProperties DEF TypeOK
<1>10. received' \in Seq(Cells) /\ Len(received') = Len(received) + (f + k)
  BY <1>7, <1>8, <1>9, Appended
<1>11. TypeOK'
  <2>1. first' \in 0 .. Capacity - 1
    BY <1>1, <1>3 DEF TypeOK
  <2>2. taken' \in 0..arrived'
    BY <1>2, <1>3, <1>4, <1>9
  <2> QED
    BY <1>1, <1>3, <1>5, <1>10, <2>1, <2>2 DEF TypeOK
<1>12. Shape'
  BY <1>3 DEF Shape
<1>13. ASSUME throws = 0 PROVE ReceivedInOrder' /\ RingContinues(Len(ring))'
  <2>1. /\ ReceivedInOrder
        /\ Len(received) + Len(ring) = taken
        /\ \A i \in 1..Len(ring) : ring[i] = Len(received) + i
    BY <1>3, <1>13 DEF Order, RingContinues
  <2>2. k # 0 => f = Len(ring)
    BY <1>1, <1>4
  <2>3. ASSUME NEW i \in 1..Len(more)
        PROVE  more[i] = Len(received) + i
    <3>1. CASE i <= f
      BY <1>1, <1>7, <2>1, <3>1
    <3>2. CASE i > f
      <4> DEFINE j == i - f
      <4>1. j \in 1..k /\ i = f + j /\ k # 0
        BY <1>1, <1>4, <1>7, <3>2
      <4> HIDE DEF j
      <4>2. more[f + j] = taken + j
        BY <1>7, <4>1
      <4>3. taken = Len(received) + f
        BY <2>1, <2>2, <4>1
      <4> QED
        BY <1>1, <1>9, <4>1, <4>2, <4>3
    <3> QED
      BY <1>1, <1>4, <1>7, <3>1, <3>2
  <2>4. ReceivedInOrder'
    BY <1>7, <1>8, <2>1, <2>3, ReceiveMore
  <2>5. Len(received') + Len(ring') = taken'
    <3>1. /\ Len(received') = Len(received) + (f + k)
          /\ Len(ring') = Len(ring) - f
          /\ taken' = taken + k
      BY <1>2, <1>5, <1>10
    <3> QED
      BY <1>1, <1>4, <1>9, <2>1, <3>1
  <2>6. ASSUME NEW i \in 1..Len(ring')
        PROVE  ring'[i] = Len(received') + i
    <3>1. i \in 1 .. Len(ring) - f /\ f + i \in 1..Len(ring) /\ f # Len(ring)
      BY <1>1, <1>5
    <3>2. k = 0 /\ Len(received') = Len(received) + f
      BY <1>1, <1>4, <1>9, <1>10, <2>2, <3>1
    <3>3. ring'[i] = Len(received) + (f + i)
      BY <1>5, <2>1, <3>1
    <3> QED
      BY <1>1, <1>9, <3>1, <3>2, <3>3
  <2> QED
    BY <2>4, <2>5, <2>6 DEF RingContinues
<1> QED
  BY <1>3, <1>11, <1>12, <1>13 DEF Order

LEMMA ThrowKeeps ==
  ASSUME IInv, Throw
  PROVE  IInv'
<1>1. /\ throws' = throws + 1 /\ throws < MaxThrows
      /\ control' = "idle" /\ call' = "none" /\ wanted' = 0 /\ got' = 0
      /\ UNCHANGED <<ring, first, arrived, taken, ended, received>>
  BY DEF Throw, Return, stream
<1>2. throws' \in 0..MaxThrows /\ throws' # 0
  BY <1>1 DEF IInv, TypeOK
<1>3. TypeOK'
  BY <1>1, <1>2 DEF IInv, TypeOK
<1>4. Shape' /\ Order'
  BY <1>1, <1>2 DEF Shape, Order
<1> QED
  BY <1>3, <1>4 DEF IInv

LEMMA StutterKeeps ==
  ASSUME IInv, UNCHANGED vars
  PROVE  IInv'
<1>1. TypeOK'
  BY DEF IInv, TypeOK, vars
<1>2. Shape' /\ Order'
  BY QuietKeeps DEF vars
<1> QED
  BY <1>1, <1>2 DEF IInv

(* The invariant is inductive. *)
LEMMA StepInvariant == IInv /\ [Next]_vars => IInv'
BY StreamKeeps, CallKeeps, SkipKeeps, ReadOneKeeps, ReadTwoKeeps, ReadRestKeeps,
   ThrowKeeps, StutterKeeps DEF Next

THEOREM InvariantHolds == Spec => []IInv
BY InitInvariant, StepInvariant, PTL DEF Spec

-----------------------------------------------------------------------------

(* The state of the source has its types in every reachable state. *)
THEOREM TypeCorrect == Spec => []TypeOK
<1>1. IInv => TypeOK
  BY DEF IInv
<1> QED
  BY <1>1, InvariantHolds, PTL

(***************************************************************************)
(* For every capacity and every stream: as long as no read has thrown,     *)
(* callers get no default element, and the ring they see holds none.       *)
(***************************************************************************)
THEOREM NothingMadeUpCorrect == Spec => []NothingMadeUp
<1>1. IInv => NothingMadeUp
  <2> SUFFICES ASSUME IInv, throws = 0
               PROVE  /\ \A i \in 1..Len(received) : received[i] # Blank
                      /\ control \in {"idle", "rest"} =>
                           \A i \in 1..Len(ring) : ring[i] # Blank
    BY DEF NothingMadeUp
  <2>1. Len(received) \in Nat /\ Len(ring) \in Nat
    BY LenProperties DEF IInv, TypeOK
  <2>2. \A i \in 1..Len(received) : received[i] # Blank
    BY <2>1 DEF IInv, Order, ReceivedInOrder, Blank
  <2>3. control \in {"idle", "rest"} => \A i \in 1..Len(ring) : ring[i] # Blank
    BY <2>1 DEF IInv, Order, RingContinues, Blank
  <2> QED
    BY <2>2, <2>3
<1> QED
  BY <1>1, InvariantHolds, PTL

(***************************************************************************)
(* For every capacity: a map_next that shows nothing was called at the end *)
(* of the stream, so the iterator that stops there stops rightly.          *)
(***************************************************************************)
THEOREM EmptyMeansEndCorrect == Spec => EmptyMeansEnd
<1> DEFINE Step == call = "map_next" /\ control' = "idle" /\ throws' = throws /\ ring' = <<>>
                   => ended' /\ taken' = arrived'
<1>1. IInv /\ [Next]_vars => [Step]_vars
  <2> SUFFICES ASSUME IInv, Next, call = "map_next", control' = "idle",
                      throws' = throws, ring' = <<>>
               PROVE  ended' /\ taken' = arrived'
    BY DEF vars
  <2> USE DEF IInv
  <2>1. control # "idle" /\ control # "rest"
    BY DEF Shape
  <2>2. ASSUME ReadOne PROVE ended' /\ taken' = arrived'
    <3>1. SizeOne \in Nat /\ SizeOne # 0
      BY DEF TypeOK, SizeOne
    <3>2. PICK k \in Readable(SizeOne) :
            taken' = taken + k /\ (control' # "two" => ring' = Fresh(k))
      BY <2>2 DEF ReadOne, FinishPull
    <3>3. /\ k = 0 => ended /\ taken = arrived
          /\ k \in Nat /\ Len(Fresh(k)) = k
      BY <3>1, <3>2, FreshFacts
    <3>4. k = 0
      BY <3>2, <3>3, EmptySeq
    <3>5. taken \in Nat
      BY DEF TypeOK
    <3> QED
      BY <2>2, <3>2, <3>3, <3>4, <3>5 DEF ReadOne
  <2>3. ASSUME ReadTwo PROVE FALSE
    <3>1. /\ SizeTwo \in Nat /\ got \in 1..Capacity /\ got \in 0..Len(ring)
      BY <2>3 DEF ReadTwo, TypeOK, Shape, SizeOne, SizeTwo
    <3>2. PICK k \in Readable(SizeTwo) : ring' = Front(got) \o Fresh(k)
      BY <2>3 DEF ReadTwo, FinishPull
    <3>3. Front(got) \in Seq(Cells) /\ Len(Front(got)) = got
      BY <3>1, FrontFacts
    <3>4. Fresh(k) \in Seq(Cells) /\ k \in Nat /\ Len(Fresh(k)) = k
      BY <3>1, <3>2, FreshFacts
    <3>5. Len(ring') = got + k
      BY <3>2, <3>3, <3>4, Appended
    <3> QED
      BY <3>1, <3>4, <3>5, EmptySeq
  <2>4. ASSUME Arrive \/ End PROVE FALSE
    BY <2>1, <2>4 DEF Arrive, End
  <2>5. ASSUME NEW n \in 1..MaxSize, MapNext(n) \/ CopyNext(n) \/ Skip(n) PROVE FALSE
    BY <2>1, <2>5 DEF MapNext, CopyNext, Skip
  <2>6. ASSUME ReadRest PROVE FALSE
    BY <2>1, <2>6 DEF ReadRest
  <2>7. ASSUME Throw PROVE FALSE
    BY <2>7 DEF Throw, TypeOK
  <2> QED
    BY <2>2, <2>3, <2>4, <2>5, <2>6, <2>7 DEF Next
<1> QED
  BY <1>1, InvariantHolds, PTL DEF Spec, EmptyMeansEnd

-----------------------------------------------------------------------------
(* Every element once and in order.                                        *)

(***************************************************************************)
(* Some cells hold the first n elements of the stream, and default ones.   *)
(***************************************************************************)
Complete(cells, n) == InOrder(cells) /\ Elements(cells) = 1..n

(* The next elements come behind them. *)
LEMMA CompleteWithMore ==
  ASSUME NEW s \in Seq(Cells), NEW t \in Seq(Cells), NEW n \in Nat, NEW k \in Nat,
         Len(t) = k, \A i \in 1..k : t[i] = n + i,
         Complete(s, n)
  PROVE  Complete(s \o t, n + k)
<1> DEFINE u == s \o t
           m == Len(s)
<1>1. m \in Nat /\ \A i \in 1..m : s[i] \in Int
  BY LenProperties, ElementOfSeq DEF Cells, Blank
<1>2. /\ Len(u) = m + k
      /\ \A i \in 1..m : u[i] = s[i]
      /\ \A i \in 1..k : u[m + i] = n + i
  <2>1. /\ Len(u) = m + k
        /\ \A i \in 1..m : u[i] = s[i]
        /\ \A i \in 1..k : u[m + i] = t[i]
    BY <1>1, Joined DEF Joins
  <2> QED
    BY <2>1
<1>3. /\ \A i, j \in 1..m : i < j /\ s[i] # Blank /\ s[j] # Blank => s[i] < s[j]
      /\ \A i \in 1..m : s[i] # Blank => s[i] \in 1..n
      /\ \A e \in 1..n : \E i \in 1..m : s[i] = e
  BY DEF Complete, InOrder, Elements
<1> HIDE DEF u, m
<1>4. \A i \in 1 .. m + k :
        \/ i \in 1..m /\ u[i] = s[i]
        \/ i \notin 1..m /\ i - m \in 1..k /\ u[i] = n + (i - m)
  <2> SUFFICES ASSUME NEW i \in 1 .. m + k, i \notin 1..m
               PROVE  i - m \in 1..k /\ u[i] = n + (i - m)
    BY <1>2
  <2>1. i - m \in 1..k /\ m + (i - m) = i
    BY <1>1
  <2> QED
    BY <1>2, <2>1
<1>5. \A i, j \in 1 .. m + k : i < j /\ u[i] # Blank /\ u[j] # Blank => u[i] < u[j]
  <2> SUFFICES ASSUME NEW i \in 1 .. m + k, NEW j \in 1 .. m + k, i < j,
                      u[i] # Blank, u[j] # Blank
               PROVE  u[i] < u[j]
    OBVIOUS
  <2>1. CASE j \in 1..m
    <3>1. i \in 1..m
      BY <1>1, <2>1
    <3> QED
      BY <1>2, <1>3, <2>1, <3>1
  <2>2. CASE j \notin 1..m /\ i \in 1..m
    <3>1. u[i] \in 1..n
      BY <1>2, <1>3, <2>2
    <3>2. j - m \in 1..k /\ u[j] = n + (j - m)
      BY <1>4, <2>2
    <3> QED
      BY <3>1, <3>2
  <2>3. CASE j \notin 1..m /\ i \notin 1..m
    <3>1. u[i] = n + (i - m) /\ u[j] = n + (j - m)
      BY <1>4, <2>3
    <3> QED
      BY <1>1, <3>1
  <2> QED
    BY <2>1, <2>2, <2>3
<1>6. ASSUME NEW i \in 1 .. m + k, u[i] # Blank
      PROVE  u[i] \in 1 .. n + k
  <2>1. CASE i \in 1..m
    <3>1. u[i] \in 1..n
      BY <1>2, <1>3, <1>6, <2>1
    <3> QED
      BY <3>1
  <2>2. CASE i \notin 1..m
    <3>1. i - m \in 1..k /\ u[i] = n + (i - m)
      BY <1>4, <2>2
    <3> QED
      BY <3>1
  <2> QED
    BY <2>1, <2>2
<1>7. ASSUME NEW e \in 1 .. n + k
      PROVE  \E i \in 1 .. m + k : u[i] = e
  <2>1. CASE e \in 1..n
    <3>1. PICK i \in 1..m : s[i] = e
      BY <1>3, <2>1
    <3>2. i \in 1 .. m + k /\ u[i] = e
      BY <1>1, <1>2, <3>1
    <3> QED
      BY <3>2
  <2>2. CASE e \notin 1..n
    <3> DEFINE i == e - n
    <3>1. i \in 1..k /\ n + i = e
      BY <2>2
    <3> HIDE DEF i
    <3>2. u[m + i] = e
      BY <1>2, <3>1
    <3>3. m + i \in 1 .. m + k
      BY <1>1, <3>1
    <3> QED
      BY <3>2, <3>3
  <2> QED
    BY <2>1, <2>2
<1>8. Blank \notin 1 .. n + k
  BY DEF Blank
<1>9. InOrder(u)
  BY <1>2, <1>5 DEF InOrder
<1>10. Elements(u) = 1 .. n + k
  <2>1. \A e \in Elements(u) : e \in 1 .. n + k
    BY <1>2, <1>6 DEF Elements
  <2>2. \A e \in 1 .. n + k : e \in Elements(u)
    BY <1>2, <1>7, <1>8 DEF Elements
  <2> QED
    BY <2>1, <2>2
<1> QED
  BY <1>9, <1>10 DEF Complete, u

(* Default elements come behind them. *)
LEMMA CompleteWithBlanks ==
  ASSUME NEW s \in Seq(Cells), NEW t \in Seq(Cells), NEW n \in Nat,
         \A i \in 1..Len(t) : t[i] = Blank,
         Complete(s, n)
  PROVE  Complete(s \o t, n)
<1> DEFINE u == s \o t
           m == Len(s)
           k == Len(t)
<1>1. /\ m \in Nat /\ k \in Nat /\ Len(u) = m + k
      /\ \A i \in 1..m : u[i] = s[i]
      /\ \A i \in 1..k : u[m + i] = t[i]
  BY LenProperties, Joined DEF Joins
<1>2. \A i \in 1..k : t[i] = Blank
  OBVIOUS
<1> HIDE DEF u, m, k
<1>3. \A i \in 1 .. m + k : i \in 1..m \/ u[i] = Blank
  <2> SUFFICES ASSUME NEW i \in 1 .. m + k, i \notin 1..m
               PROVE  u[i] = Blank
    OBVIOUS
  <2>1. i - m \in 1..k /\ m + (i - m) = i
    BY <1>1
  <2> QED
    BY <1>1, <1>2, <2>1
<1>4. InOrder(s) /\ Elements(s) = 1..n
  BY DEF Complete
<1>5. InOrder(u)
  <2>1. \A i, j \in 1..m : i < j /\ s[i] # Blank /\ s[j] # Blank => s[i] < s[j]
    BY <1>4 DEF InOrder, m
  <2>2. \A i, j \in 1 .. m + k : i < j /\ u[i] # Blank /\ u[j] # Blank => u[i] < u[j]
    BY <1>1, <1>3, <2>1
  <2> QED
    BY <1>1, <2>2 DEF InOrder
<1>6. Elements(u) = Elements(s)
  <2>1. \A i \in 1..m : i \in 1 .. m + k
    BY <1>1
  <2>2. {u[i] : i \in 1 .. m + k} \ {Blank} = {s[i] : i \in 1..m} \ {Blank}
    BY <1>1, <1>3, <2>1
  <2> QED
    BY <1>1, <2>2 DEF Elements, m
<1> QED
  BY <1>4, <1>5, <1>6 DEF Complete, u

(* No element of the stream is a default one. *)
LEMMA NothingIsComplete == Complete(<<>>, 0)
<1>1. Len(<<>>) = 0 /\ 1..0 = {}
  BY EmptySeq
<1> QED
  BY <1>1 DEF Complete, InOrder, Elements

(* Three sequences in a row. *)
Associates(p, q, r) == (p \o q) \o r = p \o (q \o r)

LEMMA Associative ==
  ASSUME NEW p \in Seq(Cells), NEW q \in Seq(Cells), NEW r \in Seq(Cells)
  PROVE  Associates(p, q, r)
BY DEF Associates

(* The ring is what is before a place in it and what is behind it. *)
LEMMA CutRing ==
  ASSUME TypeOK, NEW n \in 0..Len(ring)
  PROVE  Front(n) \o Behind(n) = ring
<1>1. ring \in Seq(Cells) /\ Len(ring) \in Nat
  BY LenProperties DEF TypeOK
<1>2. /\ 1 \in 1 .. Len(ring) + 1 /\ n \in 1 - 1 .. Len(ring)
      /\ Len(ring) \in n..Len(ring)
  BY <1>1
<1>3. SubSeq(ring, 1, n) \o SubSeq(ring, n + 1, Len(ring)) = SubSeq(ring, 1, Len(ring))
  BY <1>1, <1>2, ConcatAdjacentSubSeq
<1>4. SubSeq(ring, 1, Len(ring)) = ring
  BY <1>1, SubSeqFull
<1> QED
  BY <1>3, <1>4 DEF Front, Behind

(* A read of nothing. *)
LEMMA FreshNone == Fresh(0) = <<>>
BY DEF Fresh

(***************************************************************************)
(* While pull() waits, part of the ring is only space for the read: what   *)
(* there is of the stream is in front of that space, and the space is      *)
(* blank.  A read that throws turns the space into cells that are kept.    *)
(***************************************************************************)
Kept ==
  IF control = "one" THEN <<>> ELSE IF control = "two" THEN Front(got) ELSE ring

Content == received \o Kept

SpaceIsBlank ==
  /\ control = "one" => \A i \in 1..Len(ring) : ring[i] = Blank
  /\ control = "two" => \A i \in got + 1 .. Len(ring) : ring[i] = Blank

Delivered == IInv /\ SpaceIsBlank /\ Complete(Content, taken)

(* The types of the parts, and where the ring comes from. *)
LEMMA KeptFacts ==
  ASSUME Delivered
  PROVE  /\ received \in Seq(Cells) /\ ring \in Seq(Cells) /\ Content \in Seq(Cells)
         /\ taken \in Nat /\ Len(ring) \in Nat
         /\ control = "two" => got \in 0..Len(ring) /\ got \in Nat
         /\ Kept \in Seq(Cells)
<1>1. /\ received \in Seq(Cells) /\ ring \in Seq(Cells)
      /\ taken \in Nat /\ Len(ring) \in Nat
  BY LenProperties DEF Delivered, IInv, TypeOK
<1>2. control = "two" => got \in 0..Len(ring) /\ got \in Nat
  BY DEF Delivered, IInv, TypeOK, Shape
<1>3. control = "two" => Front(got) \in Seq(Cells)
  BY <1>2, FrontFacts DEF Delivered, IInv
<1>4. Kept \in Seq(Cells)
  BY <1>1, <1>3, EmptySeq DEF Kept
<1>5. Content \in Seq(Cells)
  BY <1>1, <1>4, ConcatProperties DEF Content
<1> QED
  BY <1>1, <1>2, <1>4, <1>5

(* Callers' elements and the whole ring, with the space for a read. *)
LEMMA AllComplete ==
  ASSUME Delivered
  PROVE  Complete(received \o ring, taken)
<1>1. /\ received \in Seq(Cells) /\ ring \in Seq(Cells) /\ taken \in Nat
      /\ Content \in Seq(Cells) /\ Len(ring) \in Nat
      /\ Complete(Content, taken) /\ SpaceIsBlank
  BY KeptFacts DEF Delivered
<1>2. CASE control = "one"
  <2>1. Content = received
    BY <1>1, <1>2, ConcatEmptySeq DEF Content, Kept
  <2>2. \A i \in 1..Len(ring) : ring[i] = Blank
    BY <1>1, <1>2 DEF SpaceIsBlank
  <2> QED
    BY <1>1, <2>1, <2>2, CompleteWithBlanks
<1>3. CASE control = "two"
  <2>1. got \in 0..Len(ring) /\ got \in Nat
    BY <1>3, KeptFacts
  <2>2. TypeOK
    BY DEF Delivered, IInv
  <2>3. /\ Behind(got) \in Seq(Cells)
        /\ Len(Behind(got)) = Len(ring) - got
        /\ \A i \in 1 .. Len(ring) - got : Behind(got)[i] = ring[got + i]
    BY <2>1, <2>2, BehindFacts
  <2>4. \A i \in 1..Len(Behind(got)) : Behind(got)[i] = Blank
    <3> SUFFICES ASSUME NEW i \in 1 .. Len(ring) - got
                 PROVE  ring[got + i] = Blank
      BY <2>3
    <3>1. got + i \in got + 1 .. Len(ring)
      BY <1>1, <2>1
    <3> QED
      BY <1>1, <1>3, <3>1 DEF SpaceIsBlank
  <2>5. Front(got) \in Seq(Cells) /\ Front(got) \o Behind(got) = ring
    BY <2>1, <2>2, FrontFacts, CutRing
  <2>6. Content = received \o Front(got)
    BY <1>3 DEF Content, Kept
  <2>7. Associates(received, Front(got), Behind(got))
    BY <1>1, <2>3, <2>5, Associative
  <2>8. received \o ring = Content \o Behind(got)
    BY <2>5, <2>6, <2>7 DEF Associates
  <2>9. Complete(Content \o Behind(got), taken)
    BY <1>1, <2>3, <2>4, CompleteWithBlanks
  <2> QED
    BY <2>8, <2>9
<1>4. CASE control \notin {"one", "two"}
  BY <1>1, <1>4 DEF Content, Kept
<1> QED
  BY <1>2, <1>3, <1>4

(* The next elements of the stream come behind what there is of it. *)
LEMMA ReadMore ==
  ASSUME Delivered, NEW n \in Nat, NEW k \in Readable(n)
  PROVE  Complete(Content \o Fresh(k), taken + k)
<1>1. /\ k \in Nat /\ Fresh(k) \in Seq(Cells) /\ Len(Fresh(k)) = k
      /\ \A i \in 1..k : Fresh(k)[i] = taken + i
  BY FreshFacts DEF Delivered, IInv
<1>2. Content \in Seq(Cells) /\ taken \in Nat /\ Complete(Content, taken)
  BY KeptFacts DEF Delivered
<1> QED
  BY <1>1, <1>2, CompleteWithMore

(* Steps that leave the ring and the histories alone. *)
LEMMA QuietDelivers ==
  ASSUME Delivered, IInv', UNCHANGED <<ring, control, got, taken, received>>
  PROVE  Delivered'
<1>1. Content' = Content
  BY DEF Content, Kept, Front
<1>2. Complete(Content', taken')
  BY <1>1 DEF Delivered
<1>3. SpaceIsBlank'
  BY DEF Delivered, SpaceIsBlank
<1> QED
  BY <1>2, <1>3 DEF Delivered

(* Steps behind which no pull() waits. *)
LEMMA IdleDelivers ==
  ASSUME IInv', control' \in {"idle", "rest"}, Complete((received \o ring)', taken')
  PROVE  Delivered'
<1>1. Content' = (received \o ring)'
  BY DEF Content, Kept
<1>2. SpaceIsBlank'
  BY DEF SpaceIsBlank
<1>3. Complete(Content', taken')
  BY <1>1
<1> QED
  BY <1>2, <1>3 DEF Delivered

LEMMA CallDelivers ==
  ASSUME Delivered, IInv', NEW n \in 1..MaxSize, MapNext(n) \/ CopyNext(n)
  PROVE  Delivered'
<1>1. control = "idle" /\ UNCHANGED <<taken, received>>
  BY DEF MapNext, CopyNext, stream
<1>2. received \in Seq(Cells) /\ Content = received \o ring
  BY <1>1, KeptFacts DEF Content, Kept
<1>3. CASE ring = <<>> /\ StartPull
  <2>1. ring' = Blanks(Capacity) /\ control' = "one"
    BY <1>3 DEF StartPull
  <2>2. SpaceIsBlank'
    <3>1. \A i \in 1..Len(Blanks(Capacity)) : Blanks(Capacity)[i] = Blank
      BY BlankFacts DEF Blanks
    <3> QED
      BY <2>1, <3>1 DEF SpaceIsBlank
  <2>3. Content' = received /\ Content = received
    BY <1>1, <1>2, <1>3, <2>1, ConcatEmptySeq DEF Content, Kept
  <2>4. Complete(Content', taken')
    BY <1>1, <2>3 DEF Delivered
  <2> QED
    BY <2>2, <2>4 DEF Delivered
<1>4. CASE AskForRest /\ UNCHANGED ring
  <2>1. control' = "rest"
    BY <1>4 DEF AskForRest
  <2>2. (received \o ring)' = Content /\ taken' = taken
    BY <1>1, <1>2, <1>4
  <2> QED
    BY <2>1, <2>2, IdleDelivers DEF Delivered
<1> QED
  BY <1>3, <1>4 DEF MapNext, CopyNext

LEMMA SkipDelivers ==
  ASSUME Delivered, IInv', NEW count \in 1..MaxSize, Skip(count)
  PROVE  Delivered'
<1> DEFINE n == Least(count, Len(ring))
<1>1. TypeOK /\ received \in Seq(Cells) /\ Len(ring) \in Nat
  BY KeptFacts DEF Delivered, IInv
<1>2. n \in 0..Len(ring)
  BY <1>1 DEF Least
<1> HIDE DEF n
<1>3. received' = received \o Front(n) /\ ring' = Behind(n)
  BY DEF Skip, EraseBegin, n
<1>4. control = "idle" /\ control' = "idle" /\ taken' = taken
  BY DEF Skip, stream
<1>5. /\ Front(n) \in Seq(Cells) /\ Behind(n) \in Seq(Cells)
      /\ Front(n) \o Behind(n) = ring
  BY <1>1, <1>2, FrontFacts, BehindFacts, CutRing
<1>6. Associates(received, Front(n), Behind(n))
  BY <1>1, <1>5, Associative
<1>7. (received \o ring)' = received \o ring
  BY <1>3, <1>5, <1>6 DEF Associates
<1>8. Complete(received \o ring, taken)
  BY AllComplete
<1> QED
  BY <1>4, <1>7, <1>8, IdleDelivers

LEMMA ReadOneDelivers ==
  ASSUME Delivered, IInv', ReadOne
  PROVE  Delivered'
<1>1. SizeOne \in 1..Capacity /\ SizeTwo \in Nat
  BY DEF Delivered, IInv, TypeOK, SizeOne, SizeTwo
<1>2. control = "one" /\ received' = received
  BY DEF ReadOne
<1>3. PICK k \in Readable(SizeOne) :
        /\ taken' = taken + k
        /\ IF k = SizeOne
             THEN ring' = Fresh(k) \o Blanks(SizeTwo) /\ control' = "two" /\ got' = k
             ELSE FinishPull(Fresh(k))
  BY DEF ReadOne
<1>4. received \in Seq(Cells) /\ Content = received
  BY <1>2, KeptFacts, ConcatEmptySeq DEF Content, Kept
<1>5. Complete(received \o Fresh(k), taken')
  BY <1>1, <1>3, <1>4, ReadMore
<1>6. /\ k \in Nat /\ Fresh(k) \in Seq(Cells) /\ Len(Fresh(k)) = k
  BY <1>1, <1>3, FreshFacts DEF Delivered, IInv
<1>7. CASE k = SizeOne
  <2> DEFINE f == Fresh(k)
             b == Blanks(SizeTwo)
  <2>1. ring' = f \o b /\ control' = "two" /\ got' = k
    BY <1>3, <1>7
  <2>2. b \in Seq(Cells) /\ Len(b) = SizeTwo /\ \A i \in 1..SizeTwo : b[i] = Blank
    BY <1>1, BlankFacts DEF Blanks
  <2>3. f \in Seq(Cells) /\ Len(f) = k
    BY <1>6
  <2> HIDE DEF f, b
  <2>4. Joins(f, b, k, SizeTwo)
    BY <1>1, <1>6, <2>2, <2>3, Joined
  <2>5. Front(got)' = f
    <3>1. SubSeq(f \o b, 1, Len(f)) = f
      BY <2>2, <2>3
    <3> QED
      BY <2>1, <2>3, <3>1 DEF Front
  <2>6. Content' = received \o f
    BY <1>2, <2>1, <2>5 DEF Content, Kept
  <2>7. Complete(Content', taken')
    BY <1>5, <2>6 DEF f
  <2>8. \A i \in k + 1 .. k + SizeTwo : (f \o b)[i] = Blank
    <3> SUFFICES ASSUME NEW i \in k + 1 .. k + SizeTwo
                 PROVE  (f \o b)[i] = Blank
      OBVIOUS
    <3>1. i - k \in 1..SizeTwo /\ k + (i - k) = i
      BY <1>1, <1>6
    <3>2. (f \o b)[k + (i - k)] = b[i - k]
      BY <2>4, <3>1 DEF Joins
    <3> QED
      BY <2>2, <3>1, <3>2
  <2>9. SpaceIsBlank'
    <3>1. Len(f \o b) = k + SizeTwo
      BY <2>4 DEF Joins
    <3> QED
      BY <2>1, <2>8, <3>1 DEF SpaceIsBlank
  <2> QED
    BY <2>7, <2>9 DEF Delivered
<1>8. CASE k # SizeOne
  <2>1. ring' = Fresh(k) /\ control' \in {"idle", "rest"}
    BY <1>3, <1>8 DEF FinishPull, AskForRest
  <2>2. (received \o ring)' = received \o Fresh(k)
    BY <1>2, <2>1
  <2> QED
    BY <1>5, <2>1, <2>2, IdleDelivers
<1> QED
  BY <1>7, <1>8

LEMMA ReadTwoDelivers ==
  ASSUME Delivered, IInv', ReadTwo
  PROVE  Delivered'
<1>1. control = "two" /\ received' = received /\ SizeTwo \in Nat
  BY DEF ReadTwo, Delivered, IInv, TypeOK, SizeTwo
<1>2. PICK k \in Readable(SizeTwo) :
        taken' = taken + k /\ FinishPull(Front(got) \o Fresh(k))
  BY DEF ReadTwo
<1>3. ring' = Front(got) \o Fresh(k) /\ control' \in {"idle", "rest"}
  BY <1>2 DEF FinishPull, AskForRest
<1>4. received \in Seq(Cells) /\ Kept \in Seq(Cells) /\ Kept = Front(got)
  BY <1>1, KeptFacts DEF Kept
<1>5. Fresh(k) \in Seq(Cells)
  BY <1>1, <1>2, FreshFacts DEF Delivered, IInv
<1>6. Associates(received, Kept, Fresh(k))
  BY <1>4, <1>5, Associative
<1>7. (received \o ring)' = Content \o Fresh(k)
  BY <1>1, <1>3, <1>4, <1>6 DEF Associates, Content
<1>8. Complete(Content \o Fresh(k), taken')
  BY <1>1, <1>2, ReadMore
<1> QED
  BY <1>3, <1>7, <1>8, IdleDelivers

LEMMA ReadRestDelivers ==
  ASSUME Delivered, IInv', ReadRest
  PROVE  Delivered'
<1> DEFINE f == Least(wanted, Len(ring))
<1>1. /\ TypeOK /\ received \in Seq(Cells) /\ ring \in Seq(Cells) /\ Len(ring) \in Nat
      /\ taken \in Nat
  BY KeptFacts DEF Delivered, IInv
<1>2. f \in 0..Len(ring) /\ wanted - f \in Nat /\ (wanted - f # 0 => f = Len(ring))
  BY <1>1 DEF TypeOK, Least
<1>3. PICK k \in Readable(wanted - f) :
        /\ taken' = taken + k
        /\ received' = received \o (Front(f) \o Fresh(k))
  BY DEF ReadRest
<1>4. control = "rest" /\ control' = "idle" /\ ring' = Behind(f)
  BY DEF ReadRest, EraseBegin, Return
<1> HIDE DEF f
<1>5. Content = received \o ring
  BY <1>4 DEF Content, Kept
<1>6. /\ Front(f) \in Seq(Cells) /\ Behind(f) \in Seq(Cells)
      /\ Front(f) \o Behind(f) = ring /\ Len(Behind(f)) = Len(ring) - f
  BY <1>1, <1>2, FrontFacts, BehindFacts, CutRing
<1>7. k \in Nat /\ k <= wanted - f /\ Fresh(k) \in Seq(Cells)
  BY <1>1, <1>2, <1>3, FreshFacts
<1>8. Complete(Content \o Fresh(k), taken')
  BY <1>2, <1>3, ReadMore
<1>9. CASE k = 0
  <2>1. Front(f) \o Fresh(k) = Front(f)
    BY <1>6, <1>9, FreshNone, ConcatEmptySeq
  <2>2. Associates(received, Front(f), Behind(f))
    BY <1>1, <1>6, Associative
  <2>3. (received \o ring)' = received \o ring
    BY <1>3, <1>4, <1>6, <2>1, <2>2 DEF Associates
  <2>4. taken' = taken
    BY <1>1, <1>3, <1>9
  <2>5. Complete(received \o ring, taken)
    BY AllComplete
  <2> QED
    BY <1>4, <2>3, <2>4, <2>5, IdleDelivers
<1>10. CASE k # 0
  <2>1. f = Len(ring)
    BY <1>2, <1>7, <1>10
  <2>2. Behind(f) = <<>>
    BY <1>1, <1>6, <2>1, EmptySeq
  <2>3. Front(f) = ring
    BY <1>6, <2>2, ConcatEmptySeq
  <2>4. Associates(received, ring, Fresh(k))
    BY <1>1, <1>7, Associative
  <2>5. received' = Content \o Fresh(k)
    BY <1>3, <1>5, <2>3, <2>4 DEF Associates
  <2>6. Content \o Fresh(k) \in Seq(Cells)
    BY <1>7, KeptFacts, ConcatProperties
  <2>7. (received \o ring)' = Content \o Fresh(k)
    BY <1>4, <2>2, <2>5, <2>6, ConcatEmptySeq
  <2> QED
    BY <1>4, <1>8, <2>7, IdleDelivers
<1> QED
  BY <1>9, <1>10

(* A read throws: the space that it was to fill is part of the ring now. *)
LEMMA ThrowDelivers ==
  ASSUME Delivered, IInv', Throw
  PROVE  Delivered'
<1>1. control' = "idle" /\ UNCHANGED <<ring, taken, received>>
  BY DEF Throw, Return, stream
<1>2. Complete(received \o ring, taken)
  BY AllComplete
<1> QED
  BY <1>1, <1>2, IdleDelivers

LEMMA InitDelivered == Init => Delivered
<1> SUFFICES ASSUME Init PROVE Delivered
  OBVIOUS
<1>1. IInv
  BY InitInvariant
<1>2. Content = <<>> /\ taken = 0
  <2>1. received = <<>> /\ Kept = <<>>
    BY DEF Init, Kept
  <2>2. \A s \in Seq(Cells) : s \o <<>> = s
    BY ConcatEmptySeq
  <2> QED
    BY <2>1, <2>2, EmptySeq DEF Init, Content
<1>3. SpaceIsBlank
  BY DEF Init, SpaceIsBlank
<1>4. Complete(Content, taken)
  BY <1>2, NothingIsComplete
<1> QED
  BY <1>1, <1>3, <1>4 DEF Delivered

LEMMA StepDelivered == Delivered /\ [Next]_vars => Delivered'
<1> SUFFICES ASSUME Delivered, [Next]_vars PROVE Delivered'
  OBVIOUS
<1>1. IInv'
  BY StepInvariant DEF Delivered
<1>2. ASSUME Arrive \/ End \/ UNCHANGED vars PROVE Delivered'
  <2>1. UNCHANGED <<ring, control, got, taken, received>>
    BY <1>2 DEF Arrive, End, vars
  <2> QED
    BY <1>1, <2>1, QuietDelivers
<1>3. ASSUME NEW n \in 1..MaxSize, MapNext(n) \/ CopyNext(n) PROVE Delivered'
  BY <1>1, <1>3, CallDelivers
<1>4. ASSUME NEW n \in 1..MaxSize, Skip(n) PROVE Delivered'
  BY <1>1, <1>4, SkipDelivers
<1>5. ASSUME ReadOne \/ ReadTwo \/ ReadRest \/ Throw PROVE Delivered'
  BY <1>1, <1>5, ReadOneDelivers, ReadTwoDelivers, ReadRestDelivers, ThrowDelivers
<1> QED
  BY <1>2, <1>3, <1>4, <1>5 DEF Next

(***************************************************************************)
(* For every capacity, stream and mixture of calls, whatever reads throw:  *)
(* what callers got, followed by the ring, is what was read of the stream, *)
(* each element once and in order.                                         *)
(***************************************************************************)
THEOREM EveryElementOnceInOrderCorrect == Spec => []EveryElementOnceInOrder
<1>1. Delivered => EveryElementOnceInOrder
  BY AllComplete DEF Complete, EveryElementOnceInOrder
<1> QED
  BY <1>1, InitDelivered, StepDelivered, PTL DEF Spec

==============================================================================
