--------------------------- MODULE BufferingSource ---------------------------
(***************************************************************************)
(* Si::buffering_source (source/buffering_source.hpp): a ring of Capacity  *)
(* elements in front of another source.  map_next() shows the elements at  *)
(* the front of the ring, skip() drops them, copy_next() moves them out    *)
(* and reads what is missing from the other source.  An empty ring is      *)
(* filled by pull() with at most two reads, one per contiguous part of the *)
(* ring.                                                                   *)
(*                                                                         *)
(* The other source (external; in examples/hellohttp.cpp a socket read     *)
(* inside a coroutine) delivers the elements 1, 2, 3, ... of a stream.  A  *)
(* read waits until something has arrived or the stream has ended, may be  *)
(* short, and may throw, so a call of the buffer is not one step: control  *)
(* says which read of the other source it is waiting for.                  *)
(***************************************************************************)
EXTENDS Integers, Sequences

CONSTANTS
  Capacity,      \* m_buffer.capacity()
  StreamLength,  \* bound: elements the stream can deliver
  MaxSize,       \* bound: largest size a caller asks for
  MaxThrows      \* bound: reads of the other source that throw (0: it never does)

ASSUME CapacityAssumption == Capacity \in Nat \ {0}
ASSUME StreamAssumption == StreamLength \in Nat
ASSUME SizeAssumption == MaxSize \in Nat \ {0}
ASSUME ThrowsAssumption == MaxThrows \in Nat

Blank == 0       \* the default-constructed element resize() fills with

VARIABLES
  ring,      \* m_buffer, from begin() to end()
  first,     \* index of the slot that begin() is, or would be, stored in
  control,   \* "idle", or the read the call waits in: "one", "two", "rest"
  call,      \* the member function being executed, or "none"
  wanted,    \* its size, or the number of elements in its destination
  got,       \* elements array_one was filled with
  arrived,   \* elements that reached the other source
  taken,     \* elements the other source has handed out
  ended,     \* no element will arrive any more
  throws,    \* reads that have thrown
  received   \* history: what callers skipped or got copied, in order

vars == <<ring, first, control, call, wanted, got,
          arrived, taken, ended, throws, received>>

stream == <<arrived, taken, ended>>

-----------------------------------------------------------------------------

Least(a, b) == IF a < b THEN a ELSE b

Blanks(n) == [i \in 1..n |-> Blank]

(* The next n elements of the stream. *)
Fresh(n) == [i \in 1..n |-> taken + i]

Front(n) == SubSeq(ring, 1, n)

(* The ring without its first n elements. *)
Behind(n) == SubSeq(ring, n + 1, Len(ring))

(* boost::circular_buffer: the contiguous parts of a completely filled ring. *)
SizeOne == Capacity - first
SizeTwo == first

(* boost::circular_buffer::erase_begin: the front moves, even to an empty ring. *)
EraseBegin(n) ==
  /\ ring' = Behind(n)
  /\ first' = (first + n) % Capacity

(***************************************************************************)
(* A read of at most n elements that returns: whatever has arrived but at  *)
(* least one element, or nothing once the stream has ended, or nothing     *)
(* because nothing was asked for.                                          *)
(***************************************************************************)
Readable(n) ==
  {k \in 0 .. Least(n, arrived - taken) :
     k = 0 => n = 0 \/ (ended /\ taken = arrived)}

Init ==
  /\ ring = <<>>
  /\ first = 0
  /\ control = "idle"
  /\ call = "none"
  /\ wanted = 0
  /\ got = 0
  /\ arrived = 0 /\ taken = 0 /\ ended = FALSE
  /\ throws = 0
  /\ received = <<>>

Return ==
  /\ control' = "idle"
  /\ call' = "none"
  /\ wanted' = 0
  /\ got' = 0

-----------------------------------------------------------------------------
(* The stream behind the other source.                                     *)

Arrive ==
  /\ ~ended
  /\ arrived < StreamLength
  /\ arrived' = arrived + 1
  /\ UNCHANGED <<ring, first, control, call, wanted, got, taken, ended, throws, received>>

End ==
  /\ ~ended
  /\ ended' = TRUE
  /\ UNCHANGED <<ring, first, control, call, wanted, got, arrived, taken, throws, received>>

-----------------------------------------------------------------------------
(* Calls.                                                                  *)

(* pull() resizes the empty ring to its capacity and reads into array_one. *)
StartPull ==
  /\ ring' = Blanks(Capacity)
  /\ control' = "one"

(***************************************************************************)
(* copy_next() after a possible pull(): the destination is filled from     *)
(* the ring as far as that goes, then the other source is asked for the    *)
(* rest, also when the rest is empty.                                      *)
(***************************************************************************)
AskForRest == control' = "rest"

(* map_next(size) and map_next_mutable(size). *)
MapNext(size) ==
  /\ control = "idle"
  /\ ring = <<>>
  /\ StartPull
  /\ call' = "map_next"
  /\ wanted' = size
  /\ UNCHANGED <<first, got, stream, throws, received>>

(* copy_next(destination) with n elements of destination. *)
CopyNext(n) ==
  /\ control = "idle"
  /\ IF ring = <<>> /\ n < Capacity
       THEN StartPull
       ELSE AskForRest /\ UNCHANGED ring
  /\ call' = "copy_next"
  /\ wanted' = n
  /\ UNCHANGED <<first, got, stream, throws, received>>

(* skip(count): only what is in the ring can be skipped. *)
Skip(count) ==
  /\ control = "idle"
  /\ LET n == Least(count, Len(ring))
     IN  /\ EraseBegin(n)
         /\ received' = received \o Front(n)
  /\ UNCHANGED <<control, call, wanted, got, stream, throws>>

(* Seeded bug: the ring keeps the size it had for the read. *)
FinishPullWithoutResize(content) ==
  /\ ring' = content \o Blanks(Capacity - Len(content))
  /\ got' = 0
  /\ IF call = "map_next"
       THEN control' = "idle" /\ call' = "none" /\ wanted' = 0
       ELSE AskForRest /\ UNCHANGED <<call, wanted>>

(* The end of pull(): the ring shrinks to what was read. *)
FinishPull(content) ==
  /\ ring' = content
  /\ got' = 0
  /\ IF call = "map_next"
       THEN control' = "idle" /\ call' = "none" /\ wanted' = 0
       ELSE AskForRest /\ UNCHANGED <<call, wanted>>

(***************************************************************************)
(* pull(): the read into array_one returns.  When it filled that part      *)
(* completely, array_two is read as well, empty or not.                    *)
(***************************************************************************)
ReadOne ==
  /\ control = "one"
  /\ \E k \in Readable(SizeOne) :
       /\ taken' = taken + k
       /\ IF k = SizeOne
            THEN /\ ring' = Fresh(k) \o Blanks(SizeTwo)
                 /\ control' = "two"
                 /\ got' = k
                 /\ UNCHANGED <<call, wanted>>
            ELSE FinishPull(Fresh(k))
  /\ UNCHANGED <<first, arrived, ended, throws, received>>

(* Seeded bug: the size of the second read replaces that of the first. *)
ReadTwoDropsFirst ==
  /\ control = "two"
  /\ \E k \in Readable(SizeTwo) :
       /\ taken' = taken + k
       /\ FinishPull(Fresh(k))
  /\ UNCHANGED <<first, arrived, ended, throws, received>>

(* Seeded bug: pull() insists on a full ring. *)
ReadTwoInsists ==
  /\ control = "two"
  /\ SizeTwo \in Readable(SizeTwo)
  /\ taken' = taken + SizeTwo
  /\ FinishPull(Front(got) \o Fresh(SizeTwo))
  /\ UNCHANGED <<first, arrived, ended, throws, received>>

ReadTwo ==
  /\ control = "two"
  /\ \E k \in Readable(SizeTwo) :
       /\ taken' = taken + k
       /\ FinishPull(Front(got) \o Fresh(k))
  /\ UNCHANGED <<first, arrived, ended, throws, received>>

(* Seeded bug: what was copied out of the ring stays in it. *)
ReadRestKeepsCopied ==
  /\ control = "rest"
  /\ LET fromRing == Least(wanted, Len(ring))
     IN  \E k \in Readable(wanted - fromRing) :
           /\ taken' = taken + k
           /\ received' = received \o (Front(fromRing) \o Fresh(k))
  /\ Return
  /\ UNCHANGED <<ring, first, arrived, ended, throws>>

(***************************************************************************)
(* copy_next(): the read of the rest returns, and only then the elements   *)
(* that were copied out of the ring are erased from it.                    *)
(***************************************************************************)
ReadRest ==
  /\ control = "rest"
  /\ LET fromRing == Least(wanted, Len(ring))
     IN  /\ \E k \in Readable(wanted - fromRing) :
              /\ taken' = taken + k
              /\ received' = received \o (Front(fromRing) \o Fresh(k))
         /\ EraseBegin(fromRing)
  /\ Return
  /\ UNCHANGED <<arrived, ended, throws>>

(***************************************************************************)
(* A read throws and the exception leaves the call.  Nothing restores the  *)
(* ring: after a throw inside pull() it keeps the size it was given for    *)
(* the read.  What copy_next() had copied out of the ring stays in it.     *)
(***************************************************************************)
Throw ==
  /\ throws < MaxThrows
  /\ control # "idle"
  /\ ~(control = "two" /\ SizeTwo = 0)
  /\ ~(control = "rest" /\ wanted <= Len(ring))
  /\ throws' = throws + 1
  /\ Return
  /\ UNCHANGED <<ring, first, stream, received>>

Next ==
  \/ Arrive
  \/ End
  \/ \E n \in 1..MaxSize : MapNext(n) \/ CopyNext(n) \/ Skip(n)
  \/ ReadOne
  \/ ReadTwo
  \/ ReadRest
  \/ Throw

(***************************************************************************)
(* The stream goes on or ends, and a read that can return does.  Callers   *)
(* may stop calling.                                                       *)
(***************************************************************************)
Fairness ==
  /\ WF_vars(Arrive \/ End)
  /\ WF_vars(ReadOne)
  /\ WF_vars(ReadTwo)
  /\ WF_vars(ReadRest)

Spec == Init /\ [][Next]_vars /\ Fairness

-----------------------------------------------------------------------------

Cells == Blank .. StreamLength

TypeOK ==
  /\ ring \in Seq(Cells) /\ Len(ring) <= Capacity
  /\ first \in 0 .. Capacity - 1
  /\ control \in {"idle", "one", "two", "rest"}
  /\ call \in {"none", "map_next", "copy_next"}
  /\ wanted \in 0..MaxSize
  /\ got \in 0..Capacity
  /\ arrived \in 0..StreamLength
  /\ taken \in 0..arrived
  /\ ended \in BOOLEAN
  /\ throws \in 0..MaxThrows
  /\ received \in Seq(Cells)

(* Cells between default elements are in the order of the stream. *)
InOrder(cells) ==
  \A i, j \in 1..Len(cells) :
    i < j /\ cells[i] # Blank /\ cells[j] # Blank => cells[i] < cells[j]

(* The elements of the stream in some cells. *)
Elements(cells) == {cells[i] : i \in 1..Len(cells)} \ {Blank}

(***************************************************************************)
(* Whatever mixture of map_next, copy_next and skip is called, with short  *)
(* reads and with reads that throw: the elements of the stream that        *)
(* callers got, followed by those in the ring, are the elements that were  *)
(* read, each once and in order.  This covers the erase that copy_next     *)
(* postpones until its last read has returned.                             *)
(***************************************************************************)
EveryElementOnceInOrder ==
  /\ InOrder(received \o ring)
  /\ Elements(received \o ring) = 1..taken

(***************************************************************************)
(* The default-constructed elements that pull() resizes the ring with are  *)
(* never taken for elements of the stream, unless a read has thrown.       *)
(***************************************************************************)
NothingMadeUp ==
  /\ throws = 0 => \A i \in 1..Len(received) : received[i] # Blank
  /\ throws = 0 /\ control \in {"idle", "rest"} =>
       \A i \in 1..Len(ring) : ring[i] # Blank

(***************************************************************************)
(* An empty map_next means that there will never be another element: the   *)
(* comment "no elements in source -> go to end" in mutable_source_iterator *)
(* (source/buffering_source.hpp:167) relies on it.                         *)
(***************************************************************************)
EmptyMeansEnd ==
  [][ call = "map_next" /\ control' = "idle" /\ throws' = throws /\ ring' = <<>>
      => ended' /\ taken' = arrived' ]_vars

(***************************************************************************)
(* Every call returns, although pull() may wait for a second read while    *)
(* it already has elements and copy_next() may wait for the rest.          *)
(***************************************************************************)
CallsReturn == control # "idle" ~> control = "idle"

==============================================================================
