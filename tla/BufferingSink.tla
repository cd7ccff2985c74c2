---------------------------- MODULE BufferingSink ----------------------------
(***************************************************************************)
(* Si::buffering_sink (sink/buffering_sink.hpp): a fixed array in front of *)
(* another sink.  append() copies into the array while the data fits, and  *)
(* otherwise flushes the array and hands the data on directly.  The same   *)
(* array is lent to the caller by make_append_space() and sent on by       *)
(* flush_append_space().  Both uses share the member m_buffer_used.        *)
(*                                                                         *)
(* A call is one step: the class does no locking and is used by one thread *)
(* (in examples/hellohttp.cpp by one coroutine).  The destination is       *)
(* external.  Its append() reports success for all of the data, or an      *)
(* error; when Partial is TRUE it may have taken a prefix of the data      *)
(* before it failed, as Si::write and async_write do.                      *)
(***************************************************************************)
EXTENDS Integers, Sequences

CONSTANTS
  Elements,      \* the values of element_type
  Zero,          \* the element a value-initialized array is filled with
  Capacity,      \* m_fallback_buffer.size()
  Inputs,        \* the data callers append
  MaxTraffic,    \* bound: length of accepted and of destination
  Partial,       \* may a failing destination have taken a prefix?
  Overwriting    \* may a caller ask for append space over pending elements?

ASSUME ElementsAssumption == Zero \in Elements
ASSUME CapacityAssumption == Capacity \in Nat
ASSUME InputsAssumption == Inputs \subseteq Seq(Elements)
ASSUME TrafficAssumption == MaxTraffic \in Nat
ASSUME PartialAssumption == Partial \in BOOLEAN
ASSUME OverwritingAssumption == Overwriting \in BOOLEAN

VARIABLES
  buffer,       \* m_fallback_buffer
  used,         \* m_buffer_used
  destination,  \* everything m_destination has taken so far
  lent,         \* the caller holds the range returned by make_append_space
  accepted,     \* history: everything a call reported success for
  torn          \* history: see Torn and MakeAppendSpace

vars == <<buffer, used, destination, lent, accepted, torn>>

-----------------------------------------------------------------------------

(* The elements of the array that the next flush() sends on. *)
Pending == [i \in 1..used |-> buffer[i]]

(* Seeded bug: the copy always goes to the beginning of the array. *)
CopiedToFront(data, at) ==
  [i \in 1..Capacity |-> IF i \in 1..Len(data) THEN data[i] ELSE buffer[i]]

(* The array after data has been copied into it behind the first `at`. *)
CopiedInto(data, at) ==
  [i \in 1..Capacity |->
     IF i \in at + 1 .. at + Len(data) THEN data[i - at] ELSE buffer[i]]

(***************************************************************************)
(* What m_destination.append(data) may do: the elements it has taken and   *)
(* whether it reports success.                                             *)
(***************************************************************************)
Longest(data) == IF Partial /\ data # <<>> THEN Len(data) - 1 ELSE 0

Outcomes(data) ==
  {[ok |-> TRUE, taken |-> data]}
    \cup {[ok |-> FALSE, taken |-> SubSeq(data, 1, n)] : n \in 0..Longest(data)}

(***************************************************************************)
(* The history is torn once a failing call of the destination has taken    *)
(* some of its elements, which nobody can know of, or once the caller has  *)
(* asked for append space over pending elements.                           *)
(***************************************************************************)
Torn(sent) == torn' = (torn \/ (~sent.ok /\ sent.taken # <<>>))

Init ==
  /\ buffer = [i \in 1..Capacity |-> Zero]
  /\ used = 0
  /\ destination = <<>>
  /\ lent = FALSE
  /\ accepted = <<>>
  /\ torn = FALSE

(* append() when the data fits behind the pending elements. *)
AppendBuffered(data) ==
  /\ ~lent
  /\ Len(data) <= Capacity - used
  /\ Len(accepted) + Len(data) <= MaxTraffic
  /\ buffer' = CopiedInto(data, used)
  /\ used' = used + Len(data)
  /\ accepted' = accepted \o data
  /\ UNCHANGED <<destination, lent, torn>>

(***************************************************************************)
(* append() when it does not fit and flush() fails: then() stops at the    *)
(* error, the data is not looked at.                                       *)
(***************************************************************************)
AppendFlushFails(data) ==
  /\ ~lent
  /\ Len(data) > Capacity - used
  /\ \E sent \in Outcomes(Pending) :
       /\ ~sent.ok
       /\ Len(destination) + Len(sent.taken) <= MaxTraffic
       /\ destination' = destination \o sent.taken
       /\ Torn(sent)
  /\ UNCHANGED <<buffer, used, lent, accepted>>

(* Seeded bug: large data overtakes what is pending. *)
AppendDirectUnflushed(data) ==
  /\ ~lent
  /\ Len(data) > Capacity - used
  /\ Len(accepted) + Len(data) <= MaxTraffic
  /\ \E sent \in Outcomes(data) :
       /\ Len(destination) + Len(sent.taken) <= MaxTraffic
       /\ destination' = destination \o sent.taken
       /\ Torn(sent)
       /\ accepted' = IF sent.ok THEN accepted \o data ELSE accepted
  /\ UNCHANGED <<buffer, used, lent>>

(***************************************************************************)
(* append() when it does not fit and flush() succeeds: the data goes to    *)
(* the destination past the array, whatever its size.                      *)
(***************************************************************************)
AppendDirect(data) ==
  /\ ~lent
  /\ Len(data) > Capacity - used
  /\ Len(accepted) + Len(data) <= MaxTraffic
  /\ \E sent \in Outcomes(data) :
       /\ Len(destination) + used + Len(sent.taken) <= MaxTraffic
       /\ destination' = (destination \o Pending) \o sent.taken
       /\ Torn(sent)
       /\ accepted' = IF sent.ok THEN accepted \o data ELSE accepted
  /\ used' = 0
  /\ UNCHANGED <<buffer, lent>>

(* Seeded bug: the array counts as empty although the destination failed. *)
FlushForgetsOnError ==
  /\ ~lent
  /\ \E sent \in Outcomes(Pending) :
       /\ Len(destination) + Len(sent.taken) <= MaxTraffic
       /\ destination' = destination \o sent.taken
       /\ Torn(sent)
  /\ used' = 0
  /\ UNCHANGED <<buffer, lent, accepted>>

(* flush(): the destination is called even when nothing is pending. *)
Flush ==
  /\ ~lent
  /\ \E sent \in Outcomes(Pending) :
       /\ Len(destination) + Len(sent.taken) <= MaxTraffic
       /\ destination' = destination \o sent.taken
       /\ Torn(sent)
       /\ used' = IF sent.ok THEN 0 ELSE used
  /\ UNCHANGED <<buffer, lent, accepted>>

(***************************************************************************)
(* make_append_space(size): the range always starts at the beginning of    *)
(* the array, so elements that are still pending lie in it or behind it.   *)
(* Asking again while holding a range resizes that range.                  *)
(***************************************************************************)
MakeAppendSpace(size) ==
  /\ lent \/ used = 0 \/ Overwriting
  /\ used' = IF size < Capacity THEN size ELSE Capacity
  /\ lent' = TRUE
  /\ torn' = (torn \/ (~lent /\ used > 0))
  /\ UNCHANGED <<buffer, destination, accepted>>

(* The caller writes into the range it was lent. *)
WriteSpace(data) ==
  /\ lent
  /\ Len(data) <= used
  /\ buffer' = CopiedInto(data, 0)
  /\ UNCHANGED <<used, destination, lent, accepted, torn>>

(***************************************************************************)
(* flush_append_space(): an empty range is a success without a call of the *)
(* destination; after an error the caller still holds the range and may    *)
(* try again.                                                              *)
(***************************************************************************)
FlushAppendSpace ==
  /\ lent
  /\ Len(accepted) + used <= MaxTraffic
  /\ \E sent \in (IF used = 0 THEN {[ok |-> TRUE, taken |-> <<>>]}
                              ELSE Outcomes(Pending)) :
       /\ Len(destination) + Len(sent.taken) <= MaxTraffic
       /\ destination' = destination \o sent.taken
       /\ Torn(sent)
       /\ used' = IF sent.ok THEN 0 ELSE used
       /\ lent' = ~sent.ok
       /\ accepted' = IF sent.ok THEN accepted \o Pending ELSE accepted
  /\ UNCHANGED buffer

Next ==
  \/ \E data \in Inputs :
       \/ AppendBuffered(data)
       \/ AppendFlushFails(data)
       \/ AppendDirect(data)
       \/ WriteSpace(data)
  \/ Flush
  \/ \E size \in 0 .. Capacity + 1 : MakeAppendSpace(size)
  \/ FlushAppendSpace

Spec == Init /\ [][Next]_vars

-----------------------------------------------------------------------------

TypeOK ==
  /\ buffer \in [1..Capacity -> Elements]
  /\ used \in 0..Capacity
  /\ destination \in Seq(Elements)
  /\ lent \in BOOLEAN
  /\ accepted \in Seq(Elements)
  /\ torn \in BOOLEAN

(***************************************************************************)
(* Accepted but not yet delivered elements: none while the array is lent,  *)
(* the content of the range is the caller's until it is flushed.           *)
(***************************************************************************)
Owed == IF lent THEN <<>> ELSE Pending

(***************************************************************************)
(* Until the history is torn: whatever mixture of append, flush, failed    *)
(* flush, retry and append space has run, what the callers were told was   *)
(* accepted is exactly what the destination has, followed by what waits in *)
(* the array.  Nothing is lost, doubled or reordered by the flush-then-    *)
(* append path or by a retry.                                              *)
(***************************************************************************)
AcceptedIsDeliveredOrOwed ==
  ~torn => accepted = destination \o Owed

(***************************************************************************)
(* The greedy match of a history inside a longer one: how many elements of *)
(* `inner` are found in order within the first n of `outer`.               *)
(***************************************************************************)
Matched(inner, outer) ==
  LET m[n \in 0..Len(outer)] ==
        IF n = 0 THEN 0
        ELSE IF m[n-1] < Len(inner) /\ inner[m[n-1] + 1] = outer[n]
             THEN m[n-1] + 1
             ELSE m[n-1]
  IN  m[Len(outer)]

(***************************************************************************)
(* Everything that was accepted has been delivered or is pending, in       *)
(* order, perhaps with elements between that were delivered twice.         *)
(***************************************************************************)
NothingMissing == Matched(accepted, destination \o Owed) = Len(accepted)

(***************************************************************************)
(* Over a destination that fails after taking a prefix, and for callers    *)
(* that do as they like: a failed flush and its retry may double elements, *)
(* but the only call that can make an accepted element disappear or        *)
(* change places is make_append_space() while elements are pending.        *)
(***************************************************************************)
OnlyMakeAppendSpaceDiscards ==
  [][ NothingMissing /\ ~NothingMissing' => ~lent /\ lent' /\ used > 0 ]_vars

(* The promise to callers, with the array's size as the largest lag. *)
Promise == INSTANCE WriteBehind WITH Lag <- Capacity

(***************************************************************************)
(* The sink implements the write-behind specification, whatever the        *)
(* destination takes before it fails and whatever its callers do.          *)
(***************************************************************************)
ImplementsWriteBehind == Promise!Spec

==============================================================================
