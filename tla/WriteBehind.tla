----------------------------- MODULE WriteBehind -----------------------------
(***************************************************************************)
(* What a buffering sink promises to the code that appends to it: every    *)
(* element whose append was reported as a success reaches the destination  *)
(* once, in order, and at most Lag elements are still on their way.  The   *)
(* promise holds until it is torn, by a call of the underlying sink that   *)
(* takes some of its elements and fails, or by a caller that overwrites    *)
(* what waits; from then on the histories are only known to grow.          *)
(***************************************************************************)
EXTENDS Integers, Sequences

CONSTANTS
  Elements,  \* the values of element_type
  Lag        \* how many accepted elements may wait

VARIABLES
  accepted,     \* everything append reported as a success for, in order
  destination,  \* everything the underlying sink has taken, in order
  torn          \* the promise holds no longer

vars == <<accepted, destination, torn>>

(* t begins with s. *)
Extends(t, s) == Len(s) <= Len(t) /\ SubSeq(t, 1, Len(s)) = s

Init == accepted = <<>> /\ destination = <<>> /\ torn = FALSE

(***************************************************************************)
(* Any number of elements is accepted and any number of the waiting ones   *)
(* is handed on, never out of order and never twice.                       *)
(***************************************************************************)
Progress ==
  /\ accepted' \in Seq(Elements)
  /\ destination' \in Seq(Elements)
  /\ Extends(accepted', accepted)
  /\ Extends(destination', destination)
  /\ torn' \in BOOLEAN
  /\ torn => torn'
  /\ ~torn' => /\ Extends(accepted', destination')
               /\ Len(accepted') - Len(destination') <= Lag

Spec == Init /\ [][Progress]_vars

==============================================================================
