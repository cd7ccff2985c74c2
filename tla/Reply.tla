------------------------------- MODULE Reply -------------------------------
(***************************************************************************)
(* What a client may expect of a server that has one Response for it: what *)
(* it gets grows to the whole of it.  It is cut off, once and for all, only *)
(* when the client has left or the server has stopped for everybody.  This *)
(* is a channel that may lose a suffix, and nothing else.                  *)
(***************************************************************************)
EXTENDS Integers, Sequences

CONSTANT Response

VARIABLES
  delivered,  \* what was sent to the client
  state,      \* "open", "complete" or "cut"
  excused     \* the client has left, or the server has stopped

Init == delivered = <<>> /\ state = "open" /\ excused = FALSE

(* More of the response is sent, or nothing. *)
Grows ==
  \E n \in Len(delivered)..Len(Response) : delivered' = SubSeq(Response, 1, n)

Deliver == state = "open" /\ Grows /\ UNCHANGED <<state, excused>>

Complete ==
  /\ state = "open" /\ state' = "complete"
  /\ delivered' = Response
  /\ UNCHANGED excused

Excuse == ~excused /\ excused' = TRUE /\ UNCHANGED <<delivered, state>>

(* What was on its way may arrive in part. *)
Cut ==
  /\ state = "open" /\ state' = "cut"
  /\ Grows
  /\ excused'

Spec == Init /\ [][Deliver \/ Complete \/ Excuse \/ Cut]_<<delivered, state, excused>>

=============================================================================
