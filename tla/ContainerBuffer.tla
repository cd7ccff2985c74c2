--------------------------- MODULE ContainerBuffer ---------------------------
(***************************************************************************)
(* Si::container_buffer (sink/container_buffer.hpp): append space at the   *)
(* end of a container such as std::vector<char>.  The container is resized *)
(* to what is committed and the space that was asked for, so that asking   *)
(* again changes the size of the space, and giving it back commits all of  *)
(* it.  No call fails; a container is expected to be able to grow.         *)
(***************************************************************************)
EXTENDS Integers, Sequences

CONSTANT Zero    \* what resize() fills new elements with

VARIABLES
  container,  \* the elements of *m_destination
  committed   \* m_committed

(* container.resize(size) *)
Resized(size) ==
  [i \in 1..size |-> IF i <= Len(container) THEN container[i] ELSE Zero]

(* How many elements the space has now. *)
Space == Len(container) - committed

(* The elements that have been given back. *)
Committed == SubSeq(container, 1, committed)

Init == container = <<>> /\ committed = Len(container)

(* make_append_space(size) *)
MakeAppendSpace(size) ==
  /\ container' = Resized(committed + size)
  /\ UNCHANGED committed

(* The caller writes to the beginning of the space. *)
WriteSpace(data) ==
  /\ Len(data) <= Space
  /\ container' = [i \in 1..Len(container) |->
                     IF i \in committed + 1 .. committed + Len(data)
                     THEN data[i - committed] ELSE container[i]]
  /\ UNCHANGED committed

(* flush_append_space() *)
FlushAppendSpace ==
  /\ committed' = Len(container)
  /\ UNCHANGED container

=============================================================================
