--------------------------- MODULE MCCheckedSums ---------------------------
EXTENDS CheckedSums, TLC

T(signed, min, max) == [signed |-> signed, min |-> min, max |-> max]

(***************************************************************************)
(* For three bits.  Unsigned: any length, a length within bounds, and the  *)
(* size of an element as a literal; signed: bounds on both sides of zero.  *)
(***************************************************************************)
MCOperands ==
  {T(FALSE, 0, 7), T(FALSE, 1, 3), T(FALSE, 2, 2), T(TRUE, -3, 1), T(TRUE, 1, 2)}

MCSymmetry == Permutations(Sums)
=============================================================================
