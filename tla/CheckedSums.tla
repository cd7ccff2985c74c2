---------------------------- MODULE CheckedSums ----------------------------
(***************************************************************************)
(* Si::overflow_or and checked_add (arithmetic/overflow_or.hpp,            *)
(* arithmetic/add.hpp) over an unsigned type: sums that remember that they *)
(* did not fit.  What is added up are the numbers that bounded_int (the    *)
(* module BoundedInts) has computed, for instance the sizes of pieces of   *)
(* memory.                                                                 *)
(***************************************************************************)
EXTENDS BoundedInts

CONSTANTS
  Sums,       \* the variables of type overflow_or<Unsigned>
  Overflow,   \* what a variable holds instead of a sum that did not fit
  MaxTotal    \* bound on the exact totals

ASSUME OverflowAssumption == Overflow \notin Int

ASSUME MaxTotalAssumption == MaxTotal \in Nat

VARIABLES
  sum,     \* what each variable holds
  total,   \* history: the exact total of what was added up in it
  strays   \* history: variables that may differ from it for a known reason

sumVars == <<sum, total, strays>>

computedVars == <<numberVars, sumVars>>

-----------------------------------------------------------------------------

SumsInit ==
  /\ NumberInit
  /\ sum = [x \in Sums |-> 0]
  /\ total = [x \in Sums |-> 0]
  /\ strays = {}

(* Seeded bug: the sum is compared before it is cut to the width. *)
CheckedAddPromoted(left, right) ==
  LET result == left + right
  IN  IF result < left THEN Overflow ELSE result % Limit

(* checked_add(): a wrapped sum is smaller than either operand. *)
CheckedAdd(left, right) ==
  LET result == (left + right) % Limit
  IN  IF result < left THEN Overflow ELSE result

(* operator+=: an overflow on the right is passed over. *)
Plus(left, right) ==
  IF left = Overflow \/ right = Overflow THEN left ELSE CheckedAdd(left, right)

PassesOver(x, y) == sum[x] # Overflow /\ sum[y] = Overflow

(* x holds s from now on, and is a stray or not. *)
Holds(x, s, exactly, stray) ==
  /\ exactly <= MaxTotal
  /\ sum' = [sum EXCEPT ![x] = s]
  /\ total' = [total EXCEPT ![x] = IF stray THEN 0 ELSE exactly]
  /\ strays' = IF stray THEN strays \cup {x} ELSE strays \ {x}
  /\ UNCHANGED numberVars

(* A number of the unsigned type is at hand. *)
Unsigned == ~type.signed /\ number # None

(* overflow_or(Unsigned) *)
Start(x) == Unsigned /\ Holds(x, number, exact, trust # "exact")

(* z += number where z is x, z = x + number and z = number + x otherwise. *)
AddNumber(z, x) ==
  /\ Unsigned
  /\ Holds(z, Plus(sum[x], number), total[x] + exact, x \in strays \/ trust # "exact")

(* z += y where z is x, z = x + y otherwise. *)
AddSum(z, x, y) ==
  Holds(z, Plus(sum[x], sum[y]), total[x] + total[y],
        x \in strays \/ y \in strays \/ PassesOver(x, y))

AddUp ==
  \E z, x \in Sums :
    \/ Start(z)
    \/ AddNumber(z, x)
    \/ \E y \in Sums : AddSum(z, x, y)

SumsNext == (Compute /\ UNCHANGED sumVars) \/ AddUp

SumsSpec == SumsInit /\ [][SumsNext]_computedVars

-----------------------------------------------------------------------------

(***************************************************************************)
(* A sum is an overflow if and only if the exact total does not fit, and   *)
(* is the exact total otherwise, in whatever order and grouping it was     *)
(* added up, except for a sum that was given a number bounded_int does not *)
(* promise anything about, or an overflow as the right operand: x += y     *)
(* then leaves x as it was, although y += x is an overflow.                *)
(***************************************************************************)
SumsAreExact ==
  \A x \in Sums \ strays :
    sum[x] = IF total[x] < Limit THEN total[x] ELSE Overflow

=============================================================================
