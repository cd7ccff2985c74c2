---------------------------- MODULE BoundedInts ----------------------------
(***************************************************************************)
(* Si::bounded_int (bounded_int.hpp): an integer whose type carries its    *)
(* bounds.  The types of sums and products are computed by the compiler    *)
(* with the arithmetic of Int itself, which wraps where Int is unsigned.   *)
(*                                                                         *)
(* The program holds one number and goes on computing with it.  Signed and *)
(* unsigned types are of the same width, that of int or more: narrower     *)
(* ones, and a wider signed one, are compared without a loss.              *)
(***************************************************************************)
EXTENDS Integers

CONSTANTS
  Half,        \* 2^(w - 1) for integers of w bits
  Operands,    \* the types of numbers that are written in the program
  None         \* an empty optional

Limit == 2 * Half

ASSUME HalfAssumption == Half \in Nat \ {0}

ValuesOf(signed) == IF signed THEN -Half..(Half - 1) ELSE 0..(Limit - 1)

(* static_cast to the signed or the unsigned type. *)
Cast(signed, n) ==
  LET rest == n % Limit
  IN  IF signed /\ rest >= Half THEN rest - Limit ELSE rest

IsType(t) ==
  /\ t.signed \in BOOLEAN
  /\ t.min \in ValuesOf(t.signed)
  /\ t.max \in ValuesOf(t.signed)
  /\ t.min <= t.max

ASSUME OperandsAssumption ==
  /\ Operands \subseteq [signed : BOOLEAN, min : Int, max : Int]
  /\ \A t \in Operands : IsType(t)

ASSUME NoneAssumption == None \notin Int

VARIABLES
  type,    \* the type of the number: its bounds, and whether Int is signed
  number,  \* its value, or None where an optional is empty or a call has thrown
  exact,   \* history: what the same computation yields without a width
  trust    \* history: whether it has left what the type can promise

numberVars == <<type, number, exact, trust>>

-----------------------------------------------------------------------------

Within(t, n) == t.min <= n /\ n <= t.max

(* create(Int) *)
Create(t, n) == IF Within(t, n) THEN n ELSE None

(* Seeded bug: the upper bound is left out. *)
CreateFromUnchecked(t, signed, n) ==
  LET common == signed /\ t.signed
  IN  IF Cast(common, n) < Cast(common, t.min) THEN None ELSE Cast(t.signed, n)

(* create(bounded_int<OtherInt>): the operands of < and > are converted. *)
CreateFrom(t, signed, n) ==
  LET common == signed /\ t.signed
      value  == Cast(common, n)
  IN  IF value < Cast(common, t.min) \/ value > Cast(common, t.max)
        THEN None
        ELSE Cast(t.signed, n)

(* Those conversions change nothing. *)
ComparedWell(t, signed, n) == signed = t.signed \/ (n >= 0 /\ t.min >= 0)

(* What the compiler makes of the bounds lo and hi of a result. *)
ResultType(signed, lo, hi) ==
  [signed |-> signed, min |-> Cast(signed, lo), max |-> Cast(signed, hi)]

Fit(signed, lo, hi) == lo \in ValuesOf(signed) /\ hi \in ValuesOf(signed)

(* A signed overflow in a bound, and a minimum above the maximum, do not compile. *)
Compiles(signed, lo, hi) ==
  /\ signed => Fit(signed, lo, hi)
  /\ Cast(signed, lo) <= Cast(signed, hi)

NumberInit ==
  /\ type \in Operands
  /\ number = type.min
  /\ exact = type.min
  /\ trust = "exact"

(***************************************************************************)
(* The history of a result n of type t.  Once it is not the exact one any  *)
(* more, what would have been is of no interest.                           *)
(***************************************************************************)
Result(t, n, yields, trusted) ==
  /\ type' = t
  /\ number' = n
  /\ trust' = trusted
  /\ exact' = IF trusted = "exact" THEN yields ELSE 0

(* literal(), or create() of a number from elsewhere. *)
Literal(t, n) == Result(t, Create(t, n), n, "exact")

(* A number of the same signedness is narrowed, or widened. *)
Narrow(t) ==
  /\ t.signed = type.signed
  /\ number # None
  /\ Result(t, Create(t, number), exact, trust)

(* compact_int: what storage can hold; the only value of a type is not stored. *)
Storable(t) == IF t.min = t.max THEN {t.min} ELSE ValuesOf(t.signed)

AtLeast(a, b) == IF a < b THEN b ELSE a
AtMost(a, b) == IF a < b THEN a ELSE b

Clamp(t) ==
  /\ t.signed = type.signed
  /\ number # None
  /\ Result(t, AtLeast(t.min, AtMost(t.max, number)),
               AtLeast(t.min, AtMost(t.max, exact)), trust)

(* create() from a number of another type, whatever its signedness. *)
Convert(t) ==
  /\ number # None
  /\ Result(t, CreateFrom(t, type.signed, number), exact,
            IF trust # "exact" \/ ComparedWell(t, type.signed, number)
              THEN trust ELSE "bounded")

(***************************************************************************)
(* The sum with a right operand n of type t.  If it is not within the      *)
(* bounds of the result, the optional that assert() has looked at is empty *)
(* and is dereferenced: without assertions, what the storage held is used. *)
(***************************************************************************)
Add(t, n) ==
  LET lo    == type.min + t.min
      hi    == type.max + t.max
      of    == ResultType(type.signed, lo, hi)
      value == Create(of, Cast(type.signed, number + n))
  IN  /\ t.signed = type.signed
      /\ number # None
      /\ Compiles(type.signed, lo, hi)
      /\ IF trust = "undefined" \/ value = None
           THEN \E any \in Storable(of) : Result(of, any, 0, "undefined")
           ELSE Result(of, value, exact + n,
                       IF Fit(type.signed, lo, hi) THEN trust ELSE "bounded")

(***************************************************************************)
(* The product.  Its bounds are the products of the bounds, which is wrong *)
(* as soon as a factor may be negative: create_or_throw() then throws for  *)
(* a product that Int has room for, or the signed product overflows.       *)
(***************************************************************************)
Multiply(t, n) ==
  LET lo      == type.min * t.min
      hi      == type.max * t.max
      of      == ResultType(type.signed, lo, hi)
      value   == Create(of, Cast(type.signed, number * n))
      right   == Fit(type.signed, lo, hi) /\ type.min >= 0 /\ t.min >= 0
      correct == Fit(type.signed, lo, hi) /\ value # None
  IN  /\ t.signed = type.signed
      /\ number # None
      /\ Compiles(type.signed, lo, hi)
      /\ IF trust = "undefined" \/ (type.signed /\ number * n \notin ValuesOf(TRUE))
           THEN \E any \in Storable(of) : Result(of, any, 0, "undefined")
           ELSE Result(of, value, exact * n, IF right \/ correct THEN trust ELSE "bounded")

Compute ==
  \E t \in Operands :
    \/ Narrow(t) \/ Clamp(t) \/ Convert(t)
    \/ \E n \in ValuesOf(t.signed) : Literal(t, n)
    \/ \E n \in t.min..t.max : Add(t, n) \/ Multiply(t, n)

-----------------------------------------------------------------------------

(***************************************************************************)
(* As long as neither the bounds of a result have wrapped, nor signed and  *)
(* unsigned numbers were compared with a negative one among them, nor a    *)
(* product with a negative bound has failed, a computation yields what the *)
(* integers would: a number is the exact one, and is refused only if the   *)
(* exact one is outside of the bounds.  And a number is within its bounds, *)
(* on which array_view::operator[] relies without a check, unless a sum or *)
(* a signed product was undefined.                                         *)
(***************************************************************************)
ResultsAreExact ==
  /\ trust = "exact" =>
       IF number = None THEN ~Within(type, exact) ELSE number = exact
  /\ trust # "undefined" /\ number # None => Within(type, number)

=============================================================================
