--------------------------- MODULE ValueTypes_proof ---------------------------
(***************************************************************************)
(* Proofs about the value types.  First BoundedInts and CheckedSums: for   *)
(* integers of every width, for all types, numbers, variables and any      *)
(* length of a computation.  Then Holders: for all slots, values and error *)
(* codes, whether moves throw or not, and any number of operations.        *)
(***************************************************************************)
EXTENDS CheckedSums, Holders, WellFoundedInduction, SequenceTheorems, TLAPS

-----------------------------------------------------------------------------
(* The arithmetic of bounded_int and overflow_or.                          *)

(* The remainder of numbers that are at most one modulus away. *)
LEMMA Remainder ==
  ASSUME NEW m \in Nat \ {0}, NEW n \in Int
  PROVE  /\ n % m \in 0..(m - 1)
         /\ n \in 0..(m - 1) => n % m = n
         /\ n \in m..(2 * m - 1) => n % m = n - m
         /\ n \in (-m)..(-1) => n % m = n + m
  BY SMT

(* A conversion yields a number of the type, and keeps the ones it has. *)
LEMMA CastValues ==
  ASSUME NEW signed \in BOOLEAN, NEW n \in Int
  PROVE  /\ Cast(signed, n) \in ValuesOf(signed)
         /\ n \in ValuesOf(signed) => Cast(signed, n) = n
         /\ ~signed /\ n \in (-Half)..(-1) => Cast(signed, n) = n + Limit
         /\ signed /\ n \in Half..(Limit - 1) => Cast(signed, n) = n - Limit
<1>1. Limit \in Nat \ {0} /\ Limit = 2 * Half /\ Half \in Nat \ {0}
  BY HalfAssumption DEF Limit
<1>2. /\ n % Limit \in 0..(Limit - 1)
      /\ n \in 0..(Limit - 1) => n % Limit = n
      /\ n \in (-Limit)..(-1) => n % Limit = n + Limit
  BY <1>1, Remainder
<1>3. CASE signed
  BY <1>1, <1>2, <1>3 DEF Cast, ValuesOf
<1>4. CASE ~signed
  BY <1>1, <1>2, <1>4 DEF Cast, ValuesOf
<1> QED BY <1>3, <1>4

(* A conversion to the other signedness. *)
LEMMA CastToUnsigned ==
  ASSUME NEW n \in (-Half)..(Half - 1)
  PROVE  Cast(FALSE, n) = IF n < 0 THEN n + Limit ELSE n
<1>1. Limit = 2 * Half /\ Half \in Nat \ {0} /\ Limit \in Nat \ {0} /\ n \in Int
  BY HalfAssumption DEF Limit
<1>2. CASE n < 0
  <2>1. n \in (-Limit)..(-1)
    BY <1>1, <1>2
  <2>2. n % Limit = n + Limit
    BY <1>1, <2>1, Remainder
  <2> QED BY <1>2, <2>2 DEF Cast
<1>3. CASE ~(n < 0)
  <2>1. n \in 0..(Limit - 1)
    BY <1>1, <1>3
  <2>2. n % Limit = n
    BY <1>1, <2>1, Remainder
  <2> QED BY <1>3, <2>2 DEF Cast
<1> QED BY <1>2, <1>3

LEMMA CastToSigned ==
  ASSUME NEW n \in 0..(Limit - 1)
  PROVE  Cast(TRUE, n) = IF n < Half THEN n ELSE n - Limit
<1>1. Limit = 2 * Half /\ Half \in Nat \ {0} /\ Limit \in Nat \ {0} /\ n \in Int
  BY HalfAssumption DEF Limit
<1>2. n % Limit = n
  BY <1>1, Remainder
<1> QED BY <1>1, <1>2 DEF Cast

(***************************************************************************)
(* An unsigned number that passes the comparison with the converted bounds *)
(* of a signed type is within these bounds once it is converted itself.    *)
(***************************************************************************)
LEMMA MixedComparison ==
  ASSUME NEW lo \in (-Half)..(Half - 1), NEW hi \in (-Half)..(Half - 1), lo <= hi,
         NEW n \in 0..(Limit - 1),
         ~(n < Cast(FALSE, lo)), ~(n > Cast(FALSE, hi))
  PROVE  lo <= Cast(TRUE, n) /\ Cast(TRUE, n) <= hi
<1>1. Limit = 2 * Half /\ Half \in Nat \ {0}
  BY HalfAssumption DEF Limit
<1>2. ~(n < IF lo < 0 THEN lo + Limit ELSE lo)
  BY CastToUnsigned
<1>3. ~(n > IF hi < 0 THEN hi + Limit ELSE hi)
  BY CastToUnsigned
<1>4. Cast(TRUE, n) = IF n < Half THEN n ELSE n - Limit
  BY CastToSigned
<1>5. CASE n < Half
  <2>1. ~(lo < 0)
    BY <1>1, <1>2, <1>5
  <2>2. lo <= n /\ n <= hi
    BY <1>1, <1>2, <1>3, <1>5, <2>1
  <2> QED BY <1>4, <1>5, <2>2
<1>6. CASE ~(n < Half)
  <2>1. hi < 0 /\ lo < 0
    BY <1>1, <1>3, <1>6
  <2>2. lo <= n - Limit /\ n - Limit <= hi
    BY <1>1, <1>2, <1>3, <2>1
  <2> QED BY <1>4, <1>6, <2>2
<1> QED BY <1>5, <1>6

(* checked_add() detects exactly the sums that do not fit. *)
LEMMA CheckedAddExact ==
  ASSUME NEW left \in 0..(Limit - 1), NEW right \in 0..(Limit - 1)
  PROVE  CheckedAdd(left, right) =
           IF left + right < Limit THEN left + right ELSE Overflow
<1>1. Limit \in Nat \ {0}
  BY HalfAssumption DEF Limit
<1>2. left + right \in Int /\ left + right \in 0..(2 * Limit - 1)
  BY <1>1
<1>3. \A n \in Int : /\ n \in 0..(Limit - 1) => n % Limit = n
                    /\ n \in Limit..(2 * Limit - 1) => n % Limit = n - Limit
  BY <1>1, Remainder
<1> QED BY <1>1, <1>2, <1>3 DEF CheckedAdd

(* Products of numbers that are not negative grow with their factors. *)
LEMMA ProductsGrow ==
  ASSUME NEW a \in Nat, NEW b \in Nat, NEW c \in Nat, NEW d \in Nat, a <= c, b <= d
  PROVE  a * b <= c * d
<1>1. a * b <= a * d
  BY SMT
<1>2. a * d <= c * d
  BY SMT
<1>3. a * b \in Nat /\ a * d \in Nat /\ c * d \in Nat
  BY SMT
<1> QED BY <1>1, <1>2, <1>3, SMT

-----------------------------------------------------------------------------

Trusts == {"exact", "bounded", "undefined"}

(* What holds of a number n of type t, e being the exact result. *)
Sound(t, n, e, r) ==
  /\ r = "exact" => IF n = None THEN ~Within(t, e) ELSE n = e
  /\ r # "undefined" /\ n # None => Within(t, n)

(* The invariant of the number that is computed with. *)
BoundedInv ==
  /\ IsType(type)
  /\ number \in ValuesOf(type.signed) \cup {None}
  /\ exact \in Int
  /\ trust \in Trusts
  /\ Sound(type, number, exact, trust)

LEMMA ResultKeeps ==
  ASSUME NEW t, NEW n, NEW e \in Int, NEW r \in Trusts,
         IsType(t), n \in ValuesOf(t.signed) \cup {None}, Sound(t, n, e, r),
         Result(t, n, e, r)
  PROVE  BoundedInv'
<1>1. type' = t /\ number' = n /\ trust' = r
  BY DEF Result
<1>2. exact' \in Int /\ (r = "exact" => exact' = e)
  BY DEF Result
<1>3. Sound(t, n, exact', r)
  BY <1>2 DEF Sound
<1> QED BY <1>1, <1>2, <1>3 DEF BoundedInv

(* Numbers of a type are integers, and so are those within it. *)
LEMMA TypesAreInts ==
  ASSUME NEW t, IsType(t)
  PROVE  /\ t.signed \in BOOLEAN /\ t.min \in Int /\ t.max \in Int
         /\ ValuesOf(t.signed) \subseteq Int
         /\ \A n \in Int : Within(t, n) => n \in ValuesOf(t.signed)
<1>1. Limit \in Int /\ Half \in Int
  BY HalfAssumption DEF Limit
<1>2. CASE t.signed
  BY <1>1, <1>2 DEF IsType, ValuesOf, Within
<1>3. CASE ~t.signed
  BY <1>1, <1>3 DEF IsType, ValuesOf, Within
<1> QED BY <1>2, <1>3

LEMMA OperandTypes == \A t \in Operands : IsType(t)
  BY OperandsAssumption

LEMMA CreateSound ==
  ASSUME NEW t, IsType(t), NEW n \in ValuesOf(t.signed), NEW e \in Int, NEW r \in Trusts,
         r = "exact" => n = e
  PROVE  /\ Create(t, n) \in ValuesOf(t.signed) \cup {None}
         /\ Sound(t, Create(t, n), e, r)
<1>1. n \in Int /\ n # None
  BY TypesAreInts, NoneAssumption
<1> QED BY <1>1 DEF Create, Sound

LEMMA AssignKeeps ==
  ASSUME NEW t \in Operands, NEW n \in ValuesOf(t.signed), Literal(t, n)
  PROVE  BoundedInv'
<1>1. IsType(t) /\ n \in Int
  BY OperandTypes, TypesAreInts
<1>2. /\ Create(t, n) \in ValuesOf(t.signed) \cup {None}
      /\ Sound(t, Create(t, n), n, "exact")
  BY <1>1, CreateSound DEF Trusts
<1> QED BY <1>1, <1>2, ResultKeeps DEF Literal, Trusts

LEMMA NarrowKeeps ==
  ASSUME NEW t \in Operands, BoundedInv, Narrow(t)
  PROVE  BoundedInv'
<1>1. IsType(t) /\ number \in ValuesOf(t.signed) /\ exact \in Int /\ trust \in Trusts
  BY OperandTypes DEF Narrow, BoundedInv
<1>2. trust = "exact" => number = exact
  BY DEF Narrow, BoundedInv, Sound
<1>3. /\ Create(t, number) \in ValuesOf(t.signed) \cup {None}
      /\ Sound(t, Create(t, number), exact, trust)
  BY <1>1, <1>2, CreateSound
<1> QED BY <1>1, <1>3, ResultKeeps DEF Narrow

LEMMA ClampKeeps ==
  ASSUME NEW t \in Operands, BoundedInv, Clamp(t)
  PROVE  BoundedInv'
<1> DEFINE clamped(m) == AtLeast(t.min, AtMost(t.max, m))
<1>1. IsType(t) /\ exact \in Int /\ trust \in Trusts /\ number \in ValuesOf(t.signed)
  BY OperandTypes DEF Clamp, BoundedInv
<1>2. number \in Int /\ t.min \in Int /\ t.max \in Int /\ t.min <= t.max
  BY <1>1, TypesAreInts DEF IsType
<1>3. \A m \in Int : clamped(m) \in Int /\ Within(t, clamped(m))
  BY <1>2 DEF AtLeast, AtMost, Within
<1>4. clamped(number) \in ValuesOf(t.signed) /\ clamped(exact) \in Int
  BY <1>1, <1>2, <1>3, TypesAreInts
<1>5. trust = "exact" => number = exact
  BY DEF Clamp, BoundedInv, Sound
<1>6. clamped(number) # None
  BY <1>2, <1>3, NoneAssumption
<1>7. Sound(t, clamped(number), clamped(exact), trust)
  BY <1>2, <1>3, <1>5, <1>6 DEF Sound
<1>8. Result(t, clamped(number), clamped(exact), trust)
  BY DEF Clamp
<1> HIDE DEF clamped
<1> QED BY <1>1, <1>4, <1>7, <1>8, ResultKeeps

LEMMA ConvertKeeps ==
  ASSUME NEW t \in Operands, BoundedInv, Convert(t)
  PROVE  BoundedInv'
<1> DEFINE common == type.signed /\ t.signed
           converted == CreateFrom(t, type.signed, number)
           after == IF trust # "exact" \/ ComparedWell(t, type.signed, number)
                      THEN trust ELSE "bounded"
<1>1. /\ IsType(t) /\ IsType(type)
      /\ exact \in Int /\ trust \in Trusts /\ number \in ValuesOf(type.signed)
  BY OperandTypes DEF Convert, BoundedInv
<1>2. /\ t.signed \in BOOLEAN /\ type.signed \in BOOLEAN /\ common \in BOOLEAN
      /\ number \in Int /\ t.min \in Int /\ t.max \in Int /\ t.min <= t.max
      /\ t.min \in ValuesOf(t.signed) /\ t.max \in ValuesOf(t.signed)
  BY <1>1, TypesAreInts DEF IsType
<1>3. Limit = 2 * Half /\ Half \in Nat \ {0}
  BY HalfAssumption DEF Limit
<1>4. Cast(t.signed, number) \in ValuesOf(t.signed)
  BY <1>2, CastValues
<1>5. number # None /\ Cast(t.signed, number) # None /\ Cast(t.signed, number) \in Int
  BY <1>1, <1>2, <1>4, TypesAreInts, NoneAssumption
<1>6. converted = IF Cast(common, number) < Cast(common, t.min)
                       \/ Cast(common, number) > Cast(common, t.max)
                    THEN None ELSE Cast(t.signed, number)
  BY DEF CreateFrom
<1>7. converted \in ValuesOf(t.signed) \cup {None}
  BY <1>4, <1>6
<1>8. \A signed \in BOOLEAN, n \in Int :
        /\ n \in ValuesOf(signed) => Cast(signed, n) = n
        /\ ~signed /\ n \in (-Half)..(-1) => Cast(signed, n) = n + Limit
        /\ signed /\ n \in Half..(Limit - 1) => Cast(signed, n) = n - Limit
  BY CastValues
<1>9. converted # None => Within(t, converted)
  <2>1. CASE type.signed /\ t.signed
    <3>1. /\ Cast(common, number) = number /\ Cast(t.signed, number) = number
          /\ Cast(common, t.min) = t.min /\ Cast(common, t.max) = t.max
      BY <1>1, <1>2, <1>8, <2>1
    <3> QED BY <1>2, <1>6, <3>1 DEF Within
  <2>2. CASE ~t.signed
    <3>1. /\ Cast(common, t.min) = t.min /\ Cast(common, t.max) = t.max
          /\ Cast(common, number) = Cast(t.signed, number)
      BY <1>2, <1>8, <2>2
    <3> QED BY <1>2, <1>5, <1>6, <3>1 DEF Within
  <2>3. CASE ~type.signed /\ t.signed
    <3>1. number \in 0..(Limit - 1) /\ t.min \in (-Half)..(Half - 1) /\ t.max \in (-Half)..(Half - 1)
      BY <1>1, <1>2, <2>3 DEF ValuesOf
    <3>2. common = FALSE /\ Cast(FALSE, number) = number
      BY <1>1, <1>2, <1>8, <2>3, <3>1
    <3>3. converted # None => /\ ~(number < Cast(FALSE, t.min))
                              /\ ~(number > Cast(FALSE, t.max))
                              /\ converted = Cast(t.signed, number)
      BY <1>6, <3>2
    <3>4. t.signed = TRUE
      BY <1>2, <2>3
    <3> QED BY <1>2, <3>1, <3>3, <3>4, MixedComparison DEF Within
  <2> QED BY <1>2, <2>1, <2>2, <2>3
<1>10. after = "exact" => IF converted = None THEN ~Within(t, exact) ELSE converted = exact
  <2> SUFFICES ASSUME after = "exact"
               PROVE  IF converted = None THEN ~Within(t, exact) ELSE converted = exact
    OBVIOUS
  <2>1. trust = "exact" /\ ComparedWell(t, type.signed, number)
    OBVIOUS
  <2>2. exact = number
    BY <1>5, <2>1 DEF BoundedInv, Sound
  <2>3. /\ Cast(common, number) = number
        /\ Cast(common, t.min) = t.min /\ Cast(common, t.max) = t.max
    <3>1. number \in ValuesOf(common) /\ t.min \in ValuesOf(common) /\ t.max \in ValuesOf(common)
      <4>1. CASE type.signed = t.signed
        BY <1>1, <1>2, <4>1
      <4>2. CASE type.signed # t.signed
        <5>1. number >= 0 /\ t.min >= 0 /\ t.max >= 0 /\ common = FALSE
          BY <1>2, <2>1, <4>2 DEF ComparedWell
        <5> QED BY <1>1, <1>2, <1>3, <5>1 DEF ValuesOf
      <4> QED BY <4>1, <4>2
    <3> QED BY <1>2, <1>8, <3>1
  <2>4. Within(t, number) => number \in ValuesOf(t.signed)
    BY <1>1, <1>2, TypesAreInts
  <2>5. Within(t, number) => Cast(t.signed, number) = number
    BY <1>2, <1>8, <2>4
  <2> HIDE DEF common
  <2> QED BY <1>2, <1>5, <1>6, <2>2, <2>3, <2>5 DEF Within
<1>11. after \in Trusts /\ Sound(t, converted, exact, after)
  BY <1>1, <1>9, <1>10 DEF Sound, Trusts
<1>12. Result(t, converted, exact, after)
  BY DEF Convert
<1> HIDE DEF converted, after
<1> QED BY <1>1, <1>7, <1>11, <1>12, ResultKeeps

(* The type of a result that compiles; its bounds are the exact ones if they fit. *)
LEMMA ResultTypeIsType ==
  ASSUME NEW signed \in BOOLEAN, NEW lo \in Int, NEW hi \in Int, Compiles(signed, lo, hi)
  PROVE  LET of == ResultType(signed, lo, hi)
         IN  /\ IsType(of)
             /\ of.signed = signed
             /\ Fit(signed, lo, hi) => of.min = lo /\ of.max = hi
<1>1. Cast(signed, lo) \in ValuesOf(signed) /\ Cast(signed, hi) \in ValuesOf(signed)
  BY CastValues
<1>2. Fit(signed, lo, hi) => Cast(signed, lo) = lo /\ Cast(signed, hi) = hi
  BY CastValues DEF Fit
<1>3. Cast(signed, lo) <= Cast(signed, hi)
  BY DEF Compiles
<1> QED BY <1>1, <1>2, <1>3 DEF ResultType, IsType

(* After something undefined nothing is promised, but it is still a number. *)
LEMMA UndefinedKeeps ==
  ASSUME NEW t, IsType(t), NEW any \in Storable(t), Result(t, any, 0, "undefined")
  PROVE  BoundedInv'
<1>1. any \in ValuesOf(t.signed)
  BY DEF Storable, IsType
<1>2. Sound(t, any, 0, "undefined")
  BY DEF Sound
<1>3. 0 \in Int /\ "undefined" \in Trusts
  BY DEF Trusts
<1> QED BY <1>1, <1>2, <1>3, ResultKeeps

(* A sum or a product: e is the exact one, value what Create() makes of it. *)
LEMMA OperationKeeps ==
  ASSUME NEW of, IsType(of), NEW n \in ValuesOf(of.signed), NEW e \in Int,
         NEW r \in Trusts, r = "exact" => Create(of, n) = e,
         Result(of, Create(of, n), e, r)
  PROVE  BoundedInv'
<1>1. n \in Int /\ n # None
  BY TypesAreInts, NoneAssumption
<1>2. Create(of, n) \in ValuesOf(of.signed) \cup {None}
  BY DEF Create
<1>3. Create(of, n) # None => Within(of, Create(of, n))
  BY <1>1 DEF Create
<1>4. e # None
  BY NoneAssumption
<1>5. Sound(of, Create(of, n), e, r)
  BY <1>3, <1>4 DEF Sound
<1> QED BY <1>2, <1>5, ResultKeeps

LEMMA AddKeeps ==
  ASSUME NEW t \in Operands, NEW n \in t.min..t.max, BoundedInv, Add(t, n)
  PROVE  BoundedInv'
<1> DEFINE lo == type.min + t.min
           hi == type.max + t.max
           of == ResultType(type.signed, lo, hi)
           sumOf == Cast(type.signed, number + n)
           value == Create(of, sumOf)
           after == IF Fit(type.signed, lo, hi) THEN trust ELSE "bounded"
<1>1. /\ IsType(t) /\ IsType(type) /\ exact \in Int /\ trust \in Trusts
      /\ number \in ValuesOf(type.signed)
  BY OperandTypes DEF Add, BoundedInv
<1>2. /\ type.signed \in BOOLEAN /\ number \in Int /\ n \in Int
      /\ t.min \in Int /\ t.max \in Int /\ type.min \in Int /\ type.max \in Int
      /\ t.min <= n /\ n <= t.max
  BY <1>1, TypesAreInts
<1>3. lo \in Int /\ hi \in Int /\ number + n \in Int /\ exact + n \in Int
  BY <1>1, <1>2
<1>4. number # None /\ Compiles(type.signed, lo, hi)
  BY DEF Add
<1>5. /\ IsType(of) /\ of.signed = type.signed
      /\ Fit(type.signed, lo, hi) => of.min = lo /\ of.max = hi
  <2> HIDE DEF lo, hi
  <2> QED BY <1>2, <1>3, <1>4, ResultTypeIsType
<1>6. sumOf \in ValuesOf(of.signed)
  <2> HIDE DEF of
  <2> QED BY <1>2, <1>3, <1>5, CastValues
<1>7. CASE trust = "undefined" \/ value = None
  <2>1. PICK any \in Storable(of) : Result(of, any, 0, "undefined")
    BY <1>7 DEF Add
  <2> HIDE DEF of
  <2> QED BY <1>5, <2>1, UndefinedKeeps
<1>8. CASE ~(trust = "undefined" \/ value = None)
  <2>1. Result(of, value, exact + n, after)
    BY <1>8 DEF Add
  <2>2. after \in Trusts
    BY <1>1 DEF Trusts
  <2>3. after = "exact" => value = exact + n
    <3> SUFFICES ASSUME after = "exact" PROVE value = exact + n
      OBVIOUS
    <3>1. trust = "exact" /\ Fit(type.signed, lo, hi)
      OBVIOUS
    <3>2. number = exact /\ Within(type, number)
      BY <1>4, <3>1 DEF BoundedInv, Sound
    <3>3. lo <= number + n /\ number + n <= hi
      BY <1>2, <3>2 DEF Within
    <3>4. number + n \in ValuesOf(type.signed)
      <4>1. lo \in ValuesOf(type.signed) /\ hi \in ValuesOf(type.signed)
        BY <3>1 DEF Fit
      <4> HIDE DEF lo, hi
      <4>2. Half \in Int /\ Limit \in Int
        BY HalfAssumption DEF Limit
      <4> QED BY <1>3, <3>3, <4>1, <4>2 DEF ValuesOf
    <3>5. sumOf = number + n
      BY <1>2, <1>3, <3>4, CastValues
    <3>6. value = sumOf
      BY <1>8 DEF Create
    <3> QED BY <3>2, <3>5, <3>6
  <2> HIDE DEF of, sumOf, after
  <2> QED BY <1>3, <1>5, <1>6, <2>1, <2>2, <2>3, OperationKeeps
<1> QED BY <1>7, <1>8

LEMMA MultiplyKeeps ==
  ASSUME NEW t \in Operands, NEW n \in t.min..t.max, BoundedInv, Multiply(t, n)
  PROVE  BoundedInv'
<1> DEFINE lo == type.min * t.min
           hi == type.max * t.max
           product == number * n
           of == ResultType(type.signed, lo, hi)
           productOf == Cast(type.signed, product)
           value == Create(of, productOf)
           fit == Fit(type.signed, lo, hi)
           right == fit /\ type.min >= 0 /\ t.min >= 0
           correct == fit /\ value # None
           after == IF right \/ correct THEN trust ELSE "bounded"
           undefined == trust = "undefined" \/ (type.signed /\ product \notin ValuesOf(TRUE))
<1>1. /\ IsType(t) /\ IsType(type)
      /\ exact \in Int /\ trust \in Trusts /\ number \in ValuesOf(type.signed)
  BY OperandTypes DEF Multiply, BoundedInv
<1>2. /\ type.signed \in BOOLEAN /\ number \in Int /\ n \in Int
      /\ t.min \in Int /\ t.max \in Int /\ type.min \in Int /\ type.max \in Int
      /\ t.min <= n /\ n <= t.max
  BY <1>1, TypesAreInts
<1>3. lo \in Int /\ hi \in Int /\ product \in Int /\ exact * n \in Int
  BY <1>1, <1>2
<1>4. number # None /\ Compiles(type.signed, lo, hi)
  BY DEF Multiply
<1>5. /\ IsType(of) /\ of.signed = type.signed
      /\ fit => of.min = lo /\ of.max = hi
  <2> HIDE DEF lo, hi
  <2> QED BY <1>2, <1>3, <1>4, ResultTypeIsType
<1>6. productOf \in ValuesOf(of.signed)
  <2> HIDE DEF of, product
  <2> QED BY <1>2, <1>3, <1>5, CastValues
<1>7. CASE undefined
  <2>1. PICK any \in Storable(of) : Result(of, any, 0, "undefined")
    BY <1>7 DEF Multiply
  <2> HIDE DEF of
  <2> QED BY <1>5, <2>1, UndefinedKeeps
<1>8. CASE ~undefined
  <2>1. Result(of, value, exact * n, after)
    BY <1>8 DEF Multiply
  <2>2. after \in Trusts
    BY <1>1 DEF Trusts
  <2>3. after = "exact" => value = exact * n
    <3> SUFFICES ASSUME after = "exact" PROVE value = exact * n
      OBVIOUS
    <3>1. trust = "exact" /\ fit /\ (right \/ correct)
      BY <1>8
    <3>2. number = exact /\ Within(type, number)
      BY <1>4, <3>1 DEF BoundedInv, Sound
    <3>3. Half \in Int /\ Limit \in Int
      BY HalfAssumption DEF Limit
    <3>4. lo \in ValuesOf(type.signed) /\ hi \in ValuesOf(type.signed)
      BY <3>1 DEF Fit
    <3>5. type.min >= 0 /\ t.min >= 0 => lo <= product /\ product <= hi
      <4> SUFFICES ASSUME type.min >= 0, t.min >= 0
                   PROVE  lo <= product /\ product <= hi
        OBVIOUS
      <4>1. /\ type.min \in Nat /\ t.min \in Nat /\ number \in Nat /\ n \in Nat
            /\ type.max \in Nat /\ t.max \in Nat
            /\ type.min <= number /\ number <= type.max
        BY <1>2, <3>2 DEF Within
      <4> QED BY <1>2, <4>1, ProductsGrow
    <3>6. product \in ValuesOf(type.signed)
      <4>1. CASE type.signed
        <5>1. product \in ValuesOf(TRUE)
          BY <1>8, <4>1
        <5>2. type.signed = TRUE
          BY <1>2, <4>1
        <5> QED BY <5>1, <5>2
      <4>2. CASE ~type.signed
        <5>1. type.min >= 0 /\ t.min >= 0
          <6>1. t.signed = type.signed
            BY DEF Multiply
          <6> QED BY <1>1, <1>2, <3>3, <4>2, <6>1 DEF IsType, ValuesOf
        <5>2. lo <= product /\ product <= hi
          BY <3>5, <5>1
        <5> HIDE DEF lo, hi, product
        <5> QED BY <1>3, <3>3, <3>4, <4>2, <5>2 DEF ValuesOf
      <4> QED BY <4>1, <4>2
    <3>7. productOf = product
      <4> HIDE DEF product
      <4> QED BY <1>2, <1>3, <3>6, CastValues
    <3>8. right => value = productOf
      <4> SUFFICES ASSUME right PROVE value = productOf
        OBVIOUS
      <4>1. lo <= product /\ product <= hi
        BY <3>5
      <4>2. of.min = lo /\ of.max = hi
        BY <1>5, <3>1
      <4> HIDE DEF lo, hi, product, of, productOf, right
      <4> QED BY <3>7, <4>1, <4>2 DEF Create, Within
    <3>9. value # None => value = productOf
      BY DEF Create
    <3>10. value = productOf
      <4> HIDE DEF value, productOf, right
      <4> QED BY <3>1, <3>8, <3>9
    <3> QED BY <3>2, <3>7, <3>10
  <2> HIDE DEF of, productOf, after, product
  <2> QED BY <1>3, <1>5, <1>6, <2>1, <2>2, <2>3, OperationKeeps
<1> QED BY <1>7, <1>8

(* Every computation keeps the invariant of the number. *)
LEMMA ComputeKeeps ==
  ASSUME BoundedInv, Compute
  PROVE  BoundedInv'
<1>1. PICK t \in Operands :
        \/ Narrow(t) \/ Clamp(t) \/ Convert(t)
        \/ \E n \in ValuesOf(t.signed) : Literal(t, n)
        \/ \E n \in t.min..t.max : Add(t, n) \/ Multiply(t, n)
  BY DEF Compute
<1>2. CASE Narrow(t) \/ Clamp(t) \/ Convert(t)
  BY <1>2, NarrowKeeps, ClampKeeps, ConvertKeeps
<1>3. CASE \E n \in ValuesOf(t.signed) : Literal(t, n)
  BY <1>3, AssignKeeps
<1>4. CASE \E n \in t.min..t.max : Add(t, n) \/ Multiply(t, n)
  BY <1>4, AddKeeps, MultiplyKeeps
<1> QED BY <1>1, <1>2, <1>3, <1>4

-----------------------------------------------------------------------------

InRange == 0..(Limit - 1)

(* The invariant of the sums. *)
SumsInv ==
  /\ sum \in [Sums -> InRange \cup {Overflow}]
  /\ total \in [Sums -> Nat]
  /\ strays \subseteq Sums
  /\ SumsAreExact

Fits(s, exactly) == s = IF exactly < Limit THEN exactly ELSE Overflow

LEMMA HoldsKeeps ==
  ASSUME SumsInv, NEW x \in Sums, NEW s \in InRange \cup {Overflow}, NEW exactly, NEW stray,
         Holds(x, s, exactly, stray), stray \in BOOLEAN,
         ~stray => exactly \in Nat /\ Fits(s, exactly)
  PROVE  SumsInv'
<1>1. /\ sum' = [sum EXCEPT ![x] = s]
      /\ total' = [total EXCEPT ![x] = IF stray THEN 0 ELSE exactly]
      /\ strays' = IF stray THEN strays \cup {x} ELSE strays \ {x}
  BY DEF Holds
<1>2. sum' \in [Sums -> InRange \cup {Overflow}]
  BY <1>1 DEF SumsInv
<1>3. total' \in [Sums -> Nat]
  <2>1. (IF stray THEN 0 ELSE exactly) \in Nat
    OBVIOUS
  <2> HIDE DEF Fits
  <2> QED BY <1>1, <2>1 DEF SumsInv
<1>4. strays' \subseteq Sums
  BY <1>1 DEF SumsInv
<1>5. SumsAreExact'
  <2>1. SUFFICES ASSUME NEW y \in Sums, y \notin strays'
                 PROVE  Fits(sum'[y], total'[y])
    BY DEF SumsAreExact, Fits
  <2>2. CASE y = x
    <3>1. ~stray
      BY <1>1, <2>1, <2>2
    <3>2. sum'[y] = s /\ total'[y] = exactly
      BY <1>1, <2>2, <3>1 DEF SumsInv
    <3> QED BY <3>1, <3>2
  <2>3. CASE y # x
    <3>1. y \notin strays
      BY <1>1, <2>1, <2>3
    <3>2. sum'[y] = sum[y] /\ total'[y] = total[y]
      BY <1>1, <2>3 DEF SumsInv
    <3> QED BY <3>1, <3>2 DEF SumsInv, SumsAreExact, Fits
  <2> QED BY <2>2, <2>3
<1> QED BY <1>2, <1>3, <1>4, <1>5 DEF SumsInv

(* A sum of two sums that are right is right, or an overflow was passed over. *)
LEMMA PlusExact ==
  ASSUME NEW left \in InRange \cup {Overflow}, NEW right \in InRange \cup {Overflow}
  PROVE  /\ Plus(left, right) \in InRange \cup {Overflow}
         /\ \A l \in Nat, r \in Nat :
              Fits(left, l) /\ Fits(right, r) /\ ~(left # Overflow /\ right = Overflow)
                => Fits(Plus(left, right), l + r)
<1>1. Limit \in Nat \ {0}
  BY HalfAssumption DEF Limit
<1>2. \A n \in InRange : n \in Int /\ n # Overflow /\ n < Limit
  BY <1>1, OverflowAssumption DEF InRange
<1>3. CASE left = Overflow
  <2>1. Plus(left, right) = Overflow
    BY <1>3 DEF Plus
  <2>2. \A l \in Nat, r \in Nat : Fits(left, l) => Fits(Overflow, l + r)
    BY <1>1, <1>3, OverflowAssumption DEF Fits
  <2> QED BY <2>1, <2>2
<1>4. CASE left # Overflow /\ right = Overflow
  BY <1>4 DEF Plus
<1>5. CASE left # Overflow /\ right # Overflow
  <2>1. left \in InRange /\ right \in InRange
    BY <1>5
  <2>2. Plus(left, right) = IF left + right < Limit THEN left + right ELSE Overflow
    BY <1>5, <2>1, CheckedAddExact DEF Plus, InRange
  <2>3. Plus(left, right) \in InRange \cup {Overflow}
    BY <1>1, <2>1, <2>2 DEF InRange
  <2>4. ASSUME NEW l \in Nat, NEW r \in Nat, Fits(left, l), Fits(right, r)
        PROVE  Fits(Plus(left, right), l + r)
    <3>1. left = l /\ right = r
      BY <1>5, <2>4 DEF Fits
    <3> QED BY <2>2, <3>1 DEF Fits
  <2> QED BY <2>3, <2>4
<1> QED BY <1>3, <1>4, <1>5

IInv == BoundedInv /\ SumsInv

(* A number of the unsigned type is in range, and is the exact one if it is trusted. *)
LEMMA UnsignedNumbers ==
  ASSUME BoundedInv, Unsigned
  PROVE  /\ number \in InRange
         /\ trust = "exact" => number = exact
<1>1. type.signed \in BOOLEAN /\ ~type.signed /\ number # None
  BY DEF Unsigned, BoundedInv, IsType
<1>2. number \in InRange
  BY <1>1 DEF BoundedInv, ValuesOf, InRange
<1>3. trust = "exact" => number = exact
  BY <1>1 DEF BoundedInv, Sound
<1> QED BY <1>2, <1>3

LEMMA AddUpKeeps ==
  ASSUME IInv, AddUp
  PROVE  IInv'
<1>1. Limit \in Nat \ {0}
  BY HalfAssumption DEF Limit
<1>2. PICK z \in Sums, x \in Sums :
        Start(z) \/ AddNumber(z, x) \/ \E y \in Sums : AddSum(z, x, y)
  BY DEF AddUp
<1>3. \A y \in Sums : /\ sum[y] \in InRange \cup {Overflow}
                      /\ total[y] \in Nat
                      /\ y \notin strays => Fits(sum[y], total[y])
  BY DEF IInv, SumsInv, SumsAreExact, Fits
<1>4. \A n \in InRange : n \in Nat /\ Fits(n, n)
  BY <1>1 DEF InRange, Fits
<1>5. UNCHANGED numberVars
  BY <1>2 DEF Start, AddNumber, AddSum, Holds
<1>6. BoundedInv'
  BY <1>5 DEF IInv, BoundedInv, Sound, numberVars
<1>7. SumsInv'
  <2>1. CASE Start(z)
    <3>1. Unsigned /\ Holds(z, number, exact, trust # "exact")
      BY <2>1 DEF Start
    <3>2. number \in InRange /\ (trust = "exact" => number = exact)
      BY <3>1, UnsignedNumbers DEF IInv
    <3>3. ~(trust # "exact") => exact \in Nat /\ Fits(number, exact)
      BY <1>4, <3>2
    <3> QED BY <3>1, <3>2, <3>3, HoldsKeeps DEF IInv
  <2>2. CASE AddNumber(z, x)
    <3> DEFINE stray == x \in strays \/ trust # "exact"
    <3>1. Unsigned /\ Holds(z, Plus(sum[x], number), total[x] + exact, stray)
      BY <2>2 DEF AddNumber
    <3>2. number \in InRange /\ (trust = "exact" => number = exact)
      BY <3>1, UnsignedNumbers DEF IInv
    <3>3. number # Overflow
      BY <1>1, <3>2, OverflowAssumption DEF InRange
    <3>4. Plus(sum[x], number) \in InRange \cup {Overflow}
      BY <1>3, <3>2, PlusExact
    <3>5. ~stray => total[x] + exact \in Nat /\ Fits(Plus(sum[x], number), total[x] + exact)
      <4> SUFFICES ASSUME ~stray
                   PROVE  total[x] + exact \in Nat /\ Fits(Plus(sum[x], number), total[x] + exact)
        OBVIOUS
      <4>1. Fits(sum[x], total[x]) /\ total[x] \in Nat /\ sum[x] \in InRange \cup {Overflow}
        BY <1>3
      <4>2. exact \in Nat /\ number = exact /\ Fits(number, exact)
        BY <1>4, <3>2
      <4>3. Fits(Plus(sum[x], number), total[x] + exact)
        BY <3>2, <3>3, <4>1, <4>2, PlusExact
      <4> QED BY <4>1, <4>2, <4>3
    <3> HIDE DEF stray
    <3>6. stray \in BOOLEAN
      BY DEF stray
    <3> QED BY <3>1, <3>4, <3>5, <3>6, HoldsKeeps DEF IInv
  <2>3. ASSUME NEW y \in Sums, AddSum(z, x, y)
        PROVE  SumsInv'
    <3> DEFINE stray == x \in strays \/ y \in strays \/ PassesOver(x, y)
    <3>1. Holds(z, Plus(sum[x], sum[y]), total[x] + total[y], stray)
      BY <2>3 DEF AddSum
    <3>2. Plus(sum[x], sum[y]) \in InRange \cup {Overflow}
      BY <1>3, PlusExact
    <3>3. ~stray => total[x] + total[y] \in Nat /\ Fits(Plus(sum[x], sum[y]), total[x] + total[y])
      BY <1>3, PlusExact DEF PassesOver
    <3>4. stray \in BOOLEAN
      BY DEF PassesOver
    <3> HIDE DEF stray
    <3> QED BY <3>1, <3>2, <3>3, <3>4, HoldsKeeps DEF IInv
  <2> QED BY <1>2, <2>1, <2>2, <2>3
<1> QED BY <1>6, <1>7 DEF IInv

LEMMA InitHolds == SumsInit => IInv
<1> SUFFICES ASSUME SumsInit PROVE IInv
  OBVIOUS
<1>1. IsType(type) /\ number = type.min /\ exact = type.min /\ trust = "exact"
  BY OperandTypes DEF SumsInit, NumberInit
<1>2. number \in ValuesOf(type.signed) /\ number \in Int
  BY <1>1, TypesAreInts DEF IsType
<1>3. Within(type, number)
  BY <1>1, TypesAreInts DEF Within, IsType
<1>4. number # None
  BY <1>2, NoneAssumption
<1>5. BoundedInv
  BY <1>1, <1>2, <1>3, <1>4 DEF BoundedInv, Sound, Trusts
<1>6. SumsInv
  BY HalfAssumption DEF SumsInit, SumsInv, SumsAreExact, InRange, Limit
<1> QED BY <1>5, <1>6 DEF IInv

LEMMA NextKeeps == IInv /\ [SumsNext]_computedVars => IInv'
<1> SUFFICES ASSUME IInv, [SumsNext]_computedVars PROVE IInv'
  OBVIOUS
<1>1. CASE Compute /\ UNCHANGED sumVars
  <2>1. BoundedInv'
    BY <1>1, ComputeKeeps DEF IInv
  <2>2. SumsInv'
    BY <1>1 DEF IInv, SumsInv, SumsAreExact, sumVars
  <2> QED BY <2>1, <2>2 DEF IInv
<1>2. CASE AddUp
  BY <1>2, AddUpKeeps
<1>3. CASE UNCHANGED computedVars
  BY <1>3 DEF IInv, BoundedInv, Sound, SumsInv, SumsAreExact, computedVars, numberVars, sumVars
<1> QED BY <1>1, <1>2, <1>3 DEF SumsNext

THEOREM Invariant == SumsSpec => []IInv
  BY InitHolds, NextKeeps, PTL DEF SumsSpec

(***************************************************************************)
(* For integers of every width, and all types a program may name: what     *)
(* bounded_int yields is the exact result or is rightly refused, unless    *)
(* bounds have wrapped, a negative number was compared as an unsigned one, *)
(* or a product with a negative bound has failed; and it is within its     *)
(* bounds unless something undefined has happened.                         *)
(***************************************************************************)
THEOREM ResultsCorrect == SumsSpec => []ResultsAreExact
<1>1. IInv => ResultsAreExact
  BY DEF IInv, BoundedInv, Sound, ResultsAreExact
<1> QED BY <1>1, Invariant, PTL

(***************************************************************************)
(* For integers of every width, any number of variables and all orders and *)
(* groupings of the additions: an overflow_or is an overflow if and only   *)
(* if the exact total does not fit, and is that total otherwise, as long   *)
(* as no overflow has been added on the right.                             *)
(***************************************************************************)
THEOREM SumsCorrect == SumsSpec => []SumsAreExact
<1>1. IInv => SumsAreExact
  BY DEF IInv, SumsInv
<1> QED BY <1>1, Invariant, PTL

-----------------------------------------------------------------------------
(* The holders: the steps of an operation, one after the other.            *)

(* Every set of natural numbers with 0 and all successors has them all.    *)
LEMMA SetInduction ==
  ASSUME NEW T \in SUBSET Nat, 0 \in T, \A n \in T : n + 1 \in T
  PROVE  T = Nat
<1> DEFINE less == OpToRel(<, Nat)
<1> SUFFICES ASSUME Nat \ T # {} PROVE FALSE
  OBVIOUS
<1>1. IsWellFoundedOn(less, Nat)
  BY NatLessThanWellFounded
<1>2. \A x, y \in Nat : x < y => <<x, y>> \in less
  BY DEF OpToRel
<1> HIDE DEF less
<1>3. IsWellFoundedOn(less, Nat \ T)
  BY <1>1, IsWellFoundedOnSubset
<1>4. PICK n \in Nat \ T : \A m \in Nat \ T : ~(<<m, n>> \in less)
  BY <1>3, WFMin
<1>5. \A m \in Nat \ T : ~(m < n)
  BY <1>2, <1>4
<1>6. n # 0 /\ n - 1 \in Nat /\ n - 1 \in T
  BY <1>5
<1>7. (n - 1) + 1 \in T
  BY <1>6
<1> QED
  BY <1>6, <1>7

(* A holder, and what an operation has come to behind some of its steps.   *)
Holder(t, c) == [tag |-> t, cell |-> c]

State(h, o, w, l) == [this |-> h, other |-> o, threw |-> w, leaked |-> l]

Yes == TRUE
No == FALSE

Going(t, c, o, l) == State(Holder(t, c), o, No, l)
Thrown(t, c, o, l) == State(Holder(t, c), o, Yes, l)
Lost(o, l) == State(Undefined, o, No, l)

(* What is possible behind each of the first k steps. *)
Runs(run, this, other, steps, k) ==
  /\ DOMAIN run = 0..k
  /\ run[0] = {[this |-> this, other |-> other, threw |-> FALSE, leaked |-> FALSE]}
  /\ \A i \in 1..k : run[i] = UNION {After(s, steps[i]) : s \in run[i - 1]}

LEMMA RunExists ==
  ASSUME NEW this, NEW other, NEW steps
  PROVE  \A k \in Nat : \E run : Runs(run, this, other, steps, k)
<1> DEFINE T == {k \in Nat : \E run : Runs(run, this, other, steps, k)}
<1>1. 0 \in T
  <2> DEFINE run == [i \in 0..0 |->
                       {[this |-> this, other |-> other, threw |-> FALSE, leaked |-> FALSE]}]
  <2>1. Runs(run, this, other, steps, 0)
    BY DEF Runs
  <2> QED
    BY <2>1
<1>2. ASSUME NEW k \in T PROVE k + 1 \in T
  <2>1. k \in Nat
    OBVIOUS
  <2>2. PICK run : Runs(run, this, other, steps, k)
    OBVIOUS
  <2> DEFINE end == UNION {After(s, steps[k + 1]) : s \in run[k]}
             longer == [i \in 0..(k + 1) |-> IF i = k + 1 THEN end ELSE run[i]]
  <2>3. \A i \in 0..k : i # k + 1 /\ longer[i] = run[i]
    BY <2>1
  <2>4. longer[k + 1] = end
    BY <2>1
  <2>5. DOMAIN longer = 0..(k + 1)
    OBVIOUS
  <2> HIDE DEF longer
  <2>6. ASSUME NEW i \in 1..(k + 1)
        PROVE  longer[i] = UNION {After(s, steps[i]) : s \in longer[i - 1]}
    <3>1. i - 1 \in 0..k /\ longer[i - 1] = run[i - 1]
      BY <2>1, <2>3
    <3>2. CASE i = k + 1
      <4>1. i - 1 = k
        BY <2>1, <3>2
      <4> QED
        BY <2>4, <3>1, <3>2, <4>1
    <3>3. CASE i # k + 1
      <4>1. i \in 1..k /\ i \in 0..k
        BY <2>1, <3>3
      <4> QED
        BY <2>2, <2>3, <3>1, <4>1 DEF Runs
    <3> QED
      BY <3>2, <3>3
  <2>7. longer[0] = run[0]
    BY <2>1, <2>3
  <2>8. Runs(longer, this, other, steps, k + 1)
    BY <2>2, <2>5, <2>6, <2>7 DEF Runs
  <2> QED
    BY <2>1, <2>8
<1> HIDE DEF T
<1>3. T = Nat
  <2>1. T \in SUBSET Nat
    BY DEF T
  <2> QED
    BY <1>1, <1>2, <2>1, SetInduction
<1> QED
  BY <1>3 DEF T

(* Outcomes() is the end of such a run. *)
LEMMA OutcomesRun ==
  ASSUME NEW this, NEW other, NEW steps, Len(steps) \in Nat
  PROVE  \E run : /\ Runs(run, this, other, steps, Len(steps))
                  /\ Outcomes(this, other, steps) = run[Len(steps)]
<1> DEFINE Body(f) ==
             [i \in 0..Len(steps) |->
                IF i = 0
                THEN {[this |-> this, other |-> other, threw |-> FALSE, leaked |-> FALSE]}
                ELSE UNION {After(s, steps[i]) : s \in f[i - 1]}]
           run == CHOOSE f : f = Body(f)
<1>1. PICK g : Runs(g, this, other, steps, Len(steps))
  BY RunExists
<1>2. g = Body(g)
  <2>1. g = [i \in 0..Len(steps) |-> g[i]]
    BY <1>1 DEF Runs
  <2>2. \A i \in 0..Len(steps) : i # 0 => i \in 1..Len(steps)
    OBVIOUS
  <2> QED
    BY <1>1, <2>1, <2>2 DEF Runs
<1>3. run = Body(run)
  BY <1>2
<1>4. Outcomes(this, other, steps) = run[Len(steps)]
  BY DEF Outcomes
<1> HIDE DEF run
<1>5. /\ DOMAIN run = 0..Len(steps)
      /\ run[0] = {[this |-> this, other |-> other, threw |-> FALSE, leaked |-> FALSE]}
  BY <1>3
<1>6. \A i \in 1..Len(steps) : run[i] = UNION {After(s, steps[i]) : s \in run[i - 1]}
  <2>1. \A i \in 1..Len(steps) : i \in 0..Len(steps) /\ i # 0
    OBVIOUS
  <2> QED
    BY <1>3, <2>1
<1> QED
  BY <1>4, <1>5, <1>6 DEF Runs

-----------------------------------------------------------------------------
(* The steps.                                                              *)

(* The fields of a state, when one of them changes. *)
LEMMA Fields ==
  ASSUME NEW h, NEW o, NEW w, NEW l
  PROVE  /\ State(h, o, w, l).this = h /\ State(h, o, w, l).other = o
         /\ State(h, o, w, l).threw = w /\ State(h, o, w, l).leaked = l
BY DEF State

LEMMA WithThrew ==
  ASSUME NEW h, NEW o, NEW w, NEW l, NEW v
  PROVE  [State(h, o, w, l) EXCEPT !.threw = v] = State(h, o, v, l)
<1> DEFINE a == [State(h, o, w, l) EXCEPT !.threw = v]
<1>1. a.threw = v /\ a.this = h /\ a.other = o /\ a.leaked = l
  BY DEF State
<1>2. a = [this |-> a.this, other |-> a.other, threw |-> a.threw, leaked |-> a.leaked]
  BY DEF State
<1> HIDE DEF a
<1>3. a = State(h, o, v, l)
  BY <1>1, <1>2 DEF State
<1> QED
  BY <1>3 DEF a

LEMMA WithLeaked ==
  ASSUME NEW h, NEW o, NEW w, NEW l, NEW v
  PROVE  [State(h, o, w, l) EXCEPT !.leaked = v] = State(h, o, w, v)
<1> DEFINE a == [State(h, o, w, l) EXCEPT !.leaked = v]
<1>1. a.threw = w /\ a.this = h /\ a.other = o /\ a.leaked = v
  BY DEF State
<1>2. a = [this |-> a.this, other |-> a.other, threw |-> a.threw, leaked |-> a.leaked]
  BY DEF State
<1> HIDE DEF a
<1>3. a = State(h, o, w, v)
  BY <1>1, <1>2 DEF State
<1> QED
  BY <1>3 DEF a

LEMMA WithThis ==
  ASSUME NEW h, NEW o, NEW w, NEW l, NEW v
  PROVE  [State(h, o, w, l) EXCEPT !.this = v] = State(v, o, w, l)
<1> DEFINE a == [State(h, o, w, l) EXCEPT !.this = v]
<1>1. a.threw = w /\ a.this = v /\ a.other = o /\ a.leaked = l
  BY DEF State
<1>2. a = [this |-> a.this, other |-> a.other, threw |-> a.threw, leaked |-> a.leaked]
  BY DEF State
<1> HIDE DEF a
<1>3. a = State(v, o, w, l)
  BY <1>1, <1>2 DEF State
<1> QED
  BY <1>3 DEF a

LEMMA WithTag ==
  ASSUME NEW t, NEW c, NEW o, NEW w, NEW l, NEW v
  PROVE  [State(Holder(t, c), o, w, l) EXCEPT !.this.tag = v] = State(Holder(v, c), o, w, l)
<1> DEFINE a == [State(Holder(t, c), o, w, l) EXCEPT !.this.tag = v]
<1>1. a.threw = w /\ a.other = o /\ a.leaked = l
  BY DEF State
<1>2. a.this = Holder(v, c)
  BY DEF State, Holder
<1>3. a = [this |-> a.this, other |-> a.other, threw |-> a.threw, leaked |-> a.leaked]
  BY DEF State
<1> HIDE DEF a
<1>4. a = State(Holder(v, c), o, w, l)
  BY <1>1, <1>2, <1>3 DEF State
<1> QED
  BY <1>4 DEF a

LEMMA WithCell ==
  ASSUME NEW t, NEW c, NEW o, NEW w, NEW l, NEW v
  PROVE  [State(Holder(t, c), o, w, l) EXCEPT !.this.cell = v] = State(Holder(t, v), o, w, l)
<1> DEFINE a == [State(Holder(t, c), o, w, l) EXCEPT !.this.cell = v]
<1>1. a.threw = w /\ a.other = o /\ a.leaked = l
  BY DEF State
<1>2. a.this = Holder(t, v)
  BY DEF State, Holder
<1>3. a = [this |-> a.this, other |-> a.other, threw |-> a.threw, leaked |-> a.leaked]
  BY DEF State
<1> HIDE DEF a
<1>4. a = State(Holder(t, v), o, w, l)
  BY <1>1, <1>2, <1>3 DEF State
<1> QED
  BY <1>4 DEF a

LEMMA Takes1 ==
  ASSUME NEW t, NEW c, NEW o, NEW w, NEW l, NEW step
  PROVE  Takes(State(Holder(t, c), o, w, l), step)
           = State(Holder(t, step.object), IF step.moves THEN MovedFrom(o) ELSE o, w, l)
<1> DEFINE v == step.object
           p == IF step.moves THEN MovedFrom(o) ELSE o
           s == State(Holder(t, c), o, w, l)
           a == [s EXCEPT !.this.cell = v]
           b == [s EXCEPT !.this.cell = v, !.other = p]
<1>1. s.other = o
  BY Fields
<1>2. Takes(s, step) = b
  <2> HIDE DEF s
  <2> QED
    BY <1>1 DEF Takes
<1>3. a = State(Holder(t, v), o, w, l)
  <2> HIDE DEF v
  <2> QED
    BY WithCell
<1>4. b = [a EXCEPT !.other = p]
  OBVIOUS
<1> HIDE DEF a, b, v, p
<1>5. b = [this |-> Holder(t, v), other |-> p, threw |-> w, leaked |-> l]
  BY <1>3, <1>4 DEF State
<1> QED
  BY <1>2, <1>5 DEF v, p, State

LEMMA FailsAtOnce ==
  ASSUME NEW t, NEW c, NEW o, NEW l
  PROVE  Fails(Going(t, c, o, l)) = Thrown(t, c, o, l)
<1>1. [State(Holder(t, c), o, No, l) EXCEPT !.threw = Yes] = Thrown(t, c, o, l)
  BY WithThrew DEF Thrown
<1> QED
  BY <1>1 DEF Fails, Yes, Going

(* A holder with a tag that a program can give it is defined. *)
LEMMA Defined ==
  ASSUME NEW t, NEW c, t # "undefined"
  PROVE  Holder(t, c) # Undefined
BY DEF Undefined, Holder

LEMMA GoesOn ==
  ASSUME NEW t, NEW c, NEW o, NEW l, NEW step, t # "undefined"
  PROVE  After(Going(t, c, o, l), step) = Effects(Going(t, c, o, l), step)
<1>1. Going(t, c, o, l).this # Undefined
  BY Defined, Fields DEF Going
<1>2. ~Going(t, c, o, l).threw
  <2>1. Going(t, c, o, l).threw = No
    BY Fields DEF Going
  <2> QED
    BY <2>1 DEF No
<1> QED
  BY <1>1, <1>2 DEF After

LEMMA CleansUp ==
  ASSUME NEW t, NEW c, NEW o, NEW l, NEW step, t # "undefined"
  PROVE  After(Thrown(t, c, o, l), step) = {Cleanup(Thrown(t, c, o, l), step)}
<1>1. Thrown(t, c, o, l).this # Undefined
  BY Defined, Fields DEF Thrown
<1>2. Thrown(t, c, o, l).threw
  <2>1. Thrown(t, c, o, l).threw = Yes
    BY Fields DEF Thrown
  <2> QED
    BY <2>1 DEF Yes
<1> QED
  BY <1>1, <1>2 DEF After

LEMMA IsLost ==
  ASSUME NEW o, NEW l, NEW step
  PROVE  After(Lost(o, l), step) = {Lost(o, l)}
<1>1. Lost(o, l).this = Undefined
  BY Fields DEF Lost
<1> QED
  BY <1>1 DEF After

LEMMA TagStep ==
  ASSUME NEW t, NEW c, NEW o, NEW l, NEW u, t # "undefined"
  PROVE  After(Going(t, c, o, l), SetTag(u)) = {Going(u, c, o, l)}
<1>1. [Going(t, c, o, l) EXCEPT !.this.tag = u] = Going(u, c, o, l)
  BY WithTag DEF Going
<1>2. SetTag(u).do = "tag" /\ SetTag(u).tag = u
  BY DEF SetTag
<1>3. Effects(Going(t, c, o, l), SetTag(u)) = {[Going(t, c, o, l) EXCEPT !.this.tag = u]}
  BY <1>2 DEF Effects
<1> QED
  BY <1>1, <1>3, GoesOn

LEMMA DestroyStep ==
  ASSUME NEW t, NEW c, NEW o, NEW l, t # "undefined"
  PROVE  After(Going(t, c, o, l), Destroy(c.type)) = {Going(t, Dead, o, l)}
<1>1. [Going(t, c, o, l) EXCEPT !.this.cell = Dead] = Going(t, Dead, o, l)
  BY WithCell DEF Going
<1>2. Destroy(c.type).do = "destroy" /\ Destroy(c.type).type = c.type
  BY DEF Destroy
<1>3. Going(t, c, o, l).this.cell.type = c.type
  BY Fields DEF Going, Holder
<1>4. Effects(Going(t, c, o, l), Destroy(c.type)) =
        {[Going(t, c, o, l) EXCEPT !.this.cell = Dead]}
  BY <1>2, <1>3 DEF Effects
<1> QED
  BY <1>1, <1>4, GoesOn

LEMMA ConstructStep ==
  ASSUME NEW t, NEW c, NEW o, NEW l \in BOOLEAN, t # "undefined",
         NEW d, NEW throws \in BOOLEAN, NEW moves \in BOOLEAN
  PROVE  \E k \in BOOLEAN :
           /\ k = IF Owned(c) THEN Yes ELSE l
           /\ \A s \in After(Going(t, c, o, l), Construct(d, throws, moves)) :
                \/ s = Going(t, d, IF moves THEN MovedFrom(o) ELSE o, k)
                \/ throws /\ s = Thrown(t, Dead, o, k)
<1> DEFINE s0 == Going(t, c, o, l)
           step == Construct(d, throws, moves)
           k == s0.leaked \/ Owned(s0.this.cell)
           over == [s0 EXCEPT !.leaked = s0.leaked \/ Owned(s0.this.cell)]
           left == [over EXCEPT !.this.cell = Dead]
           p == IF moves THEN MovedFrom(o) ELSE o
<1>1. After(s0, step) = Effects(s0, step)
  BY GoesOn
<1>2. /\ step.do = "construct" /\ step.throws = throws
      /\ step.object = d /\ step.moves = moves
  BY DEF Construct
<1>3. Effects(s0, step) =
        {Takes(over, step)} \cup (IF step.throws THEN {Fails(left)} ELSE {})
  <2> HIDE DEF s0, step
  <2> QED
    BY <1>2 DEF Effects
<1>4. s0.leaked = l /\ s0.this.cell = c
  BY Fields DEF Going, Holder
<1>5. k \in BOOLEAN /\ k = IF Owned(c) THEN Yes ELSE l
  <2>1. k <=> (s0.leaked \/ Owned(s0.this.cell))
    OBVIOUS
  <2> HIDE DEF s0, k
  <2> QED
    BY <1>4, <2>1 DEF Yes
<1>6. over = Going(t, c, o, k)
  <2>1. [s0 EXCEPT !.leaked = k] = Going(t, c, o, k)
    <3> HIDE DEF k
    <3> QED
      BY WithLeaked DEF Going
  <2> QED
    BY <2>1
<1> HIDE DEF over, k
<1>7. Takes(over, step) = Going(t, d, p, k)
  BY <1>2, <1>6, Takes1 DEF Going
<1>8. left = Going(t, Dead, o, k)
  BY <1>6, WithCell DEF Going
<1> HIDE DEF s0, step, p, left
<1>9. \A s \in After(s0, step) : s = Going(t, d, p, k) \/ (throws /\ s = Thrown(t, Dead, o, k))
  <2>1. step.throws => throws
    BY <1>2
  <2>2. \A s \in Effects(s0, step) : s = Takes(over, step) \/ (step.throws /\ s = Fails(left))
    <3>1. CASE step.throws
      BY <1>3, <3>1
    <3>2. CASE ~step.throws
      BY <1>3, <3>2
    <3> QED
      BY <3>1, <3>2
  <2>3. Fails(left) = Thrown(t, Dead, o, k)
    BY <1>8, FailsAtOnce
  <2> QED
    BY <1>1, <1>7, <2>1, <2>2, <2>3
<1> QED
  BY <1>5, <1>9 DEF s0, step, p

LEMMA AssignStep ==
  ASSUME NEW t, NEW c, NEW o, NEW l, t # "undefined",
         NEW d, NEW throws \in BOOLEAN, NEW moves \in BOOLEAN, c.type = d.type
  PROVE  \A s \in After(Going(t, c, o, l), Assign(d, throws, moves)) :
           \/ s = Going(t, d, IF moves THEN MovedFrom(o) ELSE o, l)
           \/ throws /\ s = Thrown(t, c, o, l)
<1> DEFINE s0 == Going(t, c, o, l)
           step == Assign(d, throws, moves)
           p == IF moves THEN MovedFrom(o) ELSE o
<1>1. After(s0, step) = Effects(s0, step)
  BY GoesOn
<1>2. /\ step.do = "assign" /\ step.throws = throws
      /\ step.object = d /\ step.moves = moves
  BY DEF Assign
<1>3. s0.this.cell = c
  BY Fields DEF Going, Holder
<1>4. Takes(s0, step) = Going(t, d, p, l)
  BY <1>2, Takes1 DEF Going
<1>5. Fails(s0) = Thrown(t, c, o, l)
  BY FailsAtOnce
<1> HIDE DEF s0, step, p
<1>6. Effects(s0, step) = {Takes(s0, step)} \cup (IF step.throws THEN {Fails(s0)} ELSE {})
  BY <1>2, <1>3 DEF Effects
<1>7. step.throws => throws
  BY <1>2
<1>8. \A s \in Effects(s0, step) : s = Takes(s0, step) \/ (step.throws /\ s = Fails(s0))
  <2>1. CASE step.throws
    BY <1>6, <2>1
  <2>2. CASE ~step.throws
    BY <1>6, <2>2
  <2> QED
    BY <2>1, <2>2
<1> QED
  BY <1>1, <1>4, <1>5, <1>7, <1>8 DEF s0, step, p

(* A copy that is made elsewhere, or not. *)
LEMMA CopyElsewhereStep ==
  ASSUME NEW t, NEW c, NEW o, NEW l, t # "undefined"
  PROVE  After(Going(t, c, o, l), CopyElsewhere) = {Going(t, c, o, l), Thrown(t, c, o, l)}
<1>1. CopyElsewhere.do = "copy_elsewhere"
  BY DEF CopyElsewhere
<1>2. \A s : Effects(s, CopyElsewhere) = {s, Fails(s)}
  BY <1>1 DEF Effects
<1> QED
  BY <1>2, GoesOn, FailsAtOnce

LEMMA AbandonStep ==
  ASSUME NEW t, NEW c, NEW o, NEW l, t # "undefined"
  PROVE  After(Going(t, c, o, l), Abandon) = {Going(t, c, o, Yes)}
<1>1. Abandon.do = "abandon"
  BY DEF Abandon
<1>2. Effects(Going(t, c, o, l), Abandon) = {[Going(t, c, o, l) EXCEPT !.leaked = Yes]}
  BY <1>1 DEF Effects, Yes
<1>3. [Going(t, c, o, l) EXCEPT !.leaked = Yes] = Going(t, c, o, Yes)
  BY WithLeaked DEF Going
<1> QED
  BY <1>2, <1>3, GoesOn

LEMMA ThrowStep ==
  ASSUME NEW t, NEW c, NEW o, NEW l, t # "undefined"
  PROVE  After(Going(t, c, o, l), Throw) = {Thrown(t, c, o, l)}
<1>1. Throw.do = "throw"
  BY DEF Throw
<1>2. \A s : Effects(s, Throw) = {Fails(s)}
  BY <1>1 DEF Effects
<1> QED
  BY <1>2, GoesOn, FailsAtOnce

LEMMA DispatchStep ==
  ASSUME NEW t, NEW c, NEW o, NEW l, NEW u, t # "undefined"
  PROVE  After(Going(t, c, o, l), Dispatch(u))
           = {IF u = "dead" THEN Lost(o, l) ELSE Going(t, c, o, l)}
<1>1. Dispatch(u).do = "dispatch" /\ Dispatch(u).tag = u
  BY DEF Dispatch
<1>2. \A s : Effects(s, Dispatch(u)) = {IF u = "dead" THEN [s EXCEPT !.this = Undefined] ELSE s}
  BY <1>1 DEF Effects
<1>3. [Going(t, c, o, l) EXCEPT !.this = Undefined] = Lost(o, l)
  BY WithThis DEF Going, Lost
<1> QED
  BY <1>2, <1>3, GoesOn

(* What is only done behind an exception. *)
LEMMA NoCleanup ==
  ASSUME NEW t, NEW c, NEW o, NEW l, t # "undefined"
  PROVE  /\ \A u : After(Going(t, c, o, l), OnThrow(u)) = {Going(t, c, o, l)}
         /\ After(Going(t, c, o, l), Unwind) = {Going(t, c, o, l)}
<1>1. (\A u : OnThrow(u).do = "on_throw") /\ Unwind.do = "unwind"
  BY DEF OnThrow, Unwind
<1>2. \A s, u : Effects(s, OnThrow(u)) = {s}
  BY <1>1 DEF Effects
<1>3. \A s : Effects(s, Unwind) = {s}
  BY <1>1 DEF Effects
<1> QED
  BY <1>2, <1>3, GoesOn

LEMMA OnThrowStep ==
  ASSUME NEW t, NEW c, NEW o, NEW l, NEW u, t # "undefined"
  PROVE  After(Thrown(t, c, o, l), OnThrow(u)) = {Thrown(u, c, o, l)}
<1>1. OnThrow(u).do = "on_throw" /\ OnThrow(u).tag = u
  BY DEF OnThrow
<1>2. Cleanup(Thrown(t, c, o, l), OnThrow(u)) = [Thrown(t, c, o, l) EXCEPT !.this.tag = u]
  BY <1>1 DEF Cleanup
<1>3. [Thrown(t, c, o, l) EXCEPT !.this.tag = u] = Thrown(u, c, o, l)
  BY WithTag DEF Thrown
<1> QED
  BY <1>2, <1>3, CleansUp

(* The destructor of a base class finds what the tag says, or does not.    *)
LEMMA UnwindStep ==
  ASSUME NEW t, NEW c, NEW o, NEW l, t # "undefined"
  PROVE  After(Thrown(t, c, o, l), Unwind) =
           {IF c.type = t THEN Thrown(t, Dead, o, l) ELSE State(Undefined, o, Yes, l)}
<1>1. Unwind.do = "unwind"
  BY DEF Unwind
<1>2. Thrown(t, c, o, l).this.cell = c /\ Thrown(t, c, o, l).this.tag = t
  BY Fields DEF Thrown, Holder
<1>3. [Thrown(t, c, o, l) EXCEPT !.this.cell = Dead] = Thrown(t, Dead, o, l)
  BY WithCell DEF Thrown
<1>4. [Thrown(t, c, o, l) EXCEPT !.this = Undefined] = State(Undefined, o, Yes, l)
  BY WithThis DEF Thrown
<1>5. Cleanup(Thrown(t, c, o, l), Unwind) =
        IF c.type = t THEN [Thrown(t, c, o, l) EXCEPT !.this.cell = Dead]
                      ELSE [Thrown(t, c, o, l) EXCEPT !.this = Undefined]
  BY <1>1, <1>2 DEF Cleanup
<1> QED
  BY <1>3, <1>4, <1>5, CleansUp

(* An exception skips the other steps.                                     *)
LEMMA Skipped ==
  ASSUME NEW t, NEW c, NEW o, NEW l, NEW step, t # "undefined",
         step.do \notin {"on_throw", "unwind"}
  PROVE  After(Thrown(t, c, o, l), step) = {Thrown(t, c, o, l)}
<1>1. \A s : Cleanup(s, step) = s
  BY DEF Cleanup
<1> QED
  BY <1>1, CleansUp

-----------------------------------------------------------------------------
(* What an operation must come to.                                         *)

(* A holder whose tag tells the truth. *)
Held(t, v) == Holder(t, Object(t, v))

Empty == Holder("dead", Dead)

Types(k) ==
  CASE k = "optional" -> {"T"}
    [] k = "error_or" -> {"T", "category"}
    [] k = "expected" -> {"T", "exception"}
    [] k = "variant" -> {"T1", "T2"}

Proper(k, h) ==
  \/ h = Gone
  \/ k \in {"optional", "variant"} /\ h = Empty
  \/ \E t \in Types(k) : \E v : h = Held(t, v)

(* The record of an operation on a with b, wherever they are. *)
Done(op, a, b, s) ==
  [NoOperation EXCEPT !.op = op, !.threw = s.threw, !.leaked = s.leaked,
                      !.on = a.tag, !.from = b.tag]

Transferring ==
  {"create_copy", "assign_copy", "assign_from", "create_moved", "assign_moved", "swap"}

(* What operation op of class k, on a with b, may come to. *)
Fine(k, op, a, b, s) ==
  /\ Truthful(s.this) => Proper(k, s.this)
  /\ ~Truthful(s.this) => MayLie(k, Done(op, a, b, s))
  /\ Proper(k, s.other)
  /\ s.leaked => MayLeak(k, Done(op, a, b, s))
  /\ Truthful(s.this) /\ s.threw => Spares(k, op, a, s.this) /\ Spares(k, op, b, s.other)
  /\ Truthful(s.this) /\ ~s.threw /\ op \in Transferring =>
       Transfers(op, a, b, s.this, s.other)

Kinds == {"optional", "error_or", "expected", "variant"}

(* The invariant of the holders. *)
HoldersInv ==
  /\ kind \in Kinds
  /\ DOMAIN holder = Slots
  /\ AllTruthful => \A h \in Slots : Proper(kind, holder[h])
  /\ TagsTellTheTruth
  /\ EveryObjectIsDestroyed

(* The two action properties of one step. *)
NoEffectStep ==
  last'.threw /\ (\A h \in Slots : Truthful(holder'[h])) =>
    \A h \in Slots : Spares(kind, last'.op, holder[h], holder'[h])

TransferStep ==
  /\ last'.op \in {"create_copy", "assign_copy", "assign_from",
                   "create_moved", "assign_moved", "swap"}
  /\ ~last'.threw
  /\ (\A h \in Slots : Truthful(holder'[h]))
  => LET h == last'.operands[1]
         g == last'.operands[2]
     IN  /\ Transfers(last'.op, holder[h], holder[g], holder'[h], holder'[g])
         /\ \A f \in Slots \ {h, g} : holder'[f] = holder[f]

StepFine == HoldersInv' /\ NoEffectStep /\ TransferStep

LEMMA HeldFacts ==
  ASSUME NEW t, NEW v
  PROVE  /\ Held(t, v).tag = t /\ Held(t, v).cell = Object(t, v)
         /\ Object(t, v).type = t /\ Object(t, v).value = v
         /\ Truthful(Held(t, v))
         /\ MovedFrom(Held(t, v)) = Held(t, Moved)
<1>1. /\ Held(t, v).tag = t /\ Held(t, v).cell = Object(t, v)
      /\ Object(t, v).type = t /\ Object(t, v).value = v
  BY DEF Held, Holder, Object
<1>2. Truthful(Held(t, v))
  BY <1>1 DEF Truthful
<1>3. MovedFrom(Held(t, v)) = Held(t, Moved)
  <2> DEFINE m == [Held(t, v) EXCEPT !.cell.value = Moved]
  <2>1. m.tag = t /\ m.cell = Object(t, Moved)
    BY DEF Held, Holder, Object
  <2>2. m = [tag |-> m.tag, cell |-> m.cell]
    BY DEF Held, Holder
  <2> HIDE DEF m
  <2>3. m = Held(t, Moved)
    BY <2>1, <2>2 DEF Held, Holder
  <2> QED
    BY <2>3 DEF MovedFrom, m
<1> QED
  BY <1>1, <1>2, <1>3

LEMMA EmptyFacts ==
  /\ Empty.tag = "dead" /\ Empty.cell = Dead /\ Dead.type = "dead" /\ Truthful(Empty)
  /\ Gone.tag = "gone" /\ Gone.cell = Dead /\ Truthful(Gone) /\ Gone # Empty
  /\ ~Truthful(Undefined) /\ ~Truthful(Raw)
  /\ Raw = Holder("raw", Dead)
BY DEF Empty, Holder, Dead, Object, Gone, Truthful, Undefined, Raw

LEMMA DoneFacts ==
  ASSUME NEW op, NEW a, NEW b, NEW s
  PROVE  /\ Done(op, a, b, s).op = op
         /\ Done(op, a, b, s).threw = s.threw /\ Done(op, a, b, s).leaked = s.leaked
         /\ Done(op, a, b, s).on = a.tag /\ Done(op, a, b, s).from = b.tag
BY DEF Done, NoOperation

(* The same with the slots of its operands, *)
Located(done, operands) == [done EXCEPT !.operands = operands]

(* which do not matter for what may go wrong.                              *)
LEMMA DoneAnywhere ==
  ASSUME NEW op, NEW a, NEW b, NEW s, NEW p
  PROVE  LET d == Done(op, a, b, s)
             done == Located(d, p)
         IN  /\ done.op = op /\ done.threw = s.threw /\ done.leaked = s.leaked
             /\ done.operands = p
             /\ \A k : (MayLie(k, done) <=> MayLie(k, d)) /\ (MayLeak(k, done) <=> MayLeak(k, d))
<1> DEFINE d == Done(op, a, b, s)
           done == Located(d, p)
<1>1. /\ done.op = d.op /\ done.threw = d.threw /\ done.leaked = d.leaked
      /\ done.on = d.on /\ done.from = d.from /\ done.code = d.code /\ done.operands = p
  BY DEF Done, NoOperation, Located
<1>2. d.op = op /\ d.threw = s.threw /\ d.leaked = s.leaked
  BY DoneFacts
<1> HIDE DEF d, done
<1>3. \A k : MayLie(k, done) <=> MayLie(k, d)
  BY <1>1 DEF MayLie
<1>4. \A k : MayLeak(k, done) <=> MayLeak(k, d)
  BY <1>1 DEF MayLeak
<1> QED
  BY <1>1, <1>2, <1>3, <1>4 DEF d, done

LEMMA ProperIsTruthful ==
  ASSUME NEW k, NEW h, Proper(k, h)
  PROVE  Truthful(h)
BY EmptyFacts, HeldFacts DEF Proper

(* An operation that can only come to what it must. *)
LEMMA OperationIsFine ==
  ASSUME HoldersInv, NEW h \in Slots, NEW g \in Slots, h # g, NEW op, NEW outcomes,
         Happens(op, h, g, outcomes),
         \A s \in outcomes : Fine(kind, op, holder[h], holder[g], s)
  PROVE  StepFine
<1>1. PICK s \in outcomes :
        /\ holder' = [holder EXCEPT ![h] = s.this, ![g] = s.other]
        /\ last' = Located(Done(op, holder[h], holder[g], s), <<h, g>>)
  BY DEF Happens, Done, Located
<1>2. AllTruthful /\ kind' = kind
  BY DEF Happens
<1>3. Fine(kind, op, holder[h], holder[g], s)
  BY <1>1
<1> DEFINE done == Done(op, holder[h], holder[g], s)
           now == Located(done, <<h, g>>)
<1>a. /\ now.op = op /\ now.threw = s.threw /\ now.leaked = s.leaked
      /\ now.operands = <<h, g>>
      /\ MayLie(kind, now) <=> MayLie(kind, done)
      /\ MayLeak(kind, now) <=> MayLeak(kind, done)
  BY DoneAnywhere
<1>b. last' = now
  BY <1>1
<1> HIDE DEF done, now
<1>4. /\ last'.op = op /\ last'.threw = s.threw /\ last'.leaked = s.leaked
      /\ last'.operands = <<h, g>>
  BY <1>a, <1>b
<1>5. /\ MayLie(kind, last') <=> MayLie(kind, done)
      /\ MayLeak(kind, last') <=> MayLeak(kind, done)
  BY <1>a, <1>b
<1>6. /\ DOMAIN holder' = Slots /\ holder'[h] = s.this /\ holder'[g] = s.other
      /\ \A f \in Slots \ {h, g} : holder'[f] = holder[f]
  BY <1>1 DEF HoldersInv
<1>7. \A f \in Slots : Proper(kind, holder[f])
  BY <1>2 DEF HoldersInv
<1>8. Truthful(s.this) => \A f \in Slots : Proper(kind, holder'[f])
  BY <1>3, <1>6, <1>7 DEF Fine
<1>9. AllTruthful' <=> Truthful(s.this)
  BY <1>6, <1>8, ProperIsTruthful DEF AllTruthful
<1>10. (AllTruthful => \A f \in Slots : Proper(kind, holder[f]))'
  BY <1>2, <1>8, <1>9
<1>11. TagsTellTheTruth'
  BY <1>2, <1>3, <1>5, <1>9 DEF TagsTellTheTruth, Fine, done
<1>12. EveryObjectIsDestroyed'
  <2>1. s.leaked => MayLeak(kind, done)
    BY <1>3 DEF Fine, done
  <2> QED
    BY <1>2, <1>4, <1>5, <2>1 DEF EveryObjectIsDestroyed
<1>13. HoldersInv'
  BY <1>2, <1>6, <1>10, <1>11, <1>12 DEF HoldersInv
<1>14. NoEffectStep
  <2> SUFFICES ASSUME last'.threw, \A f \in Slots : Truthful(holder'[f])
               PROVE  \A f \in Slots : Spares(kind, last'.op, holder[f], holder'[f])
    BY DEF NoEffectStep
  <2>1. s.threw /\ Truthful(s.this) /\ last'.op = op
    BY <1>4, <1>6
  <2>2. Spares(kind, op, holder[h], s.this) /\ Spares(kind, op, holder[g], s.other)
    BY <1>3, <2>1 DEF Fine
  <2>3. \A f \in Slots \ {h, g} : Spares(kind, op, holder[f], holder'[f])
    BY <1>6 DEF Spares
  <2> QED
    BY <1>6, <2>1, <2>2, <2>3
<1>15. TransferStep
  <2> SUFFICES ASSUME last'.op \in Transferring, ~last'.threw,
                      \A f \in Slots : Truthful(holder'[f])
               PROVE  /\ Transfers(last'.op, holder[h], holder[g], holder'[h], holder'[g])
                      /\ \A f \in Slots \ {h, g} : holder'[f] = holder[f]
    BY <1>4 DEF TransferStep, Transferring
  <2>1. ~s.threw /\ Truthful(s.this) /\ last'.op = op
    BY <1>4, <1>6
  <2> QED
    BY <1>3, <1>6, <2>1 DEF Fine
<1> QED
  BY <1>13, <1>14, <1>15 DEF StepFine

-----------------------------------------------------------------------------
(* Operations of up to seven steps, one step after the other.              *)

(* A longer operation comes to what one more step makes of the shorter.    *)
LEMMA LastStep ==
  ASSUME NEW h, NEW o, NEW steps, NEW longer, NEW n \in Nat,
         Len(steps) = n, Len(longer) = n + 1, \A i \in 1..n : longer[i] = steps[i]
  PROVE  \A s \in Outcomes(h, o, longer) :
           \E r \in Outcomes(h, o, steps) : s \in After(r, longer[n + 1])
<1>1. PICK f : Runs(f, h, o, steps, n) /\ Outcomes(h, o, steps) = f[n]
  BY OutcomesRun
<1>2. PICK g : Runs(g, h, o, longer, n + 1) /\ Outcomes(h, o, longer) = g[n + 1]
  BY OutcomesRun
<1> DEFINE T == {i \in Nat : i <= n => g[i] = f[i]}
<1>3. 0 \in T
  BY <1>1, <1>2 DEF Runs
<1>4. ASSUME NEW i \in T PROVE i + 1 \in T
  <2> SUFFICES ASSUME i + 1 <= n PROVE g[i + 1] = f[i + 1]
    OBVIOUS
  <2>1. /\ i \in Nat /\ g[i] = f[i] /\ (i + 1) - 1 = i
        /\ i + 1 \in 1..n /\ i + 1 \in 1..(n + 1)
    OBVIOUS
  <2>2. f[i + 1] = UNION {After(s, steps[i + 1]) : s \in f[i]}
    BY <1>1, <2>1 DEF Runs
  <2>3. g[i + 1] = UNION {After(s, longer[i + 1]) : s \in g[i]}
    BY <1>2, <2>1 DEF Runs
  <2> QED
    BY <2>1, <2>2, <2>3
<1> HIDE DEF T
<1>5. T = Nat
  <2>1. T \in SUBSET Nat
    BY DEF T
  <2> QED
    BY <1>3, <1>4, <2>1, SetInduction
<1>6. g[n] = f[n]
  BY <1>5 DEF T
<1>7. g[n + 1] = UNION {After(s, longer[n + 1]) : s \in g[n]}
  <2>1. n + 1 \in 1..(n + 1) /\ (n + 1) - 1 = n
    OBVIOUS
  <2> QED
    BY <1>2, <2>1 DEF Runs
<1> QED
  BY <1>1, <1>2, <1>6, <1>7

LEMMA NoSteps ==
  ASSUME NEW t, NEW c, NEW o
  PROVE  Outcomes(Holder(t, c), o, <<>>) = {Going(t, c, o, No)}
<1>1. PICK f : Runs(f, Holder(t, c), o, <<>>, 0) /\ Outcomes(Holder(t, c), o, <<>>) = f[0]
  BY OutcomesRun
<1> QED
  BY <1>1 DEF Runs, Going, State, No

LEMMA Step1 ==
  ASSUME NEW h, NEW o, NEW x1
  PROVE  \A s \in Outcomes(h, o, <<x1>>) :
           \E r \in Outcomes(h, o, <<>>) : s \in After(r, x1)
<1> DEFINE steps == <<>>
           longer == <<x1>>
<1>1. /\ Len(steps) = 0 /\ Len(longer) = 0 + 1 /\ longer[0 + 1] = x1
      /\ \A i \in 1..0 : longer[i] = steps[i]
  OBVIOUS
<1> HIDE DEF steps, longer
<1>2. \A s \in Outcomes(h, o, longer) : \E r \in Outcomes(h, o, steps) : s \in After(r, x1)
  <2>1. \A s \in Outcomes(h, o, longer) :
          \E r \in Outcomes(h, o, steps) : s \in After(r, longer[0 + 1])
    <3>1. 0 \in Nat
      OBVIOUS
    <3> QED
      BY ONLY <1>1, <3>1, LastStep
  <2> QED
    BY <1>1, <2>1
<1> QED
  BY <1>2 DEF steps, longer

LEMMA Step2 ==
  ASSUME NEW h, NEW o, NEW x1, NEW x2
  PROVE  \A s \in Outcomes(h, o, <<x1, x2>>) :
           \E r \in Outcomes(h, o, <<x1>>) : s \in After(r, x2)
<1> DEFINE steps == <<x1>>
           longer == <<x1, x2>>
<1>1. /\ Len(steps) = 1 /\ Len(longer) = 1 + 1 /\ longer[1 + 1] = x2
      /\ \A i \in 1..1 : longer[i] = steps[i]
  OBVIOUS
<1> HIDE DEF steps, longer
<1>2. \A s \in Outcomes(h, o, longer) : \E r \in Outcomes(h, o, steps) : s \in After(r, x2)
  BY <1>1, LastStep
<1> QED
  BY <1>2 DEF steps, longer

LEMMA Step3 ==
  ASSUME NEW h, NEW o, NEW x1, NEW x2, NEW x3
  PROVE  \A s \in Outcomes(h, o, <<x1, x2, x3>>) :
           \E r \in Outcomes(h, o, <<x1, x2>>) : s \in After(r, x3)
<1> DEFINE steps == <<x1, x2>>
           longer == <<x1, x2, x3>>
<1>1. /\ Len(steps) = 2 /\ Len(longer) = 2 + 1 /\ longer[2 + 1] = x3
      /\ \A i \in 1..2 : longer[i] = steps[i]
  OBVIOUS
<1> HIDE DEF steps, longer
<1>2. \A s \in Outcomes(h, o, longer) : \E r \in Outcomes(h, o, steps) : s \in After(r, x3)
  BY <1>1, LastStep
<1> QED
  BY <1>2 DEF steps, longer

LEMMA Step4 ==
  ASSUME NEW h, NEW o, NEW x1, NEW x2, NEW x3, NEW x4
  PROVE  \A s \in Outcomes(h, o, <<x1, x2, x3, x4>>) :
           \E r \in Outcomes(h, o, <<x1, x2, x3>>) : s \in After(r, x4)
<1> DEFINE steps == <<x1, x2, x3>>
           longer == <<x1, x2, x3, x4>>
<1>1. /\ Len(steps) = 3 /\ Len(longer) = 3 + 1 /\ longer[3 + 1] = x4
      /\ \A i \in 1..3 : longer[i] = steps[i]
  OBVIOUS
<1> HIDE DEF steps, longer
<1>2. \A s \in Outcomes(h, o, longer) : \E r \in Outcomes(h, o, steps) : s \in After(r, x4)
  BY <1>1, LastStep
<1> QED
  BY <1>2 DEF steps, longer

LEMMA Step5 ==
  ASSUME NEW h, NEW o, NEW x1, NEW x2, NEW x3, NEW x4, NEW x5
  PROVE  \A s \in Outcomes(h, o, <<x1, x2, x3, x4, x5>>) :
           \E r \in Outcomes(h, o, <<x1, x2, x3, x4>>) : s \in After(r, x5)
<1> DEFINE steps == <<x1, x2, x3, x4>>
           longer == <<x1, x2, x3, x4, x5>>
<1>1. /\ Len(steps) = 4 /\ Len(longer) = 4 + 1 /\ longer[4 + 1] = x5
      /\ \A i \in 1..4 : longer[i] = steps[i]
  OBVIOUS
<1> HIDE DEF steps, longer
<1>2. \A s \in Outcomes(h, o, longer) : \E r \in Outcomes(h, o, steps) : s \in After(r, x5)
  BY <1>1, LastStep
<1> QED
  BY <1>2 DEF steps, longer

LEMMA Step6 ==
  ASSUME NEW h, NEW o, NEW x1, NEW x2, NEW x3, NEW x4, NEW x5, NEW x6
  PROVE  \A s \in Outcomes(h, o, <<x1, x2, x3, x4, x5, x6>>) :
           \E r \in Outcomes(h, o, <<x1, x2, x3, x4, x5>>) : s \in After(r, x6)
<1> DEFINE steps == <<x1, x2, x3, x4, x5>>
           longer == <<x1, x2, x3, x4, x5, x6>>
<1>1. /\ Len(steps) = 5 /\ Len(longer) = 5 + 1 /\ longer[5 + 1] = x6
      /\ \A i \in 1..5 : longer[i] = steps[i]
  OBVIOUS
<1> HIDE DEF steps, longer
<1>2. \A s \in Outcomes(h, o, longer) : \E r \in Outcomes(h, o, steps) : s \in After(r, x6)
  BY <1>1, LastStep
<1> QED
  BY <1>2 DEF steps, longer

LEMMA Step7 ==
  ASSUME NEW h, NEW o, NEW x1, NEW x2, NEW x3, NEW x4, NEW x5, NEW x6, NEW x7
  PROVE  \A s \in Outcomes(h, o, <<x1, x2, x3, x4, x5, x6, x7>>) :
           \E r \in Outcomes(h, o, <<x1, x2, x3, x4, x5, x6>>) : s \in After(r, x7)
<1> DEFINE steps == <<x1, x2, x3, x4, x5, x6>>
           longer == <<x1, x2, x3, x4, x5, x6, x7>>
<1>1. /\ Len(steps) = 6 /\ Len(longer) = 6 + 1 /\ longer[6 + 1] = x7
      /\ \A i \in 1..6 : longer[i] = steps[i]
  OBVIOUS
<1> HIDE DEF steps, longer
<1>2. \A s \in Outcomes(h, o, longer) : \E r \in Outcomes(h, o, steps) : s \in After(r, x7)
  BY <1>1, LastStep
<1> QED
  BY <1>2 DEF steps, longer

(* Behind an exception the steps that make up an operation do nothing.     *)
LEMMA NothingMore ==
  ASSUME NEW t, NEW c, NEW o, NEW l, t # "undefined"
  PROVE  /\ \A u : After(Thrown(t, c, o, l), SetTag(u)) = {Thrown(t, c, o, l)}
         /\ \A u : After(Thrown(t, c, o, l), Destroy(u)) = {Thrown(t, c, o, l)}
         /\ \A u : After(Thrown(t, c, o, l), Dispatch(u)) = {Thrown(t, c, o, l)}
         /\ After(Thrown(t, c, o, l), CopyElsewhere) = {Thrown(t, c, o, l)}
         /\ After(Thrown(t, c, o, l), Abandon) = {Thrown(t, c, o, l)}
<1>1. \A u : SetTag(u).do = "tag"
  BY DEF SetTag
<1>2. \A u : Destroy(u).do = "destroy"
  BY DEF Destroy
<1>3. \A u : Dispatch(u).do = "dispatch"
  BY DEF Dispatch
<1>4. CopyElsewhere.do = "copy_elsewhere" /\ Abandon.do = "abandon"
  BY DEF CopyElsewhere, Abandon
<1>5. \A step : step.do \notin {"on_throw", "unwind"} =>
                  After(Thrown(t, c, o, l), step) = {Thrown(t, c, o, l)}
  BY Skipped
<1> QED
  BY <1>1, <1>2, <1>3, <1>4, <1>5

LEMMA NothingMade ==
  ASSUME NEW t, NEW c, NEW o, NEW l, t # "undefined",
         NEW d, NEW throws \in BOOLEAN, NEW moves \in BOOLEAN
  PROVE  /\ After(Thrown(t, c, o, l), Construct(d, throws, moves)) = {Thrown(t, c, o, l)}
         /\ After(Thrown(t, c, o, l), Assign(d, throws, moves)) = {Thrown(t, c, o, l)}
<1>1. Construct(d, throws, moves).do = "construct"
  BY DEF Construct
<1>2. Assign(d, throws, moves).do = "assign"
  BY DEF Assign
<1> QED
  BY <1>1, <1>2, Skipped

(* What remains of the object that is copied or moved from. *)
Source(o, moves) == IF moves THEN MovedFrom(o) ELSE o

(* Nothing is overwritten where there is no object. *)
LEMMA ConstructFree ==
  ASSUME NEW t, NEW c, NEW o, NEW l \in BOOLEAN, t # "undefined", ~Owned(c),
         NEW d, NEW throws \in BOOLEAN, NEW moves \in BOOLEAN
  PROVE  \A s \in After(Going(t, c, o, l), Construct(d, throws, moves)) :
           \/ s = Going(t, d, Source(o, moves), l)
           \/ throws /\ s = Thrown(t, Dead, o, l)
<1>1. PICK k \in BOOLEAN :
        /\ k = IF Owned(c) THEN Yes ELSE l
        /\ \A s \in After(Going(t, c, o, l), Construct(d, throws, moves)) :
             \/ s = Going(t, d, IF moves THEN MovedFrom(o) ELSE o, k)
             \/ throws /\ s = Thrown(t, Dead, o, k)
  BY ConstructStep
<1>2. k = l
  BY <1>1
<1> QED
  BY <1>1, <1>2 DEF Source

LEMMA AssignOver ==
  ASSUME NEW t, NEW c, NEW o, NEW l, t # "undefined",
         NEW d, NEW throws \in BOOLEAN, NEW moves \in BOOLEAN, c.type = d.type
  PROVE  \A s \in After(Going(t, c, o, l), Assign(d, throws, moves)) :
           \/ s = Going(t, d, Source(o, moves), l)
           \/ throws /\ s = Thrown(t, c, o, l)
BY AssignStep DEF Source

(* The object that is there is destroyed. *)
LEMMA Destroyed ==
  ASSUME NEW t, NEW c, NEW o, t # "undefined", NEW u, c.type = u
  PROVE  Outcomes(Holder(t, c), o, <<Destroy(u)>>) \subseteq {Going(t, Dead, o, No)}
<1>1. \A s \in Outcomes(Holder(t, c), o, <<Destroy(u)>>) :
        s \in After(Going(t, c, o, No), Destroy(u))
  BY NoSteps, Step1
<1> QED
  BY <1>1, DestroyStep

LEMMA Tagged ==
  ASSUME NEW t, NEW c, NEW o, t # "undefined", NEW u
  PROVE  Outcomes(Holder(t, c), o, <<SetTag(u)>>) \subseteq {Going(u, c, o, No)}
<1>1. \A s \in Outcomes(Holder(t, c), o, <<SetTag(u)>>) :
        s \in After(Going(t, c, o, No), SetTag(u))
  BY NoSteps, Step1
<1> QED
  BY <1>1, TagStep

(* The tag is set before the object is made ... *)
LEMMA TaggedThenMade ==
  ASSUME NEW t, NEW c, NEW o, t # "undefined", ~Owned(c), NEW u, u # "undefined",
         NEW d, NEW throws \in BOOLEAN, NEW moves \in BOOLEAN
  PROVE  \A s \in Outcomes(Holder(t, c), o, <<SetTag(u), Construct(d, throws, moves)>>) :
           \/ s = Going(u, d, Source(o, moves), No)
           \/ throws /\ s = Thrown(u, Dead, o, No)
<1> DEFINE x1 == SetTag(u)
           x2 == Construct(d, throws, moves)
<1>1. Outcomes(Holder(t, c), o, <<x1>>) \subseteq {Going(u, c, o, No)}
  BY Tagged
<1>2. \A s \in After(Going(u, c, o, No), x2) :
        s = Going(u, d, Source(o, moves), No) \/ (throws /\ s = Thrown(u, Dead, o, No))
  <2>1. No \in BOOLEAN
    BY DEF No
  <2> QED
    BY <2>1, ConstructFree
<1> HIDE DEF x1, x2
<1>3. \A s \in Outcomes(Holder(t, c), o, <<x1, x2>>) :
        s = Going(u, d, Source(o, moves), No) \/ (throws /\ s = Thrown(u, Dead, o, No))
  BY <1>1, <1>2, Step2
<1> QED
  BY <1>3 DEF x1, x2

(* ... or behind it. *)
LEMMA MadeThenTagged ==
  ASSUME NEW t, NEW c, NEW o, t # "undefined", ~Owned(c), NEW u,
         NEW d, NEW throws \in BOOLEAN, NEW moves \in BOOLEAN
  PROVE  \A s \in Outcomes(Holder(t, c), o, <<Construct(d, throws, moves), SetTag(u)>>) :
           \/ s = Going(u, d, Source(o, moves), No)
           \/ throws /\ s = Thrown(t, Dead, o, No)
<1> DEFINE x1 == Construct(d, throws, moves)
           x2 == SetTag(u)
<1>1. \A s \in Outcomes(Holder(t, c), o, <<x1>>) :
        s \in After(Going(t, c, o, No), x1)
  BY NoSteps, Step1
<1>2. \A s \in Outcomes(Holder(t, c), o, <<x1>>) :
        \/ s = Going(t, d, Source(o, moves), No)
        \/ throws /\ s = Thrown(t, Dead, o, No)
  <2>1. No \in BOOLEAN
    BY DEF No
  <2> QED
    BY <1>1, <2>1, ConstructFree
<1>3. After(Going(t, d, Source(o, moves), No), x2) = {Going(u, d, Source(o, moves), No)}
  BY TagStep
<1>4. After(Thrown(t, Dead, o, No), x2) = {Thrown(t, Dead, o, No)}
  BY NothingMore
<1> HIDE DEF x1, x2
<1>5. \A s \in Outcomes(Holder(t, c), o, <<x1, x2>>) :
        \/ s = Going(u, d, Source(o, moves), No)
        \/ throws /\ s = Thrown(t, Dead, o, No)
  BY <1>2, <1>3, <1>4, Step2
<1> QED
  BY <1>5 DEF x1, x2

LEMMA AssignedOver ==
  ASSUME NEW t, NEW c, NEW o, t # "undefined",
         NEW d, NEW throws \in BOOLEAN, NEW moves \in BOOLEAN, c.type = d.type
  PROVE  \A s \in Outcomes(Holder(t, c), o, <<Assign(d, throws, moves)>>) :
           \/ s = Going(t, d, Source(o, moves), No)
           \/ throws /\ s = Thrown(t, c, o, No)
<1> DEFINE x1 == Assign(d, throws, moves)
<1>1. \A s \in Outcomes(Holder(t, c), o, <<x1>>) : s \in After(Going(t, c, o, No), x1)
  BY NoSteps, Step1
<1> QED
  BY <1>1, AssignOver

LEMMA AssignedThenTagged ==
  ASSUME NEW t, NEW c, NEW o, t # "undefined",
         NEW d, NEW throws \in BOOLEAN, NEW moves \in BOOLEAN, c.type = d.type
  PROVE  \A s \in Outcomes(Holder(t, c), o, <<Assign(d, throws, moves), SetTag(t)>>) :
           \/ s = Going(t, d, Source(o, moves), No)
           \/ throws /\ s = Thrown(t, c, o, No)
<1> DEFINE x1 == Assign(d, throws, moves)
           x2 == SetTag(t)
<1>1. \A s \in Outcomes(Holder(t, c), o, <<x1>>) :
        s = Going(t, d, Source(o, moves), No) \/ (throws /\ s = Thrown(t, c, o, No))
  BY AssignedOver
<1>2. After(Going(t, d, Source(o, moves), No), x2) = {Going(t, d, Source(o, moves), No)}
  BY TagStep
<1>3. After(Thrown(t, c, o, No), x2) = {Thrown(t, c, o, No)}
  BY NothingMore
<1> HIDE DEF x1, x2
<1>4. \A s \in Outcomes(Holder(t, c), o, <<x1, x2>>) :
        s = Going(t, d, Source(o, moves), No) \/ (throws /\ s = Thrown(t, c, o, No))
  BY <1>1, <1>2, <1>3, Step2
<1> QED
  BY <1>4 DEF x1, x2

LEMMA DestroyedThenTagged ==
  ASSUME NEW t, NEW c, NEW o, t # "undefined", NEW u, c.type = u, NEW v
  PROVE  Outcomes(Holder(t, c), o, <<Destroy(u), SetTag(v)>>) \subseteq {Going(v, Dead, o, No)}
<1> DEFINE x1 == Destroy(u)
           x2 == SetTag(v)
<1>1. Outcomes(Holder(t, c), o, <<x1>>) \subseteq {Going(t, Dead, o, No)}
  BY Destroyed
<1>2. After(Going(t, Dead, o, No), x2) = {Going(v, Dead, o, No)}
  BY TagStep
<1> HIDE DEF x1, x2
<1>3. Outcomes(Holder(t, c), o, <<x1, x2>>) \subseteq {Going(v, Dead, o, No)}
  BY <1>1, <1>2, Step2
<1> QED
  BY <1>3 DEF x1, x2

LEMMA DeadIsFree == ~Owned(Dead)
BY EmptyFacts DEF Owned

LEMMA DestroyedThenMade ==
  ASSUME NEW t, NEW c, NEW o, t # "undefined", NEW u, c.type = u,
         NEW d, NEW throws \in BOOLEAN, NEW moves \in BOOLEAN
  PROVE  \A s \in Outcomes(Holder(t, c), o, <<Destroy(u), Construct(d, throws, moves)>>) :
           \/ s = Going(t, d, Source(o, moves), No)
           \/ throws /\ s = Thrown(t, Dead, o, No)
<1> DEFINE x1 == Destroy(u)
           x2 == Construct(d, throws, moves)
<1>1. Outcomes(Holder(t, c), o, <<x1>>) \subseteq {Going(t, Dead, o, No)}
  BY Destroyed
<1>2. \A s \in After(Going(t, Dead, o, No), x2) :
        s = Going(t, d, Source(o, moves), No) \/ (throws /\ s = Thrown(t, Dead, o, No))
  <2>1. No \in BOOLEAN
    BY DEF No
  <2> QED
    BY <2>1, ConstructFree, DeadIsFree
<1> HIDE DEF x1, x2
<1>3. \A s \in Outcomes(Holder(t, c), o, <<x1, x2>>) :
        s = Going(t, d, Source(o, moves), No) \/ (throws /\ s = Thrown(t, Dead, o, No))
  BY <1>1, <1>2, Step2
<1> QED
  BY <1>3 DEF x1, x2

LEMMA DestroyedMadeTagged ==
  ASSUME NEW t, NEW c, NEW o, t # "undefined", NEW u, c.type = u,
         NEW d, NEW throws \in BOOLEAN, NEW moves \in BOOLEAN, NEW v
  PROVE  \A s \in Outcomes(Holder(t, c), o,
                           <<Destroy(u), Construct(d, throws, moves), SetTag(v)>>) :
           \/ s = Going(v, d, Source(o, moves), No)
           \/ throws /\ s = Thrown(t, Dead, o, No)
<1> DEFINE x1 == Destroy(u)
           x2 == Construct(d, throws, moves)
           x3 == SetTag(v)
<1>1. \A s \in Outcomes(Holder(t, c), o, <<x1, x2>>) :
        s = Going(t, d, Source(o, moves), No) \/ (throws /\ s = Thrown(t, Dead, o, No))
  BY DestroyedThenMade
<1>2. After(Going(t, d, Source(o, moves), No), x3) = {Going(v, d, Source(o, moves), No)}
  BY TagStep
<1>3. After(Thrown(t, Dead, o, No), x3) = {Thrown(t, Dead, o, No)}
  BY NothingMore
<1> HIDE DEF x1, x2, x3
<1>4. \A s \in Outcomes(Holder(t, c), o, <<x1, x2, x3>>) :
        s = Going(v, d, Source(o, moves), No) \/ (throws /\ s = Thrown(t, Dead, o, No))
  BY <1>1, <1>2, <1>3, Step3
<1> QED
  BY <1>4 DEF x1, x2, x3

LEMMA DestroyedTaggedMade ==
  ASSUME NEW t, NEW c, NEW o, t # "undefined", NEW u, c.type = u, NEW v, v # "undefined",
         NEW d, NEW throws \in BOOLEAN, NEW moves \in BOOLEAN
  PROVE  \A s \in Outcomes(Holder(t, c), o,
                           <<Destroy(u), SetTag(v), Construct(d, throws, moves)>>) :
           \/ s = Going(v, d, Source(o, moves), No)
           \/ throws /\ s = Thrown(v, Dead, o, No)
<1> DEFINE x1 == Destroy(u)
           x2 == SetTag(v)
           x3 == Construct(d, throws, moves)
<1>1. Outcomes(Holder(t, c), o, <<x1, x2>>) \subseteq {Going(v, Dead, o, No)}
  BY DestroyedThenTagged
<1>2. \A s \in After(Going(v, Dead, o, No), x3) :
        s = Going(v, d, Source(o, moves), No) \/ (throws /\ s = Thrown(v, Dead, o, No))
  <2>1. No \in BOOLEAN
    BY DEF No
  <2> QED
    BY <2>1, ConstructFree, DeadIsFree
<1> HIDE DEF x1, x2, x3
<1>3. \A s \in Outcomes(Holder(t, c), o, <<x1, x2, x3>>) :
        s = Going(v, d, Source(o, moves), No) \/ (throws /\ s = Thrown(v, Dead, o, No))
  BY <1>1, <1>2, Step3
<1> QED
  BY <1>3 DEF x1, x2, x3

LEMMA DestroyedTaggedMadeTagged ==
  ASSUME NEW t, NEW c, NEW o, t # "undefined", NEW u, c.type = u, NEW v, v # "undefined",
         NEW d, NEW throws \in BOOLEAN, NEW moves \in BOOLEAN, NEW w
  PROVE  \A s \in Outcomes(Holder(t, c), o,
                    <<Destroy(u), SetTag(v), Construct(d, throws, moves), SetTag(w)>>) :
           \/ s = Going(w, d, Source(o, moves), No)
           \/ throws /\ s = Thrown(v, Dead, o, No)
<1> DEFINE x1 == Destroy(u)
           x2 == SetTag(v)
           x3 == Construct(d, throws, moves)
           x4 == SetTag(w)
<1>1. \A s \in Outcomes(Holder(t, c), o, <<x1, x2, x3>>) :
        s = Going(v, d, Source(o, moves), No) \/ (throws /\ s = Thrown(v, Dead, o, No))
  BY DestroyedTaggedMade
<1>2. After(Going(v, d, Source(o, moves), No), x4) = {Going(w, d, Source(o, moves), No)}
  BY TagStep
<1>3. After(Thrown(v, Dead, o, No), x4) = {Thrown(v, Dead, o, No)}
  BY NothingMore
<1> HIDE DEF x1, x2, x3, x4
<1>4. \A s \in Outcomes(Holder(t, c), o, <<x1, x2, x3, x4>>) :
        s = Going(w, d, Source(o, moves), No) \/ (throws /\ s = Thrown(v, Dead, o, No))
  BY <1>1, <1>2, <1>3, Step4
<1> QED
  BY <1>4 DEF x1, x2, x3, x4

(* A copy is made elsewhere before it is moved to where it belongs. *)
LEMMA Copied ==
  ASSUME NEW t, NEW c, NEW o, t # "undefined"
  PROVE  Outcomes(Holder(t, c), o, <<CopyElsewhere>>)
           \subseteq {Going(t, c, o, No), Thrown(t, c, o, No)}
<1>1. \A s \in Outcomes(Holder(t, c), o, <<CopyElsewhere>>) :
        s \in After(Going(t, c, o, No), CopyElsewhere)
  BY NoSteps, Step1
<1> QED
  BY <1>1, CopyElsewhereStep

LEMMA CopiedThenAssigned ==
  ASSUME NEW t, NEW c, NEW o, t # "undefined", NEW d, c.type = d.type,
         NEW throws \in BOOLEAN, ~throws, NEW moves \in BOOLEAN
  PROVE  Outcomes(Holder(t, c), o, <<CopyElsewhere, Assign(d, throws, moves)>>)
           \subseteq {Going(t, d, Source(o, moves), No), Thrown(t, c, o, No)}
<1> DEFINE x1 == CopyElsewhere
           x2 == Assign(d, throws, moves)
<1>1. Outcomes(Holder(t, c), o, <<x1>>) \subseteq {Going(t, c, o, No), Thrown(t, c, o, No)}
  BY Copied
<1>2. After(Going(t, c, o, No), x2) \subseteq {Going(t, d, Source(o, moves), No)}
  BY AssignOver
<1>3. After(Thrown(t, c, o, No), x2) = {Thrown(t, c, o, No)}
  BY NothingMade
<1> HIDE DEF x1, x2
<1>4. Outcomes(Holder(t, c), o, <<x1, x2>>)
        \subseteq {Going(t, d, Source(o, moves), No), Thrown(t, c, o, No)}
  BY <1>1, <1>2, <1>3, Step2
<1> QED
  BY <1>4 DEF x1, x2

LEMMA CopiedTaggedMade ==
  ASSUME NEW t, NEW c, NEW o, t # "undefined", ~Owned(c), NEW u, u # "undefined",
         NEW d, NEW throws \in BOOLEAN, ~throws, NEW moves \in BOOLEAN
  PROVE  Outcomes(Holder(t, c), o, <<CopyElsewhere, SetTag(u), Construct(d, throws, moves)>>)
           \subseteq {Going(u, d, Source(o, moves), No), Thrown(t, c, o, No)}
<1> DEFINE x1 == CopyElsewhere
           x2 == SetTag(u)
           x3 == Construct(d, throws, moves)
<1>1. Outcomes(Holder(t, c), o, <<x1>>) \subseteq {Going(t, c, o, No), Thrown(t, c, o, No)}
  BY Copied
<1>2. After(Going(t, c, o, No), x2) = {Going(u, c, o, No)}
  BY TagStep
<1>3. After(Thrown(t, c, o, No), x2) = {Thrown(t, c, o, No)}
  BY NothingMore
<1>4. After(Going(u, c, o, No), x3) \subseteq {Going(u, d, Source(o, moves), No)}
  <2>1. No \in BOOLEAN
    BY DEF No
  <2> QED
    BY <2>1, ConstructFree
<1>5. After(Thrown(t, c, o, No), x3) = {Thrown(t, c, o, No)}
  BY NothingMade
<1> HIDE DEF x1, x2, x3
<1>6. Outcomes(Holder(t, c), o, <<x1, x2>>) \subseteq {Going(u, c, o, No), Thrown(t, c, o, No)}
  BY <1>1, <1>2, <1>3, Step2
<1>7. Outcomes(Holder(t, c), o, <<x1, x2, x3>>)
        \subseteq {Going(u, d, Source(o, moves), No), Thrown(t, c, o, No)}
  BY <1>4, <1>5, <1>6, Step3
<1> QED
  BY <1>7 DEF x1, x2, x3

-----------------------------------------------------------------------------
(* Some steps before others. *)
LEMMA Joining ==
  ASSUME NEW S, NEW a \in Seq(S), NEW b \in Seq(S), NEW c \in Seq(S),
         Len(c) = Len(a) + Len(b), \A i \in 1..Len(a) : c[i] = a[i],
         \A i \in 1..Len(b) : c[Len(a) + i] = b[i]
  PROVE  a \o b = c
<1> DEFINE j == a \o b
<1>1. j \in Seq(S)
  BY ConcatProperties
<1>2. Len(j) = Len(a) + Len(b)
  BY ConcatProperties
<1>3. \A i \in 1 .. Len(a) + Len(b) : j[i] = IF i <= Len(a) THEN a[i] ELSE b[i - Len(a)]
  BY ConcatProperties
<1> HIDE DEF j
<1>4. Len(a) \in Nat /\ Len(b) \in Nat
  OBVIOUS
<1>5. ASSUME NEW i \in 1..Len(c) PROVE j[i] = c[i]
  <2>1. CASE i <= Len(a)
    BY <1>3, <1>4, <2>1
  <2>2. CASE ~(i <= Len(a))
    <3>1. i - Len(a) \in 1..Len(b) /\ Len(a) + (i - Len(a)) = i
      BY <1>4, <2>2
    <3>2. c[Len(a) + (i - Len(a))] = b[i - Len(a)]
      BY <3>1
    <3> QED
      BY <1>3, <1>4, <2>2, <3>1, <3>2
  <2> QED
    BY <2>1, <2>2
<1>6. j = c
  BY <1>1, <1>2, <1>5
<1> QED
  BY <1>6 DEF j

LEMMA Joined ==
  /\ \A w, x, y, z : <<w, x>> \o <<y, z>> = <<w, x, y, z>>
  /\ \A w, x, y : <<w>> \o <<x, y>> = <<w, x, y>>
  /\ \A w, x : <<w>> \o <<x>> = <<w, x>>
<1>1. ASSUME NEW w, NEW x, NEW y, NEW z
      PROVE  <<w, x>> \o <<y, z>> = <<w, x, y, z>>
  <2> DEFINE S == {w, x, y, z}
             a == <<w, x>>
             b == <<y, z>>
             c == <<w, x, y, z>>
  <2>1. /\ a \in Seq(S) /\ b \in Seq(S) /\ c \in Seq(S)
        /\ Len(a) = 2 /\ Len(b) = 2 /\ Len(c) = 4
    OBVIOUS
  <2>2. c[1] = a[1] /\ c[2] = a[2]
    OBVIOUS
  <2>3. c[2 + 1] = b[1] /\ c[2 + 2] = b[2]
    OBVIOUS
  <2> HIDE DEF a, b, c, S
  <2>4. \A i \in 1..Len(a) : c[i] = a[i]
    BY <2>1, <2>2
  <2>5. \A i \in 1..Len(b) : c[Len(a) + i] = b[i]
    BY <2>1, <2>3
  <2>6. Len(c) = Len(a) + Len(b)
    BY <2>1
  <2>7. a \o b = c
    BY ONLY <2>1, <2>4, <2>5, <2>6, Joining, Zenon
  <2> QED
    BY <2>7 DEF a, b, c
<1>2. ASSUME NEW w, NEW x, NEW y
      PROVE  <<w>> \o <<x, y>> = <<w, x, y>>
  <2> DEFINE S == {w, x, y}
             a == <<w>>
             b == <<x, y>>
             c == <<w, x, y>>
  <2>1. /\ a \in Seq(S) /\ b \in Seq(S) /\ c \in Seq(S)
        /\ Len(a) = 1 /\ Len(b) = 2 /\ Len(c) = 3
    OBVIOUS
  <2>2. c[1] = a[1]
    OBVIOUS
  <2>3. c[1 + 1] = b[1] /\ c[1 + 2] = b[2]
    OBVIOUS
  <2> HIDE DEF a, b, c, S
  <2>4. \A i \in 1..Len(a) : c[i] = a[i]
    BY <2>1, <2>2
  <2>5. \A i \in 1..Len(b) : c[Len(a) + i] = b[i]
    BY <2>1, <2>3
  <2>6. Len(c) = Len(a) + Len(b)
    BY <2>1
  <2>7. a \o b = c
    BY ONLY <2>1, <2>4, <2>5, <2>6, Joining, Zenon
  <2> QED
    BY <2>7 DEF a, b, c
<1>3. ASSUME NEW w, NEW x
      PROVE  <<w>> \o <<x>> = <<w, x>>
  <2> DEFINE S == {w, x}
             a == <<w>>
             b == <<x>>
             c == <<w, x>>
  <2>1. /\ a \in Seq(S) /\ b \in Seq(S) /\ c \in Seq(S)
        /\ Len(a) = 1 /\ Len(b) = 1 /\ Len(c) = 2
    OBVIOUS
  <2>2. c[1] = a[1]
    OBVIOUS
  <2>3. c[1 + 1] = b[1]
    OBVIOUS
  <2> HIDE DEF a, b, c, S
  <2>4. \A i \in 1..Len(a) : c[i] = a[i]
    BY <2>1, <2>2
  <2>5. \A i \in 1..Len(b) : c[Len(a) + i] = b[i]
    BY <2>1, <2>3
  <2>6. Len(c) = Len(a) + Len(b)
    BY <2>1
  <2>7. a \o b = c
    BY ONLY <2>1, <2>4, <2>5, <2>6, Joining, Zenon
  <2> QED
    BY <2>7 DEF a, b, c
<1> QED
  BY <1>1, <1>2, <1>3

-----------------------------------------------------------------------------
(* The ends that are fine.                                                 *)

(* What of r is left when r has been constructed. *)
Finished(r) == IF r.threw /\ r.this # Undefined THEN [r EXCEPT !.this = Gone] ELSE r

LEMMA ConstructedFinished ==
  ASSUME NEW o, NEW steps
  PROVE  \A s \in Constructed(o, steps) :
           \E r \in Outcomes(Holder("raw", Dead), o, steps) : s = Finished(r)
<1>1. Raw = Holder("raw", Dead)
  BY EmptyFacts
<1> QED
  BY <1>1 DEF Constructed, Finished

LEMMA FinishedFacts ==
  ASSUME NEW o, NEW l
  PROVE  /\ \A t, c : Finished(Going(t, c, o, l)) = Going(t, c, o, l)
         /\ \A t, c : t # "undefined" => Finished(Thrown(t, c, o, l)) = State(Gone, o, Yes, l)
         /\ Finished(Lost(o, l)) = Lost(o, l)
         /\ Finished(State(Undefined, o, Yes, l)) = State(Undefined, o, Yes, l)
<1>1. ASSUME NEW t, NEW c PROVE Finished(Going(t, c, o, l)) = Going(t, c, o, l)
  <2>1. Going(t, c, o, l).threw = No
    BY Fields DEF Going
  <2>2. ~Going(t, c, o, l).threw
    BY <2>1 DEF No
  <2> QED
    BY <2>2 DEF Finished
<1>2. ASSUME NEW t, NEW c, t # "undefined"
      PROVE  Finished(Thrown(t, c, o, l)) = State(Gone, o, Yes, l)
  <2>1. Thrown(t, c, o, l).this # Undefined
    <3>1. Thrown(t, c, o, l).this = Holder(t, c)
      BY Fields DEF Thrown
    <3>2. Holder(t, c) # Undefined
      BY <1>2, Defined
    <3> QED
      BY <3>1, <3>2
  <2>2. Thrown(t, c, o, l).threw
    <3>1. Thrown(t, c, o, l).threw = Yes
      BY Fields DEF Thrown
    <3> QED
      BY <3>1 DEF Yes
  <2>3. Finished(Thrown(t, c, o, l)) = [Thrown(t, c, o, l) EXCEPT !.this = Gone]
    BY <2>1, <2>2 DEF Finished
  <2> QED
    BY <2>3, WithThis DEF Thrown
<1>3. Finished(Lost(o, l)) = Lost(o, l)
  <2>1. Lost(o, l).threw = No
    BY Fields DEF Lost
  <2>2. ~Lost(o, l).threw
    BY <2>1 DEF No
  <2> QED
    BY <2>2 DEF Finished
<1>4. Finished(State(Undefined, o, Yes, l)) = State(Undefined, o, Yes, l)
  <2>1. State(Undefined, o, Yes, l).this = Undefined
    BY Fields
  <2> QED
    BY <2>1 DEF Finished
<1> QED
  BY <1>1, <1>2, <1>3, <1>4

LEMMA FineGoing ==
  ASSUME NEW k, NEW op, NEW a, NEW b, NEW h, NEW o, Proper(k, h), Proper(k, o),
         op \in Transferring => Transfers(op, a, b, h, o)
  PROVE  Fine(k, op, a, b, State(h, o, No, No))
<1> DEFINE s == State(h, o, No, No)
<1>1. s.this = h /\ s.other = o /\ s.threw = No /\ s.leaked = No
  BY Fields
<1>2. ~s.threw /\ ~s.leaked
  BY <1>1 DEF No
<1>3. Truthful(h)
  BY ProperIsTruthful
<1> HIDE DEF s
<1>4. Fine(k, op, a, b, s)
  BY <1>1, <1>2, <1>3 DEF Fine
<1> QED
  BY <1>4 DEF s

LEMMA FineThrown ==
  ASSUME NEW k, NEW op, NEW a, NEW b, NEW h, NEW o, Proper(k, h), Proper(k, o),
         Spares(k, op, a, h), Spares(k, op, b, o)
  PROVE  Fine(k, op, a, b, State(h, o, Yes, No))
<1> DEFINE s == State(h, o, Yes, No)
<1>1. s.this = h /\ s.other = o /\ s.threw = Yes /\ s.leaked = No
  BY Fields
<1>2. s.threw /\ ~s.leaked
  BY <1>1 DEF Yes, No
<1>3. Truthful(h)
  BY ProperIsTruthful
<1> HIDE DEF s
<1>4. Fine(k, op, a, b, s)
  BY <1>1, <1>2, <1>3 DEF Fine
<1> QED
  BY <1>4 DEF s

(* An operation that throws and changes nothing. *)
LEMMA FineUnchanged ==
  ASSUME NEW k, NEW op, NEW a, NEW b, Proper(k, a), Proper(k, b)
  PROVE  Fine(k, op, a, b, State(a, b, Yes, No))
BY FineThrown DEF Spares

LEMMA ProperHeld ==
  ASSUME NEW k, NEW t \in Types(k), NEW v
  PROVE  Proper(k, Held(t, v))
BY DEF Proper

(* What remains of a holder with an object. *)
LEMMA SourceIs ==
  ASSUME NEW t, NEW v, NEW moves \in BOOLEAN
  PROVE  /\ Source(Held(t, v), moves) \in {Held(t, v), Held(t, Moved)}
         /\ Source(Held(t, v), moves) \in {Held(t, v), MovedFrom(Held(t, v))}
         /\ ~moves => Source(Held(t, v), moves) = Held(t, v)
<1>1. MovedFrom(Held(t, v)) = Held(t, Moved)
  BY HeldFacts
<1>2. CASE moves
  BY <1>1, <1>2 DEF Source
<1>3. CASE ~moves
  BY <1>1, <1>3 DEF Source
<1> QED
  BY <1>2, <1>3

Copying == {"create_copy", "assign_copy", "assign_from"}
Moving == {"create_moved", "assign_moved"}

(* The target becomes what the source was. *)
LEMMA FineTransfer ==
  ASSUME NEW k, NEW op, NEW a, NEW t \in Types(k), NEW v, NEW moves \in BOOLEAN,
         (op \in Copying /\ ~moves) \/ op \in Moving
  PROVE  Fine(k, op, a, Held(t, v), Going(t, Object(t, v), Source(Held(t, v), moves), No))
<1> DEFINE b == Held(t, v)
           o == Source(b, moves)
<1>1. Proper(k, b) /\ Proper(k, Held(t, Moved))
  BY ProperHeld
<1>2. o \in {b, Held(t, Moved)} /\ o \in {b, MovedFrom(b)} /\ (~moves => o = b)
  BY SourceIs
<1> HIDE DEF o
<1>3. Proper(k, o)
  BY <1>1, <1>2
<1>4. Transfers(op, a, b, b, o)
  <2> HIDE DEF b
  <2>1. CASE op \in Copying /\ ~moves
    BY <1>2, <2>1 DEF Transfers, Copying
  <2>2. CASE op \in Moving
    BY <1>2, <2>2 DEF Transfers, Moving
  <2> QED
    BY <2>1, <2>2
<1>5. Fine(k, op, a, b, State(b, o, No, No))
  <2> HIDE DEF b
  <2> QED
    BY <1>1, <1>3, <1>4, FineGoing
<1> QED
  BY <1>5 DEF o, Held, Going

(* The target gets a new object. *)
LEMMA FineValue ==
  ASSUME NEW k, NEW op, op \notin Transferring, NEW a, NEW b, Proper(k, b),
         NEW t \in Types(k), NEW v
  PROVE  Fine(k, op, a, b, Going(t, Object(t, v), b, No))
<1>1. Fine(k, op, a, b, State(Held(t, v), b, No, No))
  BY FineGoing, ProperHeld
<1> QED
  BY <1>1 DEF Held, Going

(* Behind an operation that fails the tag may lie. *)
LEMMA FineLie ==
  ASSUME NEW k, NEW op, NEW a, NEW b, NEW h, NEW o, NEW w, ~Truthful(h), Proper(k, o),
         MayLie(k, Done(op, a, b, State(h, o, w, No)))
  PROVE  Fine(k, op, a, b, State(h, o, w, No))
<1> DEFINE s == State(h, o, w, No)
<1>1. s.this = h /\ s.other = o /\ s.leaked = No
  BY Fields
<1>2. ~s.leaked
  BY <1>1 DEF No
<1> HIDE DEF s
<1>3. Fine(k, op, a, b, s)
  BY <1>1, <1>2 DEF Fine, s
<1> QED
  BY <1>3 DEF s
(* Construction: the object is made behind the tag, or nothing is made. *)
LEMMA CreatedFine ==
  ASSUME NEW k, NEW op, NEW b, Proper(k, b), NEW t, t # "undefined", NEW v,
         NEW throws \in BOOLEAN, NEW moves \in BOOLEAN,
         Fine(k, op, Gone, b, Going(t, Object(t, v), Source(b, moves), No))
  PROVE  \A s \in Constructed(b, <<SetTag(t), Construct(Object(t, v), throws, moves)>>) :
           Fine(k, op, Gone, b, s)
<1> DEFINE steps == <<SetTag(t), Construct(Object(t, v), throws, moves)>>
           end == Going(t, Object(t, v), Source(b, moves), No)
<1>1. \A r \in Outcomes(Holder("raw", Dead), b, steps) : r = end \/ r = Thrown(t, Dead, b, No)
  BY TaggedThenMade, DeadIsFree
<1>2. Finished(end) = end
  BY FinishedFacts
<1>3. Finished(Thrown(t, Dead, b, No)) = State(Gone, b, Yes, No)
  BY FinishedFacts
<1> HIDE DEF steps
<1>4. \A s \in Constructed(b, steps) : s = end \/ s = State(Gone, b, Yes, No)
  <2> HIDE DEF end
  <2> QED
    BY <1>1, <1>2, <1>3, ConstructedFinished
<1>5. Fine(k, op, Gone, b, State(Gone, b, Yes, No))
  BY FineUnchanged DEF Proper
<1>6. \A s \in Constructed(b, steps) : Fine(k, op, Gone, b, s)
  BY <1>4, <1>5
<1> QED
  BY <1>6 DEF steps

(* An object is assigned to, or stays what it was. *)
LEMMA AssignedFine ==
  ASSUME NEW k, NEW op, NEW b, Proper(k, b), NEW t \in Types(k), t # "undefined",
         NEW u, NEW v, NEW throws \in BOOLEAN, NEW moves \in BOOLEAN,
         Fine(k, op, Held(t, u), b, Going(t, Object(t, v), Source(b, moves), No))
  PROVE  \A s \in Outcomes(Held(t, u), b, <<Assign(Object(t, v), throws, moves)>>) :
           Fine(k, op, Held(t, u), b, s)
<1> DEFINE steps == <<Assign(Object(t, v), throws, moves)>>
           end == Going(t, Object(t, v), Source(b, moves), No)
<1>1. Object(t, u).type = Object(t, v).type
  BY HeldFacts
<1>2. \A s \in Outcomes(Holder(t, Object(t, u)), b, steps) :
        s = end \/ s = Thrown(t, Object(t, u), b, No)
  BY <1>1, AssignedOver
<1>3. Fine(k, op, Held(t, u), b, State(Held(t, u), b, Yes, No))
  BY FineUnchanged, ProperHeld
<1>4. Fine(k, op, Held(t, u), b, Thrown(t, Object(t, u), b, No))
  BY <1>3 DEF Thrown, Held
<1> HIDE DEF steps, end
<1>5. \A s \in Outcomes(Holder(t, Object(t, u)), b, steps) : Fine(k, op, Held(t, u), b, s)
  BY <1>2, <1>4 DEF end
<1> QED
  BY <1>5 DEF steps, Held

(* What the destructor makes of s. *)
Ended(s) ==
  IF s.this.cell = Dead \/ ~Owned(s.this.cell)
    THEN [s EXCEPT !.this = Gone] ELSE [s EXCEPT !.leaked = TRUE]

(* Nothing is left to be destroyed. *)
LEMMA EndedFine ==
  ASSUME NEW k, NEW a, NEW b, Proper(k, b), NEW t, NEW c, ~Owned(c)
  PROVE  Fine(k, "end", a, b, Ended(Going(t, c, b, No)))
<1>1. Going(t, c, b, No).this.cell = c
  BY Fields DEF Going, Holder
<1>2. Ended(Going(t, c, b, No)) = State(Gone, b, No, No)
  <2>1. Ended(Going(t, c, b, No)) = [Going(t, c, b, No) EXCEPT !.this = Gone]
    BY <1>1 DEF Ended
  <2> QED
    BY <2>1, WithThis DEF Going
<1>3. Fine(k, "end", a, b, State(Gone, b, No, No))
  BY FineGoing DEF Proper, Transferring
<1> QED
  BY <1>2, <1>3

LEMMA OneMore ==
  \A x, y, z : <<x, y>> \o <<z>> = <<x, y, z>>
<1> SUFFICES ASSUME NEW x, NEW y, NEW z PROVE <<x, y>> \o <<z>> = <<x, y, z>>
  OBVIOUS
<1> DEFINE S == {x, y, z}
           a == <<x, y>>
           b == <<z>>
           c == <<x, y, z>>
<1>1. /\ a \in Seq(S) /\ b \in Seq(S) /\ c \in Seq(S)
      /\ Len(a) = 2 /\ Len(b) = 1 /\ Len(c) = 3
  OBVIOUS
<1>2. c[1] = a[1] /\ c[2] = a[2] /\ c[2 + 1] = b[1]
  OBVIOUS
<1> HIDE DEF a, b, c, S
<1>3. \A i \in 1..Len(a) : c[i] = a[i]
  BY <1>1, <1>2
<1>4. \A i \in 1..Len(b) : c[Len(a) + i] = b[i]
  BY <1>1, <1>2
<1>5. Len(c) = Len(a) + Len(b)
  BY <1>1
<1>6. a \o b = c
  BY ONLY <1>1, <1>3, <1>4, <1>5, Joining, Zenon
<1> QED
  BY <1>6 DEF a, b, c

LEMMA NothingJoined ==
  /\ \A x, y : <<>> \o <<x, y>> = <<x, y>>
  /\ \A x, y, z : <<>> \o <<x, y, z>> = <<x, y, z>>
<1>1. ASSUME NEW x, NEW y PROVE <<>> \o <<x, y>> = <<x, y>>
  <2>1. <<x, y>> \in Seq({x, y})
    OBVIOUS
  <2> QED
    BY <2>1, ConcatEmptySeq
<1>2. ASSUME NEW x, NEW y, NEW z PROVE <<>> \o <<x, y, z>> = <<x, y, z>>
  <2>1. <<x, y, z>> \in Seq({x, y, z})
    OBVIOUS
  <2> QED
    BY <2>1, ConcatEmptySeq
<1> QED
  BY <1>1, <1>2

LEMMA NoFacts == No \in BOOLEAN /\ ~No
BY DEF No

LEMMA YesFacts == Yes \in BOOLEAN /\ Yes
BY DEF Yes

(* An object takes the place of one that need not be destroyed. *)
LEMMA TaggedMadeFine ==
  ASSUME NEW k, NEW op, NEW c, ~Owned(c), NEW t, t # "undefined", NEW a, a = Holder(t, c),
         NEW b, NEW u, u # "undefined", NEW v,
         NEW throws \in BOOLEAN, ~throws, NEW moves \in BOOLEAN,
         Fine(k, op, a, b, Going(u, Object(u, v), Source(b, moves), No))
  PROVE  \A s \in Outcomes(a, b, <<SetTag(u), Construct(Object(u, v), throws, moves)>>) :
           Fine(k, op, a, b, s)
<1> DEFINE steps == <<SetTag(u), Construct(Object(u, v), throws, moves)>>
           end == Going(u, Object(u, v), Source(b, moves), No)
<1>1. \A s \in Outcomes(Holder(t, c), b, steps) : s = end
  BY TaggedThenMade
<1> HIDE DEF steps, end
<1>2. \A s \in Outcomes(a, b, steps) : Fine(k, op, a, b, s)
  BY <1>1 DEF end
<1> QED
  BY <1>2 DEF steps

(* A tag that has lost its object, and the record of a failure. *)
LEMMA HalfDone ==
  ASSUME NEW t, t \notin {"dead", "gone"}
  PROVE  ~Truthful(Holder(t, Dead))
BY EmptyFacts DEF Truthful, Holder, Gone

LEMMA DoneThrew ==
  ASSUME NEW op, NEW a, NEW b, NEW h, NEW o, NEW l
  PROVE  Done(op, a, b, State(h, o, Yes, l)).threw
<1>1. Done(op, a, b, State(h, o, Yes, l)).threw = State(h, o, Yes, l).threw
  BY DoneFacts
<1>2. State(h, o, Yes, l).threw = Yes
  BY Fields
<1> QED
  BY <1>1, <1>2, YesFacts

-----------------------------------------------------------------------------
(* Si::optional.                                                           *)

LEMMA OptionalSteps ==
  /\ O!FromNothing = <<SetTag("dead")>>
  /\ \A v : O!FromCopy(v) = <<SetTag("T"), Construct(Object("T", v), TRUE, FALSE)>>
  /\ O!CopyFrom(Empty) = <<SetTag("dead")>>
  /\ \A v : O!CopyFrom(Held("T", v)) =
              <<SetTag("T"), Construct(Object("T", v), TRUE, FALSE)>>
  /\ O!MoveFrom(Empty) = <<SetTag("dead")>>
  /\ \A v : O!MoveFrom(Held("T", v)) =
              <<SetTag("T"), Construct(Object("T", v), FALSE, TRUE)>>
  /\ O!Reset(Empty) = <<>>
  /\ \A v : O!Reset(Held("T", v)) = <<Destroy("T"), SetTag("dead")>>
<1>1. ~O!Set(Empty) /\ Empty.tag = "dead"
  BY EmptyFacts DEF O!Set
<1>2. \A v : O!Set(Held("T", v)) /\ Held("T", v).tag = "T" /\ Held("T", v).cell = Object("T", v)
  BY HeldFacts DEF O!Set
<1>3. O!FromNothing = <<SetTag("dead")>>
  BY DEF O!FromNothing, O!SetTag, SetTag
<1>4. \A v : O!FromCopy(v) = <<SetTag("T"), Construct(Object("T", v), TRUE, FALSE)>>
  BY DEF O!FromCopy, O!SetTag, SetTag, O!CopyConstruct, O!Construct, Construct, O!Object, Object
<1>5. O!CopyFrom(Empty) = <<SetTag("dead")>>
  BY <1>1 DEF O!CopyFrom, O!SetTag, SetTag
<1>6. ASSUME NEW v
      PROVE  O!CopyFrom(Held("T", v)) = <<SetTag("T"), Construct(Object("T", v), TRUE, FALSE)>>
  <2>1. O!CopyFrom(Held("T", v)) =
          <<O!SetTag("T")>> \o <<O!CopyConstruct(Object("T", v))>>
    BY <1>2 DEF O!CopyFrom
  <2> QED
    BY <2>1 DEF O!SetTag, SetTag, O!CopyConstruct, O!Construct, Construct
<1>7. O!MoveFrom(Empty) = <<SetTag("dead")>>
  BY <1>1 DEF O!MoveFrom, O!SetTag, SetTag
<1>8. ASSUME NEW v
      PROVE  O!MoveFrom(Held("T", v)) = <<SetTag("T"), Construct(Object("T", v), FALSE, TRUE)>>
  <2>1. O!MoveFrom(Held("T", v)) = <<O!SetTag("T")>> \o <<O!Move(Object("T", v))>>
    BY <1>2 DEF O!MoveFrom
  <2> QED
    BY <2>1 DEF O!SetTag, SetTag, O!Move, O!Construct, Construct
<1>9. O!Reset(Empty) = <<>>
  BY <1>1 DEF O!Reset
<1>10. \A v : O!Reset(Held("T", v)) = <<Destroy("T"), SetTag("dead")>>
  BY <1>2 DEF O!Reset, O!Destroy, Destroy, O!SetTag, SetTag
<1> QED
  BY <1>3, <1>4, <1>5, <1>6, <1>7, <1>8, <1>9, <1>10

LEMMA OptionalProper ==
  ASSUME NEW b, Proper("optional", b), b # Gone
  PROVE  b = Empty \/ \E v : b = Held("T", v)
BY DEF Proper, Types

LEMMA OptionalTypes ==
  /\ "T" \in Types("optional")
  /\ Proper("optional", Empty) /\ Proper("optional", Gone)
BY DEF Types, Proper

LEMMA OptionalCreateEmpty ==
  ASSUME NEW b, Proper("optional", b)
  PROVE  \A s \in Constructed(b, O!FromNothing) : Fine("optional", "create_empty", Gone, b, s)
<1> DEFINE steps == <<SetTag("dead")>>
<1>1. \A r \in Outcomes(Holder("raw", Dead), b, steps) : r = Going("dead", Dead, b, No)
  BY Tagged
<1> HIDE DEF steps
<1>2. Finished(Going("dead", Dead, b, No)) = Going("dead", Dead, b, No)
  BY FinishedFacts
<1>3. Going("dead", Dead, b, No) = State(Empty, b, No, No)
  BY DEF Going, Empty
<1>4. \A s \in Constructed(b, steps) : s = State(Empty, b, No, No)
  BY <1>1, <1>2, <1>3, ConstructedFinished
<1>5. Fine("optional", "create_empty", Gone, b, State(Empty, b, No, No))
  BY FineGoing, OptionalTypes DEF Transferring
<1>6. O!FromNothing = steps
  BY OptionalSteps DEF steps
<1> QED
  BY <1>4, <1>5, <1>6

LEMMA OptionalCreateValue ==
  ASSUME NEW b, Proper("optional", b), NEW v
  PROVE  \A s \in Constructed(b, O!FromCopy(v)) : Fine("optional", "create_value", Gone, b, s)
<1>1. Fine("optional", "create_value", Gone, b, Going("T", Object("T", v), b, No))
  BY FineValue, OptionalTypes DEF Transferring
<1>2. Source(b, FALSE) = b
  BY DEF Source
<1> QED
  BY <1>1, <1>2, CreatedFine, OptionalSteps
(* An optional that is not set is copied or moved from.                    *)
LEMMA OptionalFromEmpty ==
  ASSUME NEW op, op \in Copying \cup Moving
  PROVE  /\ \A s \in Constructed(Empty, <<SetTag("dead")>>) :
              Fine("optional", op, Gone, Empty, s)
         /\ \A s \in Outcomes(Empty, Empty, <<>>) : Fine("optional", op, Empty, Empty, s)
         /\ \A v : \A s \in Outcomes(Held("T", v), Empty, <<Destroy("T"), SetTag("dead")>>) :
              Fine("optional", op, Held("T", v), Empty, s)
<1> DEFINE end == State(Empty, Empty, No, No)
<1>1. ASSUME NEW a PROVE Fine("optional", op, a, Empty, end)
  <2>1. Transfers(op, a, Empty, Empty, Empty)
    BY DEF Transfers, Copying, Moving
  <2> QED
    BY <2>1, FineGoing, OptionalTypes
<1>2. end = Going("dead", Dead, Empty, No)
  BY DEF Going, Empty
<1>3. \A s \in Constructed(Empty, <<SetTag("dead")>>) : s = end
  <2> DEFINE steps == <<SetTag("dead")>>
  <2>1. \A r \in Outcomes(Holder("raw", Dead), Empty, steps) : r = end
    BY <1>2, Tagged
  <2> HIDE DEF steps
  <2>2. Finished(end) = end
    BY <1>2, FinishedFacts
  <2>3. \A s \in Constructed(Empty, steps) : s = end
    BY <2>1, <2>2, ConstructedFinished
  <2> QED
    BY <2>3 DEF steps
<1>4. \A s \in Outcomes(Empty, Empty, <<>>) : s = end
  BY <1>2, NoSteps DEF Empty
<1>5. ASSUME NEW v
      PROVE  \A s \in Outcomes(Held("T", v), Empty, <<Destroy("T"), SetTag("dead")>>) : s = end
  <2> DEFINE steps == <<Destroy("T"), SetTag("dead")>>
  <2>1. Outcomes(Holder("T", Object("T", v)), Empty, steps)
          \subseteq {Going("dead", Dead, Empty, No)}
    BY HeldFacts, DestroyedThenTagged
  <2> QED
    BY <1>2, <2>1 DEF Held
<1> QED
  BY <1>1, <1>3, <1>4, <1>5

LEMMA OptionalCreateCopy ==
  ASSUME NEW b, Proper("optional", b), b # Gone
  PROVE  \A s \in Constructed(b, O!CopyFrom(b)) : Fine("optional", "create_copy", Gone, b, s)
<1>1. CASE b = Empty
  BY <1>1, OptionalSteps, OptionalFromEmpty DEF Copying
<1>2. ASSUME NEW v, b = Held("T", v)
      PROVE  \A s \in Constructed(b, O!CopyFrom(b)) : Fine("optional", "create_copy", Gone, b, s)
  <2>1. Fine("optional", "create_copy", Gone, b, Going("T", Object("T", v), Source(b, FALSE), No))
    BY <1>2, FineTransfer, OptionalTypes DEF Copying
  <2> QED
    BY <1>2, <2>1, CreatedFine, OptionalSteps
<1> QED
  BY <1>1, <1>2, OptionalProper

LEMMA OptionalCreateMoved ==
  ASSUME NEW b, Proper("optional", b), b # Gone
  PROVE  \A s \in Constructed(b, O!MoveFrom(b)) : Fine("optional", "create_moved", Gone, b, s)
<1>1. CASE b = Empty
  BY <1>1, OptionalSteps, OptionalFromEmpty DEF Moving
<1>2. ASSUME NEW v, b = Held("T", v)
      PROVE  \A s \in Constructed(b, O!MoveFrom(b)) : Fine("optional", "create_moved", Gone, b, s)
  <2>1. Fine("optional", "create_moved", Gone, b, Going("T", Object("T", v), Source(b, TRUE), No))
    BY <1>2, FineTransfer, OptionalTypes DEF Moving
  <2> QED
    BY <1>2, <2>1, CreatedFine, OptionalSteps
<1> QED
  BY <1>1, <1>2, OptionalProper

LEMMA OptionalAssignSteps ==
  ASSUME NEW v
  PROVE  /\ \A a : O!AssignCopy(a, Empty) = O!Reset(a)
         /\ O!AssignCopy(Empty, Held("T", v)) =
              <<Construct(Object("T", v), TRUE, FALSE), SetTag("T")>>
         /\ \A u : O!AssignCopy(Held("T", u), Held("T", v)) =
              <<Assign(Object("T", v), TRUE, FALSE)>>
         /\ \A a : O!AssignMove(a, Empty) = O!Reset(a)
         /\ O!AssignMove(Empty, Held("T", v)) =
              <<Construct(Object("T", v), FALSE, TRUE), SetTag("T")>>
         /\ \A u : O!AssignMove(Held("T", u), Held("T", v)) =
              <<Assign(Object("T", v), FALSE, TRUE)>>
         /\ O!AssignValue(Empty, v) = <<Construct(Object("T", v), TRUE, FALSE), SetTag("T")>>
         /\ \A u : O!AssignValue(Held("T", u), v) = <<Assign(Object("T", v), TRUE, FALSE)>>
         /\ O!Emplace(Empty, v) = <<Construct(Object("T", v), TRUE, FALSE), SetTag("T")>>
         /\ \A u : O!Emplace(Held("T", u), v) =
              <<Destroy("T"), SetTag("dead"), Construct(Object("T", v), TRUE, FALSE), SetTag("T")>>
<1>1. ~O!Set(Empty)
  BY EmptyFacts DEF O!Set
<1>2. \A u : O!Set(Held("T", u)) /\ Held("T", u).cell = Object("T", u)
  BY HeldFacts DEF O!Set
<1> DEFINE made == <<Construct(Object("T", v), TRUE, FALSE), SetTag("T")>>
           moved == <<Construct(Object("T", v), FALSE, TRUE), SetTag("T")>>
<1>3. made = <<O!CopyConstruct(Object("T", v)), O!SetTag("T")>>
  BY DEF O!SetTag, SetTag, O!CopyConstruct, O!Construct, Construct
<1>4. moved = <<O!Move(Object("T", v)), O!SetTag("T")>>
  BY DEF O!SetTag, SetTag, O!Move, O!Construct, Construct
<1>5. O!Object("T", v) = Object("T", v)
  BY DEF O!Object, Object
<1> HIDE DEF made, moved
<1>6. \A a : O!AssignCopy(a, Empty) = O!Reset(a) /\ O!AssignMove(a, Empty) = O!Reset(a)
  BY <1>1 DEF O!AssignCopy, O!AssignMove
<1>7. O!AssignCopy(Empty, Held("T", v)) = made
  BY <1>1, <1>2, <1>3 DEF O!AssignCopy
<1>8. O!AssignMove(Empty, Held("T", v)) = moved
  BY <1>1, <1>2, <1>4 DEF O!AssignMove
<1>9. \A u : O!AssignCopy(Held("T", u), Held("T", v)) = <<Assign(Object("T", v), TRUE, FALSE)>>
  BY <1>2 DEF O!AssignCopy, O!CopyAssign, O!Assign, Assign
<1>10. \A u : O!AssignMove(Held("T", u), Held("T", v)) = <<Assign(Object("T", v), FALSE, TRUE)>>
  BY <1>2 DEF O!AssignMove, O!Assign, Assign
<1>11. O!AssignValue(Empty, v) = made
  BY <1>1, <1>3, <1>5 DEF O!AssignValue
<1>12. \A u : O!AssignValue(Held("T", u), v) = <<Assign(Object("T", v), TRUE, FALSE)>>
  BY <1>2, <1>5 DEF O!AssignValue, O!CopyAssign, O!Assign, Assign
<1>13. O!Emplace(Empty, v) = made
  <2>1. O!Emplace(Empty, v) = <<>> \o made
    BY <1>3, <1>5, OptionalSteps DEF O!Emplace
  <2> QED
    BY <2>1 DEF made
<1>14. ASSUME NEW u
       PROVE  O!Emplace(Held("T", u), v) =
                <<Destroy("T"), SetTag("dead"), Construct(Object("T", v), TRUE, FALSE),
                  SetTag("T")>>
  <2>1. O!Emplace(Held("T", u), v) = <<Destroy("T"), SetTag("dead")>> \o made
    BY <1>3, <1>5, OptionalSteps DEF O!Emplace
  <2>2. \A w, x, y, z : <<w, x>> \o <<y, z>> = <<w, x, y, z>>
    BY Joined
  <2> QED
    BY <2>1, <2>2 DEF made
<1> QED
  BY <1>6, <1>7, <1>8, <1>9, <1>10, <1>11, <1>12, <1>13, <1>14 DEF made, moved

(* An object is made in an optional that was not set. *)
LEMMA OptionalMadeFine ==
  ASSUME NEW op, NEW b, Proper("optional", b), NEW v, NEW throws \in BOOLEAN,
         NEW moves \in BOOLEAN,
         Fine("optional", op, Empty, b, Going("T", Object("T", v), Source(b, moves), No))
  PROVE  \A s \in Outcomes(Empty, b, <<Construct(Object("T", v), throws, moves), SetTag("T")>>) :
           Fine("optional", op, Empty, b, s)
<1> DEFINE steps == <<Construct(Object("T", v), throws, moves), SetTag("T")>>
           end == Going("T", Object("T", v), Source(b, moves), No)
<1>1. \A s \in Outcomes(Holder("dead", Dead), b, steps) : s = end \/ s = Thrown("dead", Dead, b, No)
  BY MadeThenTagged, DeadIsFree
<1>2. Fine("optional", op, Empty, b, State(Empty, b, Yes, No))
  BY FineUnchanged, OptionalTypes
<1>3. Thrown("dead", Dead, b, No) = State(Empty, b, Yes, No)
  BY DEF Thrown, Empty
<1> HIDE DEF steps, end
<1>4. \A s \in Outcomes(Holder("dead", Dead), b, steps) : Fine("optional", op, Empty, b, s)
  BY <1>1, <1>2, <1>3 DEF end
<1> QED
  BY <1>4 DEF steps, Empty

LEMMA OptionalAssignCopy ==
  ASSUME NEW a, Proper("optional", a), a # Gone, NEW b, Proper("optional", b), b # Gone
  PROVE  \A s \in Outcomes(a, b, O!AssignCopy(a, b)) : Fine("optional", "assign_copy", a, b, s)
<1>1. CASE b = Empty
  <2>1. O!AssignCopy(a, b) = O!Reset(a)
    BY <1>1, OptionalAssignSteps
  <2>2. CASE a = Empty
    BY <1>1, <2>1, <2>2, OptionalSteps, OptionalFromEmpty DEF Copying
  <2>3. ASSUME NEW u, a = Held("T", u)
        PROVE  \A s \in Outcomes(a, b, O!Reset(a)) : Fine("optional", "assign_copy", a, b, s)
    BY <1>1, <2>3, OptionalSteps, OptionalFromEmpty DEF Copying
  <2> QED
    BY <2>1, <2>2, <2>3, OptionalProper
<1>2. ASSUME NEW v, b = Held("T", v)
      PROVE  \A s \in Outcomes(a, b, O!AssignCopy(a, b)) : Fine("optional", "assign_copy", a, b, s)
  <2>1. Fine("optional", "assign_copy", a, b, Going("T", Object("T", v), Source(b, FALSE), No))
    BY <1>2, FineTransfer, OptionalTypes DEF Copying
  <2>2. CASE a = Empty
    BY <1>2, <2>1, <2>2, OptionalAssignSteps, OptionalMadeFine
  <2>3. ASSUME NEW u, a = Held("T", u)
        PROVE  \A s \in Outcomes(a, b, O!AssignCopy(a, b)) :
                 Fine("optional", "assign_copy", a, b, s)
    BY <1>2, <2>1, <2>3, OptionalAssignSteps, OptionalTypes, AssignedFine
  <2> QED
    BY <2>2, <2>3, OptionalProper
<1> QED
  BY <1>1, <1>2, OptionalProper

LEMMA OptionalAssignMove ==
  ASSUME NEW a, Proper("optional", a), a # Gone, NEW b, Proper("optional", b), b # Gone
  PROVE  \A s \in Outcomes(a, b, O!AssignMove(a, b)) : Fine("optional", "assign_moved", a, b, s)
<1>1. CASE b = Empty
  <2>1. O!AssignMove(a, b) = O!Reset(a)
    BY <1>1, OptionalAssignSteps
  <2>2. CASE a = Empty
    BY <1>1, <2>1, <2>2, OptionalSteps, OptionalFromEmpty DEF Moving
  <2>3. ASSUME NEW u, a = Held("T", u)
        PROVE  \A s \in Outcomes(a, b, O!Reset(a)) : Fine("optional", "assign_moved", a, b, s)
    BY <1>1, <2>3, OptionalSteps, OptionalFromEmpty DEF Moving
  <2> QED
    BY <2>1, <2>2, <2>3, OptionalProper
<1>2. ASSUME NEW v, b = Held("T", v)
      PROVE  \A s \in Outcomes(a, b, O!AssignMove(a, b)) : Fine("optional", "assign_moved", a, b, s)
  <2>1. Fine("optional", "assign_moved", a, b, Going("T", Object("T", v), Source(b, TRUE), No))
    BY <1>2, FineTransfer, OptionalTypes DEF Moving
  <2>2. CASE a = Empty
    BY <1>2, <2>1, <2>2, OptionalAssignSteps, OptionalMadeFine
  <2>3. ASSUME NEW u, a = Held("T", u)
        PROVE  \A s \in Outcomes(a, b, O!AssignMove(a, b)) :
                 Fine("optional", "assign_moved", a, b, s)
    BY <1>2, <2>1, <2>3, OptionalAssignSteps, OptionalTypes, AssignedFine
  <2> QED
    BY <2>2, <2>3, OptionalProper
<1> QED
  BY <1>1, <1>2, OptionalProper

LEMMA OptionalAssignValue ==
  ASSUME NEW a, Proper("optional", a), a # Gone, NEW b, Proper("optional", b), NEW v
  PROVE  \A s \in Outcomes(a, b, O!AssignValue(a, v)) : Fine("optional", "assign_value", a, b, s)
<1>1. Source(b, FALSE) = b
  BY DEF Source
<1>2. Fine("optional", "assign_value", a, b, Going("T", Object("T", v), b, No))
  BY FineValue, OptionalTypes DEF Transferring
<1>3. CASE a = Empty
  BY <1>1, <1>2, <1>3, OptionalAssignSteps, OptionalMadeFine
<1>4. ASSUME NEW u, a = Held("T", u)
      PROVE  \A s \in Outcomes(a, b, O!AssignValue(a, v)) :
               Fine("optional", "assign_value", a, b, s)
  BY <1>1, <1>2, <1>4, OptionalAssignSteps, OptionalTypes, AssignedFine
<1> QED
  BY <1>3, <1>4, OptionalProper

(* emplace() that fails leaves an optional that is not set. *)
LEMMA OptionalReplacedFine ==
  ASSUME NEW u, NEW b, Proper("optional", b), NEW v, NEW throws \in BOOLEAN,
         NEW moves \in BOOLEAN, ~moves
  PROVE  \A s \in Outcomes(Held("T", u), b,
                           <<Destroy("T"), SetTag("dead"),
                             Construct(Object("T", v), throws, moves), SetTag("T")>>) :
           Fine("optional", "emplace", Held("T", u), b, s)
<1> DEFINE steps == <<Destroy("T"), SetTag("dead"),
                      Construct(Object("T", v), throws, moves), SetTag("T")>>
           c == Object("T", u)
           end == Going("T", Object("T", v), Source(b, moves), No)
<1>1. c.type = "T"
  BY HeldFacts
<1>2. \A s \in Outcomes(Holder("T", c), b, steps) : s = end \/ s = Thrown("dead", Dead, b, No)
  BY <1>1, DestroyedTaggedMadeTagged
<1>3. Thrown("dead", Dead, b, No) = State(Empty, b, Yes, No)
  BY DEF Thrown, Empty
<1>4. Fine("optional", "emplace", Held("T", u), b, State(Empty, b, Yes, No))
  BY EmptyFacts, FineThrown, OptionalTypes DEF Spares
<1>5. Fine("optional", "emplace", Held("T", u), b, end)
  <2>1. Source(b, moves) = b
    BY DEF Source
  <2> QED
    BY <2>1, FineValue, OptionalTypes DEF Transferring
<1> HIDE DEF steps, end
<1>6. \A s \in Outcomes(Holder("T", c), b, steps) : Fine("optional", "emplace", Held("T", u), b, s)
  BY <1>2, <1>3, <1>4, <1>5
<1> QED
  BY <1>6 DEF steps, Held

LEMMA OptionalEmplace ==
  ASSUME NEW a, Proper("optional", a), a # Gone, NEW b, Proper("optional", b), NEW v
  PROVE  \A s \in Outcomes(a, b, O!Emplace(a, v)) : Fine("optional", "emplace", a, b, s)
<1>1. Source(b, FALSE) = b
  BY DEF Source
<1>2. Fine("optional", "emplace", a, b, Going("T", Object("T", v), b, No))
  BY FineValue, OptionalTypes DEF Transferring
<1>3. CASE a = Empty
  BY <1>1, <1>2, <1>3, OptionalAssignSteps, OptionalMadeFine
<1>4. ASSUME NEW u, a = Held("T", u)
      PROVE  \A s \in Outcomes(a, b, O!Emplace(a, v)) : Fine("optional", "emplace", a, b, s)
  BY <1>4, OptionalAssignSteps, OptionalReplacedFine
<1> QED
  BY <1>3, <1>4, OptionalProper

LEMMA OptionalReset ==
  ASSUME NEW a, Proper("optional", a), a # Gone, NEW b, Proper("optional", b)
  PROVE  \A s \in Outcomes(a, b, O!Reset(a)) : Fine("optional", "reset", a, b, s)
<1>1. Fine("optional", "reset", a, b, State(Empty, b, No, No))
  BY FineGoing, OptionalTypes DEF Transferring
<1>2. Going("dead", Dead, b, No) = State(Empty, b, No, No)
  BY DEF Going, Empty
<1>3. CASE a = Empty
  <2>1. \A s \in Outcomes(Empty, b, <<>>) : s = Going("dead", Dead, b, No)
    BY NoSteps DEF Empty
  <2> QED
    BY <1>1, <1>2, <1>3, <2>1, OptionalSteps
<1>4. ASSUME NEW u, a = Held("T", u)
      PROVE  \A s \in Outcomes(a, b, O!Reset(a)) : Fine("optional", "reset", a, b, s)
  <2> DEFINE steps == <<Destroy("T"), SetTag("dead")>>
  <2>1. Outcomes(Holder("T", Object("T", u)), b, steps) \subseteq {Going("dead", Dead, b, No)}
    BY HeldFacts, DestroyedThenTagged
  <2>2. O!Reset(a) = steps
    BY <1>4, OptionalSteps
  <2> HIDE DEF steps
  <2> QED
    BY <1>1, <1>2, <1>4, <2>1, <2>2 DEF Held
<1> QED
  BY <1>3, <1>4, OptionalProper

LEMMA OptionalEnd ==
  ASSUME NEW a, Proper("optional", a), a # Gone, NEW b, Proper("optional", b)
  PROVE  \A s \in Outcomes(a, b, O!End(a)) : Fine("optional", "end", a, b, Ended(s))
<1>1. CASE a = Empty
  <2>1. \A s \in Outcomes(Empty, b, <<>>) : s = Going("dead", Dead, b, No)
    BY NoSteps DEF Empty
  <2>2. O!End(a) = <<>>
    BY <1>1, EmptyFacts DEF O!End, O!Set
  <2> QED
    BY <1>1, <2>1, <2>2, EndedFine, DeadIsFree
<1>2. ASSUME NEW u, a = Held("T", u)
      PROVE  \A s \in Outcomes(a, b, O!End(a)) : Fine("optional", "end", a, b, Ended(s))
  <2> DEFINE steps == <<Destroy("T")>>
  <2>1. Outcomes(Holder("T", Object("T", u)), b, steps) \subseteq {Going("T", Dead, b, No)}
    BY HeldFacts, Destroyed
  <2>2. O!End(a) = steps
    BY <1>2, HeldFacts DEF O!End, O!Set, O!Destroy, Destroy
  <2> HIDE DEF steps
  <2>3. Fine("optional", "end", a, b, Ended(Going("T", Dead, b, No)))
    BY EndedFine, DeadIsFree
  <2> QED
    BY <1>2, <2>1, <2>2, <2>3 DEF Held
<1> QED
  BY <1>1, <1>2, OptionalProper

(* swap() of two objects may leave one of them moved from, or twice. *)
LEMMA OptionalSwapEnds ==
  ASSUME NEW a, Proper("optional", a), a # Gone, NEW b, Proper("optional", b), b # Gone
  PROVE  \A s \in O!SwapOutcomes(a, b) :
           \/ /\ a.tag = b.tag
              /\ \/ s = State(b, a, No, No)
                 \/ s = State(a, b, Yes, No)
                 \/ a.tag = "T" /\ s = State(Held("T", Moved), b, Yes, No)
                 \/ a.tag = "T" /\ s = State(b, Held("T", Moved), Yes, No)
           \/ a.tag = "T" /\ b = Empty
              /\ (s = State(Empty, Held("T", O!Converted), No, No) \/ s = State(a, b, Yes, No))
           \/ a = Empty /\ b.tag = "T"
              /\ (s = State(b, Empty, No, No) \/ s = State(a, b, Yes, No))
<1> DEFINE converted == [tag |-> "T", cell |-> O!Object("T", O!Converted)]
           Goes(x, y) == [this |-> x, other |-> y, threw |-> FALSE, leaked |-> FALSE]
           Fails1(x, y) == [this |-> x, other |-> y, threw |-> TRUE, leaked |-> FALSE]
<1>1. converted = Held("T", O!Converted)
  BY DEF Held, Holder, O!Object, Object
<1>2. \A x, y : Goes(x, y) = State(x, y, No, No)
  BY DEF State, No
<1>3. \A x, y : Fails1(x, y) = State(x, y, Yes, No)
  BY DEF State, Yes, No
<1>4. \A u : O!MovedFrom(Held("T", u)) = Held("T", Moved)
  BY HeldFacts DEF O!MovedFrom, MovedFrom, O!Moved, Moved
<1>5. ~O!Set(Empty) /\ Empty.tag = "dead"
  BY EmptyFacts DEF O!Set
<1>6. \A u : O!Set(Held("T", u)) /\ Held("T", u).tag = "T"
  BY HeldFacts DEF O!Set
<1> DEFINE failed == IF MovesThrow THEN {Fails1(a, b), Fails1(O!MovedFrom(a), b),
                                         Fails1(b, O!MovedFrom(b))} ELSE {}
           refused == IF MovesThrow THEN {Fails1(a, b)} ELSE {}
<1>7. /\ O!Set(a) /\ O!Set(b) => O!SwapOutcomes(a, b) = {Goes(b, a)} \cup failed
      /\ O!Set(a) /\ ~O!Set(b) => O!SwapOutcomes(a, b) = {Goes(b, converted), Fails1(a, b)}
      /\ ~O!Set(a) /\ O!Set(b) => O!SwapOutcomes(a, b) = {Goes(b, a)} \cup refused
      /\ ~O!Set(a) /\ ~O!Set(b) => O!SwapOutcomes(a, b) = {Goes(a, b)}
  BY DEF O!SwapOutcomes
<1> HIDE DEF converted, Goes, Fails1
<1>8. /\ failed \subseteq {Fails1(a, b), Fails1(O!MovedFrom(a), b), Fails1(b, O!MovedFrom(b))}
      /\ refused \subseteq {Fails1(a, b)}
  OBVIOUS
<1> HIDE DEF failed, refused
<1>9. CASE a = Empty /\ b = Empty
  BY <1>2, <1>5, <1>7, <1>9
<1>10. ASSUME NEW v, a = Empty, b = Held("T", v)
       PROVE  \A s \in O!SwapOutcomes(a, b) :
                s = State(b, Empty, No, No) \/ s = State(a, b, Yes, No)
  BY <1>2, <1>3, <1>5, <1>6, <1>7, <1>8, <1>10
<1>11. ASSUME NEW u, a = Held("T", u), b = Empty
       PROVE  \A s \in O!SwapOutcomes(a, b) :
                s = State(Empty, Held("T", O!Converted), No, No) \/ s = State(a, b, Yes, No)
  BY <1>1, <1>2, <1>3, <1>5, <1>6, <1>7, <1>11
<1>12. ASSUME NEW u, NEW v, a = Held("T", u), b = Held("T", v)
       PROVE  \A s \in O!SwapOutcomes(a, b) :
                \/ s = State(b, a, No, No)
                \/ s = State(a, b, Yes, No)
                \/ s = State(Held("T", Moved), b, Yes, No)
                \/ s = State(b, Held("T", Moved), Yes, No)
  BY <1>2, <1>3, <1>4, <1>6, <1>7, <1>8, <1>12
<1> QED
  <2>1. (a = Empty \/ \E u : a = Held("T", u)) /\ (b = Empty \/ \E v : b = Held("T", v))
    BY OptionalProper
  <2>2. CASE a = Empty /\ b = Empty
    BY <1>9, <2>2
  <2>3. ASSUME NEW v, a = Empty, b = Held("T", v)
        PROVE  \A s \in O!SwapOutcomes(a, b) :
                 a = Empty /\ b.tag = "T"
                 /\ (s = State(b, Empty, No, No) \/ s = State(a, b, Yes, No))
    BY <1>6, <1>10, <2>3
  <2>4. ASSUME NEW u, a = Held("T", u), b = Empty
        PROVE  \A s \in O!SwapOutcomes(a, b) :
                 a.tag = "T" /\ b = Empty
                 /\ (s = State(Empty, Held("T", O!Converted), No, No) \/ s = State(a, b, Yes, No))
    BY <1>6, <1>11, <2>4
  <2>5. ASSUME NEW u, NEW v, a = Held("T", u), b = Held("T", v)
        PROVE  a.tag = b.tag /\ a.tag = "T"
    BY <1>6, <2>5
  <2> QED
    BY <1>12, <2>1, <2>2, <2>3, <2>4, <2>5

LEMMA OptionalSwap ==
  ASSUME NEW a, Proper("optional", a), a # Gone, NEW b, Proper("optional", b), b # Gone
  PROVE  \A s \in O!SwapOutcomes(a, b) : Fine("optional", "swap", a, b, s)
<1>1. /\ Proper("optional", Empty) /\ Proper("optional", Held("T", Moved))
      /\ Proper("optional", Held("T", O!Converted))
  BY OptionalTypes, ProperHeld
<1>2. Empty.tag = "dead" /\ Held("T", Moved).tag = "T" /\ Held("T", O!Converted).tag = "T"
  BY EmptyFacts, HeldFacts
<1>3. \A h, o : h.tag = a.tag /\ o.tag = b.tag =>
                  Spares("optional", "swap", a, h) /\ Spares("optional", "swap", b, o)
  BY DEF Spares
<1>4. \A o : o.tag = a.tag /\ (b.tag # "dead" => o = a) => Transfers("swap", a, b, b, o)
  BY DEF Transfers
<1>5. Fine("optional", "swap", a, b, State(b, a, No, No))
  BY <1>4, FineGoing
<1>6. Fine("optional", "swap", a, b, State(a, b, Yes, No))
  BY FineUnchanged
<1>7. a.tag = b.tag /\ a.tag = "T" =>
        /\ Fine("optional", "swap", a, b, State(Held("T", Moved), b, Yes, No))
        /\ Fine("optional", "swap", a, b, State(b, Held("T", Moved), Yes, No))
  BY <1>1, <1>2, <1>3, FineThrown
<1>8. a.tag = "T" /\ b = Empty =>
        Fine("optional", "swap", a, b, State(Empty, Held("T", O!Converted), No, No))
  BY <1>1, <1>2, <1>4, FineGoing
<1>9. a = Empty /\ b.tag = "T" =>
        Fine("optional", "swap", a, b, State(b, Empty, No, No))
  BY <1>5
<1> QED
  BY <1>5, <1>6, <1>7, <1>8, <1>9, OptionalSwapEnds

-----------------------------------------------------------------------------
(* Si::error_or.                                                           *)

LEMMA ErrorOrProper ==
  ASSUME NEW b, Proper("error_or", b), b # Gone
  PROVE  \/ \E v : b = Held("T", v)
         \/ \E v : b = Held("category", v)
BY DEF Proper, Types

LEMMA ErrorOrTypes == "T" \in Types("error_or") /\ "category" \in Types("error_or")
BY DEF Types

(* An error is a pointer. *)
LEMMA ErrorIsFree ==
  ASSUME NEW v
  PROVE  ~Owned(Object("category", v))
BY HeldFacts DEF Owned

LEMMA ErrorOrCreateSteps ==
  ASSUME NEW v
  PROVE  /\ E!FromCopy(v) = <<SetTag("T"), Construct(Object("T", v), TRUE, FALSE)>>
         /\ E!CopyFrom(Held("T", v)) = <<SetTag("T"), Construct(Object("T", v), TRUE, FALSE)>>
         /\ E!CopyFrom(Held("category", v)) =
              <<SetTag("category"), Construct(Object("category", v), FALSE, FALSE)>>
         /\ E!MoveFrom(Held("T", v)) = <<SetTag("T"), Construct(Object("T", v), FALSE, TRUE)>>
         /\ E!MoveFrom(Held("category", v)) =
              <<SetTag("category"), Construct(Object("category", v), FALSE, FALSE)>>
<1>1. ~E!IsError(Held("T", v)) /\ E!IsError(Held("category", v))
  BY HeldFacts DEF E!IsError
<1>2. /\ Held("T", v).tag = "T" /\ Held("T", v).cell = Object("T", v)
      /\ Held("category", v).tag = "category" /\ Held("category", v).cell = Object("category", v)
  BY HeldFacts
<1>3. E!FromCopy(v) = <<SetTag("T"), Construct(Object("T", v), TRUE, FALSE)>>
  BY DEF E!FromCopy, E!SetTag, SetTag, E!CopyConstruct, E!Construct, Construct, E!Object, Object
<1>4. E!CopyFrom(Held("T", v)) = <<SetTag("T"), Construct(Object("T", v), TRUE, FALSE)>>
  BY <1>1, <1>2 DEF E!CopyFrom, E!SetTag, SetTag, E!CopyConstruct, E!Construct, Construct
<1>5. E!CopyFrom(Held("category", v)) =
        <<SetTag("category"), Construct(Object("category", v), FALSE, FALSE)>>
  BY <1>1, <1>2 DEF E!CopyFrom, E!SetTag, SetTag, E!Store, E!Construct, Construct
<1>6. E!MoveFrom(Held("T", v)) = <<SetTag("T"), Construct(Object("T", v), FALSE, TRUE)>>
  BY <1>1, <1>2 DEF E!MoveFrom, E!SetTag, SetTag, E!Move, E!Construct, Construct
<1>7. E!MoveFrom(Held("category", v)) =
        <<SetTag("category"), Construct(Object("category", v), FALSE, FALSE)>>
  BY <1>1, <1>2 DEF E!MoveFrom, E!SetTag, SetTag, E!Store, E!Construct, Construct
<1> QED
  BY <1>3, <1>4, <1>5, <1>6, <1>7

LEMMA ErrorOrCreateValue ==
  ASSUME NEW b, Proper("error_or", b), NEW v
  PROVE  \A s \in Constructed(b, E!FromCopy(v)) : Fine("error_or", "create_value", Gone, b, s)
<1>1. Fine("error_or", "create_value", Gone, b, Going("T", Object("T", v), b, No))
  BY FineValue, ErrorOrTypes DEF Transferring
<1>2. Source(b, FALSE) = b
  BY DEF Source
<1> QED
  BY <1>1, <1>2, CreatedFine, ErrorOrCreateSteps

LEMMA ErrorOrCreateCopy ==
  ASSUME NEW b, Proper("error_or", b), b # Gone
  PROVE  \A s \in Constructed(b, E!CopyFrom(b)) : Fine("error_or", "create_copy", Gone, b, s)
<1>1. ASSUME NEW v, b = Held("T", v)
      PROVE  \A s \in Constructed(b, E!CopyFrom(b)) : Fine("error_or", "create_copy", Gone, b, s)
  <2>1. Fine("error_or", "create_copy", Gone, b, Going("T", Object("T", v), Source(b, FALSE), No))
    BY <1>1, FineTransfer, ErrorOrTypes DEF Copying
  <2> QED
    BY <1>1, <2>1, CreatedFine, ErrorOrCreateSteps
<1>2. ASSUME NEW v, b = Held("category", v)
      PROVE  \A s \in Constructed(b, E!CopyFrom(b)) : Fine("error_or", "create_copy", Gone, b, s)
  <2>1. Fine("error_or", "create_copy", Gone, b,
             Going("category", Object("category", v), Source(b, FALSE), No))
    BY <1>2, FineTransfer, ErrorOrTypes DEF Copying
  <2> QED
    BY <1>2, <2>1, CreatedFine, ErrorOrCreateSteps
<1> QED
  BY <1>1, <1>2, ErrorOrProper

LEMMA ErrorOrCreateMoved ==
  ASSUME NEW b, Proper("error_or", b), b # Gone
  PROVE  \A s \in Constructed(b, E!MoveFrom(b)) : Fine("error_or", "create_moved", Gone, b, s)
<1>1. ASSUME NEW v, b = Held("T", v)
      PROVE  \A s \in Constructed(b, E!MoveFrom(b)) : Fine("error_or", "create_moved", Gone, b, s)
  <2>1. Fine("error_or", "create_moved", Gone, b, Going("T", Object("T", v), Source(b, TRUE), No))
    BY <1>1, FineTransfer, ErrorOrTypes DEF Moving
  <2> QED
    BY <1>1, <2>1, CreatedFine, ErrorOrCreateSteps
<1>2. ASSUME NEW v, b = Held("category", v)
      PROVE  \A s \in Constructed(b, E!MoveFrom(b)) : Fine("error_or", "create_moved", Gone, b, s)
  <2>1. Fine("error_or", "create_moved", Gone, b,
             Going("category", Object("category", v), Source(b, FALSE), No))
    BY <1>2, FineTransfer, ErrorOrTypes DEF Moving
  <2> QED
    BY <1>2, <2>1, CreatedFine, ErrorOrCreateSteps
<1> QED
  BY <1>1, <1>2, ErrorOrProper

LEMMA ErrorOrMoveSteps ==
  ASSUME NEW u, NEW v, NEW moves \in BOOLEAN
  PROVE  /\ E!MoveSteps(Held("category", u), Held("T", v), moves) =
              <<SetTag("T"), Construct(Object("T", v), No, moves)>>
         /\ E!MoveSteps(Held("category", u), Held("category", v), moves) =
              <<SetTag("category"), Construct(Object("category", v), No, No)>>
         /\ E!MoveSteps(Held("T", u), Held("category", v), moves) =
              <<Destroy("T"), SetTag("category"), Construct(Object("category", v), No, No)>>
         /\ E!MoveSteps(Held("T", u), Held("T", v), moves) =
              <<Assign(Object("T", v), No, moves)>>
<1>1. \A x : ~E!IsError(Held("T", x)) /\ E!IsError(Held("category", x))
  BY HeldFacts DEF E!IsError
<1>2. /\ Held("T", v).tag = "T" /\ Held("T", v).cell = Object("T", v)
      /\ Held("category", v).tag = "category" /\ Held("category", v).cell = Object("category", v)
  BY HeldFacts
<1>3. E!MoveSteps(Held("category", u), Held("T", v), moves) =
        <<SetTag("T"), Construct(Object("T", v), No, moves)>>
  BY <1>1, <1>2 DEF E!MoveSteps, E!SetTag, SetTag, E!Construct, Construct, No
<1>4. E!MoveSteps(Held("category", u), Held("category", v), moves) =
        <<SetTag("category"), Construct(Object("category", v), No, No)>>
  BY <1>1, <1>2 DEF E!MoveSteps, E!SetTag, SetTag, E!Store, E!Construct, Construct, No
<1>5. E!MoveSteps(Held("T", u), Held("category", v), moves) =
        <<Destroy("T"), SetTag("category"), Construct(Object("category", v), No, No)>>
  BY <1>1, <1>2 DEF E!MoveSteps, E!Destroy, Destroy, E!SetTag, SetTag, E!Store, E!Construct,
                    Construct, No
<1>6. E!MoveSteps(Held("T", u), Held("T", v), moves) = <<Assign(Object("T", v), No, moves)>>
  BY <1>1, <1>2 DEF E!MoveSteps, E!Assign, Assign, No
<1> QED
  BY <1>3, <1>4, <1>5, <1>6

LEMMA ErrorOrDestroyedFine ==
  ASSUME NEW op, NEW b, NEW u, NEW v, NEW throws \in BOOLEAN, ~throws, NEW moves \in BOOLEAN,
         Fine("error_or", op, Held("T", u), b,
              Going("category", Object("category", v), Source(b, moves), No))
  PROVE  \A s \in Outcomes(Held("T", u), b,
                           <<Destroy("T"), SetTag("category"),
                             Construct(Object("category", v), throws, moves)>>) :
           Fine("error_or", op, Held("T", u), b, s)
<1> DEFINE steps == <<Destroy("T"), SetTag("category"),
                      Construct(Object("category", v), throws, moves)>>
           c == Object("T", u)
           end == Going("category", Object("category", v), Source(b, moves), No)
<1>1. c.type = "T"
  BY HeldFacts
<1>2. \A s \in Outcomes(Holder("T", c), b, steps) : s = end
  BY <1>1, DestroyedTaggedMade
<1> HIDE DEF steps, end
<1>3. \A s \in Outcomes(Holder("T", c), b, steps) : Fine("error_or", op, Held("T", u), b, s)
  BY <1>2 DEF end
<1> QED
  BY <1>3 DEF steps, Held

LEMMA ErrorOrOverError ==
  ASSUME NEW op, NEW b, NEW u, NEW t, t # "undefined", NEW v,
         NEW throws \in BOOLEAN, ~throws, NEW moves \in BOOLEAN,
         Fine("error_or", op, Held("category", u), b, Going(t, Object(t, v), Source(b, moves), No))
  PROVE  \A s \in Outcomes(Held("category", u), b,
                           <<SetTag(t), Construct(Object(t, v), throws, moves)>>) :
           Fine("error_or", op, Held("category", u), b, s)
<1> DEFINE c == Object("category", u)
<1>1. ~Owned(c) /\ Held("category", u) = Holder("category", c)
  BY ErrorIsFree DEF Held
<1> QED
  BY <1>1, TaggedMadeFine

LEMMA ErrorOrMoved ==
  ASSUME NEW op, NEW moves \in BOOLEAN, (op \in Copying /\ ~moves) \/ op \in Moving,
         NEW a, Proper("error_or", a), a # Gone, NEW b, Proper("error_or", b), b # Gone
  PROVE  \A s \in Outcomes(a, b, E!MoveSteps(a, b, moves)) : Fine("error_or", op, a, b, s)
<1>1. ASSUME NEW v, b = Held("T", v)
      PROVE  \A s \in Outcomes(a, b, E!MoveSteps(a, b, moves)) : Fine("error_or", op, a, b, s)
  <2>1. Fine("error_or", op, a, b, Going("T", Object("T", v), Source(b, moves), No))
    BY <1>1, FineTransfer, ErrorOrTypes
  <2>2. ASSUME NEW u, a = Held("T", u)
        PROVE  \A s \in Outcomes(a, b, E!MoveSteps(a, b, moves)) : Fine("error_or", op, a, b, s)
    BY <1>1, <2>1, <2>2, NoFacts, ErrorOrMoveSteps, AssignedFine, ErrorOrTypes
  <2>3. ASSUME NEW u, a = Held("category", u)
        PROVE  \A s \in Outcomes(a, b, E!MoveSteps(a, b, moves)) : Fine("error_or", op, a, b, s)
    BY <1>1, <2>1, <2>3, NoFacts, ErrorOrMoveSteps, ErrorOrOverError
  <2> QED
    BY <2>2, <2>3, ErrorOrProper
<1>2. ASSUME NEW v, b = Held("category", v)
      PROVE  \A s \in Outcomes(a, b, E!MoveSteps(a, b, moves)) : Fine("error_or", op, a, b, s)
  <2>1. Fine("error_or", op, a, b, Going("category", Object("category", v), Source(b, No), No))
    BY <1>2, NoFacts, FineTransfer, ErrorOrTypes
  <2>2. ASSUME NEW u, a = Held("T", u)
        PROVE  \A s \in Outcomes(a, b, E!MoveSteps(a, b, moves)) : Fine("error_or", op, a, b, s)
    BY <1>2, <2>1, <2>2, NoFacts, ErrorOrMoveSteps, ErrorOrDestroyedFine
  <2>3. ASSUME NEW u, a = Held("category", u)
        PROVE  \A s \in Outcomes(a, b, E!MoveSteps(a, b, moves)) : Fine("error_or", op, a, b, s)
    BY <1>2, <2>1, <2>3, NoFacts, ErrorOrMoveSteps, ErrorOrOverError
  <2> QED
    BY <2>2, <2>3, ErrorOrProper
<1> QED
  BY <1>1, <1>2, ErrorOrProper

LEMMA ErrorOrAssignMove ==
  ASSUME NEW a, Proper("error_or", a), a # Gone, NEW b, Proper("error_or", b), b # Gone
  PROVE  \A s \in Outcomes(a, b, E!AssignMove(a, b)) : Fine("error_or", "assign_moved", a, b, s)
<1>1. E!AssignMove(a, b) = E!MoveSteps(a, b, Yes)
  BY DEF E!AssignMove, Yes
<1> QED
  BY <1>1, YesFacts, ErrorOrMoved DEF Moving

(* Where a copy of a value is made before it is moved. *)
LEMMA ErrorOrCopySteps ==
  ASSUME NEW v
  PROVE  /\ \A u : E!AssignCopy(Held("category", u), Held("T", v)) =
                     <<CopyElsewhere, SetTag("T"), Construct(Object("T", v), No, No)>>
         /\ \A u : E!AssignCopy(Held("T", u), Held("T", v)) =
                     <<CopyElsewhere, Assign(Object("T", v), No, No)>>
         /\ \A u : E!AssignCopy(Held("category", u), Held("category", v)) =
                     E!MoveSteps(Held("category", u), Held("category", v), No)
         /\ \A u : E!AssignCopy(Held("T", u), Held("category", v)) =
                     E!MoveSteps(Held("T", u), Held("category", v), No)
<1>1. ~E!IsError(Held("T", v)) /\ E!IsError(Held("category", v))
  BY HeldFacts DEF E!IsError
<1>2. E!CopyElsewhere = CopyElsewhere
  BY DEF E!CopyElsewhere, CopyElsewhere
<1>3. \A a : E!AssignCopy(a, Held("T", v)) =
               <<CopyElsewhere>> \o E!MoveSteps(a, Held("T", v), No)
  BY <1>1, <1>2 DEF E!AssignCopy, No
<1>4. \A a : E!AssignCopy(a, Held("category", v)) =
               <<>> \o E!MoveSteps(a, Held("category", v), No)
  BY <1>1 DEF E!AssignCopy, No
<1>5. ASSUME NEW u
      PROVE  /\ E!AssignCopy(Held("category", u), Held("T", v)) =
                  <<CopyElsewhere, SetTag("T"), Construct(Object("T", v), No, No)>>
             /\ E!AssignCopy(Held("T", u), Held("T", v)) =
                  <<CopyElsewhere, Assign(Object("T", v), No, No)>>
  <2> DEFINE w == CopyElsewhere
             x == SetTag("T")
             y == Construct(Object("T", v), No, No)
             z == Assign(Object("T", v), No, No)
  <2>1. E!MoveSteps(Held("category", u), Held("T", v), No) = <<x, y>>
    BY NoFacts, ErrorOrMoveSteps
  <2>2. E!MoveSteps(Held("T", u), Held("T", v), No) = <<z>>
    BY NoFacts, ErrorOrMoveSteps
  <2>3. /\ E!AssignCopy(Held("category", u), Held("T", v)) = <<w>> \o <<x, y>>
        /\ E!AssignCopy(Held("T", u), Held("T", v)) = <<w>> \o <<z>>
    BY <1>3, <2>1, <2>2
  <2> HIDE DEF w, x, y, z
  <2>4. <<w>> \o <<x, y>> = <<w, x, y>> /\ <<w>> \o <<z>> = <<w, z>>
    BY Joined
  <2> QED
    BY <2>3, <2>4 DEF w, x, y, z
<1>6. ASSUME NEW u
      PROVE  /\ E!AssignCopy(Held("category", u), Held("category", v)) =
                  E!MoveSteps(Held("category", u), Held("category", v), No)
             /\ E!AssignCopy(Held("T", u), Held("category", v)) =
                  E!MoveSteps(Held("T", u), Held("category", v), No)
  BY <1>4, NoFacts, ErrorOrMoveSteps, NothingJoined
<1> QED
  BY <1>5, <1>6

LEMMA ErrorOrAssignCopy ==
  ASSUME NEW a, Proper("error_or", a), a # Gone, NEW b, Proper("error_or", b), b # Gone
  PROVE  \A s \in Outcomes(a, b, E!AssignCopy(a, b)) : Fine("error_or", "assign_copy", a, b, s)
<1>1. ASSUME NEW v, b = Held("category", v)
      PROVE  \A s \in Outcomes(a, b, E!AssignCopy(a, b)) : Fine("error_or", "assign_copy", a, b, s)
  <2>1. E!AssignCopy(a, b) = E!MoveSteps(a, b, No)
    BY <1>1, ErrorOrCopySteps, ErrorOrProper
  <2> QED
    BY <2>1, NoFacts, ErrorOrMoved DEF Copying
<1>2. ASSUME NEW v, b = Held("T", v)
      PROVE  \A s \in Outcomes(a, b, E!AssignCopy(a, b)) : Fine("error_or", "assign_copy", a, b, s)
  <2> DEFINE end == Going("T", Object("T", v), Source(b, No), No)
  <2>1. Fine("error_or", "assign_copy", a, b, end)
    BY <1>2, NoFacts, FineTransfer, ErrorOrTypes DEF Copying
  <2>2. Fine("error_or", "assign_copy", a, b, State(a, b, Yes, No))
    BY FineUnchanged
  <2>3. ASSUME NEW u, a = Held("category", u)
        PROVE  Outcomes(a, b, E!AssignCopy(a, b)) \subseteq {end, State(a, b, Yes, No)}
    <3> DEFINE c == Object("category", u)
               steps == <<CopyElsewhere, SetTag("T"), Construct(Object("T", v), No, No)>>
    <3>1. ~Owned(c)
      BY ErrorIsFree
    <3>2. Outcomes(Holder("category", c), b, steps)
            \subseteq {end, Thrown("category", c, b, No)}
      BY <3>1, NoFacts, CopiedTaggedMade
    <3>3. E!AssignCopy(a, b) = steps
      BY <1>2, <2>3, ErrorOrCopySteps
    <3>4. a = Holder("category", c) /\ Thrown("category", c, b, No) = State(a, b, Yes, No)
      BY <2>3 DEF Held, Thrown
    <3> HIDE DEF c, steps, end
    <3> QED
      BY <3>2, <3>3, <3>4
  <2>4. ASSUME NEW u, a = Held("T", u)
        PROVE  Outcomes(a, b, E!AssignCopy(a, b)) \subseteq {end, State(a, b, Yes, No)}
    <3> DEFINE c == Object("T", u)
               steps == <<CopyElsewhere, Assign(Object("T", v), No, No)>>
    <3>1. c.type = Object("T", v).type
      BY HeldFacts
    <3>2. Outcomes(Holder("T", c), b, steps) \subseteq {end, Thrown("T", c, b, No)}
      BY <3>1, NoFacts, CopiedThenAssigned
    <3>3. E!AssignCopy(a, b) = steps
      BY <1>2, <2>4, ErrorOrCopySteps
    <3>4. a = Holder("T", c) /\ Thrown("T", c, b, No) = State(a, b, Yes, No)
      BY <2>4 DEF Held, Thrown
    <3> HIDE DEF c, steps, end
    <3> QED
      BY <3>2, <3>3, <3>4
  <2> HIDE DEF end
  <2> QED
    BY <2>1, <2>2, <2>3, <2>4, ErrorOrProper
<1> QED
  BY <1>1, <1>2, ErrorOrProper

(* Where copying a value over an error throws, there is no value. *)
LEMMA ErrorOrValueOverErrorFine ==
  ASSUME NEW b, Proper("error_or", b), NEW u, NEW v,
         NEW throws \in BOOLEAN, NEW moves \in BOOLEAN, ~moves
  PROVE  \A s \in Outcomes(Held("category", u), b,
                           <<SetTag("T"), Construct(Object("T", v), throws, moves)>>) :
           Fine("error_or", "assign_value", Held("category", u), b, s)
<1> DEFINE a == Held("category", u)
           c == Object("category", u)
           steps == <<SetTag("T"), Construct(Object("T", v), throws, moves)>>
           end == Going("T", Object("T", v), Source(b, moves), No)
           lie == State(Holder("T", Dead), b, Yes, No)
<1>1. ~Owned(c)
  BY ErrorIsFree
<1>2. \A s \in Outcomes(Holder("category", c), b, steps) : s = end \/ s = Thrown("T", Dead, b, No)
  BY <1>1, TaggedThenMade
<1>3. a = Holder("category", c) /\ Thrown("T", Dead, b, No) = lie
  BY DEF Held, Thrown
<1>4. Fine("error_or", "assign_value", a, b, end)
  <2>1. Source(b, moves) = b
    BY DEF Source
  <2> QED
    BY <2>1, FineValue, ErrorOrTypes DEF Transferring
<1>5. Fine("error_or", "assign_value", a, b, lie)
  <2>1. ~Truthful(Holder("T", Dead))
    BY EmptyFacts DEF Truthful, Holder, Gone
  <2> DEFINE done == Done("assign_value", a, b, lie)
  <2>2. done.op = "assign_value" /\ done.on = "category"
    BY DoneFacts, HeldFacts
  <2>3. done.threw
    <3>1. done.threw = lie.threw
      BY DoneFacts
    <3>2. lie.threw = Yes
      BY Fields
    <3> QED
      BY <3>1, <3>2, YesFacts
  <2> HIDE DEF done
  <2>4. MayLie("error_or", done)
    BY <2>2, <2>3 DEF MayLie
  <2> QED
    BY <2>1, <2>4, FineLie DEF done
<1> HIDE DEF a, c, steps, end, lie
<1>6. \A s \in Outcomes(a, b, steps) : Fine("error_or", "assign_value", a, b, s)
  BY <1>2, <1>3, <1>4, <1>5
<1> QED
  BY <1>6 DEF a, steps

LEMMA ErrorOrAssignValue ==
  ASSUME NEW a, Proper("error_or", a), a # Gone, NEW b, Proper("error_or", b), NEW v
  PROVE  \A s \in Outcomes(a, b, E!AssignValue(a, v)) : Fine("error_or", "assign_value", a, b, s)
<1>1. ASSUME NEW u, a = Held("category", u)
      PROVE  \A s \in Outcomes(a, b, E!AssignValue(a, v)) :
               Fine("error_or", "assign_value", a, b, s)
  <2>1. E!AssignValue(a, v) = <<SetTag("T"), Construct(Object("T", v), Yes, No)>>
    BY <1>1, HeldFacts DEF E!AssignValue, E!IsError, E!SetTag, SetTag, E!CopyConstruct,
                           E!Construct, Construct, E!Object, Object, Yes, No
  <2> QED
    BY <1>1, <2>1, YesFacts, NoFacts, ErrorOrValueOverErrorFine
<1>2. ASSUME NEW u, a = Held("T", u)
      PROVE  \A s \in Outcomes(a, b, E!AssignValue(a, v)) :
               Fine("error_or", "assign_value", a, b, s)
  <2>1. E!AssignValue(a, v) = <<Assign(Object("T", v), Yes, No)>>
    <3>1. ~E!IsError(a)
      BY <1>2, HeldFacts DEF E!IsError
    <3>2. E!Object("T", v) = Object("T", v)
      BY DEF E!Object, Object
    <3> QED
      BY <3>1, <3>2 DEF E!AssignValue, E!CopyAssign, E!Assign, Assign, Yes, No
  <2>2. Source(b, No) = b
    BY NoFacts DEF Source
  <2>3. Fine("error_or", "assign_value", a, b, Going("T", Object("T", v), b, No))
    BY FineValue, ErrorOrTypes DEF Transferring
  <2> QED
    BY <1>2, <2>1, <2>2, <2>3, YesFacts, NoFacts, AssignedFine, ErrorOrTypes
<1> QED
  BY <1>1, <1>2, ErrorOrProper

LEMMA ErrorOrEnd ==
  ASSUME NEW a, Proper("error_or", a), a # Gone, NEW b, Proper("error_or", b)
  PROVE  \A s \in Outcomes(a, b, E!End(a)) : Fine("error_or", "end", a, b, Ended(s))
<1>1. ASSUME NEW u, a = Held("category", u)
      PROVE  \A s \in Outcomes(a, b, E!End(a)) : Fine("error_or", "end", a, b, Ended(s))
  <2> DEFINE c == Object("category", u)
  <2>1. E!End(a) = <<>>
    BY <1>1, HeldFacts DEF E!End, E!IsError
  <2>2. \A s \in Outcomes(Holder("category", c), b, <<>>) : s = Going("category", c, b, No)
    BY NoSteps
  <2>3. Fine("error_or", "end", a, b, Ended(Going("category", c, b, No)))
    BY EndedFine, ErrorIsFree
  <2>4. a = Holder("category", c)
    BY <1>1 DEF Held
  <2> HIDE DEF c
  <2> QED
    BY <2>1, <2>2, <2>3, <2>4
<1>2. ASSUME NEW u, a = Held("T", u)
      PROVE  \A s \in Outcomes(a, b, E!End(a)) : Fine("error_or", "end", a, b, Ended(s))
  <2> DEFINE steps == <<Destroy("T")>>
  <2>1. Outcomes(Holder("T", Object("T", u)), b, steps) \subseteq {Going("T", Dead, b, No)}
    BY HeldFacts, Destroyed
  <2>2. E!End(a) = steps
    BY <1>2, HeldFacts DEF E!End, E!IsError, E!Destroy, Destroy
  <2> HIDE DEF steps
  <2>3. Fine("error_or", "end", a, b, Ended(Going("T", Dead, b, No)))
    BY EndedFine, DeadIsFree
  <2> QED
    BY <1>2, <2>1, <2>2, <2>3 DEF Held
<1> QED
  BY <1>1, <1>2, ErrorOrProper

-----------------------------------------------------------------------------
(* Si::expected.                                                           *)

LEMMA ExpectedProper ==
  ASSUME NEW b, Proper("expected", b), b # Gone
  PROVE  \E t \in {"T", "exception"} : \E v : b = Held(t, v)
BY DEF Proper, Types

LEMMA ExpectedTypes == Types("expected") = {"T", "exception"}
BY DEF Types

LEMMA ExpectedCreateSteps ==
  ASSUME NEW t, NEW v
  PROVE  /\ X!FromCopy(v) = <<SetTag("T"), Construct(Object("T", v), Yes, No)>>
         /\ X!FromException(v) = <<SetTag("exception"), Construct(Object("exception", v), No, No)>>
         /\ \E throws \in BOOLEAN :
              X!CopyFrom(Held(t, v)) = <<SetTag(t), Construct(Object(t, v), throws, No)>>
         /\ \E throws \in BOOLEAN :
              X!MoveFrom(Held(t, v)) = <<SetTag(t), Construct(Object(t, v), throws, Yes)>>
<1>1. Held(t, v).tag = t /\ Held(t, v).cell = Object(t, v)
  BY HeldFacts
<1>2. X!FromCopy(v) = <<SetTag("T"), Construct(Object("T", v), Yes, No)>>
  BY DEF X!FromCopy, X!SetTag, SetTag, X!CopyConstruct, X!Construct, Construct, X!Object, Object,
         Yes, No
<1>3. X!FromException(v) = <<SetTag("exception"), Construct(Object("exception", v), No, No)>>
  BY DEF X!FromException, X!SetTag, SetTag, X!Store, X!Construct, Construct, X!Object, Object, No
<1>4. X!CopyFrom(Held(t, v)) =
        <<SetTag(t), Construct(Object(t, v), Object(t, v).type = "T", No)>>
  BY <1>1 DEF X!CopyFrom, X!SetTag, SetTag, X!Copy, X!Construct, Construct, No
<1>5. X!MoveFrom(Held(t, v)) =
        <<SetTag(t), Construct(Object(t, v), Object(t, v).type = "T" /\ MovesThrow, Yes)>>
  BY <1>1 DEF X!MoveFrom, X!SetTag, SetTag, X!Move, X!Construct, Construct, Yes
<1> QED
  BY <1>2, <1>3, <1>4, <1>5

LEMMA ExpectedAssignSteps ==
  ASSUME NEW u, NEW t, NEW v
  PROVE  /\ \E throws \in BOOLEAN :
              X!AssignCopy(Held(t, u), Held(t, v)) =
                <<Assign(Object(t, v), throws, No), SetTag(t)>>
         /\ \E throws \in BOOLEAN :
              X!AssignMove(Held(t, u), Held(t, v)) =
                <<Assign(Object(t, v), throws, Yes), SetTag(t)>>
         /\ \A w : w # t => \E throws \in BOOLEAN :
              /\ throws => t = "T"
              /\ X!AssignCopy(Held(w, u), Held(t, v)) =
                   <<Destroy(w), Construct(Object(t, v), throws, No), SetTag(t)>>
         /\ \A w : w # t => \E throws \in BOOLEAN :
              /\ throws => t = "T"
              /\ X!AssignMove(Held(w, u), Held(t, v)) =
                   <<Destroy(w), Construct(Object(t, v), throws, Yes), SetTag(t)>>
<1>1. /\ Held(t, v).tag = t /\ Held(t, v).cell = Object(t, v) /\ Object(t, v).type = t
      /\ \A w : Held(w, u).tag = w
  BY HeldFacts
<1>2. X!AssignCopy(Held(t, u), Held(t, v)) =
        <<Assign(Object(t, v), X!HasValue(Held(t, v)), No), SetTag(t)>>
  <2> DEFINE x == Assign(Object(t, v), X!HasValue(Held(t, v)), No)
             y == SetTag(t)
  <2>1. X!AssignCopy(Held(t, u), Held(t, v)) = <<x>> \o <<y>>
    BY <1>1 DEF X!AssignCopy, X!Assign, Assign, X!SetTag, SetTag, Yes, No
  <2> HIDE DEF x, y
  <2>2. <<x>> \o <<y>> = <<x, y>>
    BY Joined
  <2> QED
    BY <2>1, <2>2 DEF x, y
<1>3. X!AssignMove(Held(t, u), Held(t, v)) =
        <<Assign(Object(t, v), X!HasValue(Held(t, v)) /\ MovesThrow, Yes), SetTag(t)>>
  <2> DEFINE x == Assign(Object(t, v), X!HasValue(Held(t, v)) /\ MovesThrow, Yes)
             y == SetTag(t)
  <2>1. X!AssignMove(Held(t, u), Held(t, v)) = <<x>> \o <<y>>
    BY <1>1 DEF X!AssignMove, X!Assign, Assign, X!SetTag, SetTag, Yes, No
  <2> HIDE DEF x, y
  <2>2. <<x>> \o <<y>> = <<x, y>>
    BY Joined
  <2> QED
    BY <2>1, <2>2 DEF x, y
<1>4. ASSUME NEW w, w # t
      PROVE  X!AssignCopy(Held(w, u), Held(t, v)) =
               <<Destroy(w), Construct(Object(t, v), Object(t, v).type = "T", No), SetTag(t)>>
  <2> DEFINE x == Destroy(w)
             y == Construct(Object(t, v), Object(t, v).type = "T", No)
             z == SetTag(t)
  <2>1. X!AssignCopy(Held(w, u), Held(t, v)) = <<x, y>> \o <<z>>
    BY <1>1, <1>4 DEF X!AssignCopy, X!Destroy, Destroy, X!Copy, X!Construct, Construct,
                       X!SetTag, SetTag, Yes, No
  <2> HIDE DEF x, y, z
  <2>2. <<x, y>> \o <<z>> = <<x, y, z>>
    BY OneMore
  <2> QED
    BY <2>1, <2>2 DEF x, y, z
<1>5. ASSUME NEW w, w # t
      PROVE  X!AssignMove(Held(w, u), Held(t, v)) =
               <<Destroy(w),
                 Construct(Object(t, v), Object(t, v).type = "T" /\ MovesThrow, Yes),
                 SetTag(t)>>
  <2> DEFINE x == Destroy(w)
             y == Construct(Object(t, v), Object(t, v).type = "T" /\ MovesThrow, Yes)
             z == SetTag(t)
  <2>1. X!AssignMove(Held(w, u), Held(t, v)) = <<x, y>> \o <<z>>
    BY <1>1, <1>5 DEF X!AssignMove, X!Destroy, Destroy, X!Move, X!Construct, Construct,
                       X!SetTag, SetTag, Yes, No
  <2> HIDE DEF x, y, z
  <2>2. <<x, y>> \o <<z>> = <<x, y, z>>
    BY OneMore
  <2> QED
    BY <2>1, <2>2 DEF x, y, z
<1>6. \E throws \in BOOLEAN :
        X!AssignCopy(Held(t, u), Held(t, v)) = <<Assign(Object(t, v), throws, No), SetTag(t)>>
  BY <1>2 DEF X!HasValue
<1>7. \E throws \in BOOLEAN :
        X!AssignMove(Held(t, u), Held(t, v)) = <<Assign(Object(t, v), throws, Yes), SetTag(t)>>
  BY <1>3 DEF X!HasValue
<1>8. ASSUME NEW w, w # t
      PROVE  \E throws \in BOOLEAN :
               /\ throws => t = "T"
               /\ X!AssignCopy(Held(w, u), Held(t, v)) =
                    <<Destroy(w), Construct(Object(t, v), throws, No), SetTag(t)>>
  BY <1>1, <1>4, <1>8
<1>9. ASSUME NEW w, w # t
      PROVE  \E throws \in BOOLEAN :
               /\ throws => t = "T"
               /\ X!AssignMove(Held(w, u), Held(t, v)) =
                    <<Destroy(w), Construct(Object(t, v), throws, Yes), SetTag(t)>>
  BY <1>1, <1>5, <1>9
<1> QED
  BY <1>6, <1>7, <1>8, <1>9

LEMMA ExpectedCreateValue ==
  ASSUME NEW b, Proper("expected", b), NEW v
  PROVE  \A s \in Constructed(b, X!FromCopy(v)) : Fine("expected", "create_value", Gone, b, s)
<1>1. Fine("expected", "create_value", Gone, b, Going("T", Object("T", v), b, No))
  BY FineValue, ExpectedTypes DEF Transferring
<1>2. Source(b, No) = b
  BY NoFacts DEF Source
<1>3. X!FromCopy(v) = <<SetTag("T"), Construct(Object("T", v), Yes, No)>>
  BY ExpectedCreateSteps
<1> QED
  BY <1>1, <1>2, <1>3, YesFacts, NoFacts, CreatedFine

LEMMA ExpectedCreateError ==
  ASSUME NEW b, Proper("expected", b), NEW v
  PROVE  \A s \in Constructed(b, X!FromException(v)) :
           Fine("expected", "create_error", Gone, b, s)
<1>1. Fine("expected", "create_error", Gone, b, Going("exception", Object("exception", v), b, No))
  BY FineValue, ExpectedTypes DEF Transferring
<1>2. Source(b, No) = b
  BY NoFacts DEF Source
<1>3. X!FromException(v) = <<SetTag("exception"), Construct(Object("exception", v), No, No)>>
  BY ExpectedCreateSteps
<1> QED
  BY <1>1, <1>2, <1>3, NoFacts, CreatedFine

LEMMA ExpectedCreateCopy ==
  ASSUME NEW b, Proper("expected", b), b # Gone
  PROVE  \A s \in Constructed(b, X!CopyFrom(b)) : Fine("expected", "create_copy", Gone, b, s)
<1>1. PICK t, v : t \in {"T", "exception"} /\ b = Held(t, v)
  BY ExpectedProper
<1>2. PICK throws \in BOOLEAN :
        X!CopyFrom(b) = <<SetTag(t), Construct(Object(t, v), throws, No)>>
  BY <1>1, ExpectedCreateSteps
<1>3. Fine("expected", "create_copy", Gone, b, Going(t, Object(t, v), Source(b, No), No))
  BY <1>1, NoFacts, FineTransfer, ExpectedTypes DEF Copying
<1> QED
  BY <1>1, <1>2, <1>3, NoFacts, CreatedFine

LEMMA ExpectedCreateMoved ==
  ASSUME NEW b, Proper("expected", b), b # Gone
  PROVE  \A s \in Constructed(b, X!MoveFrom(b)) : Fine("expected", "create_moved", Gone, b, s)
<1>1. PICK t, v : t \in {"T", "exception"} /\ b = Held(t, v)
  BY ExpectedProper
<1>2. PICK throws \in BOOLEAN :
        X!MoveFrom(b) = <<SetTag(t), Construct(Object(t, v), throws, Yes)>>
  BY <1>1, ExpectedCreateSteps
<1>3. Fine("expected", "create_moved", Gone, b, Going(t, Object(t, v), Source(b, Yes), No))
  BY <1>1, YesFacts, FineTransfer, ExpectedTypes DEF Moving
<1> QED
  BY <1>1, <1>2, <1>3, YesFacts, CreatedFine

(* What is assigned keeps its tag. *)
LEMMA ExpectedAssignedFine ==
  ASSUME NEW op, NEW b, Proper("expected", b), NEW t \in {"T", "exception"},
         NEW u, NEW v, NEW throws \in BOOLEAN, NEW moves \in BOOLEAN,
         Fine("expected", op, Held(t, u), b, Going(t, Object(t, v), Source(b, moves), No))
  PROVE  \A s \in Outcomes(Held(t, u), b, <<Assign(Object(t, v), throws, moves), SetTag(t)>>) :
           Fine("expected", op, Held(t, u), b, s)
<1> DEFINE steps == <<Assign(Object(t, v), throws, moves), SetTag(t)>>
           end == Going(t, Object(t, v), Source(b, moves), No)
           c == Object(t, u)
           a == Held(t, u)
<1>1. c.type = Object(t, v).type
  BY HeldFacts
<1>2. \A s \in Outcomes(Holder(t, c), b, steps) : s = end \/ s = Thrown(t, c, b, No)
  BY <1>1, AssignedThenTagged
<1>3. a = Holder(t, c) /\ Thrown(t, c, b, No) = State(a, b, Yes, No)
  BY DEF Thrown, Held
<1>4. Fine("expected", op, a, b, State(a, b, Yes, No))
  BY FineUnchanged, ProperHeld, ExpectedTypes
<1> HIDE DEF a, c, steps, end
<1>5. \A s \in Outcomes(a, b, steps) : Fine("expected", op, a, b, s)
  BY <1>2, <1>3, <1>4 DEF a, end
<1> QED
  BY <1>5 DEF a, steps

(* What is destroyed for its successor is lost when that one throws. *)
LEMMA ExpectedReplacedFine ==
  ASSUME NEW op, NEW b, Proper("expected", b), NEW w \in {"T", "exception"}, NEW u,
         NEW t, NEW v, NEW throws \in BOOLEAN, NEW moves \in BOOLEAN,
         Fine("expected", op, Held(w, u), b, Going(t, Object(t, v), Source(b, moves), No)),
         throws => MayLie("expected", Done(op, Held(w, u), b, State(Holder(w, Dead), b, Yes, No)))
  PROVE  \A s \in Outcomes(Held(w, u), b,
                           <<Destroy(w), Construct(Object(t, v), throws, moves), SetTag(t)>>) :
           Fine("expected", op, Held(w, u), b, s)
<1> DEFINE steps == <<Destroy(w), Construct(Object(t, v), throws, moves), SetTag(t)>>
           end == Going(t, Object(t, v), Source(b, moves), No)
           c == Object(w, u)
           a == Held(w, u)
           lie == State(Holder(w, Dead), b, Yes, No)
<1>1. c.type = w
  BY HeldFacts
<1>2. \A s \in Outcomes(Holder(w, c), b, steps) :
        s = end \/ (throws /\ s = Thrown(w, Dead, b, No))
  BY <1>1, DestroyedMadeTagged
<1>3. a = Holder(w, c) /\ Thrown(w, Dead, b, No) = lie
  BY DEF Thrown, Held
<1>4. throws => Fine("expected", op, a, b, lie)
  BY HalfDone, FineLie
<1> HIDE DEF a, c, steps, end, lie
<1>5. \A s \in Outcomes(a, b, steps) : Fine("expected", op, a, b, s)
  BY <1>2, <1>3, <1>4 DEF a, end
<1> QED
  BY <1>5 DEF a, steps

LEMMA ExpectedAssignCopy ==
  ASSUME NEW a, Proper("expected", a), a # Gone, NEW b, Proper("expected", b), b # Gone
  PROVE  \A s \in Outcomes(a, b, X!AssignCopy(a, b)) : Fine("expected", "assign_copy", a, b, s)
<1>1. PICK w, u : w \in {"T", "exception"} /\ a = Held(w, u)
  BY ExpectedProper
<1>2. PICK t, v : t \in {"T", "exception"} /\ b = Held(t, v)
  BY ExpectedProper
<1>3. Fine("expected", "assign_copy", a, b, Going(t, Object(t, v), Source(b, No), No))
  BY <1>2, NoFacts, FineTransfer, ExpectedTypes DEF Copying
<1>4. CASE w = t
  <2>1. PICK throws \in BOOLEAN :
          X!AssignCopy(a, b) = <<Assign(Object(t, v), throws, No), SetTag(t)>>
    BY <1>1, <1>2, <1>4, ExpectedAssignSteps
  <2> QED
    BY <1>1, <1>3, <1>4, <2>1, NoFacts, ExpectedAssignedFine
<1>5. CASE w # t
  <2>1. PICK throws \in BOOLEAN :
          /\ throws => t = "T"
          /\ X!AssignCopy(a, b) = <<Destroy(w), Construct(Object(t, v), throws, No), SetTag(t)>>
    BY <1>1, <1>2, <1>5, ExpectedAssignSteps
  <2> DEFINE done == Done("assign_copy", a, b, State(Holder(w, Dead), b, Yes, No))
  <2>2. done.op = "assign_copy" /\ done.on = w /\ done.from = t
    BY <1>1, <1>2, DoneFacts, HeldFacts
  <2>3. done.threw
    BY DoneThrew
  <2> HIDE DEF done
  <2>4. throws => MayLie("expected", done)
    BY <1>1, <1>2, <1>5, <2>1, <2>2, <2>3 DEF MayLie
  <2> QED
    BY <1>1, <1>3, <2>1, <2>4, NoFacts, ExpectedReplacedFine DEF done
<1> QED
  BY <1>4, <1>5

LEMMA ExpectedAssignMove ==
  ASSUME NEW a, Proper("expected", a), a # Gone, NEW b, Proper("expected", b), b # Gone
  PROVE  \A s \in Outcomes(a, b, X!AssignMove(a, b)) : Fine("expected", "assign_moved", a, b, s)
<1>1. PICK w, u : w \in {"T", "exception"} /\ a = Held(w, u)
  BY ExpectedProper
<1>2. PICK t, v : t \in {"T", "exception"} /\ b = Held(t, v)
  BY ExpectedProper
<1>3. Fine("expected", "assign_moved", a, b, Going(t, Object(t, v), Source(b, Yes), No))
  BY <1>2, YesFacts, FineTransfer, ExpectedTypes DEF Moving
<1>4. CASE w = t
  <2>1. PICK throws \in BOOLEAN :
          X!AssignMove(a, b) = <<Assign(Object(t, v), throws, Yes), SetTag(t)>>
    BY <1>1, <1>2, <1>4, ExpectedAssignSteps
  <2> QED
    BY <1>1, <1>3, <1>4, <2>1, YesFacts, ExpectedAssignedFine
<1>5. CASE w # t
  <2>1. PICK throws \in BOOLEAN :
          /\ throws => t = "T"
          /\ X!AssignMove(a, b) = <<Destroy(w), Construct(Object(t, v), throws, Yes), SetTag(t)>>
    BY <1>1, <1>2, <1>5, ExpectedAssignSteps
  <2> DEFINE done == Done("assign_moved", a, b, State(Holder(w, Dead), b, Yes, No))
  <2>2. done.op = "assign_moved" /\ done.on = w /\ done.from = t
    BY <1>1, <1>2, DoneFacts, HeldFacts
  <2>3. done.threw
    BY DoneThrew
  <2> HIDE DEF done
  <2>4. throws => MayLie("expected", done)
    BY <1>1, <1>2, <1>5, <2>1, <2>2, <2>3 DEF MayLie
  <2> QED
    BY <1>1, <1>3, <2>1, <2>4, YesFacts, ExpectedReplacedFine DEF done
<1> QED
  BY <1>4, <1>5

LEMMA ExpectedValueSteps ==
  ASSUME NEW u, NEW v
  PROVE  /\ X!AssignValue(Held("T", u), v) = <<Assign(Object("T", v), MovesThrow, No)>>
         /\ X!AssignValue(Held("exception", u), v) =
              <<Destroy("exception"), Construct(Object("T", v), MovesThrow, No), SetTag("T")>>
         /\ \A t : X!Emplace(Held(t, u), v) = <<Destroy(t), Construct(Object("T", v), Yes, No)>>
         /\ \A t : X!End(Held(t, u)) = <<Destroy(t)>>
<1>1. /\ X!HasValue(Held("T", u)) /\ ~X!HasValue(Held("exception", u))
      /\ \A t : Held(t, u).tag = t
  BY HeldFacts DEF X!HasValue
<1>2. X!Object("T", v) = Object("T", v)
  BY DEF X!Object, Object
<1>3. X!AssignValue(Held("T", u), v) = <<Assign(Object("T", v), MovesThrow, No)>>
  BY <1>1, <1>2 DEF X!AssignValue, X!Assign, Assign, No
<1>4. X!AssignValue(Held("exception", u), v) =
        <<Destroy("exception"), Construct(Object("T", v), MovesThrow, No), SetTag("T")>>
  BY <1>1, <1>2 DEF X!AssignValue, X!Destroy, Destroy, X!Construct, Construct, X!SetTag, SetTag, No
<1>5. \A t : X!Emplace(Held(t, u), v) = <<Destroy(t), Construct(Object("T", v), Yes, No)>>
  BY <1>1, <1>2 DEF X!Emplace, X!Destroy, Destroy, X!CopyConstruct, X!Construct, Construct, Yes, No
<1>6. \A t : X!End(Held(t, u)) = <<Destroy(t)>>
  BY <1>1 DEF X!End, X!Destroy, Destroy
<1> QED
  BY <1>3, <1>4, <1>5, <1>6

LEMMA ExpectedAssignValue ==
  ASSUME NEW a, Proper("expected", a), a # Gone, NEW b, Proper("expected", b), NEW v
  PROVE  \A s \in Outcomes(a, b, X!AssignValue(a, v)) : Fine("expected", "assign_value", a, b, s)
<1>1. Fine("expected", "assign_value", a, b, Going("T", Object("T", v), Source(b, No), No))
  <2>1. Source(b, No) = b
    BY NoFacts DEF Source
  <2> QED
    BY <2>1, FineValue, ExpectedTypes DEF Transferring
<1>2. ASSUME NEW u, a = Held("T", u)
      PROVE  \A s \in Outcomes(a, b, X!AssignValue(a, v)) :
               Fine("expected", "assign_value", a, b, s)
  <2>1. X!AssignValue(a, v) = <<Assign(Object("T", v), MovesThrow, No)>>
    BY <1>2, ExpectedValueSteps
  <2> QED
    BY <1>1, <1>2, <2>1, NoFacts, MovesThrowAssumption, AssignedFine, ExpectedTypes
<1>3. ASSUME NEW u, a = Held("exception", u)
      PROVE  \A s \in Outcomes(a, b, X!AssignValue(a, v)) :
               Fine("expected", "assign_value", a, b, s)
  <2>1. X!AssignValue(a, v) =
          <<Destroy("exception"), Construct(Object("T", v), MovesThrow, No), SetTag("T")>>
    BY <1>3, ExpectedValueSteps
  <2> DEFINE done ==
        Done("assign_value", a, b, State(Holder("exception", Dead), b, Yes, No))
  <2>2. done.op = "assign_value" /\ done.on = "exception"
    BY <1>3, DoneFacts, HeldFacts
  <2>3. done.threw
    BY DoneThrew
  <2> HIDE DEF done
  <2>4. MayLie("expected", done)
    BY <2>2, <2>3 DEF MayLie
  <2> QED
    BY <1>1, <1>3, <2>1, <2>4, NoFacts, MovesThrowAssumption, ExpectedReplacedFine DEF done
<1> QED
  BY <1>2, <1>3, ExpectedProper

(* What is emplaced counts as what was there before. *)
LEMMA ExpectedEmplacedFine ==
  ASSUME NEW b, Proper("expected", b), NEW t \in {"T", "exception"}, NEW u, NEW v,
         NEW throws \in BOOLEAN, NEW moves \in BOOLEAN, ~moves
  PROVE  \A s \in Outcomes(Held(t, u), b,
                           <<Destroy(t), Construct(Object("T", v), throws, moves)>>) :
           Fine("expected", "emplace", Held(t, u), b, s)
<1> DEFINE steps == <<Destroy(t), Construct(Object("T", v), throws, moves)>>
           c == Object(t, u)
           a == Held(t, u)
           h == Holder(t, Object("T", v))
           end == Going(t, Object("T", v), Source(b, moves), No)
           lie == State(Holder(t, Dead), b, Yes, No)
<1>1. c.type = t
  BY HeldFacts
<1>2. \A s \in Outcomes(Holder(t, c), b, steps) : s = end \/ s = Thrown(t, Dead, b, No)
  BY <1>1, DestroyedThenMade
<1>3. a = Holder(t, c) /\ Thrown(t, Dead, b, No) = lie /\ a.tag = t
  BY HeldFacts DEF Thrown, Held
<1>4. Fine("expected", "emplace", a, b, end)
  <2>1. Source(b, moves) = b
    BY DEF Source
  <2>2. CASE t = "T"
    <3>1. Fine("expected", "emplace", a, b, Going("T", Object("T", v), b, No))
      BY FineValue, ExpectedTypes DEF Transferring
    <3> QED
      BY <2>1, <2>2, <3>1
  <2>3. CASE t = "exception"
    <3>1. ~Truthful(h)
      BY <2>3, HeldFacts DEF Truthful, Holder, Gone
    <3> DEFINE done == Done("emplace", a, b, State(h, b, No, No))
    <3>2. done.op = "emplace" /\ done.on = "exception"
      BY <1>3, <2>3, DoneFacts
    <3> HIDE DEF done, a, h
    <3>3. MayLie("expected", done)
      BY <3>2 DEF MayLie
    <3>4. Fine("expected", "emplace", a, b, State(h, b, No, No))
      BY <3>1, <3>3, FineLie DEF done
    <3> QED
      BY <2>1, <3>4 DEF Going, h
  <2> QED
    BY <2>2, <2>3
<1>5. Fine("expected", "emplace", a, b, lie)
  <2> DEFINE done == Done("emplace", a, b, lie)
  <2>1. done.op = "emplace"
    BY DoneFacts
  <2>2. done.threw
    BY DoneThrew
  <2> HIDE DEF done
  <2>3. MayLie("expected", done)
    BY <2>1, <2>2 DEF MayLie
  <2> QED
    BY <2>3, HalfDone, FineLie DEF done
<1> HIDE DEF a, c, h, steps, end, lie
<1>6. \A s \in Outcomes(a, b, steps) : Fine("expected", "emplace", a, b, s)
  BY <1>2, <1>3, <1>4, <1>5
<1> QED
  BY <1>6 DEF a, steps

LEMMA ExpectedEmplace ==
  ASSUME NEW a, Proper("expected", a), a # Gone, NEW b, Proper("expected", b), NEW v
  PROVE  \A s \in Outcomes(a, b, X!Emplace(a, v)) : Fine("expected", "emplace", a, b, s)
<1>1. PICK t, u : t \in {"T", "exception"} /\ a = Held(t, u)
  BY ExpectedProper
<1>2. X!Emplace(a, v) = <<Destroy(t), Construct(Object("T", v), Yes, No)>>
  BY <1>1, ExpectedValueSteps
<1> QED
  BY <1>1, <1>2, YesFacts, NoFacts, ExpectedEmplacedFine

LEMMA ExpectedEnd ==
  ASSUME NEW a, Proper("expected", a), a # Gone, NEW b, Proper("expected", b)
  PROVE  \A s \in Outcomes(a, b, X!End(a)) : Fine("expected", "end", a, b, Ended(s))
<1>1. PICK t, u : t \in {"T", "exception"} /\ a = Held(t, u)
  BY ExpectedProper
<1> DEFINE steps == <<Destroy(t)>>
<1>2. Outcomes(Holder(t, Object(t, u)), b, steps) \subseteq {Going(t, Dead, b, No)}
  <2>1. Object(t, u).type = t
    BY HeldFacts
  <2> QED
    BY <1>1, <2>1, Destroyed
<1>3. X!End(a) = steps
  BY <1>1, ExpectedValueSteps
<1>4. Fine("expected", "end", a, b, Ended(Going(t, Dead, b, No)))
  BY EndedFine, DeadIsFree
<1> HIDE DEF steps
<1> QED
  BY <1>1, <1>2, <1>3, <1>4 DEF Held

-----------------------------------------------------------------------------
(* Si::variant: its steps.                                                 *)

LEMMA DispatchFound ==
  ASSUME NEW t, NEW c, NEW o, NEW l, t # "undefined", NEW u, u # "dead"
  PROVE  After(Going(t, c, o, l), Dispatch(u)) \subseteq {Going(t, c, o, l)}
BY DispatchStep

LEMMA DispatchLost ==
  ASSUME NEW t, NEW c, NEW o, NEW l, t # "undefined"
  PROVE  After(Going(t, c, o, l), Dispatch("dead")) \subseteq {Lost(o, l)}
BY DispatchStep

LEMMA DestroyFound ==
  ASSUME NEW t, NEW c, NEW o, NEW l, t # "undefined", NEW u, c.type = u
  PROVE  After(Going(t, c, o, l), Destroy(u)) \subseteq {Going(t, Dead, o, l)}
BY DestroyStep

LEMMA TagFound ==
  ASSUME NEW t, NEW c, NEW o, NEW l, t # "undefined", NEW u
  PROVE  After(Going(t, c, o, l), SetTag(u)) \subseteq {Going(u, c, o, l)}
BY TagStep

LEMMA MadeFound ==
  ASSUME NEW t, NEW o, NEW l \in BOOLEAN, t # "undefined",
         NEW d, NEW throws \in BOOLEAN, NEW moves \in BOOLEAN
  PROVE  After(Going(t, Dead, o, l), Construct(d, throws, moves))
           \subseteq {Going(t, d, Source(o, moves), l), Thrown(t, Dead, o, l)}
BY DeadIsFree, ConstructFree

(* The object that was there is overwritten. *)
LEMMA ConstructOver ==
  ASSUME NEW t, NEW c, NEW o, NEW l \in BOOLEAN, t # "undefined", Owned(c),
         NEW d, NEW throws \in BOOLEAN
  PROVE  After(Going(t, c, o, l), Construct(d, throws, No))
           \subseteq {Going(t, d, o, Yes), Thrown(t, Dead, o, Yes)}
<1>1. PICK k \in BOOLEAN :
        /\ k = IF Owned(c) THEN Yes ELSE l
        /\ \A s \in After(Going(t, c, o, l), Construct(d, throws, No)) :
             \/ s = Going(t, d, IF No THEN MovedFrom(o) ELSE o, k)
             \/ throws /\ s = Thrown(t, Dead, o, k)
  BY NoFacts, ConstructStep
<1>2. k = Yes
  BY <1>1
<1> QED
  BY <1>1, <1>2, NoFacts

LEMMA UnwindLost ==
  ASSUME NEW t, NEW o, NEW l, t # "undefined", t # "dead"
  PROVE  After(Thrown(t, Dead, o, l), Unwind) \subseteq {State(Undefined, o, Yes, l)}
BY UnwindStep, EmptyFacts

(* A valueless variant ends an operation that looks at its index. *)
LEMMA LostAtOnce ==
  ASSUME NEW t, NEW c, NEW o, t # "undefined"
  PROVE  /\ Outcomes(Holder(t, c), o, <<Dispatch("dead")>>) \subseteq {Lost(o, No)}
         /\ \A x2 : Outcomes(Holder(t, c), o, <<Dispatch("dead"), x2>>) \subseteq {Lost(o, No)}
         /\ \A x2, x3, x4, x5 :
              Outcomes(Holder(t, c), o, <<Dispatch("dead"), x2, x3, x4, x5>>)
                \subseteq {Lost(o, No)}
         /\ \A x2, x3, x4, x5, x6, x7 :
              Outcomes(Holder(t, c), o, <<Dispatch("dead"), x2, x3, x4, x5, x6, x7>>)
                \subseteq {Lost(o, No)}
<1> DEFINE x1 == Dispatch("dead")
<1>1. Outcomes(Holder(t, c), o, <<>>) \subseteq {Going(t, c, o, No)}
  BY NoSteps
<1>2. After(Going(t, c, o, No), x1) \subseteq {Lost(o, No)}
  BY DispatchLost
<1> HIDE DEF x1
<1>3. Outcomes(Holder(t, c), o, <<x1>>) \subseteq {Lost(o, No)}
  BY <1>1, <1>2, Step1
<1>4. ASSUME NEW x2
      PROVE  Outcomes(Holder(t, c), o, <<x1, x2>>) \subseteq {Lost(o, No)}
  BY <1>3, IsLost, Step2
<1>5. ASSUME NEW x2, NEW x3, NEW x4, NEW x5
      PROVE  Outcomes(Holder(t, c), o, <<x1, x2, x3, x4, x5>>) \subseteq {Lost(o, No)}
  <2>1. Outcomes(Holder(t, c), o, <<x1, x2>>) \subseteq {Lost(o, No)}
    BY <1>4
  <2>2. Outcomes(Holder(t, c), o, <<x1, x2, x3>>) \subseteq {Lost(o, No)}
    BY <2>1, IsLost, Step3
  <2>3. Outcomes(Holder(t, c), o, <<x1, x2, x3, x4>>) \subseteq {Lost(o, No)}
    BY <2>2, IsLost, Step4
  <2> QED
    BY <2>3, IsLost, Step5
<1>6. ASSUME NEW x2, NEW x3, NEW x4, NEW x5, NEW x6, NEW x7
      PROVE  Outcomes(Holder(t, c), o, <<x1, x2, x3, x4, x5, x6, x7>>) \subseteq {Lost(o, No)}
  <2>1. Outcomes(Holder(t, c), o, <<x1, x2, x3, x4, x5>>) \subseteq {Lost(o, No)}
    BY <1>5
  <2>2. Outcomes(Holder(t, c), o, <<x1, x2, x3, x4, x5, x6>>) \subseteq {Lost(o, No)}
    BY <2>1, IsLost, Step6
  <2> QED
    BY <2>2, IsLost, Step7
<1> QED
  BY <1>3, <1>4, <1>5, <1>6 DEF x1

(* A T1 is made before the object that is copied, and nobody destroys it.  *)
LEMMA BaseCopied ==
  ASSUME NEW o, NEW t, t \notin {"undefined", "dead"}, NEW d
  PROVE  Outcomes(Holder("raw", Dead), o,
                  <<SetTag("T1"), Construct(Object("T1", Default), No, No), SetTag(t),
                    Dispatch(t), Construct(d, Yes, No), Unwind>>)
           \subseteq {Going(t, d, o, Yes), State(Undefined, o, Yes, Yes)}
<1> DEFINE x1 == SetTag("T1")
           x2 == Construct(Object("T1", Default), No, No)
           x3 == SetTag(t)
           x4 == Dispatch(t)
           x5 == Construct(d, Yes, No)
           x6 == Unwind
<1>1. After(Going("raw", Dead, o, No), x1) \subseteq {Going("T1", Dead, o, No)}
  BY TagFound
<1>2. After(Going("T1", Dead, o, No), x2) \subseteq {Going("T1", Object("T1", Default), o, No)}
  <2>1. \A s \in After(Going("T1", Dead, o, No), x2) :
          s = Going("T1", Object("T1", Default), Source(o, No), No)
    BY NoFacts, DeadIsFree, ConstructFree
  <2> QED
    BY <2>1, NoFacts DEF Source
<1>3. After(Going("T1", Object("T1", Default), o, No), x3)
        \subseteq {Going(t, Object("T1", Default), o, No)}
  BY TagFound
<1>4. After(Going(t, Object("T1", Default), o, No), x4)
        \subseteq {Going(t, Object("T1", Default), o, No)}
  BY DispatchFound
<1>5. After(Going(t, Object("T1", Default), o, No), x5)
        \subseteq {Going(t, d, o, Yes), Thrown(t, Dead, o, Yes)}
  <2>1. Owned(Object("T1", Default))
    BY HeldFacts DEF Owned
  <2> QED
    BY <2>1, NoFacts, YesFacts, ConstructOver
<1>6. After(Going(t, d, o, Yes), x6) \subseteq {Going(t, d, o, Yes)}
  BY NoCleanup
<1>7. After(Thrown(t, Dead, o, Yes), x6) \subseteq {State(Undefined, o, Yes, Yes)}
  BY UnwindLost
<1>8. Outcomes(Holder("raw", Dead), o, <<>>) \subseteq {Going("raw", Dead, o, No)}
  BY NoSteps
<1> HIDE DEF x1, x2, x3, x4, x5, x6
<1>9. Outcomes(Holder("raw", Dead), o, <<x1>>) \subseteq {Going("T1", Dead, o, No)}
  BY <1>1, <1>8, Step1
<1>10. Outcomes(Holder("raw", Dead), o, <<x1, x2>>)
         \subseteq {Going("T1", Object("T1", Default), o, No)}
  BY <1>2, <1>9, Step2
<1>11. Outcomes(Holder("raw", Dead), o, <<x1, x2, x3>>)
         \subseteq {Going(t, Object("T1", Default), o, No)}
  BY <1>3, <1>10, Step3
<1>12. Outcomes(Holder("raw", Dead), o, <<x1, x2, x3, x4>>)
         \subseteq {Going(t, Object("T1", Default), o, No)}
  BY <1>4, <1>11, Step4
<1>13. Outcomes(Holder("raw", Dead), o, <<x1, x2, x3, x4, x5>>)
         \subseteq {Going(t, d, o, Yes), Thrown(t, Dead, o, Yes)}
  BY <1>5, <1>12, Step5
<1>14. Outcomes(Holder("raw", Dead), o, <<x1, x2, x3, x4, x5, x6>>)
         \subseteq {Going(t, d, o, Yes), State(Undefined, o, Yes, Yes)}
  BY <1>6, <1>7, <1>13, Step6
<1> QED
  BY <1>14 DEF x1, x2, x3, x4, x5, x6

LEMMA BaseCopiedEmpty ==
  ASSUME NEW o, NEW y5, NEW y6
  PROVE  Outcomes(Holder("raw", Dead), o,
                  <<SetTag("T1"), Construct(Object("T1", Default), No, No), SetTag("dead"),
                    Dispatch("dead"), y5, y6>>)
           \subseteq {Lost(o, No)}
<1> DEFINE x1 == SetTag("T1")
           x2 == Construct(Object("T1", Default), No, No)
           x3 == SetTag("dead")
           x4 == Dispatch("dead")
           x5 == y5
           x6 == y6
<1>1. After(Going("raw", Dead, o, No), x1) \subseteq {Going("T1", Dead, o, No)}
  BY TagFound
<1>2. After(Going("T1", Dead, o, No), x2) \subseteq {Going("T1", Object("T1", Default), o, No)}
  <2>1. \A s \in After(Going("T1", Dead, o, No), x2) :
          s = Going("T1", Object("T1", Default), Source(o, No), No)
    BY NoFacts, DeadIsFree, ConstructFree
  <2> QED
    BY <2>1, NoFacts DEF Source
<1>3. After(Going("T1", Object("T1", Default), o, No), x3)
        \subseteq {Going("dead", Object("T1", Default), o, No)}
  BY TagFound
<1>4. After(Going("dead", Object("T1", Default), o, No), x4) \subseteq {Lost(o, No)}
  BY DispatchLost
<1>5. After(Lost(o, No), x5) \subseteq {Lost(o, No)}
  BY IsLost
<1>6. After(Lost(o, No), x6) \subseteq {Lost(o, No)}
  BY IsLost
<1>7. Outcomes(Holder("raw", Dead), o, <<>>) \subseteq {Going("raw", Dead, o, No)}
  BY NoSteps
<1> HIDE DEF x1, x2, x3, x4, x5, x6
<1>8. Outcomes(Holder("raw", Dead), o, <<x1>>) \subseteq {Going("T1", Dead, o, No)}
  BY <1>1, <1>7, Step1
<1>9. Outcomes(Holder("raw", Dead), o, <<x1, x2>>)
        \subseteq {Going("T1", Object("T1", Default), o, No)}
  BY <1>2, <1>8, Step2
<1>10. Outcomes(Holder("raw", Dead), o, <<x1, x2, x3>>)
         \subseteq {Going("dead", Object("T1", Default), o, No)}
  BY <1>3, <1>9, Step3
<1>11. Outcomes(Holder("raw", Dead), o, <<x1, x2, x3, x4>>) \subseteq {Lost(o, No)}
  BY <1>4, <1>10, Step4
<1>12. Outcomes(Holder("raw", Dead), o, <<x1, x2, x3, x4, x5>>) \subseteq {Lost(o, No)}
  BY <1>5, <1>11, Step5
<1>13. Outcomes(Holder("raw", Dead), o, <<x1, x2, x3, x4, x5, x6>>) \subseteq {Lost(o, No)}
  BY <1>6, <1>12, Step6
<1> QED
  BY <1>13 DEF x1, x2, x3, x4, x5, x6

(* A variant that is moved from. *)
LEMMA VariantMoved ==
  ASSUME NEW o, NEW t, t \notin {"undefined", "dead"}, NEW d,
         NEW throws \in BOOLEAN, NEW moves \in BOOLEAN
  PROVE  Outcomes(Holder("raw", Dead), o,
                  <<SetTag(t), Dispatch(t), Construct(d, throws, moves)>>)
           \subseteq {Going(t, d, Source(o, moves), No), Thrown(t, Dead, o, No)}
<1> DEFINE x1 == SetTag(t)
           x2 == Dispatch(t)
           x3 == Construct(d, throws, moves)
<1>1. After(Going("raw", Dead, o, No), x1) \subseteq {Going(t, Dead, o, No)}
  BY TagFound
<1>2. After(Going(t, Dead, o, No), x2) \subseteq {Going(t, Dead, o, No)}
  BY DispatchFound
<1>3. After(Going(t, Dead, o, No), x3)
        \subseteq {Going(t, d, Source(o, moves), No), Thrown(t, Dead, o, No)}
  BY NoFacts, MadeFound
<1>4. Outcomes(Holder("raw", Dead), o, <<>>) \subseteq {Going("raw", Dead, o, No)}
  BY NoSteps
<1> HIDE DEF x1, x2, x3
<1>5. Outcomes(Holder("raw", Dead), o, <<x1>>) \subseteq {Going(t, Dead, o, No)}
  BY <1>1, <1>4, Step1
<1>6. Outcomes(Holder("raw", Dead), o, <<x1, x2>>) \subseteq {Going(t, Dead, o, No)}
  BY <1>2, <1>5, Step2
<1>7. Outcomes(Holder("raw", Dead), o, <<x1, x2, x3>>)
        \subseteq {Going(t, d, Source(o, moves), No), Thrown(t, Dead, o, No)}
  BY <1>3, <1>6, Step3
<1> QED
  BY <1>7 DEF x1, x2, x3

LEMMA VariantMovedEmpty ==
  ASSUME NEW o, NEW y3
  PROVE  Outcomes(Holder("raw", Dead), o,
                  <<SetTag("dead"), Dispatch("dead"), y3>>)
           \subseteq {Lost(o, No)}
<1> DEFINE x1 == SetTag("dead")
           x2 == Dispatch("dead")
           x3 == y3
<1>1. After(Going("raw", Dead, o, No), x1) \subseteq {Going("dead", Dead, o, No)}
  BY TagFound
<1>2. After(Going("dead", Dead, o, No), x2) \subseteq {Lost(o, No)}
  BY DispatchLost
<1>3. After(Lost(o, No), x3) \subseteq {Lost(o, No)}
  BY IsLost
<1>4. Outcomes(Holder("raw", Dead), o, <<>>) \subseteq {Going("raw", Dead, o, No)}
  BY NoSteps
<1> HIDE DEF x1, x2, x3
<1>5. Outcomes(Holder("raw", Dead), o, <<x1>>) \subseteq {Going("dead", Dead, o, No)}
  BY <1>1, <1>4, Step1
<1>6. Outcomes(Holder("raw", Dead), o, <<x1, x2>>) \subseteq {Lost(o, No)}
  BY <1>2, <1>5, Step2
<1>7. Outcomes(Holder("raw", Dead), o, <<x1, x2, x3>>) \subseteq {Lost(o, No)}
  BY <1>3, <1>6, Step3
<1> QED
  BY <1>7 DEF x1, x2, x3

(* Assignment among variants with the same type in them, and others. *)
LEMMA FoundAssigned ==
  ASSUME NEW o, NEW t, t \notin {"undefined", "dead"}, NEW c, NEW d, c.type = d.type,
         NEW throws \in BOOLEAN, NEW moves \in BOOLEAN
  PROVE  Outcomes(Holder(t, c), o,
                  <<Dispatch(t), Assign(d, throws, moves)>>)
           \subseteq {Going(t, d, Source(o, moves), No), Thrown(t, c, o, No)}
<1> DEFINE x1 == Dispatch(t)
           x2 == Assign(d, throws, moves)
<1>1. After(Going(t, c, o, No), x1) \subseteq {Going(t, c, o, No)}
  BY DispatchFound
<1>2. After(Going(t, c, o, No), x2)
        \subseteq {Going(t, d, Source(o, moves), No), Thrown(t, c, o, No)}
  <2>1. \A s \in After(Going(t, c, o, No), x2) :
          s = Going(t, d, Source(o, moves), No) \/ (throws /\ s = Thrown(t, c, o, No))
    BY AssignOver
  <2> QED
    BY <2>1
<1>3. Outcomes(Holder(t, c), o, <<>>) \subseteq {Going(t, c, o, No)}
  BY NoSteps
<1> HIDE DEF x1, x2
<1>4. Outcomes(Holder(t, c), o, <<x1>>) \subseteq {Going(t, c, o, No)}
  BY <1>1, <1>3, Step1
<1>5. Outcomes(Holder(t, c), o, <<x1, x2>>)
        \subseteq {Going(t, d, Source(o, moves), No), Thrown(t, c, o, No)}
  BY <1>2, <1>4, Step2
<1> QED
  BY <1>5 DEF x1, x2

LEMMA FoundReplaced ==
  ASSUME NEW o, NEW w, w \notin {"undefined", "dead"}, NEW c, c.type = w,
         NEW t, t # "dead", NEW d, NEW throws \in BOOLEAN, NEW moves \in BOOLEAN
  PROVE  Outcomes(Holder(w, c), o,
                  <<Dispatch(w), Destroy(w), Dispatch(t), Construct(d, throws, moves), SetTag(t)>>)
           \subseteq {Going(t, d, Source(o, moves), No), Thrown(w, Dead, o, No)}
<1> DEFINE x1 == Dispatch(w)
           x2 == Destroy(w)
           x3 == Dispatch(t)
           x4 == Construct(d, throws, moves)
           x5 == SetTag(t)
<1>1. After(Going(w, c, o, No), x1) \subseteq {Going(w, c, o, No)}
  BY DispatchFound
<1>2. After(Going(w, c, o, No), x2) \subseteq {Going(w, Dead, o, No)}
  BY DestroyFound
<1>3. After(Going(w, Dead, o, No), x3) \subseteq {Going(w, Dead, o, No)}
  BY DispatchFound
<1>4. After(Going(w, Dead, o, No), x4)
        \subseteq {Going(w, d, Source(o, moves), No), Thrown(w, Dead, o, No)}
  BY NoFacts, MadeFound
<1>5. After(Going(w, d, Source(o, moves), No), x5) \subseteq {Going(t, d, Source(o, moves), No)}
  BY TagFound
<1>6. After(Thrown(w, Dead, o, No), x5) \subseteq {Thrown(w, Dead, o, No)}
  BY NothingMore
<1>7. Outcomes(Holder(w, c), o, <<>>) \subseteq {Going(w, c, o, No)}
  BY NoSteps
<1> HIDE DEF x1, x2, x3, x4, x5
<1>8. Outcomes(Holder(w, c), o, <<x1>>) \subseteq {Going(w, c, o, No)}
  BY <1>1, <1>7, Step1
<1>9. Outcomes(Holder(w, c), o, <<x1, x2>>) \subseteq {Going(w, Dead, o, No)}
  BY <1>2, <1>8, Step2
<1>10. Outcomes(Holder(w, c), o, <<x1, x2, x3>>) \subseteq {Going(w, Dead, o, No)}
  BY <1>3, <1>9, Step3
<1>11. Outcomes(Holder(w, c), o, <<x1, x2, x3, x4>>)
         \subseteq {Going(w, d, Source(o, moves), No), Thrown(w, Dead, o, No)}
  BY <1>4, <1>10, Step4
<1>12. Outcomes(Holder(w, c), o, <<x1, x2, x3, x4, x5>>)
         \subseteq {Going(t, d, Source(o, moves), No), Thrown(w, Dead, o, No)}
  BY <1>5, <1>6, <1>11, Step5
<1> QED
  BY <1>12 DEF x1, x2, x3, x4, x5

LEMMA FoundReplacedByEmpty ==
  ASSUME NEW o, NEW w, w \notin {"undefined", "dead"}, NEW c, c.type = w, NEW y4, NEW y5
  PROVE  Outcomes(Holder(w, c), o,
                  <<Dispatch(w), Destroy(w), Dispatch("dead"), y4, y5>>)
           \subseteq {Lost(o, No)}
<1> DEFINE x1 == Dispatch(w)
           x2 == Destroy(w)
           x3 == Dispatch("dead")
           x4 == y4
           x5 == y5
<1>1. After(Going(w, c, o, No), x1) \subseteq {Going(w, c, o, No)}
  BY DispatchFound
<1>2. After(Going(w, c, o, No), x2) \subseteq {Going(w, Dead, o, No)}
  BY DestroyFound
<1>3. After(Going(w, Dead, o, No), x3) \subseteq {Lost(o, No)}
  BY DispatchLost
<1>4. After(Lost(o, No), x4) \subseteq {Lost(o, No)}
  BY IsLost
<1>5. After(Lost(o, No), x5) \subseteq {Lost(o, No)}
  BY IsLost
<1>6. Outcomes(Holder(w, c), o, <<>>) \subseteq {Going(w, c, o, No)}
  BY NoSteps
<1> HIDE DEF x1, x2, x3, x4, x5
<1>7. Outcomes(Holder(w, c), o, <<x1>>) \subseteq {Going(w, c, o, No)}
  BY <1>1, <1>6, Step1
<1>8. Outcomes(Holder(w, c), o, <<x1, x2>>) \subseteq {Going(w, Dead, o, No)}
  BY <1>2, <1>7, Step2
<1>9. Outcomes(Holder(w, c), o, <<x1, x2, x3>>) \subseteq {Lost(o, No)}
  BY <1>3, <1>8, Step3
<1>10. Outcomes(Holder(w, c), o, <<x1, x2, x3, x4>>) \subseteq {Lost(o, No)}
  BY <1>4, <1>9, Step4
<1>11. Outcomes(Holder(w, c), o, <<x1, x2, x3, x4, x5>>) \subseteq {Lost(o, No)}
  BY <1>5, <1>10, Step5
<1> QED
  BY <1>11 DEF x1, x2, x3, x4, x5

(* The same behind a copy that is made elsewhere, or has thrown. *)
LEMMA CopiedFoundAssigned ==
  ASSUME NEW o, NEW t, t \notin {"undefined", "dead"}, NEW c, NEW d, c.type = d.type,
         NEW throws \in BOOLEAN, NEW moves \in BOOLEAN
  PROVE  Outcomes(Holder(t, c), o,
                  <<CopyElsewhere, Dispatch(t), Assign(d, throws, moves)>>)
           \subseteq {Going(t, d, Source(o, moves), No), Thrown(t, c, o, No)}
<1> DEFINE x1 == CopyElsewhere
           x2 == Dispatch(t)
           x3 == Assign(d, throws, moves)
<1>1. After(Going(t, c, o, No), x1) \subseteq {Going(t, c, o, No), Thrown(t, c, o, No)}
  BY CopyElsewhereStep
<1>2. After(Going(t, c, o, No), x2) \subseteq {Going(t, c, o, No)}
  BY DispatchFound
<1>3. After(Thrown(t, c, o, No), x2) \subseteq {Thrown(t, c, o, No)}
  BY NothingMore
<1>4. After(Going(t, c, o, No), x3)
        \subseteq {Going(t, d, Source(o, moves), No), Thrown(t, c, o, No)}
  <2>1. \A s \in After(Going(t, c, o, No), x3) :
          s = Going(t, d, Source(o, moves), No) \/ (throws /\ s = Thrown(t, c, o, No))
    BY AssignOver
  <2> QED
    BY <2>1
<1>5. After(Thrown(t, c, o, No), x3) \subseteq {Thrown(t, c, o, No)}
  BY NothingMade
<1>6. Outcomes(Holder(t, c), o, <<>>) \subseteq {Going(t, c, o, No)}
  BY NoSteps
<1> HIDE DEF x1, x2, x3
<1>7. Outcomes(Holder(t, c), o, <<x1>>) \subseteq {Going(t, c, o, No), Thrown(t, c, o, No)}
  BY <1>1, <1>6, Step1
<1>8. Outcomes(Holder(t, c), o, <<x1, x2>>) \subseteq {Going(t, c, o, No), Thrown(t, c, o, No)}
  BY <1>2, <1>3, <1>7, Step2
<1>9. Outcomes(Holder(t, c), o, <<x1, x2, x3>>)
        \subseteq {Going(t, d, Source(o, moves), No), Thrown(t, c, o, No)}
  BY <1>4, <1>5, <1>8, Step3
<1> QED
  BY <1>9 DEF x1, x2, x3

LEMMA CopiedFoundReplaced ==
  ASSUME NEW o, NEW w, w \notin {"undefined", "dead"}, NEW c, c.type = w,
         NEW t, t # "dead", NEW d, NEW throws \in BOOLEAN, NEW moves \in BOOLEAN
  PROVE  Outcomes(Holder(w, c), o,
                  <<CopyElsewhere, Dispatch(w), Destroy(w), Dispatch(t),
                    Construct(d, throws, moves), SetTag(t)>>)
           \subseteq {Going(t, d, Source(o, moves), No), Thrown(w, Dead, o, No),
                      Thrown(w, c, o, No)}
<1> DEFINE x1 == CopyElsewhere
           x2 == Dispatch(w)
           x3 == Destroy(w)
           x4 == Dispatch(t)
           x5 == Construct(d, throws, moves)
           x6 == SetTag(t)
<1>1. After(Going(w, c, o, No), x1) \subseteq {Going(w, c, o, No), Thrown(w, c, o, No)}
  BY CopyElsewhereStep
<1>2. After(Going(w, c, o, No), x2) \subseteq {Going(w, c, o, No)}
  BY DispatchFound
<1>3. After(Thrown(w, c, o, No), x2) \subseteq {Thrown(w, c, o, No)}
  BY NothingMore
<1>4. After(Going(w, c, o, No), x3) \subseteq {Going(w, Dead, o, No)}
  BY DestroyFound
<1>5. After(Thrown(w, c, o, No), x3) \subseteq {Thrown(w, c, o, No)}
  BY NothingMore
<1>6. After(Going(w, Dead, o, No), x4) \subseteq {Going(w, Dead, o, No)}
  BY DispatchFound
<1>7. After(Thrown(w, c, o, No), x4) \subseteq {Thrown(w, c, o, No)}
  BY NothingMore
<1>8. After(Going(w, Dead, o, No), x5)
        \subseteq {Going(w, d, Source(o, moves), No), Thrown(w, Dead, o, No)}
  BY NoFacts, MadeFound
<1>9. After(Thrown(w, c, o, No), x5) \subseteq {Thrown(w, c, o, No)}
  BY NothingMade
<1>10. After(Going(w, d, Source(o, moves), No), x6) \subseteq {Going(t, d, Source(o, moves), No)}
  BY TagFound
<1>11. After(Thrown(w, Dead, o, No), x6) \subseteq {Thrown(w, Dead, o, No)}
  BY NothingMore
<1>12. After(Thrown(w, c, o, No), x6) \subseteq {Thrown(w, c, o, No)}
  BY NothingMore
<1>13. Outcomes(Holder(w, c), o, <<>>) \subseteq {Going(w, c, o, No)}
  BY NoSteps
<1> HIDE DEF x1, x2, x3, x4, x5, x6
<1>14. Outcomes(Holder(w, c), o, <<x1>>) \subseteq {Going(w, c, o, No), Thrown(w, c, o, No)}
  BY <1>1, <1>13, Step1
<1>15. Outcomes(Holder(w, c), o, <<x1, x2>>) \subseteq {Going(w, c, o, No), Thrown(w, c, o, No)}
  BY <1>2, <1>3, <1>14, Step2
<1>16. Outcomes(Holder(w, c), o, <<x1, x2, x3>>)
         \subseteq {Going(w, Dead, o, No), Thrown(w, c, o, No)}
  BY <1>4, <1>5, <1>15, Step3
<1>17. Outcomes(Holder(w, c), o, <<x1, x2, x3, x4>>)
         \subseteq {Going(w, Dead, o, No), Thrown(w, c, o, No)}
  BY <1>6, <1>7, <1>16, Step4
<1>18. Outcomes(Holder(w, c), o, <<x1, x2, x3, x4, x5>>)
         \subseteq {Going(w, d, Source(o, moves), No), Thrown(w, Dead, o, No),
                    Thrown(w, c, o, No)}
  BY <1>8, <1>9, <1>17, Step5
<1>19. Outcomes(Holder(w, c), o, <<x1, x2, x3, x4, x5, x6>>)
         \subseteq {Going(t, d, Source(o, moves), No), Thrown(w, Dead, o, No),
                    Thrown(w, c, o, No)}
  BY <1>10, <1>11, <1>12, <1>18, Step6
<1> QED
  BY <1>19 DEF x1, x2, x3, x4, x5, x6

LEMMA CopiedIntoEmpty ==
  ASSUME NEW o, NEW w, w # "undefined", NEW c, NEW d, NEW throws \in BOOLEAN,
         NEW moves \in BOOLEAN, NEW t, NEW u
  PROVE  Outcomes(Holder(w, c), o,
                  <<CopyElsewhere, Dispatch("dead"), Destroy(u), Dispatch(t),
                    Construct(d, throws, moves), SetTag(t)>>)
           \subseteq {Lost(o, No), Thrown(w, c, o, No)}
<1> DEFINE x1 == CopyElsewhere
           x2 == Dispatch("dead")
           x3 == Destroy(u)
           x4 == Dispatch(t)
           x5 == Construct(d, throws, moves)
           x6 == SetTag(t)
<1>1. After(Going(w, c, o, No), x1) \subseteq {Going(w, c, o, No), Thrown(w, c, o, No)}
  BY CopyElsewhereStep
<1>2. After(Going(w, c, o, No), x2) \subseteq {Lost(o, No)}
  BY DispatchLost
<1>3. After(Thrown(w, c, o, No), x2) \subseteq {Thrown(w, c, o, No)}
  BY NothingMore
<1>4. After(Lost(o, No), x3) \subseteq {Lost(o, No)}
  BY IsLost
<1>5. After(Thrown(w, c, o, No), x3) \subseteq {Thrown(w, c, o, No)}
  BY NothingMore
<1>6. After(Lost(o, No), x4) \subseteq {Lost(o, No)}
  BY IsLost
<1>7. After(Thrown(w, c, o, No), x4) \subseteq {Thrown(w, c, o, No)}
  BY NothingMore
<1>8. After(Lost(o, No), x5) \subseteq {Lost(o, No)}
  BY IsLost
<1>9. After(Thrown(w, c, o, No), x5) \subseteq {Thrown(w, c, o, No)}
  BY NothingMade
<1>10. After(Lost(o, No), x6) \subseteq {Lost(o, No)}
  BY IsLost
<1>11. After(Thrown(w, c, o, No), x6) \subseteq {Thrown(w, c, o, No)}
  BY NothingMore
<1>12. Outcomes(Holder(w, c), o, <<>>) \subseteq {Going(w, c, o, No)}
  BY NoSteps
<1> HIDE DEF x1, x2, x3, x4, x5, x6
<1>13. Outcomes(Holder(w, c), o, <<x1>>) \subseteq {Going(w, c, o, No), Thrown(w, c, o, No)}
  BY <1>1, <1>12, Step1
<1>14. Outcomes(Holder(w, c), o, <<x1, x2>>) \subseteq {Lost(o, No), Thrown(w, c, o, No)}
  BY <1>2, <1>3, <1>13, Step2
<1>15. Outcomes(Holder(w, c), o, <<x1, x2, x3>>) \subseteq {Lost(o, No), Thrown(w, c, o, No)}
  BY <1>4, <1>5, <1>14, Step3
<1>16. Outcomes(Holder(w, c), o, <<x1, x2, x3, x4>>) \subseteq {Lost(o, No), Thrown(w, c, o, No)}
  BY <1>6, <1>7, <1>15, Step4
<1>17. Outcomes(Holder(w, c), o, <<x1, x2, x3, x4, x5>>)
         \subseteq {Lost(o, No), Thrown(w, c, o, No)}
  BY <1>8, <1>9, <1>16, Step5
<1>18. Outcomes(Holder(w, c), o, <<x1, x2, x3, x4, x5, x6>>)
         \subseteq {Lost(o, No), Thrown(w, c, o, No)}
  BY <1>10, <1>11, <1>17, Step6
<1> QED
  BY <1>18 DEF x1, x2, x3, x4, x5, x6

(* operator=(variant_base const &): the temporary is abandoned. *)
LEMMA AbandonedReplaced ==
  ASSUME NEW o, NEW w, w \notin {"undefined", "dead"}, NEW c, c.type = w,
         NEW t, t # "dead", NEW d, NEW throws \in BOOLEAN, NEW moves \in BOOLEAN
  PROVE  Outcomes(Holder(w, c), o,
                  <<Dispatch(t), CopyElsewhere, Abandon, Dispatch(w), Destroy(w),
                    Construct(d, throws, moves), SetTag(t)>>)
           \subseteq {Going(t, d, Source(o, moves), Yes), Thrown(w, Dead, o, Yes),
                      Thrown(w, c, o, No)}
<1> DEFINE x1 == Dispatch(t)
           x2 == CopyElsewhere
           x3 == Abandon
           x4 == Dispatch(w)
           x5 == Destroy(w)
           x6 == Construct(d, throws, moves)
           x7 == SetTag(t)
<1>1. After(Going(w, c, o, No), x1) \subseteq {Going(w, c, o, No)}
  BY DispatchFound
<1>2. After(Going(w, c, o, No), x2) \subseteq {Going(w, c, o, No), Thrown(w, c, o, No)}
  BY CopyElsewhereStep
<1>3. After(Going(w, c, o, No), x3) \subseteq {Going(w, c, o, Yes)}
  BY AbandonStep
<1>4. After(Thrown(w, c, o, No), x3) \subseteq {Thrown(w, c, o, No)}
  BY NothingMore
<1>5. After(Going(w, c, o, Yes), x4) \subseteq {Going(w, c, o, Yes)}
  BY DispatchFound
<1>6. After(Thrown(w, c, o, No), x4) \subseteq {Thrown(w, c, o, No)}
  BY NothingMore
<1>7. After(Going(w, c, o, Yes), x5) \subseteq {Going(w, Dead, o, Yes)}
  BY DestroyFound
<1>8. After(Thrown(w, c, o, No), x5) \subseteq {Thrown(w, c, o, No)}
  BY NothingMore
<1>9. After(Going(w, Dead, o, Yes), x6)
        \subseteq {Going(w, d, Source(o, moves), Yes), Thrown(w, Dead, o, Yes)}
  BY YesFacts, MadeFound
<1>10. After(Thrown(w, c, o, No), x6) \subseteq {Thrown(w, c, o, No)}
  BY NothingMade
<1>11. After(Going(w, d, Source(o, moves), Yes), x7) \subseteq {Going(t, d, Source(o, moves), Yes)}
  BY TagFound
<1>12. After(Thrown(w, Dead, o, Yes), x7) \subseteq {Thrown(w, Dead, o, Yes)}
  BY NothingMore
<1>13. After(Thrown(w, c, o, No), x7) \subseteq {Thrown(w, c, o, No)}
  BY NothingMore
<1>14. Outcomes(Holder(w, c), o, <<>>) \subseteq {Going(w, c, o, No)}
  BY NoSteps
<1> HIDE DEF x1, x2, x3, x4, x5, x6, x7
<1>15. Outcomes(Holder(w, c), o, <<x1>>) \subseteq {Going(w, c, o, No)}
  BY <1>1, <1>14, Step1
<1>16. Outcomes(Holder(w, c), o, <<x1, x2>>) \subseteq {Going(w, c, o, No), Thrown(w, c, o, No)}
  BY <1>2, <1>15, Step2
<1>17. Outcomes(Holder(w, c), o, <<x1, x2, x3>>)
         \subseteq {Going(w, c, o, Yes), Thrown(w, c, o, No)}
  BY <1>3, <1>4, <1>16, Step3
<1>18. Outcomes(Holder(w, c), o, <<x1, x2, x3, x4>>)
         \subseteq {Going(w, c, o, Yes), Thrown(w, c, o, No)}
  BY <1>5, <1>6, <1>17, Step4
<1>19. Outcomes(Holder(w, c), o, <<x1, x2, x3, x4, x5>>)
         \subseteq {Going(w, Dead, o, Yes), Thrown(w, c, o, No)}
  BY <1>7, <1>8, <1>18, Step5
<1>20. Outcomes(Holder(w, c), o, <<x1, x2, x3, x4, x5, x6>>)
         \subseteq {Going(w, d, Source(o, moves), Yes), Thrown(w, Dead, o, Yes),
                    Thrown(w, c, o, No)}
  BY <1>9, <1>10, <1>19, Step6
<1>21. Outcomes(Holder(w, c), o, <<x1, x2, x3, x4, x5, x6, x7>>)
         \subseteq {Going(t, d, Source(o, moves), Yes), Thrown(w, Dead, o, Yes),
                    Thrown(w, c, o, No)}
  BY <1>11, <1>12, <1>13, <1>20, Step7
<1> QED
  BY <1>21 DEF x1, x2, x3, x4, x5, x6, x7

LEMMA AbandonedIntoEmpty ==
  ASSUME NEW o, NEW w, w # "undefined", NEW c, NEW t, t # "dead", NEW d,
         NEW throws \in BOOLEAN, NEW moves \in BOOLEAN, NEW u
  PROVE  Outcomes(Holder(w, c), o,
                  <<Dispatch(t), CopyElsewhere, Abandon, Dispatch("dead"), Destroy(u),
                    Construct(d, throws, moves), SetTag(t)>>)
           \subseteq {Lost(o, Yes), Thrown(w, c, o, No)}
<1> DEFINE x1 == Dispatch(t)
           x2 == CopyElsewhere
           x3 == Abandon
           x4 == Dispatch("dead")
           x5 == Destroy(u)
           x6 == Construct(d, throws, moves)
           x7 == SetTag(t)
<1>1. After(Going(w, c, o, No), x1) \subseteq {Going(w, c, o, No)}
  BY DispatchFound
<1>2. After(Going(w, c, o, No), x2) \subseteq {Going(w, c, o, No), Thrown(w, c, o, No)}
  BY CopyElsewhereStep
<1>3. After(Going(w, c, o, No), x3) \subseteq {Going(w, c, o, Yes)}
  BY AbandonStep
<1>4. After(Thrown(w, c, o, No), x3) \subseteq {Thrown(w, c, o, No)}
  BY NothingMore
<1>5. After(Going(w, c, o, Yes), x4) \subseteq {Lost(o, Yes)}
  BY DispatchLost
<1>6. After(Thrown(w, c, o, No), x4) \subseteq {Thrown(w, c, o, No)}
  BY NothingMore
<1>7. After(Lost(o, Yes), x5) \subseteq {Lost(o, Yes)}
  BY IsLost
<1>8. After(Thrown(w, c, o, No), x5) \subseteq {Thrown(w, c, o, No)}
  BY NothingMore
<1>9. After(Lost(o, Yes), x6) \subseteq {Lost(o, Yes)}
  BY IsLost
<1>10. After(Thrown(w, c, o, No), x6) \subseteq {Thrown(w, c, o, No)}
  BY NothingMade
<1>11. After(Lost(o, Yes), x7) \subseteq {Lost(o, Yes)}
  BY IsLost
<1>12. After(Thrown(w, c, o, No), x7) \subseteq {Thrown(w, c, o, No)}
  BY NothingMore
<1>13. Outcomes(Holder(w, c), o, <<>>) \subseteq {Going(w, c, o, No)}
  BY NoSteps
<1> HIDE DEF x1, x2, x3, x4, x5, x6, x7
<1>14. Outcomes(Holder(w, c), o, <<x1>>) \subseteq {Going(w, c, o, No)}
  BY <1>1, <1>13, Step1
<1>15. Outcomes(Holder(w, c), o, <<x1, x2>>) \subseteq {Going(w, c, o, No), Thrown(w, c, o, No)}
  BY <1>2, <1>14, Step2
<1>16. Outcomes(Holder(w, c), o, <<x1, x2, x3>>)
         \subseteq {Going(w, c, o, Yes), Thrown(w, c, o, No)}
  BY <1>3, <1>4, <1>15, Step3
<1>17. Outcomes(Holder(w, c), o, <<x1, x2, x3, x4>>) \subseteq {Lost(o, Yes), Thrown(w, c, o, No)}
  BY <1>5, <1>6, <1>16, Step4
<1>18. Outcomes(Holder(w, c), o, <<x1, x2, x3, x4, x5>>)
         \subseteq {Lost(o, Yes), Thrown(w, c, o, No)}
  BY <1>7, <1>8, <1>17, Step5
<1>19. Outcomes(Holder(w, c), o, <<x1, x2, x3, x4, x5, x6>>)
         \subseteq {Lost(o, Yes), Thrown(w, c, o, No)}
  BY <1>9, <1>10, <1>18, Step6
<1>20. Outcomes(Holder(w, c), o, <<x1, x2, x3, x4, x5, x6, x7>>)
         \subseteq {Lost(o, Yes), Thrown(w, c, o, No)}
  BY <1>11, <1>12, <1>19, Step7
<1> QED
  BY <1>20 DEF x1, x2, x3, x4, x5, x6, x7

(* operator=(U &&): what fails leaves a valueless variant. *)
LEMMA FoundSet ==
  ASSUME NEW o, NEW w, w \notin {"undefined", "dead"}, NEW c, c.type = w,
         NEW t, NEW d, NEW throws \in BOOLEAN, NEW moves \in BOOLEAN
  PROVE  Outcomes(Holder(w, c), o,
                  <<Dispatch(w), Destroy(w), Construct(d, throws, moves), OnThrow("dead"),
                    SetTag(t)>>)
           \subseteq {Going(t, d, Source(o, moves), No), Thrown("dead", Dead, o, No)}
<1> DEFINE x1 == Dispatch(w)
           x2 == Destroy(w)
           x3 == Construct(d, throws, moves)
           x4 == OnThrow("dead")
           x5 == SetTag(t)
<1>1. After(Going(w, c, o, No), x1) \subseteq {Going(w, c, o, No)}
  BY DispatchFound
<1>2. After(Going(w, c, o, No), x2) \subseteq {Going(w, Dead, o, No)}
  BY DestroyFound
<1>3. After(Going(w, Dead, o, No), x3)
        \subseteq {Going(w, d, Source(o, moves), No), Thrown(w, Dead, o, No)}
  BY NoFacts, MadeFound
<1>4. After(Going(w, d, Source(o, moves), No), x4) \subseteq {Going(w, d, Source(o, moves), No)}
  BY NoCleanup
<1>5. After(Thrown(w, Dead, o, No), x4) \subseteq {Thrown("dead", Dead, o, No)}
  BY OnThrowStep
<1>6. After(Going(w, d, Source(o, moves), No), x5) \subseteq {Going(t, d, Source(o, moves), No)}
  BY TagFound
<1>7. After(Thrown("dead", Dead, o, No), x5) \subseteq {Thrown("dead", Dead, o, No)}
  BY NothingMore
<1>8. Outcomes(Holder(w, c), o, <<>>) \subseteq {Going(w, c, o, No)}
  BY NoSteps
<1> HIDE DEF x1, x2, x3, x4, x5
<1>9. Outcomes(Holder(w, c), o, <<x1>>) \subseteq {Going(w, c, o, No)}
  BY <1>1, <1>8, Step1
<1>10. Outcomes(Holder(w, c), o, <<x1, x2>>) \subseteq {Going(w, Dead, o, No)}
  BY <1>2, <1>9, Step2
<1>11. Outcomes(Holder(w, c), o, <<x1, x2, x3>>)
         \subseteq {Going(w, d, Source(o, moves), No), Thrown(w, Dead, o, No)}
  BY <1>3, <1>10, Step3
<1>12. Outcomes(Holder(w, c), o, <<x1, x2, x3, x4>>)
         \subseteq {Going(w, d, Source(o, moves), No), Thrown("dead", Dead, o, No)}
  BY <1>4, <1>5, <1>11, Step4
<1>13. Outcomes(Holder(w, c), o, <<x1, x2, x3, x4, x5>>)
         \subseteq {Going(t, d, Source(o, moves), No), Thrown("dead", Dead, o, No)}
  BY <1>6, <1>7, <1>12, Step5
<1> QED
  BY <1>13 DEF x1, x2, x3, x4, x5

(* A valueless variant is visited: nothing else happens. *)
LEMMA ThrownAtOnce ==
  ASSUME NEW o, NEW w, w # "undefined", NEW c
  PROVE  Outcomes(Holder(w, c), o,
                  <<Throw>>)
           \subseteq {Thrown(w, c, o, No)}
<1> DEFINE x1 == Throw
<1>1. After(Going(w, c, o, No), x1) \subseteq {Thrown(w, c, o, No)}
  BY ThrowStep
<1>2. Outcomes(Holder(w, c), o, <<>>) \subseteq {Going(w, c, o, No)}
  BY NoSteps
<1> HIDE DEF x1
<1>3. Outcomes(Holder(w, c), o, <<x1>>) \subseteq {Thrown(w, c, o, No)}
  BY <1>1, <1>2, Step1
<1> QED
  BY <1>3 DEF x1

LEMMA ThrownThenAssigned ==
  ASSUME NEW o, NEW w, w # "undefined", NEW c, NEW u, NEW d, NEW throws \in BOOLEAN,
         NEW moves \in BOOLEAN
  PROVE  Outcomes(Holder(w, c), o,
                  <<Throw, CopyElsewhere, Dispatch(u), Assign(d, throws, moves)>>)
           \subseteq {Thrown(w, c, o, No)}
<1> DEFINE x1 == Throw
           x2 == CopyElsewhere
           x3 == Dispatch(u)
           x4 == Assign(d, throws, moves)
<1>1. After(Going(w, c, o, No), x1) \subseteq {Thrown(w, c, o, No)}
  BY ThrowStep
<1>2. After(Thrown(w, c, o, No), x2) \subseteq {Thrown(w, c, o, No)}
  BY NothingMore
<1>3. After(Thrown(w, c, o, No), x3) \subseteq {Thrown(w, c, o, No)}
  BY NothingMore
<1>4. After(Thrown(w, c, o, No), x4) \subseteq {Thrown(w, c, o, No)}
  BY NothingMade
<1>5. Outcomes(Holder(w, c), o, <<>>) \subseteq {Going(w, c, o, No)}
  BY NoSteps
<1> HIDE DEF x1, x2, x3, x4
<1>6. Outcomes(Holder(w, c), o, <<x1>>) \subseteq {Thrown(w, c, o, No)}
  BY <1>1, <1>5, Step1
<1>7. Outcomes(Holder(w, c), o, <<x1, x2>>) \subseteq {Thrown(w, c, o, No)}
  BY <1>2, <1>6, Step2
<1>8. Outcomes(Holder(w, c), o, <<x1, x2, x3>>) \subseteq {Thrown(w, c, o, No)}
  BY <1>3, <1>7, Step3
<1>9. Outcomes(Holder(w, c), o, <<x1, x2, x3, x4>>) \subseteq {Thrown(w, c, o, No)}
  BY <1>4, <1>8, Step4
<1> QED
  BY <1>9 DEF x1, x2, x3, x4

LEMMA ThrownThenReplaced ==
  ASSUME NEW o, NEW w, w # "undefined", NEW c, NEW u, NEW t, NEW d,
         NEW throws \in BOOLEAN, NEW moves \in BOOLEAN
  PROVE  Outcomes(Holder(w, c), o,
                  <<Throw, CopyElsewhere, Dispatch(u), Destroy(u), Dispatch(t),
                    Construct(d, throws, moves), SetTag(t)>>)
           \subseteq {Thrown(w, c, o, No)}
<1> DEFINE x1 == Throw
           x2 == CopyElsewhere
           x3 == Dispatch(u)
           x4 == Destroy(u)
           x5 == Dispatch(t)
           x6 == Construct(d, throws, moves)
           x7 == SetTag(t)
<1>1. After(Going(w, c, o, No), x1) \subseteq {Thrown(w, c, o, No)}
  BY ThrowStep
<1>2. After(Thrown(w, c, o, No), x2) \subseteq {Thrown(w, c, o, No)}
  BY NothingMore
<1>3. After(Thrown(w, c, o, No), x3) \subseteq {Thrown(w, c, o, No)}
  BY NothingMore
<1>4. After(Thrown(w, c, o, No), x4) \subseteq {Thrown(w, c, o, No)}
  BY NothingMore
<1>5. After(Thrown(w, c, o, No), x5) \subseteq {Thrown(w, c, o, No)}
  BY NothingMore
<1>6. After(Thrown(w, c, o, No), x6) \subseteq {Thrown(w, c, o, No)}
  BY NothingMade
<1>7. After(Thrown(w, c, o, No), x7) \subseteq {Thrown(w, c, o, No)}
  BY NothingMore
<1>8. Outcomes(Holder(w, c), o, <<>>) \subseteq {Going(w, c, o, No)}
  BY NoSteps
<1> HIDE DEF x1, x2, x3, x4, x5, x6, x7
<1>9. Outcomes(Holder(w, c), o, <<x1>>) \subseteq {Thrown(w, c, o, No)}
  BY <1>1, <1>8, Step1
<1>10. Outcomes(Holder(w, c), o, <<x1, x2>>) \subseteq {Thrown(w, c, o, No)}
  BY <1>2, <1>9, Step2
<1>11. Outcomes(Holder(w, c), o, <<x1, x2, x3>>) \subseteq {Thrown(w, c, o, No)}
  BY <1>3, <1>10, Step3
<1>12. Outcomes(Holder(w, c), o, <<x1, x2, x3, x4>>) \subseteq {Thrown(w, c, o, No)}
  BY <1>4, <1>11, Step4
<1>13. Outcomes(Holder(w, c), o, <<x1, x2, x3, x4, x5>>) \subseteq {Thrown(w, c, o, No)}
  BY <1>5, <1>12, Step5
<1>14. Outcomes(Holder(w, c), o, <<x1, x2, x3, x4, x5, x6>>) \subseteq {Thrown(w, c, o, No)}
  BY <1>6, <1>13, Step6
<1>15. Outcomes(Holder(w, c), o, <<x1, x2, x3, x4, x5, x6, x7>>) \subseteq {Thrown(w, c, o, No)}
  BY <1>7, <1>14, Step7
<1> QED
  BY <1>15 DEF x1, x2, x3, x4, x5, x6, x7

-----------------------------------------------------------------------------
(* Si::variant: its operations.                                            *)

LEMMA VariantProper ==
  ASSUME NEW b, Proper("variant", b), b # Gone
  PROVE  b = Empty \/ \E t \in {"T1", "T2"} : \E v : b = Held(t, v)
BY DEF Proper, Types

LEMMA VariantTypes ==
  Types("variant") = {"T1", "T2"} /\ Proper("variant", Empty) /\ Proper("variant", Gone)
BY DEF Types, Proper

LEMMA VariantCreateSteps ==
  /\ \A t, v : V!FromCopy(Object(t, v)) = <<SetTag(t), Construct(Object(t, v), Yes, No)>>
  /\ \A h : V!CopyFrom(h) =
       <<SetTag("T1"), Construct(Object("T1", Default), No, No), SetTag(h.tag),
         Dispatch(h.tag), Construct(h.cell, Yes, No), Unwind>>
  /\ \A h : V!MoveFrom(h) =
       <<SetTag(h.tag), Dispatch(h.tag), Construct(h.cell, MovesThrow, Yes)>>
<1>1. \A u : V!SetTag(u) = SetTag(u)
  BY DEF V!SetTag, SetTag
<1>2. \A u : V!Dispatch(u) = Dispatch(u)
  BY DEF V!Dispatch, Dispatch
<1>3. V!Unwind = Unwind
  BY DEF V!Unwind, Unwind
<1>4. \A d : V!CopyConstruct(d) = Construct(d, Yes, No)
  BY DEF V!CopyConstruct, V!Construct, Construct, Yes, No
<1>5. V!Construct(V!Object("T1", V!Default), FALSE, FALSE) =
        Construct(Object("T1", Default), No, No)
  BY DEF V!Construct, Construct, V!Object, Object, V!Default, Default, No
<1>6. \A d : V!Move(d) = Construct(d, MovesThrow, Yes)
  BY DEF V!Move, V!Construct, Construct, Yes
<1>7. ASSUME NEW t, NEW v
      PROVE  V!FromCopy(Object(t, v)) = <<SetTag(t), Construct(Object(t, v), Yes, No)>>
  BY <1>1, <1>4, HeldFacts DEF V!FromCopy
<1>8. \A h : V!CopyFrom(h) =
        <<SetTag("T1"), Construct(Object("T1", Default), No, No), SetTag(h.tag),
          Dispatch(h.tag), Construct(h.cell, Yes, No), Unwind>>
  BY <1>1, <1>2, <1>3, <1>4, <1>5 DEF V!CopyFrom
<1>9. \A h : V!MoveFrom(h) =
        <<SetTag(h.tag), Dispatch(h.tag), Construct(h.cell, MovesThrow, Yes)>>
  BY <1>1, <1>2, <1>6 DEF V!MoveFrom
<1> QED
  BY <1>7, <1>8, <1>9

LEMMA FineLost ==
  ASSUME NEW k, NEW op, NEW a, NEW b, NEW o, Proper(k, o),
         MayLie(k, Done(op, a, b, Lost(o, No)))
  PROVE  Fine(k, op, a, b, Lost(o, No))
BY EmptyFacts, FineLie DEF Lost

(* Copies of variants may leak an object in addition. *)
LEMMA FineLeaking ==
  ASSUME NEW op, NEW a, NEW b, NEW h, NEW o, NEW w, Fine("variant", op, a, b, State(h, o, w, No)),
         op = "create_copy" \/ (op = "assign_copy" /\ a.tag # b.tag)
  PROVE  Fine("variant", op, a, b, State(h, o, w, Yes))
<1> DEFINE s == State(h, o, w, No)
           r == State(h, o, w, Yes)
<1>1. s.this = h /\ s.other = o /\ s.threw = w /\ r.this = h /\ r.other = o /\ r.threw = w
  BY Fields
<1> DEFINE d == Done(op, a, b, s)
           e == Done(op, a, b, r)
<1>2. d.op = op /\ d.on = a.tag /\ d.from = b.tag /\ e.op = op /\ e.on = a.tag /\ e.from = b.tag
  BY DoneFacts
<1>3. d.threw = s.threw /\ e.threw = r.threw
  BY DoneFacts
<1> HIDE DEF s, r, d, e
<1>4. s.threw = r.threw /\ d.threw = e.threw
  BY <1>1, <1>3
<1>5. MayLie("variant", d) => MayLie("variant", e)
  BY <1>2, <1>4 DEF MayLie
<1>6. MayLeak("variant", e)
  BY <1>2 DEF MayLeak
<1>7. Fine("variant", op, a, b, s) => Fine("variant", op, a, b, r)
  BY <1>1, <1>4, <1>5, <1>6 DEF Fine, d, e
<1> QED
  BY <1>7 DEF s, r

LEMMA VariantCreateValue ==
  ASSUME NEW b, Proper("variant", b), NEW t \in {"T1", "T2"}, NEW v
  PROVE  \A s \in Constructed(b, V!FromCopy(Object(t, v))) :
           Fine("variant", "create_value", Gone, b, s)
<1>1. Fine("variant", "create_value", Gone, b, Going(t, Object(t, v), b, No))
  BY FineValue, VariantTypes DEF Transferring
<1>2. Source(b, No) = b
  BY NoFacts DEF Source
<1>3. V!FromCopy(Object(t, v)) = <<SetTag(t), Construct(Object(t, v), Yes, No)>>
  BY VariantCreateSteps
<1> QED
  BY <1>1, <1>2, <1>3, YesFacts, NoFacts, CreatedFine

LEMMA VariantCreateCopy ==
  ASSUME NEW b, Proper("variant", b), b # Gone
  PROVE  \A s \in Constructed(b, V!CopyFrom(b)) : Fine("variant", "create_copy", Gone, b, s)
<1>1. CASE b = Empty
  <2> DEFINE steps == V!CopyFrom(b)
             done == Done("create_copy", Gone, b, Lost(b, No))
  <2>1. Outcomes(Holder("raw", Dead), b, steps) \subseteq {Lost(b, No)}
    BY <1>1, EmptyFacts, VariantCreateSteps, BaseCopiedEmpty
  <2>2. Finished(Lost(b, No)) = Lost(b, No)
    BY FinishedFacts
  <2>3. done.op = "create_copy" /\ done.from = "dead"
    BY <1>1, DoneFacts, EmptyFacts
  <2> HIDE DEF steps, done
  <2>4. MayLie("variant", done)
    BY <2>3 DEF MayLie
  <2>5. Fine("variant", "create_copy", Gone, b, Lost(b, No))
    BY <2>4, FineLost DEF done
  <2>6. \A s \in Constructed(b, steps) : s = Lost(b, No)
    BY <2>1, <2>2, ConstructedFinished
  <2> QED
    BY <2>5, <2>6 DEF steps
<1>2. ASSUME NEW t \in {"T1", "T2"}, NEW v, b = Held(t, v)
      PROVE  \A s \in Constructed(b, V!CopyFrom(b)) : Fine("variant", "create_copy", Gone, b, s)
  <2> DEFINE steps == V!CopyFrom(b)
             end == Going(t, Object(t, v), b, Yes)
             lie == State(Undefined, b, Yes, Yes)
             done == Done("create_copy", Gone, b, State(Undefined, b, Yes, No))
  <2>1. Outcomes(Holder("raw", Dead), b, steps) \subseteq {end, lie}
    BY <1>2, HeldFacts, VariantCreateSteps, BaseCopied
  <2>2. Finished(end) = end /\ Finished(lie) = lie
    BY FinishedFacts
  <2>3. Fine("variant", "create_copy", Gone, b, end)
    <3>1. Source(b, No) = b
      BY NoFacts DEF Source
    <3>2. Fine("variant", "create_copy", Gone, b, Going(t, Object(t, v), b, No))
      BY <1>2, <3>1, NoFacts, FineTransfer, VariantTypes DEF Copying
    <3> QED
      BY <3>2, FineLeaking DEF Going
  <2>4. Fine("variant", "create_copy", Gone, b, lie)
    <3>1. done.op = "create_copy"
      BY DoneFacts
    <3>2. done.threw
      BY DoneThrew
    <3> HIDE DEF done
    <3>3. MayLie("variant", done)
      BY <3>1, <3>2 DEF MayLie
    <3>4. Fine("variant", "create_copy", Gone, b, State(Undefined, b, Yes, No))
      BY <3>3, EmptyFacts, FineLie DEF done
    <3> QED
      BY <3>4, FineLeaking
  <2> HIDE DEF steps, end, lie
  <2>5. \A s \in Constructed(b, steps) : s = end \/ s = lie
    BY <2>1, <2>2, ConstructedFinished
  <2> QED
    BY <2>3, <2>4, <2>5 DEF steps
<1> QED
  BY <1>1, <1>2, VariantProper

LEMMA VariantCreateMoved ==
  ASSUME NEW b, Proper("variant", b), b # Gone
  PROVE  \A s \in Constructed(b, V!MoveFrom(b)) : Fine("variant", "create_moved", Gone, b, s)
<1>1. CASE b = Empty
  <2> DEFINE steps == V!MoveFrom(b)
             done == Done("create_moved", Gone, b, Lost(b, No))
  <2>1. Outcomes(Holder("raw", Dead), b, steps) \subseteq {Lost(b, No)}
    BY <1>1, EmptyFacts, VariantCreateSteps, VariantMovedEmpty
  <2>2. Finished(Lost(b, No)) = Lost(b, No)
    BY FinishedFacts
  <2>3. done.op = "create_moved" /\ done.from = "dead"
    BY <1>1, DoneFacts, EmptyFacts
  <2> HIDE DEF steps, done
  <2>4. MayLie("variant", done)
    BY <2>3 DEF MayLie
  <2>5. Fine("variant", "create_moved", Gone, b, Lost(b, No))
    BY <2>4, FineLost DEF done
  <2>6. \A s \in Constructed(b, steps) : s = Lost(b, No)
    BY <2>1, <2>2, ConstructedFinished
  <2> QED
    BY <2>5, <2>6 DEF steps
<1>2. ASSUME NEW t \in {"T1", "T2"}, NEW v, b = Held(t, v)
      PROVE  \A s \in Constructed(b, V!MoveFrom(b)) : Fine("variant", "create_moved", Gone, b, s)
  <2> DEFINE steps == V!MoveFrom(b)
             end == Going(t, Object(t, v), Source(b, Yes), No)
  <2>1. Outcomes(Holder("raw", Dead), b, steps) \subseteq {end, Thrown(t, Dead, b, No)}
    <3>1. b.tag = t /\ b.cell = Object(t, v)
      BY <1>2, HeldFacts
    <3>2. steps = <<SetTag(t), Dispatch(t), Construct(Object(t, v), MovesThrow, Yes)>>
      BY <3>1, VariantCreateSteps
    <3> HIDE DEF steps
    <3>3. t \notin {"undefined", "dead"}
      OBVIOUS
    <3> QED
      BY <3>2, <3>3, YesFacts, MovesThrowAssumption, VariantMoved
  <2>2. Finished(end) = end /\ Finished(Thrown(t, Dead, b, No)) = State(Gone, b, Yes, No)
    BY FinishedFacts
  <2>3. Fine("variant", "create_moved", Gone, b, end)
    BY <1>2, YesFacts, FineTransfer, VariantTypes DEF Moving
  <2>4. Fine("variant", "create_moved", Gone, b, State(Gone, b, Yes, No))
    BY FineUnchanged, VariantTypes
  <2> HIDE DEF steps, end
  <2>5. \A s \in Constructed(b, steps) : s = end \/ s = State(Gone, b, Yes, No)
    BY <2>1, <2>2, ConstructedFinished
  <2> QED
    BY <2>3, <2>4, <2>5 DEF steps
<1> QED
  BY <1>1, <1>2, VariantProper

(* Si::variant: its assignments. *)

LEMMA LongJoined ==
  /\ \A v1, v2, v3, v4, v5, v6 :
       <<v1>> \o <<v2, v3, v4, v5, v6>> = <<v1, v2, v3, v4, v5, v6>>
  /\ \A v1, v2, v3, v4, v5, v6, v7 :
       <<v1, v2>> \o <<v3, v4, v5, v6, v7>> = <<v1, v2, v3, v4, v5, v6, v7>>
<1>1. ASSUME NEW v1, NEW v2, NEW v3, NEW v4, NEW v5, NEW v6
      PROVE  <<v1>> \o <<v2, v3, v4, v5, v6>> = <<v1, v2, v3, v4, v5, v6>>
  <2> DEFINE S == {v1, v2, v3, v4, v5, v6}
             a == <<v1>>
             b == <<v2, v3, v4, v5, v6>>
             c == <<v1, v2, v3, v4, v5, v6>>
  <2>1. /\ a \in Seq(S) /\ b \in Seq(S) /\ c \in Seq(S)
        /\ Len(a) = 1 /\ Len(b) = 5 /\ Len(c) = 6
    OBVIOUS
  <2>2. c[1] = a[1]
    OBVIOUS
  <2>3. /\ c[1 + 1] = b[1] /\ c[1 + 2] = b[2] /\ c[1 + 3] = b[3]
        /\ c[1 + 4] = b[4] /\ c[1 + 5] = b[5]
    OBVIOUS
  <2> HIDE DEF a, b, c, S
  <2>4. \A i \in 1..Len(a) : c[i] = a[i]
    BY <2>1, <2>2
  <2>5. \A i \in 1..Len(b) : c[Len(a) + i] = b[i]
    BY <2>1, <2>3
  <2>6. Len(c) = Len(a) + Len(b)
    BY <2>1
  <2>7. a \o b = c
    BY ONLY <2>1, <2>4, <2>5, <2>6, Joining, Zenon
  <2> QED
    BY <2>7 DEF a, b, c
<1>2. ASSUME NEW v1, NEW v2, NEW v3, NEW v4, NEW v5, NEW v6, NEW v7
      PROVE  <<v1, v2>> \o <<v3, v4, v5, v6, v7>> = <<v1, v2, v3, v4, v5, v6, v7>>
  <2> DEFINE S == {v1, v2, v3, v4, v5, v6, v7}
             a == <<v1, v2>>
             b == <<v3, v4, v5, v6, v7>>
             c == <<v1, v2, v3, v4, v5, v6, v7>>
  <2>1. /\ a \in Seq(S) /\ b \in Seq(S) /\ c \in Seq(S)
        /\ Len(a) = 2 /\ Len(b) = 5 /\ Len(c) = 7
    OBVIOUS
  <2>2. c[1] = a[1] /\ c[2] = a[2]
    OBVIOUS
  <2>3. /\ c[2 + 1] = b[1] /\ c[2 + 2] = b[2] /\ c[2 + 3] = b[3]
        /\ c[2 + 4] = b[4] /\ c[2 + 5] = b[5]
    OBVIOUS
  <2> HIDE DEF a, b, c, S
  <2>4. \A i \in 1..Len(a) : c[i] = a[i]
    BY <2>1, <2>2
  <2>5. \A i \in 1..Len(b) : c[Len(a) + i] = b[i]
    BY <2>1, <2>3
  <2>6. Len(c) = Len(a) + Len(b)
    BY <2>1
  <2>7. a \o b = c
    BY ONLY <2>1, <2>4, <2>5, <2>6, Joining, Zenon
  <2> QED
    BY <2>7 DEF a, b, c
<1> QED
  BY <1>1, <1>2

LEMMA NothingBefore == \A x : <<>> \o <<x>> = <<x>>
<1>1. ASSUME NEW x
      PROVE  <<>> \o <<x>> = <<x>>
  <2> DEFINE S == {x}
             a == <<>>
             b == <<x>>
  <2>1. a \in Seq(S) /\ b \in Seq(S) /\ Len(a) = 0 /\ Len(b) = 1
    OBVIOUS
  <2> HIDE DEF a, b, S
  <2>2. \A i \in 1..Len(a) : b[i] = a[i]
    BY <2>1
  <2>3. \A i \in 1..Len(b) : b[Len(a) + i] = b[i]
    BY <2>1
  <2>4. Len(b) = Len(a) + Len(b)
    BY <2>1
  <2>5. a \o b = b
    BY ONLY <2>1, <2>2, <2>3, <2>4, Joining, Zenon
  <2> QED
    BY <2>5 DEF a, b
<1> QED
  BY <1>1

(* The steps of a transfer, and of one from a copy. *)
Taken(a, b, moves) ==
  IF a.tag = b.tag
    THEN <<Dispatch(a.tag), Assign(b.cell, No, moves)>>
    ELSE <<Dispatch(a.tag), Destroy(a.tag), Dispatch(b.tag),
           Construct(b.cell, MovesThrow, moves), SetTag(b.tag)>>

LEMMA VariantTakeSteps ==
  /\ \A a, b : V!AssignMove(a, b) = Taken(a, b, Yes)
  /\ \A a, b : V!AssignFrom(a, b) =
       (IF b.tag = "dead" THEN <<Throw, CopyElsewhere>> ELSE <<CopyElsewhere>>) \o Taken(a, b, No)
  /\ \A a : V!Visit(a) = IF a.tag = "dead" THEN <<Throw>> ELSE <<>>
<1>1. \A u : V!SetTag(u) = SetTag(u)
  BY DEF V!SetTag, SetTag
<1>2. \A u : V!Dispatch(u) = Dispatch(u)
  BY DEF V!Dispatch, Dispatch
<1>3. \A u : V!Destroy(u) = Destroy(u)
  BY DEF V!Destroy, Destroy
<1>4. V!Throw = Throw /\ V!CopyElsewhere = CopyElsewhere
  BY DEF V!Throw, Throw, V!CopyElsewhere, CopyElsewhere
<1>5. \A d, m : V!Assign(d, FALSE, m) = Assign(d, No, m)
  BY DEF V!Assign, Assign, No
<1>6. \A d, m : V!Construct(d, MovesThrow, m) = Construct(d, MovesThrow, m)
  BY DEF V!Construct, Construct
<1>7. \A a, b, m : V!TakeFrom(a, b, m) = Taken(a, b, m)
  BY <1>1, <1>2, <1>3, <1>5, <1>6 DEF V!TakeFrom, Taken
<1>8. \A a, b : V!AssignMove(a, b) = Taken(a, b, Yes)
  BY <1>7 DEF V!AssignMove, Yes
<1>9. \A a : V!Visit(a) = IF a.tag = "dead" THEN <<Throw>> ELSE <<>>
  BY <1>4 DEF V!Visit
<1>10. ASSUME NEW a, NEW b
       PROVE  V!AssignFrom(a, b) =
                (IF b.tag = "dead" THEN <<Throw, CopyElsewhere>> ELSE <<CopyElsewhere>>)
                  \o Taken(a, b, No)
  <2>1. V!TakeFrom(a, b, FALSE) = Taken(a, b, No)
    BY <1>7 DEF No
  <2>2. V!AssignFrom(a, b) = V!Visit(b) \o <<CopyElsewhere>> \o Taken(a, b, No)
    BY <1>4, <2>1 DEF V!AssignFrom
  <2>3. V!Visit(b) \o <<CopyElsewhere>> =
          IF b.tag = "dead" THEN <<Throw, CopyElsewhere>> ELSE <<CopyElsewhere>>
    BY <1>9, Joined, NothingBefore
  <2> QED
    BY <2>2, <2>3
<1> QED
  BY <1>8, <1>9, <1>10

LEMMA EmptyLost ==
  ASSUME NEW o
  PROVE  /\ \A x2 : Outcomes(Empty, o, <<Dispatch("dead"), x2>>) \subseteq {Lost(o, No)}
         /\ \A x2, x3, x4, x5 :
              Outcomes(Empty, o, <<Dispatch("dead"), x2, x3, x4, x5>>) \subseteq {Lost(o, No)}
<1> DEFINE t == "dead"
           c == Dead
<1>1. t # "undefined" /\ Empty = Holder(t, c)
  BY DEF Empty
<1> HIDE DEF t, c
<1> QED
  BY <1>1, LostAtOnce

LEMMA VariantAssignMove ==
  ASSUME NEW a, Proper("variant", a), a # Gone, NEW b, Proper("variant", b), b # Gone
  PROVE  \A s \in Outcomes(a, b, V!AssignMove(a, b)) : Fine("variant", "assign_moved", a, b, s)
<1> DEFINE steps == Taken(a, b, Yes)
<1>1. V!AssignMove(a, b) = steps
  BY VariantTakeSteps
<1>2. CASE a = Empty
  <2> DEFINE done == Done("assign_moved", a, b, Lost(b, No))
  <2>1. a.tag = "dead" /\ a = Holder("dead", Dead)
    BY <1>2, EmptyFacts DEF Empty
  <2>2. done.op = "assign_moved" /\ done.on = "dead"
    BY <2>1, DoneFacts
  <2>3. Outcomes(a, b, steps) \subseteq {Lost(b, No)}
    <3>1. CASE b.tag = "dead"
      <4>1. steps = <<Dispatch("dead"), Assign(b.cell, No, Yes)>>
        BY <2>1, <3>1 DEF Taken
      <4> HIDE DEF steps
      <4> QED
        BY <1>2, <4>1, EmptyLost
    <3>2. CASE b.tag # "dead"
      <4>1. steps = <<Dispatch("dead"), Destroy("dead"), Dispatch(b.tag),
                      Construct(b.cell, MovesThrow, Yes), SetTag(b.tag)>>
        BY <2>1, <3>2 DEF Taken
      <4> HIDE DEF steps
      <4> QED
        BY <1>2, <4>1, EmptyLost
    <3> QED
      BY <3>1, <3>2
  <2> HIDE DEF steps, done
  <2>4. MayLie("variant", done)
    BY <2>2 DEF MayLie
  <2>5. Fine("variant", "assign_moved", a, b, Lost(b, No))
    BY <2>4, FineLost DEF done
  <2> QED
    BY <1>1, <2>3, <2>5
<1>3. ASSUME NEW w \in {"T1", "T2"}, NEW u, a = Held(w, u), b = Empty
      PROVE  \A s \in Outcomes(a, b, V!AssignMove(a, b)) : Fine("variant", "assign_moved", a, b, s)
  <2> DEFINE done == Done("assign_moved", a, b, Lost(b, No))
  <2>1. a.tag = w /\ a = Holder(w, Object(w, u)) /\ Object(w, u).type = w
    BY <1>3, HeldFacts DEF Held
  <2>2. b.tag = "dead"
    BY <1>3, EmptyFacts
  <2>3. done.op = "assign_moved" /\ done.from = "dead"
    BY <2>2, DoneFacts
  <2>4. steps = <<Dispatch(w), Destroy(w), Dispatch("dead"),
                  Construct(b.cell, MovesThrow, Yes), SetTag(b.tag)>>
    BY <2>1, <2>2 DEF Taken
  <2>5. w \notin {"undefined", "dead"}
    OBVIOUS
  <2> HIDE DEF steps, done
  <2>6. Outcomes(Holder(w, Object(w, u)), b, steps) \subseteq {Lost(b, No)}
    BY <2>1, <2>4, <2>5, FoundReplacedByEmpty
  <2>7. MayLie("variant", done)
    BY <2>3 DEF MayLie
  <2>8. Fine("variant", "assign_moved", a, b, Lost(b, No))
    BY <2>7, FineLost DEF done
  <2> QED
    BY <1>1, <2>1, <2>6, <2>8
<1>4. ASSUME NEW w \in {"T1", "T2"}, NEW u, a = Held(w, u),
             NEW t \in {"T1", "T2"}, NEW v, b = Held(t, v)
      PROVE  \A s \in Outcomes(a, b, V!AssignMove(a, b)) : Fine("variant", "assign_moved", a, b, s)
  <2> DEFINE end == Going(t, Object(t, v), Source(b, Yes), No)
             lie == Thrown(w, Dead, b, No)
             back == Thrown(w, Object(w, u), b, No)
             done == Done("assign_moved", a, b, lie)
  <2>1. a.tag = w /\ a = Holder(w, Object(w, u)) /\ Object(w, u).type = w
    BY <1>4, HeldFacts DEF Held
  <2>2. b.tag = t /\ b.cell = Object(t, v) /\ Object(t, v).type = t
    BY <1>4, HeldFacts
  <2>3. w \notin {"undefined", "dead"} /\ t # "dead" /\ w \notin {"dead", "gone"}
    OBVIOUS
  <2>4. Fine("variant", "assign_moved", a, b, end)
    BY <1>4, YesFacts, FineTransfer, VariantTypes DEF Moving
  <2>5. CASE w = t
    <3>1. steps = <<Dispatch(w), Assign(Object(t, v), No, Yes)>>
      BY <2>1, <2>2, <2>5 DEF Taken
    <3> HIDE DEF steps
    <3>2. Outcomes(Holder(w, Object(w, u)), b, steps)
            \subseteq {Going(w, Object(t, v), Source(b, Yes), No), back}
      BY <2>1, <2>2, <2>3, <2>5, <3>1, YesFacts, NoFacts, FoundAssigned
    <3>3. Outcomes(a, b, steps) \subseteq {end, back}
      BY <2>1, <2>5, <3>2
    <3>4. Fine("variant", "assign_moved", a, b, back)
      BY <2>1, FineUnchanged DEF Thrown
    <3> HIDE DEF end, back
    <3> QED
      BY <1>1, <2>4, <3>3, <3>4
  <2>6. CASE w # t
    <3>1. steps = <<Dispatch(w), Destroy(w), Dispatch(t),
                    Construct(Object(t, v), MovesThrow, Yes), SetTag(t)>>
      BY <2>1, <2>2, <2>6 DEF Taken
    <3> HIDE DEF steps
    <3>2. Outcomes(Holder(w, Object(w, u)), b, steps) \subseteq {end, lie}
      BY <2>1, <2>3, <3>1, YesFacts, MovesThrowAssumption, FoundReplaced
    <3> HIDE DEF end
    <3>3. done.op = "assign_moved" /\ done.on = a.tag /\ done.from = b.tag
      <4> HIDE DEF lie
      <4> QED
        BY DoneFacts
    <3>4. done.threw
      BY DoneThrew DEF Thrown
    <3> HIDE DEF done, lie
    <3>5. MayLie("variant", done)
      BY <2>1, <2>2, <2>6, <3>3, <3>4 DEF MayLie
    <3>6. Fine("variant", "assign_moved", a, b, lie)
      BY <2>3, <3>5, HalfDone, FineLie DEF done, lie, Thrown
    <3> QED
      BY <1>1, <2>1, <2>4, <3>2, <3>6
  <2> QED
    BY <2>5, <2>6
<1> HIDE DEF steps
<1> QED
  BY <1>2, <1>3, <1>4, VariantProper

LEMMA VariantSteps ==
  /\ \A a, t, v : V!AssignValue(a, Object(t, v)) =
       <<Dispatch(a.tag), Destroy(a.tag), Construct(Object(t, v), Yes, No), OnThrow("dead"),
         SetTag(t)>>
  /\ \A a, b : V!Compare(a, b) = IF a.tag = b.tag THEN <<Dispatch(a.tag)>> ELSE <<>>
  /\ \A a : V!End(a) = IF a.tag = "dead" THEN <<>> ELSE <<Destroy(a.tag)>>
  /\ \A a, b : V!AssignCopy(a, b) =
       IF a.tag = b.tag
         THEN <<Dispatch(a.tag), Assign(b.cell, Yes, No)>>
         ELSE <<Dispatch(b.tag), CopyElsewhere, Abandon, Dispatch(a.tag), Destroy(a.tag),
                Construct(b.cell, MovesThrow, No), SetTag(b.tag)>>
<1>1. \A u : V!SetTag(u) = SetTag(u)
  BY DEF V!SetTag, SetTag
<1>2. \A u : V!Dispatch(u) = Dispatch(u)
  BY DEF V!Dispatch, Dispatch
<1>3. \A u : V!Destroy(u) = Destroy(u)
  BY DEF V!Destroy, Destroy
<1>4. V!Abandon = Abandon /\ V!CopyElsewhere = CopyElsewhere
  BY DEF V!Abandon, Abandon, V!CopyElsewhere, CopyElsewhere
<1>5. \A d : V!CopyAssign(d) = Assign(d, Yes, No)
  BY DEF V!CopyAssign, V!Assign, Assign, Yes, No
<1>6. \A d : V!CopyConstruct(d) = Construct(d, Yes, No)
  BY DEF V!CopyConstruct, V!Construct, Construct, Yes, No
<1>7. \A d : V!Construct(d, MovesThrow, FALSE) = Construct(d, MovesThrow, No)
  BY DEF V!Construct, Construct, No
<1>8. \A u : V!OnThrow(u) = OnThrow(u)
  BY DEF V!OnThrow, OnThrow
<1>9. ASSUME NEW a, NEW t, NEW v
      PROVE  V!AssignValue(a, Object(t, v)) =
               <<Dispatch(a.tag), Destroy(a.tag), Construct(Object(t, v), Yes, No),
                 OnThrow("dead"), SetTag(t)>>
  BY <1>1, <1>2, <1>3, <1>6, <1>8, HeldFacts DEF V!AssignValue
<1>10. \A a, b : V!Compare(a, b) = IF a.tag = b.tag THEN <<Dispatch(a.tag)>> ELSE <<>>
  BY <1>2 DEF V!Compare
<1>11. \A a : V!End(a) = IF a.tag = "dead" THEN <<>> ELSE <<Destroy(a.tag)>>
  BY <1>3 DEF V!End
<1>12. \A a, b : V!AssignCopy(a, b) =
         IF a.tag = b.tag
           THEN <<Dispatch(a.tag), Assign(b.cell, Yes, No)>>
           ELSE <<Dispatch(b.tag), CopyElsewhere, Abandon, Dispatch(a.tag), Destroy(a.tag),
                  Construct(b.cell, MovesThrow, No), SetTag(b.tag)>>
  BY <1>1, <1>2, <1>3, <1>4, <1>5, <1>7 DEF V!AssignCopy
<1> QED
  BY <1>9, <1>10, <1>11, <1>12

LEMMA VariantVisit ==
  ASSUME NEW a, Proper("variant", a), a # Gone, NEW b, Proper("variant", b)
  PROVE  \A s \in Outcomes(a, b, V!Visit(a)) : Fine("variant", "visit", a, b, s)
<1>1. CASE a = Empty
  <2>1. V!Visit(a) = <<Throw>> /\ a = Holder("dead", Dead)
    BY <1>1, EmptyFacts, VariantTakeSteps DEF Empty
  <2>2. Outcomes(a, b, <<Throw>>) \subseteq {Thrown("dead", Dead, b, No)}
    BY <2>1, ThrownAtOnce
  <2>3. Thrown("dead", Dead, b, No) = State(a, b, Yes, No)
    BY <2>1 DEF Thrown
  <2> QED
    BY <2>1, <2>2, <2>3, FineUnchanged
<1>2. ASSUME NEW w \in {"T1", "T2"}, NEW u, a = Held(w, u)
      PROVE  \A s \in Outcomes(a, b, V!Visit(a)) : Fine("variant", "visit", a, b, s)
  <2> DEFINE end == Going(w, Object(w, u), b, No)
  <2>1. V!Visit(a) = <<>> /\ a = Holder(w, Object(w, u))
    <3>1. a.tag # "dead"
      BY <1>2, HeldFacts
    <3> QED
      BY <1>2, <3>1, VariantTakeSteps DEF Held
  <2>2. Outcomes(a, b, <<>>) \subseteq {end}
    BY <2>1, NoSteps
  <2>3. Fine("variant", "visit", a, b, end)
    BY <2>1, FineGoing DEF Transferring, Going
  <2> HIDE DEF end
  <2> QED
    BY <2>1, <2>2, <2>3
<1> QED
  BY <1>1, <1>2, VariantProper

LEMMA VariantCompare ==
  ASSUME NEW a, Proper("variant", a), a # Gone, NEW b, Proper("variant", b), b # Gone
  PROVE  \A s \in Outcomes(a, b, V!Compare(a, b)) : Fine("variant", "compare", a, b, s)
<1>1. PICK t, c : a = Holder(t, c) /\ t # "undefined" /\ t = a.tag
  <2>1. CASE a = Empty
    BY <2>1, EmptyFacts DEF Empty
  <2>2. CASE \E w \in {"T1", "T2"} : \E u : a = Held(w, u)
    BY <2>2, HeldFacts DEF Held
  <2> QED
    BY <2>1, <2>2, VariantProper
<1> DEFINE end == Going(t, c, b, No)
           done == Done("compare", a, b, Lost(b, No))
           steps == V!Compare(a, b)
<1>2. Fine("variant", "compare", a, b, end)
  BY <1>1, FineGoing DEF Transferring, Going
<1>3. CASE a.tag = b.tag /\ a.tag = "dead"
  <2>1. steps = <<Dispatch("dead")>>
    BY <1>3, VariantSteps
  <2> HIDE DEF steps
  <2>2. Outcomes(a, b, steps) \subseteq {Lost(b, No)}
    BY <1>1, <2>1, LostAtOnce
  <2>3. done.op = "compare" /\ done.on = "dead"
    BY <1>3, DoneFacts
  <2> HIDE DEF done
  <2>4. MayLie("variant", done)
    BY <2>3 DEF MayLie
  <2>5. Fine("variant", "compare", a, b, Lost(b, No))
    BY <2>4, FineLost DEF done
  <2> QED
    BY <2>2, <2>5 DEF steps
<1>4. CASE a.tag = b.tag /\ a.tag # "dead"
  <2>1. steps = <<Dispatch(t)>>
    BY <1>1, <1>4, VariantSteps
  <2>2. After(Going(t, c, b, No), Dispatch(t)) \subseteq {Going(t, c, b, No)}
    BY <1>1, <1>4, DispatchFound
  <2>3. Outcomes(Holder(t, c), b, <<>>) \subseteq {Going(t, c, b, No)}
    BY NoSteps
  <2> DEFINE x1 == Dispatch(t)
  <2> HIDE DEF steps, end, x1
  <2>4. Outcomes(Holder(t, c), b, <<x1>>) \subseteq {Going(t, c, b, No)}
    BY <2>2, <2>3, Step1 DEF x1
  <2> QED
    BY <1>1, <1>2, <2>1, <2>4 DEF steps, end, x1
<1>5. CASE a.tag # b.tag
  <2>1. steps = <<>>
    BY <1>5, VariantSteps
  <2>2. Outcomes(Holder(t, c), b, <<>>) \subseteq {end}
    BY NoSteps
  <2> HIDE DEF steps, end
  <2> QED
    BY <1>1, <1>2, <2>1, <2>2 DEF steps
<1> QED
  BY <1>3, <1>4, <1>5

LEMMA VariantEnd ==
  ASSUME NEW a, Proper("variant", a), a # Gone, NEW b, Proper("variant", b)
  PROVE  \A s \in Outcomes(a, b, V!End(a)) : Fine("variant", "end", a, b, Ended(s))
<1>1. CASE a = Empty
  <2>1. V!End(a) = <<>> /\ a = Holder("dead", Dead)
    BY <1>1, EmptyFacts, VariantSteps DEF Empty
  <2>2. Outcomes(a, b, <<>>) \subseteq {Going("dead", Dead, b, No)}
    BY <2>1, NoSteps
  <2> QED
    BY <2>1, <2>2, EndedFine, DeadIsFree
<1>2. ASSUME NEW w \in {"T1", "T2"}, NEW u, a = Held(w, u)
      PROVE  \A s \in Outcomes(a, b, V!End(a)) : Fine("variant", "end", a, b, Ended(s))
  <2>1. a.tag = w /\ w # "dead" /\ a = Holder(w, Object(w, u)) /\ Object(w, u).type = w
    BY <1>2, HeldFacts DEF Held
  <2>2. V!End(a) = <<Destroy(w)>>
    BY <2>1, VariantSteps
  <2>3. Outcomes(a, b, <<Destroy(w)>>) \subseteq {Going(w, Dead, b, No)}
    BY <2>1, Destroyed
  <2> QED
    BY <2>2, <2>3, EndedFine, DeadIsFree
<1> QED
  BY <1>1, <1>2, VariantProper

LEMMA VariantAssignValue ==
  ASSUME NEW a, Proper("variant", a), a # Gone, NEW b, Proper("variant", b),
         NEW t \in {"T1", "T2"}, NEW v
  PROVE  \A s \in Outcomes(a, b, V!AssignValue(a, Object(t, v))) :
           Fine("variant", "assign_value", a, b, s)
<1> DEFINE steps == V!AssignValue(a, Object(t, v))
<1>1. CASE a = Empty
  <2> DEFINE done == Done("assign_value", a, b, Lost(b, No))
  <2>1. a.tag = "dead"
    BY <1>1, EmptyFacts
  <2>2. steps = <<Dispatch("dead"), Destroy("dead"), Construct(Object(t, v), Yes, No),
                  OnThrow("dead"), SetTag(t)>>
    BY <2>1, VariantSteps
  <2>3. done.op = "assign_value" /\ done.on = "dead"
    BY <2>1, DoneFacts
  <2> HIDE DEF steps, done
  <2>4. Outcomes(a, b, steps) \subseteq {Lost(b, No)}
    BY <1>1, <2>2, EmptyLost
  <2>5. MayLie("variant", done)
    BY <2>3 DEF MayLie
  <2>6. Fine("variant", "assign_value", a, b, Lost(b, No))
    BY <2>5, FineLost DEF done
  <2> QED
    BY <2>4, <2>6 DEF steps
<1>2. ASSUME NEW w \in {"T1", "T2"}, NEW u, a = Held(w, u)
      PROVE  \A s \in Outcomes(a, b, V!AssignValue(a, Object(t, v))) :
               Fine("variant", "assign_value", a, b, s)
  <2> DEFINE end == Going(t, Object(t, v), b, No)
             empty == Thrown("dead", Dead, b, No)
  <2>1. a.tag = w /\ a = Holder(w, Object(w, u)) /\ Object(w, u).type = w
    BY <1>2, HeldFacts DEF Held
  <2>2. steps = <<Dispatch(w), Destroy(w), Construct(Object(t, v), Yes, No), OnThrow("dead"),
                  SetTag(t)>>
    BY <2>1, VariantSteps
  <2>3. w \notin {"undefined", "dead"} /\ Source(b, No) = b
    BY NoFacts DEF Source
  <2> HIDE DEF steps
  <2>4. Outcomes(Holder(w, Object(w, u)), b, steps)
          \subseteq {Going(t, Object(t, v), Source(b, No), No), empty}
    BY <2>1, <2>2, <2>3, YesFacts, NoFacts, FoundSet
  <2>5. Outcomes(a, b, steps) \subseteq {end, empty}
    BY <2>1, <2>3, <2>4
  <2>6. Fine("variant", "assign_value", a, b, end)
    BY FineValue, VariantTypes DEF Transferring
  <2>7. Fine("variant", "assign_value", a, b, empty)
    <3>1. Spares("variant", "assign_value", a, Empty) /\ Spares("variant", "assign_value", b, b)
      BY EmptyFacts DEF Spares
    <3>2. empty = State(Empty, b, Yes, No)
      BY DEF Thrown, Empty
    <3> QED
      BY <3>1, <3>2, VariantTypes, FineThrown
  <2> HIDE DEF end, empty
  <2> QED
    BY <2>5, <2>6, <2>7 DEF steps
<1> QED
  BY <1>1, <1>2, VariantProper

LEMMA VariantAssignCopy ==
  ASSUME NEW a, Proper("variant", a), a # Gone, NEW b, Proper("variant", b), b # Gone
  PROVE  \A s \in Outcomes(a, b, V!AssignCopy(a, b)) : Fine("variant", "assign_copy", a, b, s)
<1> DEFINE steps == V!AssignCopy(a, b)
           lost == Lost(b, No)
           done == Done("assign_copy", a, b, lost)
           leak == State(Undefined, b, No, Yes)
           back == State(a, b, Yes, No)
<1>1. done.op = "assign_copy" /\ done.on = a.tag /\ done.from = b.tag
  <2> HIDE DEF lost
  <2> QED
    BY DoneFacts
<1>2. "dead" \in {a.tag, b.tag} => Fine("variant", "assign_copy", a, b, lost)
  <2> HIDE DEF done
  <2>1. "dead" \in {a.tag, b.tag} => MayLie("variant", done)
    BY <1>1 DEF MayLie
  <2> QED
    BY <2>1, FineLost DEF done
<1>3. "dead" \in {a.tag, b.tag} /\ a.tag # b.tag => Fine("variant", "assign_copy", a, b, leak)
  BY <1>2, FineLeaking DEF Lost
<1>4. Fine("variant", "assign_copy", a, b, back)
  BY FineUnchanged
<1> HIDE DEF done
<1>5. CASE a = Empty /\ b = Empty
  <2>1. a.tag = "dead" /\ b.tag = "dead"
    BY <1>5, EmptyFacts
  <2>2. steps = <<Dispatch("dead"), Assign(b.cell, Yes, No)>>
    BY <2>1, VariantSteps
  <2> HIDE DEF steps, lost
  <2>3. Outcomes(a, b, steps) \subseteq {lost}
    BY <1>5, <2>2, EmptyLost DEF lost
  <2> QED
    BY <1>2, <2>1, <2>3 DEF steps
<1>6. ASSUME NEW t \in {"T1", "T2"}, NEW v, b = Held(t, v), a = Empty
      PROVE  \A s \in Outcomes(a, b, V!AssignCopy(a, b)) : Fine("variant", "assign_copy", a, b, s)
  <2>1. a.tag = "dead" /\ b.tag = t /\ b.cell = Object(t, v) /\ t # "dead"
    BY <1>6, EmptyFacts, HeldFacts
  <2>2. steps = <<Dispatch(t), CopyElsewhere, Abandon, Dispatch("dead"), Destroy("dead"),
                  Construct(Object(t, v), MovesThrow, No), SetTag(t)>>
    BY <2>1, VariantSteps
  <2> DEFINE w == "dead"
             c == Dead
  <2>3. w # "undefined" /\ a = Holder(w, c)
    BY <1>6 DEF Empty
  <2> HIDE DEF steps, w, c
  <2>4. Outcomes(Holder(w, c), b, steps) \subseteq {Lost(b, Yes), Thrown(w, c, b, No)}
    BY <2>1, <2>2, <2>3, NoFacts, MovesThrowAssumption, AbandonedIntoEmpty
  <2>5. Lost(b, Yes) = leak /\ Thrown(w, c, b, No) = back
    BY <2>3 DEF Lost, Thrown
  <2> HIDE DEF leak, back
  <2> QED
    BY <1>3, <1>4, <2>1, <2>3, <2>4, <2>5 DEF steps
<1>7. ASSUME NEW w \in {"T1", "T2"}, NEW u, a = Held(w, u), b = Empty
      PROVE  \A s \in Outcomes(a, b, V!AssignCopy(a, b)) : Fine("variant", "assign_copy", a, b, s)
  <2>1. a.tag = w /\ a = Holder(w, Object(w, u)) /\ b.tag = "dead"
    BY <1>7, EmptyFacts, HeldFacts DEF Held
  <2>2. steps = <<Dispatch("dead"), CopyElsewhere, Abandon, Dispatch(w), Destroy(w),
                  Construct(b.cell, MovesThrow, No), SetTag("dead")>>
    BY <2>1, VariantSteps
  <2>3. w # "undefined"
    OBVIOUS
  <2> HIDE DEF steps, lost
  <2>4. Outcomes(Holder(w, Object(w, u)), b, steps) \subseteq {lost}
    <3> DEFINE c == Object(w, u)
    <3> HIDE DEF c
    <3>1. \A x2, x3, x4, x5, x6, x7 :
            Outcomes(Holder(w, c), b, <<Dispatch("dead"), x2, x3, x4, x5, x6, x7>>) \subseteq {lost}
      BY <2>3, LostAtOnce DEF lost
    <3> QED
      BY <2>2, <3>1 DEF c
  <2> QED
    BY <1>2, <2>1, <2>4 DEF steps
<1>8. ASSUME NEW w \in {"T1", "T2"}, NEW u, a = Held(w, u),
             NEW t \in {"T1", "T2"}, NEW v, b = Held(t, v)
      PROVE  \A s \in Outcomes(a, b, V!AssignCopy(a, b)) : Fine("variant", "assign_copy", a, b, s)
  <2> DEFINE end == Going(t, Object(t, v), b, No)
             left == Going(t, Object(t, v), b, Yes)
             lie == State(Holder(w, Dead), b, Yes, No)
             lying == State(Holder(w, Dead), b, Yes, Yes)
             failed == Done("assign_copy", a, b, lie)
  <2>1. a.tag = w /\ a = Holder(w, Object(w, u)) /\ Object(w, u).type = w
    BY <1>8, HeldFacts DEF Held
  <2>2. b.tag = t /\ b.cell = Object(t, v) /\ Object(t, v).type = t
    BY <1>8, HeldFacts
  <2>3. w \notin {"undefined", "dead"} /\ t # "dead" /\ w \notin {"dead", "gone"}
    OBVIOUS
  <2>4. Source(b, No) = b
    BY NoFacts DEF Source
  <2>5. Fine("variant", "assign_copy", a, b, end)
    BY <1>8, <2>4, NoFacts, FineTransfer, VariantTypes DEF Copying
  <2>6. Thrown(w, Object(w, u), b, No) = back
    BY <2>1 DEF Thrown
  <2>7. CASE w = t
    <3>1. steps = <<Dispatch(w), Assign(Object(t, v), Yes, No)>>
      BY <2>1, <2>2, <2>7, VariantSteps
    <3> HIDE DEF steps, back
    <3>2. Outcomes(Holder(w, Object(w, u)), b, steps)
            \subseteq {Going(w, Object(t, v), Source(b, No), No), Thrown(w, Object(w, u), b, No)}
      BY <2>1, <2>2, <2>3, <2>7, <3>1, YesFacts, NoFacts, FoundAssigned
    <3>3. Outcomes(a, b, steps) \subseteq {end, back}
      BY <2>1, <2>4, <2>6, <2>7, <3>2
    <3> HIDE DEF end
    <3> QED
      BY <1>4, <2>5, <3>3 DEF steps
  <2>8. CASE w # t
    <3>1. steps = <<Dispatch(t), CopyElsewhere, Abandon, Dispatch(w), Destroy(w),
                    Construct(Object(t, v), MovesThrow, No), SetTag(t)>>
      BY <2>1, <2>2, <2>8, VariantSteps
    <3> HIDE DEF steps, back
    <3>2. Outcomes(Holder(w, Object(w, u)), b, steps)
            \subseteq {Going(t, Object(t, v), Source(b, No), Yes),
                       Thrown(w, Dead, b, Yes), Thrown(w, Object(w, u), b, No)}
      BY <2>1, <2>3, <3>1, NoFacts, MovesThrowAssumption, AbandonedReplaced
    <3>3. Thrown(w, Dead, b, Yes) = lying
      BY DEF Thrown
    <3>4. Outcomes(a, b, steps) \subseteq {left, lying, back}
      BY <2>1, <2>4, <2>6, <3>2, <3>3
    <3>5. a.tag # b.tag
      BY <2>1, <2>2, <2>8
    <3>6. Fine("variant", "assign_copy", a, b, left)
      BY <2>5, <3>5, FineLeaking DEF Going
    <3>7. failed.op = "assign_copy" /\ failed.on = a.tag /\ failed.from = b.tag
      <4> HIDE DEF lie
      <4> QED
        BY DoneFacts
    <3>8. failed.threw
      BY DoneThrew
    <3> HIDE DEF failed
    <3>9. MayLie("variant", failed)
      BY <3>5, <3>7, <3>8 DEF MayLie
    <3>10. Fine("variant", "assign_copy", a, b, lie)
      BY <2>3, <3>9, HalfDone, FineLie DEF failed
    <3>11. Fine("variant", "assign_copy", a, b, lying)
      BY <3>5, <3>10, FineLeaking
    <3> HIDE DEF left, lying
    <3> QED
      BY <1>4, <3>4, <3>6, <3>11 DEF steps
  <2> QED
    BY <2>7, <2>8
<1> HIDE DEF steps
<1> QED
  BY <1>5, <1>6, <1>7, <1>8, VariantProper DEF steps

LEMMA VariantAssignFrom ==
  ASSUME NEW a, Proper("variant", a), a # Gone, NEW b, Proper("variant", b), b # Gone
  PROVE  \A s \in Outcomes(a, b, V!AssignFrom(a, b)) : Fine("variant", "assign_from", a, b, s)
<1> DEFINE steps == V!AssignFrom(a, b)
           back == State(a, b, Yes, No)
<1>1. Fine("variant", "assign_from", a, b, back)
  BY FineUnchanged
<1>2. PICK w, c : a = Holder(w, c) /\ w # "undefined" /\ w = a.tag
  <2>1. CASE a = Empty
    BY <2>1, EmptyFacts DEF Empty
  <2>2. CASE \E t \in {"T1", "T2"} : \E u : a = Held(t, u)
    BY <2>2, HeldFacts DEF Held
  <2> QED
    BY <2>1, <2>2, VariantProper
<1>3. Thrown(w, c, b, No) = back
  BY <1>2 DEF Thrown
<1>4. CASE b = Empty
  <2>1. b.tag = "dead"
    BY <1>4, EmptyFacts
  <2>2. steps = <<Throw, CopyElsewhere>> \o Taken(a, b, No)
    BY <2>1, VariantTakeSteps
  <2>3. Outcomes(Holder(w, c), b, steps) \subseteq {Thrown(w, c, b, No)}
    <3>1. CASE w = b.tag
      <4>1. Taken(a, b, No) = <<Dispatch(w), Assign(b.cell, No, No)>>
        BY <1>2, <3>1 DEF Taken
      <4> HIDE DEF steps
      <4>2. steps = <<Throw, CopyElsewhere, Dispatch(w), Assign(b.cell, No, No)>>
        BY <2>2, <4>1, Joined
      <4> QED
        BY <1>2, <4>2, NoFacts, ThrownThenAssigned
    <3>2. CASE w # b.tag
      <4>1. Taken(a, b, No) = <<Dispatch(w), Destroy(w), Dispatch(b.tag),
                                Construct(b.cell, MovesThrow, No), SetTag(b.tag)>>
        BY <1>2, <3>2 DEF Taken
      <4> HIDE DEF steps
      <4>2. steps = <<Throw, CopyElsewhere, Dispatch(w), Destroy(w), Dispatch(b.tag),
                      Construct(b.cell, MovesThrow, No), SetTag(b.tag)>>
        BY <2>2, <4>1, LongJoined
      <4> QED
        BY <1>2, <4>2, NoFacts, MovesThrowAssumption, ThrownThenReplaced
    <3> QED
      BY <3>1, <3>2
  <2> HIDE DEF steps, back
  <2> QED
    BY <1>1, <1>2, <1>3, <2>3 DEF steps
<1>5. ASSUME NEW t \in {"T1", "T2"}, NEW v, b = Held(t, v), a = Empty
      PROVE  \A s \in Outcomes(a, b, V!AssignFrom(a, b)) : Fine("variant", "assign_from", a, b, s)
  <2> DEFINE done == Done("assign_from", a, b, Lost(b, No))
  <2>1. a.tag = "dead" /\ b.tag = t /\ b.cell = Object(t, v) /\ t # "dead"
    BY <1>5, EmptyFacts, HeldFacts
  <2>2. steps = <<CopyElsewhere>> \o Taken(a, b, No)
    BY <2>1, VariantTakeSteps
  <2>3. Taken(a, b, No) = <<Dispatch("dead"), Destroy("dead"), Dispatch(t),
                            Construct(Object(t, v), MovesThrow, No), SetTag(t)>>
    BY <2>1 DEF Taken
  <2>4. done.op = "assign_from" /\ done.on = "dead"
    BY <2>1, DoneFacts
  <2> HIDE DEF steps, done, back
  <2>5. steps = <<CopyElsewhere, Dispatch("dead"), Destroy("dead"), Dispatch(t),
                  Construct(Object(t, v), MovesThrow, No), SetTag(t)>>
    BY <2>2, <2>3, LongJoined
  <2>6. Outcomes(Holder(w, c), b, steps) \subseteq {Lost(b, No), Thrown(w, c, b, No)}
    BY <1>2, <2>5, NoFacts, MovesThrowAssumption, CopiedIntoEmpty
  <2>7. MayLie("variant", done)
    BY <2>4 DEF MayLie
  <2>8. Fine("variant", "assign_from", a, b, Lost(b, No))
    BY <2>7, FineLost DEF done
  <2> QED
    BY <1>1, <1>2, <1>3, <2>6, <2>8 DEF steps
<1>6. ASSUME NEW r \in {"T1", "T2"}, NEW u, a = Held(r, u),
             NEW t \in {"T1", "T2"}, NEW v, b = Held(t, v)
      PROVE  \A s \in Outcomes(a, b, V!AssignFrom(a, b)) : Fine("variant", "assign_from", a, b, s)
  <2> DEFINE end == Going(t, Object(t, v), b, No)
             lie == State(Holder(r, Dead), b, Yes, No)
             failed == Done("assign_from", a, b, lie)
  <2>1. a.tag = r /\ a = Holder(r, Object(r, u)) /\ Object(r, u).type = r
    BY <1>6, HeldFacts DEF Held
  <2>2. b.tag = t /\ b.cell = Object(t, v) /\ Object(t, v).type = t
    BY <1>6, HeldFacts
  <2>3. r \notin {"undefined", "dead"} /\ t # "dead" /\ r \notin {"dead", "gone"}
    OBVIOUS
  <2>4. Source(b, No) = b
    BY NoFacts DEF Source
  <2>5. Fine("variant", "assign_from", a, b, end)
    BY <1>6, <2>4, NoFacts, FineTransfer, VariantTypes DEF Copying
  <2>6. Thrown(r, Object(r, u), b, No) = back
    BY <2>1 DEF Thrown
  <2>7. steps = <<CopyElsewhere>> \o Taken(a, b, No)
    BY <2>2, <2>3, VariantTakeSteps
  <2>8. CASE r = t
    <3>1. Taken(a, b, No) = <<Dispatch(r), Assign(Object(t, v), No, No)>>
      BY <2>1, <2>2, <2>8 DEF Taken
    <3> HIDE DEF steps, back
    <3>2. steps = <<CopyElsewhere, Dispatch(r), Assign(Object(t, v), No, No)>>
      BY <2>7, <3>1, Joined
    <3>3. Outcomes(Holder(r, Object(r, u)), b, steps)
            \subseteq {Going(r, Object(t, v), Source(b, No), No), Thrown(r, Object(r, u), b, No)}
      BY <2>1, <2>2, <2>3, <2>8, <3>2, NoFacts, CopiedFoundAssigned
    <3>4. Outcomes(a, b, steps) \subseteq {end, back}
      BY <2>1, <2>4, <2>6, <2>8, <3>3
    <3> HIDE DEF end
    <3> QED
      BY <1>1, <2>5, <3>4 DEF steps
  <2>9. CASE r # t
    <3>1. Taken(a, b, No) = <<Dispatch(r), Destroy(r), Dispatch(t),
                              Construct(Object(t, v), MovesThrow, No), SetTag(t)>>
      BY <2>1, <2>2, <2>9 DEF Taken
    <3> HIDE DEF steps, back
    <3>2. steps = <<CopyElsewhere, Dispatch(r), Destroy(r), Dispatch(t),
                    Construct(Object(t, v), MovesThrow, No), SetTag(t)>>
      BY <2>7, <3>1, LongJoined
    <3>3. Outcomes(Holder(r, Object(r, u)), b, steps)
            \subseteq {Going(t, Object(t, v), Source(b, No), No), Thrown(r, Dead, b, No),
                       Thrown(r, Object(r, u), b, No)}
      BY <2>1, <2>3, <3>2, NoFacts, MovesThrowAssumption, CopiedFoundReplaced
    <3>4. Thrown(r, Dead, b, No) = lie
      BY DEF Thrown
    <3>5. Outcomes(a, b, steps) \subseteq {end, lie, back}
      BY <2>1, <2>4, <2>6, <3>3, <3>4
    <3>6. failed.op = "assign_from" /\ failed.on = a.tag /\ failed.from = b.tag
      <4> HIDE DEF lie
      <4> QED
        BY DoneFacts
    <3>7. failed.threw
      BY DoneThrew
    <3> HIDE DEF failed
    <3>8. MayLie("variant", failed)
      BY <2>1, <2>2, <2>9, <3>6, <3>7 DEF MayLie
    <3>9. Fine("variant", "assign_from", a, b, lie)
      BY <2>3, <3>8, HalfDone, FineLie DEF failed
    <3> HIDE DEF end, lie
    <3> QED
      BY <1>1, <2>5, <3>5, <3>9 DEF steps
  <2> QED
    BY <2>8, <2>9
<1> HIDE DEF steps
<1> QED
  BY <1>4, <1>5, <1>6, VariantProper

-----------------------------------------------------------------------------
(* Every step.                                                             *)

LEMMA KindIs ==
  ASSUME HoldersInv
  PROVE  kind = "optional" \/ kind = "error_or" \/ kind = "expected" \/ kind = "variant"
BY DEF HoldersInv, Kinds

LEMMA ProperHolders ==
  ASSUME HoldersInv, NEW h \in Slots, NEW g \in Slots, NEW op, NEW outcomes,
         Happens(op, h, g, outcomes)
  PROVE  Proper(kind, holder[h]) /\ Proper(kind, holder[g])
BY DEF HoldersInv, Happens

LEMMA CreatesFine ==
  ASSUME HoldersInv, NEW h \in Slots, NEW g \in Slots, h # g, NEW op, NEW steps,
         Creates(op, h, g, steps),
         \A s \in Constructed(holder[g], steps) : Fine(kind, op, Gone, holder[g], s)
  PROVE  StepFine
<1> DEFINE outcomes == Constructed(holder[g], steps)
<1>1. holder[h] = Gone /\ Happens(op, h, g, outcomes)
  BY DEF Creates, Exists
<1>2. \A s \in outcomes : Fine(kind, op, holder[h], holder[g], s)
  BY <1>1
<1> HIDE DEF outcomes
<1> QED
  BY <1>1, <1>2, OperationIsFine

LEMMA ChangesFine ==
  ASSUME HoldersInv, NEW h \in Slots, NEW g \in Slots, h # g, NEW op, NEW steps,
         Changes(op, h, g, steps),
         \A s \in Outcomes(holder[h], holder[g], steps) : Fine(kind, op, holder[h], holder[g], s)
  PROVE  StepFine
<1> DEFINE outcomes == Outcomes(holder[h], holder[g], steps)
<1>1. Happens(op, h, g, outcomes)
  BY DEF Changes
<1> HIDE DEF outcomes
<1> QED
  BY <1>1, OperationIsFine DEF outcomes

LEMMA CreateEmptyStep ==
  ASSUME HoldersInv, NEW h \in Slots, NEW g \in Slots, h # g, CreateEmpty(h, g)
  PROVE  StepFine
<1>1. kind = "optional" /\ Creates("create_empty", h, g, O!FromNothing)
  BY DEF CreateEmpty
<1>2. Proper("optional", holder[g])
  BY <1>1, ProperHolders DEF Creates
<1> QED
  BY <1>1, <1>2, OptionalCreateEmpty, CreatesFine

LEMMA CreateValueStep ==
  ASSUME HoldersInv, NEW h \in Slots, NEW g \in Slots, h # g, NEW v, CreateValue(h, g, v)
  PROVE  StepFine
<1>1. CASE kind = "optional"
  <2>1. Creates("create_value", h, g, O!FromCopy(v))
    BY <1>1 DEF CreateValue
  <2>2. Proper("optional", holder[g])
    BY <1>1, <2>1, ProperHolders DEF Creates
  <2> QED
    BY <1>1, <2>1, <2>2, OptionalCreateValue, CreatesFine
<1>2. CASE kind = "error_or"
  <2>1. Creates("create_value", h, g, E!FromCopy(v))
    BY <1>2 DEF CreateValue
  <2>2. Proper("error_or", holder[g])
    BY <1>2, <2>1, ProperHolders DEF Creates
  <2> QED
    BY <1>2, <2>1, <2>2, ErrorOrCreateValue, CreatesFine
<1>3. CASE kind = "expected"
  <2>1. Creates("create_value", h, g, X!FromCopy(v))
    BY <1>3 DEF CreateValue
  <2>2. Proper("expected", holder[g])
    BY <1>3, <2>1, ProperHolders DEF Creates
  <2> QED
    BY <1>3, <2>1, <2>2, ExpectedCreateValue, CreatesFine
<1>4. CASE kind = "variant"
  <2>1. PICK t \in {"T1", "T2"} : Creates("create_value", h, g, V!FromCopy(Object(t, v)))
    BY <1>4 DEF CreateValue
  <2>2. Proper("variant", holder[g])
    BY <1>4, <2>1, ProperHolders DEF Creates
  <2> QED
    BY <1>4, <2>1, <2>2, VariantCreateValue, CreatesFine
<1> QED
  BY <1>1, <1>2, <1>3, <1>4, KindIs

LEMMA CreateCopyStep ==
  ASSUME HoldersInv, NEW h \in Slots, NEW g \in Slots, h # g, CreateCopy(h, g)
  PROVE  StepFine
<1>1. Exists(g) /\ holder[g] # Gone
  BY DEF CreateCopy, Exists
<1>2. CASE kind = "optional"
  <2>1. Creates("create_copy", h, g, O!CopyFrom(holder[g]))
    BY <1>2 DEF CreateCopy
  <2>2. Proper("optional", holder[g])
    BY <1>2, <2>1, ProperHolders DEF Creates
  <2> QED
    BY <1>1, <1>2, <2>1, <2>2, OptionalCreateCopy, CreatesFine
<1>3. CASE kind = "error_or"
  <2>1. Creates("create_copy", h, g, E!CopyFrom(holder[g]))
    BY <1>3 DEF CreateCopy
  <2>2. Proper("error_or", holder[g])
    BY <1>3, <2>1, ProperHolders DEF Creates
  <2> QED
    BY <1>1, <1>3, <2>1, <2>2, ErrorOrCreateCopy, CreatesFine
<1>4. CASE kind = "expected"
  <2>1. Creates("create_copy", h, g, X!CopyFrom(holder[g]))
    BY <1>4 DEF CreateCopy
  <2>2. Proper("expected", holder[g])
    BY <1>4, <2>1, ProperHolders DEF Creates
  <2> QED
    BY <1>1, <1>4, <2>1, <2>2, ExpectedCreateCopy, CreatesFine
<1>5. CASE kind = "variant"
  <2>1. Creates("create_copy", h, g, V!CopyFrom(holder[g]))
    BY <1>5 DEF CreateCopy
  <2>2. Proper("variant", holder[g])
    BY <1>5, <2>1, ProperHolders DEF Creates
  <2> QED
    BY <1>1, <1>5, <2>1, <2>2, VariantCreateCopy, CreatesFine
<1> QED
  BY <1>2, <1>3, <1>4, <1>5, KindIs

LEMMA CreateMovedStep ==
  ASSUME HoldersInv, NEW h \in Slots, NEW g \in Slots, h # g, CreateMoved(h, g)
  PROVE  StepFine
<1>1. Exists(g) /\ holder[g] # Gone
  BY DEF CreateMoved, Exists
<1>2. CASE kind = "optional"
  <2>1. Creates("create_moved", h, g, O!MoveFrom(holder[g]))
    BY <1>2 DEF CreateMoved
  <2>2. Proper("optional", holder[g])
    BY <1>2, <2>1, ProperHolders DEF Creates
  <2> QED
    BY <1>1, <1>2, <2>1, <2>2, OptionalCreateMoved, CreatesFine
<1>3. CASE kind = "error_or"
  <2>1. Creates("create_moved", h, g, E!MoveFrom(holder[g]))
    BY <1>3 DEF CreateMoved
  <2>2. Proper("error_or", holder[g])
    BY <1>3, <2>1, ProperHolders DEF Creates
  <2> QED
    BY <1>1, <1>3, <2>1, <2>2, ErrorOrCreateMoved, CreatesFine
<1>4. CASE kind = "expected"
  <2>1. Creates("create_moved", h, g, X!MoveFrom(holder[g]))
    BY <1>4 DEF CreateMoved
  <2>2. Proper("expected", holder[g])
    BY <1>4, <2>1, ProperHolders DEF Creates
  <2> QED
    BY <1>1, <1>4, <2>1, <2>2, ExpectedCreateMoved, CreatesFine
<1>5. CASE kind = "variant"
  <2>1. Creates("create_moved", h, g, V!MoveFrom(holder[g]))
    BY <1>5 DEF CreateMoved
  <2>2. Proper("variant", holder[g])
    BY <1>5, <2>1, ProperHolders DEF Creates
  <2> QED
    BY <1>1, <1>5, <2>1, <2>2, VariantCreateMoved, CreatesFine
<1> QED
  BY <1>2, <1>3, <1>4, <1>5, KindIs

LEMMA AssignCopyStep ==
  ASSUME HoldersInv, NEW h \in Slots, NEW g \in Slots, h # g, AssignCopy(h, g)
  PROVE  StepFine
<1>1. holder[g] # Gone
  BY DEF AssignCopy, Exists
<1>2. CASE kind = "optional"
  <2>1. Changes("assign_copy", h, g, O!AssignCopy(holder[h], holder[g]))
    BY <1>2 DEF AssignCopy
  <2>2. Proper("optional", holder[h]) /\ Proper("optional", holder[g]) /\ holder[h] # Gone
    BY <1>2, <2>1, ProperHolders DEF Changes, Exists
  <2> QED
    BY <1>1, <1>2, <2>1, <2>2, OptionalAssignCopy, ChangesFine
<1>3. CASE kind = "error_or"
  <2>1. Changes("assign_copy", h, g, E!AssignCopy(holder[h], holder[g]))
    BY <1>3 DEF AssignCopy
  <2>2. Proper("error_or", holder[h]) /\ Proper("error_or", holder[g]) /\ holder[h] # Gone
    BY <1>3, <2>1, ProperHolders DEF Changes, Exists
  <2> QED
    BY <1>1, <1>3, <2>1, <2>2, ErrorOrAssignCopy, ChangesFine
<1>4. CASE kind = "expected"
  <2>1. Changes("assign_copy", h, g, X!AssignCopy(holder[h], holder[g]))
    BY <1>4 DEF AssignCopy
  <2>2. Proper("expected", holder[h]) /\ Proper("expected", holder[g]) /\ holder[h] # Gone
    BY <1>4, <2>1, ProperHolders DEF Changes, Exists
  <2> QED
    BY <1>1, <1>4, <2>1, <2>2, ExpectedAssignCopy, ChangesFine
<1>5. CASE kind = "variant"
  <2>1. Changes("assign_copy", h, g, V!AssignCopy(holder[h], holder[g]))
    BY <1>5 DEF AssignCopy
  <2>2. Proper("variant", holder[h]) /\ Proper("variant", holder[g]) /\ holder[h] # Gone
    BY <1>5, <2>1, ProperHolders DEF Changes, Exists
  <2> QED
    BY <1>1, <1>5, <2>1, <2>2, VariantAssignCopy, ChangesFine
<1> QED
  BY <1>2, <1>3, <1>4, <1>5, KindIs

LEMMA AssignMovedStep ==
  ASSUME HoldersInv, NEW h \in Slots, NEW g \in Slots, h # g, AssignMoved(h, g)
  PROVE  StepFine
<1>1. holder[g] # Gone
  BY DEF AssignMoved, Exists
<1>2. CASE kind = "optional"
  <2>1. Changes("assign_moved", h, g, O!AssignMove(holder[h], holder[g]))
    BY <1>2 DEF AssignMoved
  <2>2. Proper("optional", holder[h]) /\ Proper("optional", holder[g]) /\ holder[h] # Gone
    BY <1>2, <2>1, ProperHolders DEF Changes, Exists
  <2> QED
    BY <1>1, <1>2, <2>1, <2>2, OptionalAssignMove, ChangesFine
<1>3. CASE kind = "error_or"
  <2>1. Changes("assign_moved", h, g, E!AssignMove(holder[h], holder[g]))
    BY <1>3 DEF AssignMoved
  <2>2. Proper("error_or", holder[h]) /\ Proper("error_or", holder[g]) /\ holder[h] # Gone
    BY <1>3, <2>1, ProperHolders DEF Changes, Exists
  <2> QED
    BY <1>1, <1>3, <2>1, <2>2, ErrorOrAssignMove, ChangesFine
<1>4. CASE kind = "expected"
  <2>1. Changes("assign_moved", h, g, X!AssignMove(holder[h], holder[g]))
    BY <1>4 DEF AssignMoved
  <2>2. Proper("expected", holder[h]) /\ Proper("expected", holder[g]) /\ holder[h] # Gone
    BY <1>4, <2>1, ProperHolders DEF Changes, Exists
  <2> QED
    BY <1>1, <1>4, <2>1, <2>2, ExpectedAssignMove, ChangesFine
<1>5. CASE kind = "variant"
  <2>1. Changes("assign_moved", h, g, V!AssignMove(holder[h], holder[g]))
    BY <1>5 DEF AssignMoved
  <2>2. Proper("variant", holder[h]) /\ Proper("variant", holder[g]) /\ holder[h] # Gone
    BY <1>5, <2>1, ProperHolders DEF Changes, Exists
  <2> QED
    BY <1>1, <1>5, <2>1, <2>2, VariantAssignMove, ChangesFine
<1> QED
  BY <1>2, <1>3, <1>4, <1>5, KindIs

LEMMA AssignValueStep ==
  ASSUME HoldersInv, NEW h \in Slots, NEW g \in Slots, h # g, NEW v, AssignValue(h, g, v)
  PROVE  StepFine
<1>1. CASE kind = "optional"
  <2>1. Changes("assign_value", h, g, O!AssignValue(holder[h], v))
    BY <1>1 DEF AssignValue
  <2>2. Proper("optional", holder[h]) /\ Proper("optional", holder[g]) /\ holder[h] # Gone
    BY <1>1, <2>1, ProperHolders DEF Changes, Exists
  <2> QED
    BY <1>1, <2>1, <2>2, OptionalAssignValue, ChangesFine
<1>2. CASE kind = "error_or"
  <2>1. Changes("assign_value", h, g, E!AssignValue(holder[h], v))
    BY <1>2 DEF AssignValue
  <2>2. Proper("error_or", holder[h]) /\ Proper("error_or", holder[g]) /\ holder[h] # Gone
    BY <1>2, <2>1, ProperHolders DEF Changes, Exists
  <2> QED
    BY <1>2, <2>1, <2>2, ErrorOrAssignValue, ChangesFine
<1>3. CASE kind = "expected"
  <2>1. Changes("assign_value", h, g, X!AssignValue(holder[h], v))
    BY <1>3 DEF AssignValue
  <2>2. Proper("expected", holder[h]) /\ Proper("expected", holder[g]) /\ holder[h] # Gone
    BY <1>3, <2>1, ProperHolders DEF Changes, Exists
  <2> QED
    BY <1>3, <2>1, <2>2, ExpectedAssignValue, ChangesFine
<1>4. CASE kind = "variant"
  <2>1. PICK t \in {"T1", "T2"} :
          Changes("assign_value", h, g, V!AssignValue(holder[h], Object(t, v)))
    BY <1>4 DEF AssignValue
  <2>2. Proper("variant", holder[h]) /\ Proper("variant", holder[g]) /\ holder[h] # Gone
    BY <1>4, <2>1, ProperHolders DEF Changes, Exists
  <2> QED
    BY <1>4, <2>1, <2>2, VariantAssignValue, ChangesFine
<1> QED
  BY <1>1, <1>2, <1>3, <1>4, KindIs

LEMMA EmplaceStep ==
  ASSUME HoldersInv, NEW h \in Slots, NEW g \in Slots, h # g, NEW v, Emplace(h, g, v)
  PROVE  StepFine
<1>1. CASE kind = "optional"
  <2>1. Changes("emplace", h, g, O!Emplace(holder[h], v))
    BY <1>1 DEF Emplace
  <2>2. Proper("optional", holder[h]) /\ Proper("optional", holder[g]) /\ holder[h] # Gone
    BY <1>1, <2>1, ProperHolders DEF Changes, Exists
  <2> QED
    BY <1>1, <2>1, <2>2, OptionalEmplace, ChangesFine
<1>2. CASE kind = "expected"
  <2>1. Changes("emplace", h, g, X!Emplace(holder[h], v))
    BY <1>2 DEF Emplace
  <2>2. Proper("expected", holder[h]) /\ Proper("expected", holder[g]) /\ holder[h] # Gone
    BY <1>2, <2>1, ProperHolders DEF Changes, Exists
  <2> QED
    BY <1>2, <2>1, <2>2, ExpectedEmplace, ChangesFine
<1> QED
  BY <1>1, <1>2 DEF Emplace

LEMMA ResetStep ==
  ASSUME HoldersInv, NEW h \in Slots, NEW g \in Slots, h # g, Reset(h, g)
  PROVE  StepFine
<1>1. /\ kind = "optional" /\ Changes("reset", h, g, O!Reset(holder[h]))
  BY DEF Reset
<1>2. Proper("optional", holder[h]) /\ Proper("optional", holder[g]) /\ holder[h] # Gone
  BY <1>1, ProperHolders DEF Changes, Exists
<1> QED
  BY <1>1, <1>2, OptionalReset, ChangesFine

LEMMA AssignFromStep ==
  ASSUME HoldersInv, NEW h \in Slots, NEW g \in Slots, h # g, AssignFrom(h, g)
  PROVE  StepFine
<1>1. /\ kind = "variant" /\ Changes("assign_from", h, g, V!AssignFrom(holder[h], holder[g]))
      /\ holder[g] # Gone
  BY DEF AssignFrom, Exists
<1>2. Proper("variant", holder[h]) /\ Proper("variant", holder[g]) /\ holder[h] # Gone
  BY <1>1, ProperHolders DEF Changes, Exists
<1> QED
  BY <1>1, <1>2, VariantAssignFrom, ChangesFine

LEMMA VisitStep ==
  ASSUME HoldersInv, NEW h \in Slots, NEW g \in Slots, h # g, Visit(h, g)
  PROVE  StepFine
<1>1. /\ kind = "variant" /\ Changes("visit", h, g, V!Visit(holder[h]))
  BY DEF Visit
<1>2. Proper("variant", holder[h]) /\ Proper("variant", holder[g]) /\ holder[h] # Gone
  BY <1>1, ProperHolders DEF Changes, Exists
<1> QED
  BY <1>1, <1>2, VariantVisit, ChangesFine

LEMMA CompareStep ==
  ASSUME HoldersInv, NEW h \in Slots, NEW g \in Slots, h # g, Compare(h, g)
  PROVE  StepFine
<1>1. /\ kind = "variant" /\ Changes("compare", h, g, V!Compare(holder[h], holder[g]))
      /\ holder[g] # Gone
  BY DEF Compare, Exists
<1>2. Proper("variant", holder[h]) /\ Proper("variant", holder[g]) /\ holder[h] # Gone
  BY <1>1, ProperHolders DEF Changes, Exists
<1> QED
  BY <1>1, <1>2, VariantCompare, ChangesFine

LEMMA SwapStep ==
  ASSUME HoldersInv, NEW h \in Slots, NEW g \in Slots, h # g, Swap(h, g)
  PROVE  StepFine
<1>1. /\ kind = "optional" /\ holder[h] # Gone /\ holder[g] # Gone
      /\ Happens("swap", h, g, O!SwapOutcomes(holder[h], holder[g]))
  BY DEF Swap, Exists
<1>2. Proper("optional", holder[h]) /\ Proper("optional", holder[g])
  BY <1>1, ProperHolders
<1> QED
  BY <1>1, <1>2, OptionalSwap, OperationIsFine

LEMMA EndedStep ==
  ASSUME HoldersInv, NEW h \in Slots, NEW g \in Slots, h # g, NEW steps,
         Happens("end", h, g, {Ended(s) : s \in Outcomes(holder[h], holder[g], steps)}),
         \A s \in Outcomes(holder[h], holder[g], steps) :
           Fine(kind, "end", holder[h], holder[g], Ended(s))
  PROVE  StepFine
<1> DEFINE outcomes == {Ended(s) : s \in Outcomes(holder[h], holder[g], steps)}
<1>1. \A s \in outcomes : Fine(kind, "end", holder[h], holder[g], s)
  OBVIOUS
<1>2. Happens("end", h, g, outcomes)
  OBVIOUS
<1> HIDE DEF outcomes
<1> QED
  BY <1>1, <1>2, OperationIsFine

LEMMA EndStep ==
  ASSUME HoldersInv, NEW h \in Slots, NEW g \in Slots, h # g, End(h, g)
  PROVE  StepFine
<1>1. holder[h] # Gone
  BY DEF End, Exists
<1>2. CASE kind = "optional"
  <2>1. Happens("end", h, g,
                {Ended(s) : s \in Outcomes(holder[h], holder[g], O!End(holder[h]))})
    BY <1>2 DEF End, Ended
  <2>2. Proper("optional", holder[h]) /\ Proper("optional", holder[g])
    BY <1>2, <2>1, ProperHolders
  <2> QED
    BY <1>1, <1>2, <2>1, <2>2, OptionalEnd, EndedStep
<1>3. CASE kind = "error_or"
  <2>1. Happens("end", h, g,
                {Ended(s) : s \in Outcomes(holder[h], holder[g], E!End(holder[h]))})
    BY <1>3 DEF End, Ended
  <2>2. Proper("error_or", holder[h]) /\ Proper("error_or", holder[g])
    BY <1>3, <2>1, ProperHolders
  <2> QED
    BY <1>1, <1>3, <2>1, <2>2, ErrorOrEnd, EndedStep
<1>4. CASE kind = "expected"
  <2>1. Happens("end", h, g,
                {Ended(s) : s \in Outcomes(holder[h], holder[g], X!End(holder[h]))})
    BY <1>4 DEF End, Ended
  <2>2. Proper("expected", holder[h]) /\ Proper("expected", holder[g])
    BY <1>4, <2>1, ProperHolders
  <2> QED
    BY <1>1, <1>4, <2>1, <2>2, ExpectedEnd, EndedStep
<1>5. CASE kind = "variant"
  <2>1. Happens("end", h, g,
                {Ended(s) : s \in Outcomes(holder[h], holder[g], V!End(holder[h]))})
    BY <1>5 DEF End, Ended
  <2>2. Proper("variant", holder[h]) /\ Proper("variant", holder[g])
    BY <1>5, <2>1, ProperHolders
  <2> QED
    BY <1>1, <1>5, <2>1, <2>2, VariantEnd, EndedStep
<1> QED
  BY <1>2, <1>3, <1>4, <1>5, KindIs

(* An error that is made of the error code 0 is taken for a value. *)
LEMMA ErrorOrCreateError ==
  ASSUME NEW b, NEW code, NEW s \in Constructed(b, E!FromError(code))
  PROVE  s.this = Holder(IF code = E!Success THEN "T" ELSE "category", Object("category", code))
<1> DEFINE t == IF code = E!Success THEN "T" ELSE "category"
           d == Object("category", code)
           steps == <<SetTag(t), Construct(d, No, No)>>
<1>1. E!FromError(code) = steps
  BY DEF E!FromError, E!SetTag, SetTag, E!Store, E!Construct, Construct, E!Object, Object, No
<1>2. t # "undefined" /\ "raw" # "undefined"
  OBVIOUS
<1>3. Source(b, No) = b
  BY NoFacts DEF Source
<1> HIDE DEF t, d, steps
<1>4. \A r \in Outcomes(Holder("raw", Dead), b, <<SetTag(t), Construct(d, No, No)>>) :
        r = Going(t, d, Source(b, No), No)
  BY <1>2, DeadIsFree, NoFacts, TaggedThenMade
<1>5. \A r \in Outcomes(Holder("raw", Dead), b, steps) : r = Going(t, d, b, No)
  BY <1>3, <1>4 DEF steps
<1>6. PICK r \in Outcomes(Holder("raw", Dead), b, steps) : s = Finished(r)
  BY <1>1, ConstructedFinished
<1>7. s = Going(t, d, b, No)
  BY <1>5, <1>6, FinishedFacts
<1>8. s.this = Holder(t, d)
  BY <1>7, Fields DEF Going
<1> QED
  BY <1>8 DEF t, d

LEMMA CreateErrorStep ==
  ASSUME HoldersInv, NEW h \in Slots, NEW g \in Slots, h # g, CreateError(h, g)
  PROVE  StepFine
<1>1. CASE kind = "error_or"
  <2>1. PICK code \in Codes :
          /\ AllTruthful
          /\ \E s \in Constructed(holder[g], E!FromError(code)) :
               holder' = [holder EXCEPT ![h] = s.this]
          /\ last' = [NoOperation EXCEPT !.op = "create_error", !.code = code, !.operands = <<h, g>>]
          /\ kind' = kind
    BY <1>1 DEF CreateError
  <2>2. PICK s \in Constructed(holder[g], E!FromError(code)) :
          /\ AllTruthful
          /\ holder' = [holder EXCEPT ![h] = s.this]
          /\ last' = [NoOperation EXCEPT !.op = "create_error", !.code = code, !.operands = <<h, g>>]
          /\ kind' = kind
    BY <2>1
  <2> DEFINE t == IF code = E!Success THEN "T" ELSE "category"
             new == Holder(t, Object("category", code))
  <2>3. s.this = new
    BY ErrorOrCreateError
  <2>4. last'.op = "create_error" /\ last'.code = code
    BY <2>2 DEF NoOperation
  <2>5. ~last'.threw /\ ~last'.leaked
    BY <2>2 DEF NoOperation
  <2>6. /\ DOMAIN holder' = Slots
        /\ \A f \in Slots : holder'[f] = IF f = h THEN new ELSE holder[f]
    BY <2>2, <2>3 DEF HoldersInv
  <2>7. CASE code = E!Success
    <3>1. MayLie(kind', last')
      BY <1>1, <2>2, <2>4, <2>7 DEF MayLie
    <3>2. ~Truthful(new)
      BY <2>7 DEF Truthful, Holder, Object, Gone
    <3> HIDE DEF new, t
    <3>3. ~AllTruthful'
      BY <2>6, <3>2 DEF AllTruthful
    <3>4. HoldersInv'
      BY <2>2, <2>5, <2>6, <3>1, <3>3
         DEF HoldersInv, TagsTellTheTruth, EveryObjectIsDestroyed
    <3> QED
      BY <2>4, <2>5, <3>4 DEF StepFine, NoEffectStep, TransferStep
  <2>8. CASE code # E!Success
    <3>1. new = Held("category", code)
      BY <2>8 DEF Held
    <3>2. Proper("error_or", new)
      BY <3>1, ErrorOrTypes, ProperHeld
    <3> HIDE DEF new, t
    <3>3. \A f \in Slots : Proper(kind, holder[f])
      BY <2>2 DEF HoldersInv
    <3>4. \A f \in Slots : Proper(kind, holder'[f])
      BY <1>1, <2>6, <3>2, <3>3
    <3>5. AllTruthful'
      BY <3>4, ProperIsTruthful DEF AllTruthful
    <3>6. HoldersInv'
      BY <2>2, <2>5, <2>6, <3>4, <3>5
         DEF HoldersInv, TagsTellTheTruth, EveryObjectIsDestroyed
    <3> QED
      BY <2>4, <2>5, <3>6 DEF StepFine, NoEffectStep, TransferStep
  <2> QED
    BY <2>7, <2>8
<1>2. CASE kind = "expected"
  <2>1. PICK v \in Values : Creates("create_error", h, g, X!FromException(v))
    BY <1>2 DEF CreateError
  <2>2. Proper("expected", holder[g])
    BY <1>2, <2>1, ProperHolders DEF Creates
  <2> QED
    BY <1>2, <2>1, <2>2, ExpectedCreateError, CreatesFine
<1> QED
  BY <1>1, <1>2 DEF CreateError

LEMMA NextFine ==
  ASSUME HoldersInv, Next
  PROVE  StepFine
<1>1. PICK h \in Slots, g \in Slots :
        /\ h # g
        /\ \/ CreateEmpty(h, g) \/ CreateError(h, g)
           \/ CreateCopy(h, g) \/ CreateMoved(h, g)
           \/ AssignCopy(h, g) \/ AssignMoved(h, g)
           \/ Swap(h, g) \/ AssignFrom(h, g) \/ Visit(h, g)
           \/ Reset(h, g) \/ Compare(h, g) \/ End(h, g)
           \/ \E val \in Values :
                CreateValue(h, g, val) \/ AssignValue(h, g, val) \/ Emplace(h, g, val)
  BY DEF Next
<1>2. CASE CreateEmpty(h, g)
  BY <1>1, <1>2, CreateEmptyStep
<1>3. CASE CreateError(h, g)
  BY <1>1, <1>3, CreateErrorStep
<1>4. CASE CreateCopy(h, g)
  BY <1>1, <1>4, CreateCopyStep
<1>5. CASE CreateMoved(h, g)
  BY <1>1, <1>5, CreateMovedStep
<1>6. CASE AssignCopy(h, g)
  BY <1>1, <1>6, AssignCopyStep
<1>7. CASE AssignMoved(h, g)
  BY <1>1, <1>7, AssignMovedStep
<1>8. CASE Swap(h, g)
  BY <1>1, <1>8, SwapStep
<1>9. CASE AssignFrom(h, g)
  BY <1>1, <1>9, AssignFromStep
<1>10. CASE Visit(h, g)
  BY <1>1, <1>10, VisitStep
<1>11. CASE Reset(h, g)
  BY <1>1, <1>11, ResetStep
<1>12. CASE Compare(h, g)
  BY <1>1, <1>12, CompareStep
<1>13. CASE End(h, g)
  BY <1>1, <1>13, EndStep
<1>14. ASSUME NEW val \in Values, CreateValue(h, g, val)
       PROVE  StepFine
  BY <1>1, <1>14, CreateValueStep
<1>15. ASSUME NEW val \in Values, AssignValue(h, g, val)
       PROVE  StepFine
  BY <1>1, <1>15, AssignValueStep
<1>16. ASSUME NEW val \in Values, Emplace(h, g, val)
       PROVE  StepFine
  BY <1>1, <1>16, EmplaceStep
<1> QED
  BY <1>1, <1>2, <1>3, <1>4, <1>5, <1>6, <1>7, <1>8, <1>9, <1>10, <1>11, <1>12, <1>13,
     <1>14, <1>15, <1>16

LEMMA NothingFine ==
  ASSUME HoldersInv, UNCHANGED vars
  PROVE  HoldersInv'
BY DEF HoldersInv, vars, AllTruthful, TagsTellTheTruth, EveryObjectIsDestroyed

LEMMA InitFine ==
  ASSUME Init
  PROVE  HoldersInv
<1>1. kind \in Kinds /\ DOMAIN holder = Slots /\ \A h \in Slots : holder[h] = Gone
  BY DEF Init, Kinds
<1>2. AllTruthful /\ \A h \in Slots : Proper(kind, holder[h])
  BY <1>1 DEF AllTruthful, Truthful, Proper
<1>3. ~last.leaked
  BY DEF Init, NoOperation
<1> QED
  BY <1>1, <1>2, <1>3 DEF HoldersInv, TagsTellTheTruth, EveryObjectIsDestroyed

(***************************************************************************)
(* The invariant behind the four theorems.  As long as all tags tell the   *)
(* truth, every holder is one that its class can be in, and an operation   *)
(* on two of those comes only to what is fine: it fills and empties its    *)
(* operands, or it fails, as the properties say.  An operation behind      *)
(* which a tag lies is the last one.                                       *)
(***************************************************************************)
THEOREM HoldersCorrect == Spec => []HoldersInv
<1>1. HoldersInv /\ [Next]_vars => HoldersInv'
  BY NextFine, NothingFine DEF StepFine
<1> QED
  BY InitFine, <1>1, PTL DEF Spec

(***************************************************************************)
(* For all slots, values and error codes, and moves that throw or do not:  *)
(* a tag of an optional, error_or, expected or variant tells what is in    *)
(* the storage, but behind the operations that MayLie names: some of those *)
(* that throw, those on a valueless variant, emplace() over an exception,  *)
(* and the construction from the error code 0.                             *)
(***************************************************************************)
THEOREM TagsCorrect == Spec => []TagsTellTheTruth
<1>1. HoldersInv => TagsTellTheTruth
  BY DEF HoldersInv
<1> QED
  BY HoldersCorrect, <1>1, PTL

(***************************************************************************)
(* For all of them: no operation leaves an object without a destructor but *)
(* the copy constructor and the copy assignment of variant.                *)
(***************************************************************************)
THEOREM DestroyedCorrect == Spec => []EveryObjectIsDestroyed
<1>1. HoldersInv => EveryObjectIsDestroyed
  BY DEF HoldersInv
<1> QED
  BY HoldersCorrect, <1>1, PTL

(***************************************************************************)
(* For all of them: an operation that throws has no effect on a holder     *)
(* whose tag still tells the truth, but that a failed emplace() or         *)
(* assignment of a value empties its target, and a failed swap() of two    *)
(* optionals with objects may lose one of these.                           *)
(***************************************************************************)
THEOREM FailuresCorrect == Spec => FailuresHaveNoEffect
<1>1. HoldersInv /\ [Next]_vars => [NoEffectStep]_vars
  BY NextFine DEF StepFine
<1> QED
  BY HoldersCorrect, <1>1, PTL DEF Spec, FailuresHaveNoEffect, NoEffectStep

(***************************************************************************)
(* For all of them: the target of a copy or a move becomes what the source *)
(* was; the source stays what it was, or is moved from; a swap exchanges   *)
(* its operands, except that the other optional, when it is empty, gets an *)
(* object that is made from this optional; and no other holder changes.    *)
(***************************************************************************)
THEOREM TransfersCorrect == Spec => CopiesAndMovesTransfer
<1>1. HoldersInv /\ [Next]_vars => [TransferStep]_vars
  BY NextFine DEF StepFine
<1> QED
  BY HoldersCorrect, <1>1, PTL DEF Spec, CopiesAndMovesTransfer, TransferStep

=============================================================================
