------------------------- MODULE DeflatingSink_proof -------------------------
(***************************************************************************)
(* The compressed stream is in order and complete, and a flush is, for     *)
(* every size of the array and of the space, all calls and everything that *)
(* zlib may do.                                                            *)
(*                                                                         *)
(* The units on their way are four sequences, one behind the other: what   *)
(* was sent, what was written for it, what zlib has encoded, and what it   *)
(* has taken in.  A step either moves units from one to the one in front,  *)
(* which changes nothing as a whole, or adds some at the end, or, when the *)
(* destination fails, takes some out of the middle.                        *)
(***************************************************************************)
EXTENDS DeflatingSink, SequenceTheorems, TLAPS


-----------------------------------------------------------------------------
(* Numbers and sequences.                                                  *)

LEMMA OfTwo ==
  ASSUME NEW a \in Int, NEW b \in Int
  PROVE  /\ Max({a, b}) = IF a >= b THEN a ELSE b
         /\ Min({a, b}) = IF a <= b THEN a ELSE b
BY DEF Max, Min

(* The elements of s \o t are those of s and those of t. *)
LEMMA Concatenated ==
  ASSUME NEW s \in Seq(Int), NEW t \in Seq(Int)
  PROVE  /\ s \o t \in Seq(Int)
         /\ Len(s) \in Nat /\ Len(t) \in Nat
         /\ Len(s \o t) = Len(s) + Len(t)
         /\ \A i \in 1..Len(s) : (s \o t)[i] = s[i]
         /\ \A i \in 1..Len(t) : (s \o t)[Len(s) + i] = t[i]
BY ConcatProperties, LenProperties

(* The rest of a sequence. *)
LEMMA SubSeqOf ==
  ASSUME NEW s \in Seq(Int), NEW n \in 0..Len(s) - 1
  PROVE  /\ SubSeq(s, n + 1, Len(s)) \in Seq(Int)
         /\ Len(SubSeq(s, n + 1, Len(s))) = Len(s) - n
         /\ \A i \in 1..Len(s) - n : SubSeq(s, n + 1, Len(s))[i] = s[n + i]
OBVIOUS

(* Two parts of a sequence, put together again. *)
LEMMA TogetherAgain ==
  ASSUME NEW s \in Seq(Int), NEW u \in Seq(Int), NEW v \in Seq(Int),
         NEW m \in 0..Len(s), Len(u) = m, Len(v) = Len(s) - m,
         \A i \in 1..m : u[i] = s[i],
         \A i \in 1..Len(s) - m : v[i] = s[m + i]
  PROVE  u \o v = s
<1> DEFINE w == u \o v
<1>1. /\ Len(s) \in Nat /\ w \in Seq(Int) /\ Len(w) = Len(s)
      /\ \A i \in 1..m : w[i] = s[i]
      /\ \A i \in 1..Len(s) - m : w[m + i] = s[m + i]
  BY Concatenated
<1> HIDE DEF w
<1>2. ASSUME NEW i \in 1..Len(s) PROVE w[i] = s[i]
  <2>1. CASE i <= m
    BY <1>1, <2>1
  <2>2. CASE i > m
    <3>1. i - m \in 1..Len(s) - m /\ m + (i - m) = i
      BY <1>1, <2>2
    <3> QED BY <1>1, <3>1
  <2> QED BY <1>1, <2>1, <2>2
<1>3. w = s
  BY <1>1, <1>2, SeqEqual
<1> QED BY <1>3 DEF w

(* Cutting a sequence loses nothing. *)
LEMMA CutInTwo ==
  ASSUME NEW s \in Seq(Int), NEW n \in Nat
  PROVE  /\ UpTo(s, n) \in Seq(Int) /\ From(s, n) \in Seq(Int)
         /\ UpTo(s, n) \o From(s, n) = s
         /\ Len(UpTo(s, n)) = IF n <= Len(s) THEN n ELSE Len(s)
         /\ n >= Len(s) => From(s, n) = <<>>
<1> DEFINE m == IF n <= Len(s) THEN n ELSE Len(s)
<1>1. Len(s) \in Nat /\ m \in 0..Len(s) /\ Min({n, Len(s)}) = m
  <2>1. Len(s) \in Nat
    BY LenProperties
  <2>2. Min({n, Len(s)}) = IF n <= Len(s) THEN n ELSE Len(s)
    BY <2>1 DEF Min
  <2> QED BY <2>1, <2>2
<1>2. /\ SubSeq(s, 1, m) \in Seq(Int) /\ Len(SubSeq(s, 1, m)) = m
      /\ \A i \in 1..m : SubSeq(s, 1, m)[i] = s[i]
  BY <1>1, SubSeqProperties, ElementOfSeq
<1>3. /\ From(s, n) \in Seq(Int) /\ Len(From(s, n)) = Len(s) - m
      /\ \A i \in 1..Len(s) - m : From(s, n)[i] = s[m + i]
      /\ n >= Len(s) => From(s, n) = <<>>
  <2>1. CASE n < Len(s)
    <3>1. n + 1 \in Nat /\ n + 1 >= 1 /\ m = n
      BY <2>1
    <3>2. /\ SubSeq(s, n + 1, Len(s)) \in Seq(Int)
          /\ Len(SubSeq(s, n + 1, Len(s))) = Len(s) - n
          /\ \A i \in 1..Len(s) - n : SubSeq(s, n + 1, Len(s))[i] = s[n + i]
      BY <1>1, <2>1, SubSeqOf
    <3>3. From(s, n) = SubSeq(s, n + 1, Len(s)) /\ ~(n >= Len(s))
      BY <1>1, <2>1 DEF From
    <3> QED BY <3>1, <3>2, <3>3
  <2>2. CASE n >= Len(s)
    <3>1. From(s, n) = <<>>
      BY <1>1, <2>2, SubSeqProperties DEF From
    <3> QED BY <1>1, <2>2, <3>1, EmptySeq
  <2> QED BY <1>1, <2>1, <2>2
<1>4. UpTo(s, n) = SubSeq(s, 1, m)
  BY <1>1 DEF UpTo
<1> HIDE DEF m
<1>5. UpTo(s, n) \o From(s, n) = s
  <2>1. /\ UpTo(s, n) \in Seq(Int) /\ Len(UpTo(s, n)) = m
        /\ \A i \in 1..m : UpTo(s, n)[i] = s[i]
    BY <1>2, <1>4
  <2> QED BY <1>1, <1>3, <2>1, TogetherAgain
<1> QED BY <1>1, <1>2, <1>3, <1>4, <1>5 DEF m

(* Three sequences, put together in either order. *)
Associates(p, q, r) == (p \o q) \o r = p \o (q \o r)

LEMMA Associative ==
  ASSUME NEW p \in Seq(Int), NEW q \in Seq(Int), NEW r \in Seq(Int)
  PROVE  Associates(p, q, r)
BY DEF Associates

-----------------------------------------------------------------------------
(* What is said of the units on their way.                                 *)

(* They are in order, and none is made up. *)
Good(units, n) ==
  /\ Ordered(units)
  /\ \A i \in 1..Len(units) : units[i] # Mark => units[i] \in 1..n

(* None is missing. *)
Whole(units, n) == \A k \in 1..n : \E i \in 1..Len(units) : units[i] = k

(* The next m characters. *)
Following(n, m) == [i \in 1..m |-> n + i]

LEMMA FollowingIs ==
  ASSUME NEW n \in Int, NEW m \in Nat
  PROVE  Following(n, m) \in Seq(Int) /\ Len(Following(n, m)) = m
BY DEF Following

(* zlib takes in some more characters. *)
LEMMA Grows ==
  ASSUME NEW s \in Seq(Int), NEW n \in Nat, NEW m \in Nat
  PROVE  /\ Following(n, m) \in Seq(Int)
         /\ Good(s, n) => Good(s \o Following(n, m), n + m)
         /\ Whole(s, n) => Whole(s \o Following(n, m), n + m)
<1> DEFINE t == Following(n, m)
           u == s \o t
<1>1. t \in Seq(Int) /\ Len(t) = m /\ \A i \in 1..m : t[i] = n + i
  BY DEF Following
<1> HIDE DEF t
<1>2. /\ u \in Seq(Int) /\ Len(s) \in Nat /\ Len(u) = Len(s) + m
      /\ \A i \in 1..Len(s) : u[i] = s[i]
      /\ \A i \in 1..m : u[Len(s) + i] = n + i
  BY <1>1, Concatenated
<1> HIDE DEF u
<1>3. \A i \in 1..Len(u) :
        \/ i \in 1..Len(s) /\ u[i] = s[i]
        \/ i > Len(s) /\ u[i] = n + (i - Len(s)) /\ i - Len(s) \in 1..m
  <2> SUFFICES ASSUME NEW i \in 1..Len(u), i > Len(s)
               PROVE  u[i] = n + (i - Len(s)) /\ i - Len(s) \in 1..m
    BY <1>2
  <2>1. i - Len(s) \in 1..m /\ Len(s) + (i - Len(s)) = i
    BY <1>2
  <2> QED BY <1>2, <2>1
<1>4. ASSUME Good(s, n) PROVE Good(u, n + m)
  <2>1. \A i \in 1..Len(s) : s[i] \in Int /\ (s[i] # Mark => s[i] \in 1..n)
    BY <1>4, ElementOfSeq DEF Good
  <2>2. Ordered(s)
    BY <1>4 DEF Good
  <2>3. Ordered(u)
    <3> SUFFICES ASSUME NEW i \in 1..Len(u), NEW j \in 1..Len(u), i < j,
                        u[i] # Mark, u[j] # Mark
                 PROVE  u[i] < u[j]
      BY DEF Ordered
    <3>1. CASE j \in 1..Len(s) /\ u[j] = s[j]
      <4>1. i \in 1..Len(s) /\ u[i] = s[i]
        BY <1>2, <3>1
      <4> QED BY <2>2, <3>1, <4>1 DEF Ordered
    <3>2. CASE u[j] = n + (j - Len(s)) /\ j - Len(s) \in 1..m
      <4>1. CASE i \in 1..Len(s) /\ u[i] = s[i]
        <5>1. u[i] \in 1..n
          BY <2>1, <4>1
        <5>2. j - Len(s) >= 1 /\ j - Len(s) \in Int
          BY <3>2
        <5> QED BY <3>2, <5>1, <5>2
      <4>2. CASE u[i] = n + (i - Len(s))
        BY <1>2, <3>2, <4>2
      <4> QED BY <1>3, <4>1, <4>2
    <3> QED BY <1>3, <3>1, <3>2
  <2>4. ASSUME NEW i \in 1..Len(u), u[i] # Mark PROVE u[i] \in 1..n + m
    <3>1. CASE i \in 1..Len(s) /\ u[i] = s[i]
      BY <2>1, <2>4, <3>1
    <3>2. CASE u[i] = n + (i - Len(s)) /\ i - Len(s) \in 1..m
      BY <1>2, <3>2
    <3> QED BY <1>3, <3>1, <3>2
  <2> QED BY <2>3, <2>4 DEF Good
<1>5. ASSUME Whole(s, n) PROVE Whole(u, n + m)
  <2> SUFFICES ASSUME NEW k \in 1..n + m PROVE \E i \in 1..Len(u) : u[i] = k
    BY DEF Whole
  <2>1. CASE k \in 1..n
    <3>1. PICK i \in 1..Len(s) : s[i] = k
      BY <1>5, <2>1 DEF Whole
    <3>2. i \in 1..Len(u) /\ u[i] = k
      BY <1>2, <3>1
    <3> QED BY <3>2
  <2>2. CASE k > n
    <3>1. k - n \in 1..m /\ n + (k - n) = k /\ Len(s) + (k - n) \in 1..Len(u)
      BY <1>2, <2>2
    <3>2. u[Len(s) + (k - n)] = n + (k - n)
      BY <1>2, <3>1
    <3> DEFINE i == Len(s) + (k - n)
    <3>3. i \in 1..Len(u) /\ u[i] = k
      BY <3>1, <3>2
    <3> QED BY <3>3
  <2> QED BY <2>1, <2>2
<1> QED BY <1>1, <1>4, <1>5 DEF t, u

(* zlib ends a flush with a mark. *)
LEMMA Marked ==
  ASSUME NEW s \in Seq(Int), NEW n \in Nat
  PROVE  /\ Good(s, n) => Good(s \o <<Mark>>, n)
         /\ Whole(s, n) => Whole(s \o <<Mark>>, n)
<1> DEFINE u == s \o <<Mark>>
<1>1. <<Mark>> \in Seq(Int) /\ Len(<<Mark>>) = 1 /\ <<Mark>>[1] = Mark
  BY DEF Mark
<1>2. /\ Len(s) \in Nat /\ Len(u) = Len(s) + 1
      /\ \A i \in 1..Len(s) : u[i] = s[i]
      /\ u[Len(s) + 1] = Mark
  BY <1>1, Concatenated
<1> HIDE DEF u
<1>3. \A i \in 1..Len(u) : i \in 1..Len(s) \/ u[i] = Mark
  BY <1>2
<1>4. Good(s, n) => Good(u, n)
  BY <1>2, <1>3 DEF Good, Ordered
<1>5. Whole(s, n) => Whole(u, n)
  BY <1>2 DEF Whole
<1> QED BY <1>4, <1>5 DEF u

(* The elements of three sequences in a row. *)
LEMMA ThreeInARow ==
  ASSUME NEW a \in Seq(Int), NEW b \in Seq(Int), NEW c \in Seq(Int)
  PROVE  /\ (a \o b) \o c \in Seq(Int)
         /\ Len((a \o b) \o c) = Len(a) + Len(b) + Len(c)
         /\ \A i \in 1..Len(a) : ((a \o b) \o c)[i] = a[i]
         /\ \A i \in 1..Len(b) : ((a \o b) \o c)[Len(a) + i] = b[i]
         /\ \A i \in 1..Len(c) : ((a \o b) \o c)[Len(a) + Len(b) + i] = c[i]
OBVIOUS

(* A part of the stream gets lost in the middle: what is left is in order. *)
LEMMA Shortened ==
  ASSUME NEW a \in Seq(Int), NEW b \in Seq(Int), NEW c \in Seq(Int),
         NEW p \in Seq(Int), Len(p) <= Len(b), \A i \in 1..Len(p) : p[i] = b[i],
         NEW n \in Nat, Good((a \o b) \o c, n)
  PROVE  Good((a \o p) \o c, n)
<1> DEFINE k == Len(p)
           s == (a \o b) \o c
           t == (a \o p) \o c
           old(i) == IF i <= Len(a) + k THEN i ELSE i + (Len(b) - k)
<1>1. /\ Len(a) \in Nat /\ Len(b) \in Nat /\ Len(c) \in Nat
      /\ k \in 0..Len(b) /\ \A i \in 1..k : p[i] = b[i]
  BY LenProperties
<1>3. /\ s \in Seq(Int) /\ Len(s) = Len(a) + Len(b) + Len(c)
      /\ \A i \in 1..Len(a) : s[i] = a[i]
      /\ \A i \in 1..Len(b) : s[Len(a) + i] = b[i]
      /\ \A i \in 1..Len(c) : s[Len(a) + Len(b) + i] = c[i]
  BY ThreeInARow
<1>4. /\ t \in Seq(Int) /\ Len(t) = Len(a) + k + Len(c)
      /\ \A i \in 1..Len(a) : t[i] = a[i]
      /\ \A i \in 1..k : t[Len(a) + i] = b[i]
      /\ \A i \in 1..Len(c) : t[Len(a) + k + i] = c[i]
  <2>1. t \in Seq(Int) /\ Len(t) = Len(a) + Len(p) + Len(c)
    BY ThreeInARow
  <2>2. \A i \in 1..Len(a) : t[i] = a[i]
    BY ThreeInARow
  <2>3. \A i \in 1..Len(p) : t[Len(a) + i] = p[i]
    BY ThreeInARow
  <2>4. \A i \in 1..Len(c) : t[Len(a) + Len(p) + i] = c[i]
    BY ThreeInARow
  <2> HIDE DEF t
  <2> QED BY <1>1, <2>1, <2>2, <2>3, <2>4
<1> HIDE DEF s, t, k
<1>5. \A i \in 1..Len(t) : old(i) \in 1..Len(s) /\ t[i] = s[old(i)]
  <2> SUFFICES ASSUME NEW i \in 1..Len(t)
               PROVE  old(i) \in 1..Len(s) /\ t[i] = s[old(i)]
    OBVIOUS
  <2>1. CASE i <= Len(a)
    <3>1. i \in 1..Len(a) /\ i \in 1..Len(s) /\ old(i) = i
      BY <1>1, <1>3, <2>1
    <3> QED BY <1>3, <1>4, <3>1
  <2>2. CASE i > Len(a) /\ i <= Len(a) + k
    <3> DEFINE j == i - Len(a)
    <3>1. /\ j \in 1..k /\ j \in 1..Len(b) /\ i = Len(a) + j
          /\ i \in 1..Len(s) /\ old(i) = i
      BY <1>1, <1>3, <2>2
    <3>2. s[Len(a) + j] = b[j] /\ t[Len(a) + j] = b[j]
      BY <1>3, <1>4, <3>1
    <3> QED BY <3>1, <3>2
  <2>3. CASE i > Len(a) + k
    <3> DEFINE j == i - (Len(a) + k)
    <3>a. i \in Int /\ k \in Int /\ i <= Len(a) + k + Len(c)
      BY <1>1, <1>4
    <3>b. j \in Int /\ i = Len(a) + k + j /\ j >= 1
      BY <1>1, <2>3, <3>a
    <3>c. j \in 1..Len(c)
      BY <1>1, <3>a, <3>b
    <3>d. old(i) = i + (Len(b) - k)
      BY <1>1, <2>3, <3>a
    <3>e. old(i) = Len(a) + Len(b) + j
      BY <1>1, <3>a, <3>b, <3>d
    <3> HIDE DEF old, j
    <3>f. old(i) \in 1..Len(s)
      <4>1. Len(s) = Len(a) + Len(b) + Len(c)
        BY <1>3
      <4>2. Len(a) \in Nat /\ Len(b) \in Nat /\ Len(c) \in Nat
        BY <1>1
      <4> QED BY <3>c, <3>e, <4>1, <4>2
    <3>1. /\ j \in 1..Len(c) /\ i = Len(a) + k + j
          /\ old(i) = Len(a) + Len(b) + j /\ old(i) \in 1..Len(s)
      BY <3>b, <3>c, <3>e, <3>f
    <3>2. s[Len(a) + Len(b) + j] = c[j] /\ t[Len(a) + k + j] = c[j]
      BY <1>3, <1>4, <3>1
    <3> QED BY <3>1, <3>2
  <2>4. i \in Int /\ Len(a) + k \in Int /\ Len(a) <= Len(a) + k
    BY <1>1, <1>4
  <2> QED BY <1>1, <2>1, <2>2, <2>3, <2>4
<1>6. \A i, j \in 1..Len(t) : i < j => old(i) < old(j)
  <2> DEFINE m == Len(a) + k
             d == Len(b) - k
  <2> SUFFICES ASSUME NEW i \in 1..Len(t), NEW j \in 1..Len(t), i < j
               PROVE  old(i) < old(j)
    OBVIOUS
  <2>1. i \in Int /\ j \in Int /\ m \in Int /\ d \in Nat
    BY <1>1
  <2>2. /\ old(i) = IF i <= m THEN i ELSE i + d
        /\ old(j) = IF j <= m THEN j ELSE j + d
    OBVIOUS
  <2> HIDE DEF m, d, old
  <2> QED BY <2>1, <2>2
<1> HIDE DEF old
<1>7. Good(s, n)
  BY DEF s
<1>8. Good(t, n)
  BY <1>5, <1>6, <1>7 DEF Good, Ordered
<1> QED BY <1>8 DEF t

-----------------------------------------------------------------------------
(* The invariant.                                                          *)

Types ==
  /\ buffer \in [1..ArraySize -> Int] /\ used \in 0..ArraySize
  /\ destination \in Seq(Int)
  /\ container \in Seq(Int) /\ committed \in 0..Len(container)
  /\ window \in Seq(Int) /\ encoded \in Seq(Int)
  /\ todo \in Seq(Nat \cup {FlushElement})
  /\ rest \in Nat /\ read \in Nat /\ written \in Nat
  /\ input \in Nat /\ failures \in Nat
  /\ next \in {"array", "container"}
  /\ version \in {"lenient", "strict"}

(* The space that is lent when size elements are asked for. *)
LentFor(size) == IF next = "array" /\ ArraySize < size THEN ArraySize ELSE size

Larger(size) == IF size >= MinSpace THEN size ELSE MinSpace

(* One round of the loop in append(). *)
Rounds ==
  /\ pc \in {"outside", "lend", "deflate", "trim", "send"}
  /\ pc # "outside" => todo # <<>> /\ (Head(todo) = FlushElement => rest = 0)
  /\ pc = "deflate" => Space = LentFor(Larger(rest))
  /\ pc \in {"trim", "send"} => read <= rest
  /\ pc = "trim" => written <= Space
  /\ pc = "send" => written = Space
  /\ pc \in {"outside", "lend"} \/ next = "array" => committed = Len(container)

NothingHeld == window = <<>> /\ encoded = <<>>

(* Where zlib holds nothing back. *)
Flushed ==
  /\ version = "strict" => NothingHeld
  /\ lastFlush = "full" => NothingHeld
  /\ pc \in {"trim", "send"} /\ Head(todo) = FlushElement =>
       NothingHeld \/ written = LentFor(MinSpace)

Stream ==
  /\ Good(OnTheWay, input)
  /\ failures = 0 => Whole(OnTheWay, input)

IInv == Types /\ Rounds /\ Flushed /\ Stream

USE SizesAssumption

-----------------------------------------------------------------------------
(* The next sink, whichever it is.                                         *)

SinkTypes ==
  /\ buffer \in [1..ArraySize -> Int] /\ used \in 0..ArraySize
  /\ destination \in Seq(Int)
  /\ container \in Seq(Int) /\ committed \in 0..Len(container)
  /\ next \in {"array", "container"}

(* The array is a sequence. *)
LEMMA ArrayIsSequence ==
  ASSUME SinkTypes
  PROVE  buffer \in Seq(Int) /\ Len(buffer) = ArraySize
BY DEF SinkTypes

(* A part of a sequence is what its elements are. *)
LEMMA PartIs ==
  ASSUME NEW c \in Seq(Int), NEW d \in Seq(Int), NEW j \in Nat,
         j + Len(d) <= Len(c), \A i \in 1..Len(d) : c[j + i] = d[i]
  PROVE  SubSeq(c, j + 1, j + Len(d)) = d
<1> DEFINE p == SubSeq(c, j + 1, j + Len(d))
<1>1. p \in Seq(Int) /\ Len(p) = Len(d) /\ \A i \in 1..Len(d) : p[i] = c[j + i]
  OBVIOUS
<1> HIDE DEF p
<1>2. p = d
  BY <1>1, SeqEqual
<1> QED BY <1>2 DEF p

(* The parts of sequences that agree there. *)
LEMMA SameParts ==
  ASSUME NEW c \in Seq(Int), NEW d \in Seq(Int), NEW j \in Nat, NEW k \in Nat,
         j + k <= Len(c), j + k <= Len(d), \A i \in 1..j + k : c[i] = d[i]
  PROVE  SubSeq(c, j + 1, j + k) = SubSeq(d, j + 1, j + k)
<1> DEFINE p == SubSeq(d, j + 1, j + k)
<1>1. p \in Seq(Int) /\ Len(p) = k /\ \A i \in 1..k : p[i] = d[j + i]
  OBVIOUS
<1> HIDE DEF p
<1>2. \A i \in 1..Len(p) : c[j + i] = p[i]
  <2> SUFFICES ASSUME NEW i \in 1..k PROVE c[j + i] = p[i]
    BY <1>1
  <2>1. j + i \in 1..j + k
    OBVIOUS
  <2> QED BY <1>1, <2>1
<1>3. SubSeq(c, j + 1, j + Len(p)) = p
  BY <1>1, <1>2, PartIs
<1> QED BY <1>1, <1>3 DEF p

LEMMA UpToIs ==
  ASSUME NEW s \in Seq(Int), NEW n \in 0..Len(s)
  PROVE  UpTo(s, n) = SubSeq(s, 1, n)
<1>1. Len(s) \in Nat
  BY LenProperties
<1>2. Min({n, Len(s)}) = n
  BY <1>1 DEF Min
<1> QED BY <1>2 DEF UpTo

(* Asking for space changes nothing of what was sent, and leaves what was  *)
(* written where it is if there is still space for it.                     *)
LEMMA SpaceMade ==
  ASSUME SinkTypes, NEW size \in Nat, MakeAppendSpace(size), next' = next
  PROVE  /\ SinkTypes' /\ Sent' = Sent /\ Space' = LentFor(size)
         /\ written \in Nat /\ written' = written /\ written <= Space /\ written <= size =>
              Written' = Written
<1>1. CASE next = "array"
  <2>1. /\ used' = IF size < ArraySize THEN size ELSE ArraySize
        /\ UNCHANGED <<buffer, destination, container, committed>>
    BY <1>1 DEF MakeAppendSpace, Array!MakeAppendSpace, vector
  <2>2. used' \in 0..ArraySize /\ used' = LentFor(size)
    BY <1>1, <2>1 DEF LentFor
  <2> QED BY <1>1, <2>1, <2>2 DEF SinkTypes, Sent, Space, Written
<1>2. CASE next = "container"
  <2>1. /\ container' = Vector!Resized(committed + size) /\ committed' = committed
        /\ UNCHANGED <<buffer, destination, used>>
    BY <1>2 DEF MakeAppendSpace, Vector!MakeAppendSpace, array
  <2>2. /\ committed \in Nat /\ Len(container) \in Nat /\ committed <= Len(container)
        /\ container \in Seq(Int)
    BY DEF SinkTypes
  <2>3. \A i \in 1..Len(container) : container[i] \in Int
    BY <2>2
  <2>4. /\ container' \in Seq(Int) /\ Len(container') = committed + size
        /\ \A i \in 1..committed + size :
             i <= Len(container) => container'[i] = container[i]
    BY <2>1, <2>2, <2>3 DEF Vector!Resized
  <2>5. SubSeq(container', 1, committed) = SubSeq(container, 1, committed)
    <3>1. \A i \in 1..0 + committed : container'[i] = container[i]
      BY <2>2, <2>4
    <3>2. SubSeq(container', 0 + 1, 0 + committed) = SubSeq(container, 0 + 1, 0 + committed)
      BY <2>2, <2>4, <3>1, SameParts
    <3> QED BY <2>2, <3>2
  <2>6. ASSUME written \in Nat, written <= size, written <= Len(container) - committed
        PROVE  SubSeq(container', committed + 1, committed + written)
                 = SubSeq(container, committed + 1, committed + written)
    <3>1. \A i \in 1..committed + written : container'[i] = container[i]
      BY <2>2, <2>4, <2>6
    <3>2. committed + written <= Len(container') /\ committed + written <= Len(container)
      BY <2>2, <2>4, <2>6
    <3> QED BY <2>2, <2>4, <2>6, <3>1, <3>2, SameParts
  <2>7. SinkTypes'
    BY <1>2, <2>1, <2>2, <2>4 DEF SinkTypes
  <2>8. Sent' = Sent
    BY <1>2, <2>1, <2>5 DEF Sent, Vector!Committed
  <2>9. Space' = LentFor(size)
    BY <1>2, <2>1, <2>2, <2>4 DEF Space, Vector!Space, LentFor
  <2>10. ASSUME written \in Nat, written' = written, written <= Space, written <= size
         PROVE  Written' = Written
    <3>1. written <= Len(container) - committed
      BY <1>2, <2>10 DEF Space, Vector!Space
    <3> QED BY <1>2, <2>1, <2>6, <2>10, <3>1 DEF Written
  <2> QED BY <2>7, <2>8, <2>9, <2>10
<1> QED BY <1>1, <1>2 DEF SinkTypes

(* What is written in the space is there. *)
LEMMA SpaceWritten ==
  ASSUME SinkTypes, NEW data \in Seq(Int), Len(data) <= Space,
         WriteSpace(data), next' = next, written' = Len(data)
  PROVE  SinkTypes' /\ Sent' = Sent /\ Space' = Space /\ Written' = data
<1>0. Len(data) \in Nat /\ \A i \in 1..Len(data) : data[i] \in Int
  OBVIOUS
<1>1. CASE next = "array"
  <2>1. /\ buffer' = Array!CopiedInto(data, 0)
        /\ UNCHANGED <<used, destination, container, committed>>
    BY <1>1 DEF WriteSpace, Array!WriteSpace, vector
  <2>2. /\ buffer \in Seq(Int) /\ Len(buffer) = ArraySize
        /\ \A i \in 1..ArraySize : buffer[i] \in Int
    BY ArrayIsSequence DEF SinkTypes
  <2>3. Len(data) <= ArraySize
    BY <1>0, <1>1 DEF SinkTypes, Space
  <2>4. /\ buffer' \in [1..ArraySize -> Int]
        /\ buffer' \in Seq(Int) /\ Len(buffer') = ArraySize
        /\ \A i \in 1..Len(data) : buffer'[i] = data[i]
    BY <1>0, <2>1, <2>2, <2>3 DEF Array!CopiedInto
  <2>5. Written' = data
    <3>1. Len(data) \in 0..Len(buffer')
      BY <1>0, <2>3, <2>4
    <3>2. UpTo(buffer', Len(data)) = SubSeq(buffer', 1, Len(data))
      BY <2>4, <3>1, UpToIs
    <3>3. SubSeq(buffer', 0 + 1, 0 + Len(data)) = data
      <4>1. 0 + Len(data) <= Len(buffer') /\ \A i \in 1..Len(data) : buffer'[0 + i] = data[i]
        BY <1>0, <2>3, <2>4
      <4> QED BY <2>4, <4>1, PartIs
    <3> QED BY <1>0, <1>1, <3>2, <3>3 DEF Written
  <2> QED BY <1>1, <2>1, <2>4, <2>5 DEF SinkTypes, Sent, Space
<1>2. CASE next = "container"
  <2>1. /\ container' = [i \in 1..Len(container) |->
                           IF i \in committed + 1 .. committed + Len(data)
                           THEN data[i - committed] ELSE container[i]]
        /\ UNCHANGED <<committed, buffer, used, destination>>
    BY <1>2 DEF WriteSpace, Vector!WriteSpace, array
  <2>2. /\ committed \in Nat /\ Len(container) \in Nat
        /\ committed + Len(data) <= Len(container)
        /\ container \in Seq(Int) /\ \A i \in 1..Len(container) : container[i] \in Int
    BY <1>0, <1>2 DEF SinkTypes, Space, Vector!Space
  <2>3. /\ container' \in Seq(Int) /\ Len(container') = Len(container)
        /\ \A i \in 1..committed : container'[i] = container[i]
        /\ \A i \in 1..Len(data) : container'[committed + i] = data[i]
    <3>1. \A i \in 1..Len(container) : i \in committed + 1 .. committed + Len(data) =>
            data[i - committed] \in Int
      BY <1>0, <2>2
    <3>2. container' \in Seq(Int) /\ Len(container') = Len(container)
      BY <2>1, <2>2, <3>1
    <3>3. \A i \in 1..committed : container'[i] = container[i]
      BY <1>0, <2>1, <2>2
    <3>4. ASSUME NEW i \in 1..Len(data) PROVE container'[committed + i] = data[i]
      <4>1. /\ committed + i \in 1..Len(container)
            /\ committed + i \in committed + 1 .. committed + Len(data)
            /\ (committed + i) - committed = i
        BY <1>0, <2>2
      <4> QED BY <2>1, <4>1
    <3> QED BY <3>2, <3>3, <3>4
  <2>4. Written' = data
    <3>1. committed + Len(data) <= Len(container')
      BY <2>2, <2>3
    <3>2. SubSeq(container', committed + 1, committed + Len(data)) = data
      BY <2>2, <2>3, <3>1, PartIs
    <3> QED BY <1>2, <2>1, <3>2 DEF Written
  <2>5. SubSeq(container', 0 + 1, 0 + committed) = SubSeq(container, 0 + 1, 0 + committed)
    <3>1. 0 + committed <= Len(container) /\ 0 + committed <= Len(container')
      BY <1>0, <2>2, <2>3
    <3>2. \A i \in 1..0 + committed : container'[i] = container[i]
      BY <2>2, <2>3
    <3> QED BY <2>2, <2>3, <3>1, <3>2, SameParts
  <2>6. Sent' = Sent
    BY <1>2, <2>1, <2>2, <2>5 DEF Sent, Vector!Committed
  <2>7. SinkTypes'
    BY <1>0, <1>2, <2>1, <2>2, <2>3 DEF SinkTypes
  <2> QED BY <1>2, <2>1, <2>3, <2>4, <2>6, <2>7 DEF Space, Vector!Space
<1> QED BY <1>1, <1>2 DEF SinkTypes

(***************************************************************************)
(* Giving the space back, all of which is written: it is sent, or, if the  *)
(* destination fails, a prefix of it is.                                   *)
(***************************************************************************)
LEMMA SpaceSent ==
  ASSUME SinkTypes, written \in Nat, written = Space, failures \in Nat,
         FlushAppendSpace, next' = next
  PROVE  /\ SinkTypes' /\ failures' \in Nat
         /\ Sent \in Seq(Int) /\ Written \in Seq(Int)
         /\ \/ failures' = failures /\ Sent' = Sent \o Written
            \/ /\ failures' # 0
               /\ \E p \in Seq(Int) :
                    /\ Len(p) <= Len(Written) /\ \A i \in 1..Len(p) : p[i] = Written[i]
                    /\ Sent' = Sent \o p
         /\ next = "container" => committed' = Len(container')
<1>1. CASE next = "array"
  <2>1. /\ Array!FlushAppendSpace /\ UNCHANGED <<container, committed>>
        /\ failures' = failures + (IF lent' THEN 1 ELSE 0)
    BY <1>1 DEF FlushAppendSpace, vector
  <2>2. /\ buffer \in Seq(Int) /\ Len(buffer) = ArraySize
        /\ used = written /\ written \in 0..ArraySize
    BY <1>1, ArrayIsSequence DEF SinkTypes, Space
  <2>3. /\ Written = SubSeq(buffer, 1, written)
        /\ SubSeq(buffer, 1, written) \in Seq(Int)
        /\ Len(SubSeq(buffer, 1, written)) = written
        /\ \A i \in 1..written : SubSeq(buffer, 1, written)[i] = buffer[i]
    <3>1. UpTo(buffer, written) = SubSeq(buffer, 1, written)
      BY <2>2, UpToIs
    <3> QED BY <1>1, <2>2, <3>1 DEF Written
  <2>4. Array!Pending = Written
    <3> DEFINE p == Array!Pending
    <3>1. p \in Seq(Int) /\ Len(p) = written /\ \A i \in 1..written : p[i] = buffer[i]
      BY <2>2 DEF Array!Pending, SinkTypes
    <3> HIDE DEF p
    <3>2. Written \in Seq(Int) /\ Len(Written) = written
          /\ \A i \in 1..written : Written[i] = buffer[i]
      BY <2>3
    <3>3. p = Written
      BY <3>1, <3>2, SeqEqual
    <3> QED BY <3>3 DEF p
  <2>5. Written \in Seq(Int) /\ Len(Written) = written /\ destination \in Seq(Int)
    BY <2>3 DEF SinkTypes
  <2>6. PICK sent \in (IF used = 0 THEN {[ok |-> TRUE, taken |-> <<>>]}
                                    ELSE Array!Outcomes(Array!Pending)) :
          /\ destination' = destination \o sent.taken
          /\ used' = IF sent.ok THEN 0 ELSE used
          /\ lent' = ~sent.ok
          /\ buffer' = buffer
    BY <2>1 DEF Array!FlushAppendSpace
  <2>7. \/ sent.ok = TRUE /\ sent.taken = Written
        \/ sent.ok = FALSE /\ \E n \in 0..Len(Written) : sent.taken = SubSeq(Written, 1, n)
    <3>1. CASE used = 0
      <4>1. Written = <<>>
        BY <2>2, <2>5, <3>1, EmptySeq
      <4> QED BY <2>6, <3>1, <4>1
    <3>2. CASE used # 0
      <4>1. Array!Longest(Written) \in 0..Len(Written)
        BY <2>5 DEF Array!Longest
      <4>2. sent \in {[ok |-> TRUE, taken |-> Written]}
               \cup {[ok |-> FALSE, taken |-> SubSeq(Written, 1, n)] :
                        n \in 0..Array!Longest(Written)}
        BY <2>4, <2>6, <3>2 DEF Array!Outcomes
      <4> QED BY <2>5, <4>1, <4>2
    <3> QED BY <3>1, <3>2
  <2>8. Sent = destination /\ Sent' = destination'
    BY <1>1 DEF Sent
  <2>9. CASE sent.ok = TRUE /\ sent.taken = Written
    <3>0. lent' = FALSE
      BY <2>6, <2>9
    <3>1. failures' = failures /\ destination' = destination \o Written /\ used' = 0
      <4>1. failures' = failures + 0
        BY <2>1, <3>0
      <4>2. destination' = destination \o Written /\ used' = 0
        BY <2>6, <2>9
      <4> QED BY <4>1, <4>2
    <3>2. destination' \in Seq(Int)
      BY <2>5, <3>1
    <3>3. SinkTypes'
      BY <1>1, <2>1, <2>6, <3>1, <3>2 DEF SinkTypes
    <3> QED BY <1>1, <2>5, <2>8, <3>1, <3>3
  <2>10. CASE sent.ok = FALSE /\ \E n \in 0..Len(Written) : sent.taken = SubSeq(Written, 1, n)
    <3>1. PICK n \in 0..Len(Written) : sent.taken = SubSeq(Written, 1, n)
      BY <2>10
    <3>2. /\ sent.taken \in Seq(Int) /\ Len(sent.taken) = n /\ n <= Len(Written)
          /\ \A i \in 1..n : sent.taken[i] = Written[i]
      BY <2>5, <3>1
    <3>3. failures' = failures + 1 /\ used' = used
      BY <2>1, <2>6, <2>10
    <3>4. destination' \in Seq(Int)
      BY <2>5, <2>6, <3>2
    <3>5. SinkTypes'
      BY <1>1, <2>1, <2>6, <3>3, <3>4 DEF SinkTypes
    <3>6. failures' # 0 /\ failures' \in Nat
      BY <3>3
    <3> QED BY <1>1, <2>5, <2>6, <2>8, <3>2, <3>5, <3>6
  <2> QED BY <2>7, <2>9, <2>10
<1>2. CASE next = "container"
  <2>1. /\ committed' = Len(container)
        /\ UNCHANGED <<container, buffer, used, destination, failures>>
    BY <1>2 DEF FlushAppendSpace, Vector!FlushAppendSpace, array
  <2>2. /\ committed \in Nat /\ Len(container) \in Nat /\ container \in Seq(Int)
        /\ committed + written = Len(container)
    BY <1>2 DEF SinkTypes, Space, Vector!Space
  <2>3. /\ Sent = SubSeq(container, 1, committed)
        /\ Written = SubSeq(container, committed + 1, Len(container))
        /\ Sent' = SubSeq(container, 1, Len(container))
    BY <1>2, <2>1, <2>2 DEF Sent, Written, Vector!Committed
  <2>4. Sent \in Seq(Int) /\ Written \in Seq(Int)
    BY <2>2, <2>3
  <2>5. Sent' = Sent \o Written
    <3>1. /\ 1 \in 1..Len(container) + 1 /\ committed \in 1 - 1..Len(container)
          /\ Len(container) \in committed..Len(container)
      BY <2>2
    <3> QED BY <2>2, <2>3, <3>1, ConcatAdjacentSubSeq
  <2>6. SinkTypes'
    BY <1>2, <2>1, <2>2 DEF SinkTypes
  <2> QED BY <2>1, <2>4, <2>5, <2>6
<1> QED BY <1>1, <1>2 DEF SinkTypes

-----------------------------------------------------------------------------
(* zlib.                                                                   *)

(* What a call of deflate() that works makes of what zlib has. *)
Worked(r, size, space, flush) ==
  /\ r.takes \in 0..size /\ r.units \in Seq(Int) /\ r.window \in Seq(Int)
  /\ \/ r.units \o r.window = (encoded \o window) \o Following(input, r.takes)
     \/ /\ r.takes = 0 /\ r.window = <<>>
        /\ r.units = (encoded \o window) \o <<Mark>>
  /\ flush = TRUE => Len(r.units) >= space \/ r.window = <<>>

(* The characters go from one of zlib's sequences to the other, new ones   *)
(* come behind them, or a mark.                                            *)
LEMMA WorkIs ==
  ASSUME Types, NEW size \in Nat, NEW space \in Nat, NEW flush \in BOOLEAN,
         NEW r \in Work(size, space, flush)
  PROVE  Worked(r, size, space, flush)
<1> DEFINE all == encoded \o window
<1>0. /\ encoded \in Seq(Int) /\ window \in Seq(Int) /\ input \in Nat
      /\ Len(encoded) \in Nat /\ <<Mark>> \in Seq(Int)
  BY DEF Types, Mark
<1>f. Following(input, 0) = <<>>
  <2>1. \A i \in Int : Following(i, 0) \in Seq(Int) /\ Len(Following(i, 0)) = 0
    BY FollowingIs
  <2>2. input \in Int
    BY <1>0
  <2> QED BY <2>1, <2>2, EmptySeq
<1>a. all \in Seq(Int) /\ Len(all) \in Nat /\ all \o <<>> = all
  <2>1. all \in Seq(Int)
    BY <1>0, ConcatProperties
  <2> HIDE DEF all
  <2> QED BY <2>1, ConcatEmptySeq, LenProperties
<1>1. CASE encoded # <<>> /\ Len(encoded) >= space
  <2>1. r = Result(0, window, encoded)
    BY <1>1 DEF Work
  <2>2. r.takes = 0 /\ r.window = window /\ r.units = encoded
    BY <2>1 DEF Result
  <2>3. r.units \o r.window = all \o Following(input, r.takes)
    BY <1>f, <1>a, <2>2
  <2>4. r.takes \in 0..size /\ r.units \in Seq(Int) /\ r.window \in Seq(Int)
    BY <1>0, <2>2
  <2>5. Len(r.units) >= space
    BY <1>1, <2>2
  <2> QED BY <2>3, <2>4, <2>5 DEF Worked
<1>2. CASE ~(encoded # <<>> /\ Len(encoded) >= space) /\ flush
  <2>2. r = Result(0, <<>>, IF Len(all) < space THEN Append(all, Mark) ELSE all)
    BY <1>2 DEF Work, FlushAll
  <2>3. /\ r.takes = 0 /\ r.window = <<>>
        /\ r.units = IF Len(all) < space THEN Append(all, Mark) ELSE all
    BY <2>2 DEF Result
  <2> HIDE DEF all
  <2>4. Append(all, Mark) = all \o <<Mark>> /\ all \o <<Mark>> \in Seq(Int)
    BY <1>a DEF Mark
  <2>5. CASE Len(all) < space
    <3>1. r.units = all \o <<Mark>> /\ r.units \in Seq(Int)
      BY <2>3, <2>4, <2>5
    <3>2. r.takes \in 0..size /\ r.window = <<>> /\ <<>> \in Seq(Int)
      BY <2>3, EmptySeq
    <3> QED BY <2>3, <3>1, <3>2 DEF Worked, all
  <2>6. CASE ~(Len(all) < space)
    <3>1. r.units \o r.window = all \o Following(input, r.takes)
      BY <1>f, <2>3, <2>6
    <3>2. r.takes \in 0..size /\ r.units \in Seq(Int)
      BY <1>a, <2>3, <2>6
    <3>3. r.window = <<>> /\ <<>> \in Seq(Int)
      BY <2>3, EmptySeq
    <3> QED BY <3>1, <3>2, <3>3 DEF Worked, all
  <2> QED BY <2>5, <2>6
<1>3. CASE ~(encoded # <<>> /\ Len(encoded) >= space) /\ ~flush
  <2>1. r \in Collect(size, space)
    BY <1>3 DEF Work
  <2>2. PICK n \in 0..size :
          \E m \in 0..Len(window \o Following(input, n)) :
            r = Result(n, From(window \o Following(input, n), m),
                       encoded \o UpTo(window \o Following(input, n), m))
    BY <2>1 DEF Collect, Following
  <2> DEFINE f == Following(input, n)
             given == window \o f
  <2>3. f \in Seq(Int) /\ n \in Nat
    BY <1>0, <2>2, FollowingIs
  <2>4. PICK m \in 0..Len(given) :
          r = Result(n, From(given, m), encoded \o UpTo(given, m))
    BY <2>2
  <2> DEFINE u == UpTo(given, m)
             v == From(given, m)
  <2>5. r.takes = n /\ r.window = v /\ r.units = encoded \o u
    BY <2>4 DEF Result
  <2> HIDE DEF f
  <2>6. given \in Seq(Int) /\ m \in Nat
    BY <1>0, <2>3, <2>4
  <2> HIDE DEF given
  <2>7. u \in Seq(Int) /\ v \in Seq(Int) /\ u \o v = given
    BY <2>6, CutInTwo
  <2> HIDE DEF u, v
  <2>8. u \o v = window \o f
    BY <2>7 DEF given
  <2>9. (encoded \o u) \o v = (encoded \o window) \o f
    <3>1. Associates(encoded, u, v) /\ Associates(encoded, window, f)
      BY <1>0, <2>3, <2>7, Associative
    <3> QED BY <2>8, <3>1 DEF Associates
  <2>10. encoded \o u \in Seq(Int)
    BY <1>0, <2>7, ConcatProperties
  <2>11. r.units \o r.window = (encoded \o window) \o Following(input, r.takes)
    BY <2>5, <2>9 DEF f
  <2>12. r.takes \in 0..size /\ r.units \in Seq(Int) /\ r.window \in Seq(Int)
    BY <2>2, <2>5, <2>7, <2>10
  <2>13. flush = TRUE => Len(r.units) >= space \/ r.window = <<>>
    BY <1>3
  <2> QED BY <2>11, <2>12, <2>13 DEF Worked
<1> QED BY <1>1, <1>2, <1>3

-----------------------------------------------------------------------------
(* The stream as a whole.                                                  *)

(* Four sequences, one behind the other. *)
Stack(s, w, e, v) == ((s \o w) \o e) \o v

Stacked(s, w, e, v) ==
  /\ Stack(s, w, e, v) \in Seq(Int)
  /\ Stack(s, w, e, v) = (s \o w) \o (e \o v)
  /\ Stack(s, w, e, v) = Stack(s \o w, <<>>, e, v)
  /\ Stack(s, <<>>, e, v) = s \o (e \o v)

LEMMA StackIs ==
  ASSUME NEW s \in Seq(Int), NEW w \in Seq(Int), NEW e \in Seq(Int), NEW v \in Seq(Int)
  PROVE  Stacked(s, w, e, v)
<1> DEFINE a == s \o w
           b == a \o e
           c == s \o <<>>
<1>1. a \in Seq(Int) /\ a \o <<>> = a /\ c = s
  BY ConcatProperties, ConcatEmptySeq
<1> HIDE DEF a, c
<1>2. b \in Seq(Int)
  BY <1>1, ConcatProperties
<1>3. Associates(a, e, v) /\ Associates(s, e, v)
  BY <1>1, Associative
<1> HIDE DEF b
<1>4. b \o v \in Seq(Int)
  BY <1>2, ConcatProperties
<1> QED BY <1>1, <1>3, <1>4 DEF Stack, Stacked, Associates, a, b, c

(***************************************************************************)
(* What zlib had, e and v, and f behind it, is what it has now and has     *)
(* written: u was written, r is left of the units, n is not encoded.       *)
(***************************************************************************)
Restacks(s, e, v, f, u, r, n) ==
  (u \o r) \o n = (e \o v) \o f => Stack(s, u, r, n) = Stack(s, <<>>, e, v) \o f

LEMMA Restacked ==
  ASSUME NEW s \in Seq(Int), NEW e \in Seq(Int), NEW v \in Seq(Int), NEW f \in Seq(Int),
         NEW u \in Seq(Int), NEW r \in Seq(Int), NEW n \in Seq(Int)
  PROVE  Restacks(s, e, v, f, u, r, n)
<1> DEFINE all == e \o v
           new == r \o n
<1>1. all \in Seq(Int) /\ new \in Seq(Int)
  BY ConcatProperties
<1>2. Stack(s, u, r, n) = (s \o u) \o (r \o n) /\ Stack(s, <<>>, e, v) = s \o (e \o v)
  <2>1. Stacked(s, u, r, n) /\ Stacked(s, u, e, v)
    BY StackIs
  <2> QED BY <2>1 DEF Stacked
<1>3. (u \o r) \o n = u \o new
  <2>1. Associates(u, r, n)
    BY Associative
  <2> QED BY <2>1 DEF Associates
<1> HIDE DEF all, new
<1>4. Associates(s, u, new) /\ Associates(s, all, f)
  BY <1>1, Associative
<1> QED BY <1>2, <1>3, <1>4 DEF Restacks, Associates, all, new

(* What there is of the stream in the sink. *)
LEMMA SinkParts ==
  ASSUME SinkTypes
  PROVE  /\ Sent \in Seq(Int) /\ Space \in Nat
         /\ written \in Nat /\ written <= Space =>
              Written \in Seq(Int) /\ Len(Written) = written
<1>1. CASE next = "array"
  <2>1. buffer \in Seq(Int) /\ Len(buffer) = ArraySize
    BY ArrayIsSequence
  <2>2. Sent \in Seq(Int) /\ Space \in Nat /\ Space <= ArraySize
    BY <1>1 DEF SinkTypes, Sent, Space
  <2>3. ASSUME written \in Nat, written <= Space
        PROVE  Written \in Seq(Int) /\ Len(Written) = written
    <3>1. UpTo(buffer, written) = SubSeq(buffer, 1, written)
      BY <2>1, <2>2, <2>3, UpToIs
    <3> QED BY <1>1, <2>1, <2>2, <2>3, <3>1 DEF Written
  <2> QED BY <2>2, <2>3
<1>2. CASE next = "container"
  <2>1. /\ container \in Seq(Int) /\ committed \in Nat /\ Len(container) \in Nat
        /\ committed <= Len(container) /\ Space = Len(container) - committed
    BY <1>2 DEF SinkTypes, Space, Vector!Space
  <2>2. Sent \in Seq(Int) /\ Space \in Nat
    BY <1>2, <2>1 DEF Sent, Vector!Committed
  <2>3. ASSUME written \in Nat, written <= Space
        PROVE  Written \in Seq(Int) /\ Len(Written) = written
    <3>1. committed + written <= Len(container)
      BY <2>1, <2>3
    <3> QED BY <1>2, <2>1, <2>3, <3>1 DEF Written
  <2> QED BY <2>2, <2>3
<1> QED BY <1>1, <1>2 DEF SinkTypes

-----------------------------------------------------------------------------
(* The invariant holds at first, and every step keeps it.                  *)

LEMMA InitHolds == Init => IInv
<1> SUFFICES ASSUME Init PROVE IInv
  OBVIOUS
<1>1. /\ buffer = [i \in 1..ArraySize |-> 0] /\ used = 0 /\ destination = <<>>
      /\ container = <<>> /\ committed = Len(container)
      /\ next \in {"array", "container"} /\ version \in {"lenient", "strict"}
      /\ window = <<>> /\ encoded = <<>> /\ lastFlush = "never"
      /\ pc = "outside" /\ todo = <<>> /\ rest = 0 /\ read = 0 /\ written = 0
      /\ input = 0 /\ failures = 0
  BY DEF Init, Array!Init, Vector!Init
<1>2. Types
  BY <1>1, EmptySeq DEF Types
<1>3. Rounds /\ Flushed
  BY <1>1 DEF Rounds, Flushed, NothingHeld
<1>4. Sent = <<>>
  BY <1>1, EmptySeq DEF Sent, Vector!Committed
<1>5. OnTheWay = <<>>
  BY <1>1, <1>4, ConcatEmptySeq, EmptySeq DEF OnTheWay
<1>6. Stream
  BY <1>1, <1>5, EmptySeq DEF Stream, Good, Ordered, Whole
<1> QED BY <1>2, <1>3, <1>6 DEF IInv

LEMMA CallKeeps ==
  ASSUME IInv, NEW data \in Calls, Call(data)
  PROVE  IInv'
<1>0. Types /\ Rounds /\ Flushed /\ Stream
  BY DEF IInv
<1>1. /\ pc = "outside" /\ pc' = "lend" /\ data # <<>>
      /\ todo' = data /\ rest' = Size(Head(data))
      /\ UNCHANGED <<array, vector, next, zlib, read, written, failures>>
  BY DEF Call
<1>2. /\ data \in Seq(Nat \cup {FlushElement})
      /\ Head(data) \in Nat \cup {FlushElement}
  BY <1>1, CallsAssumption
<1>3. rest' \in Nat /\ (Head(data) = FlushElement => rest' = 0)
  BY <1>1, <1>2 DEF Size
<1>4. Types'
  BY <1>0, <1>1, <1>2, <1>3 DEF Types, array, vector, zlib
<1>5. Rounds'
  BY <1>0, <1>1, <1>3 DEF Rounds, vector
<1>6. Flushed'
  BY <1>0, <1>1 DEF Flushed, NothingHeld, zlib
<1>7. OnTheWay' = OnTheWay /\ UNCHANGED <<input, failures>>
  BY <1>1 DEF OnTheWay, Sent, Vector!Committed, array, vector, zlib
<1>8. Stream'
  BY <1>0, <1>7 DEF Stream
<1> QED BY <1>4, <1>5, <1>6, <1>8 DEF IInv

(* The types of the sink and those of the rest. *)
LEMMA SplitTypes ==
  Types <=>
    /\ SinkTypes
    /\ window \in Seq(Int) /\ encoded \in Seq(Int)
    /\ todo \in Seq(Nat \cup {FlushElement})
    /\ rest \in Nat /\ read \in Nat /\ written \in Nat
    /\ input \in Nat /\ failures \in Nat
    /\ version \in {"lenient", "strict"}
BY DEF Types, SinkTypes

(* With an array, the container is not touched. *)
LEMMA NotTheContainer ==
  ASSUME next = "array", next' = next,
         \/ \E size : MakeAppendSpace(size)
         \/ \E data : WriteSpace(data)
         \/ FlushAppendSpace
  PROVE  container' = container /\ committed' = committed
BY DEF MakeAppendSpace, WriteSpace, FlushAppendSpace, vector

LEMMA LendKeeps ==
  ASSUME IInv, Lend
  PROVE  IInv'
<1>0. Types /\ Rounds /\ Flushed /\ Stream /\ SinkTypes
  BY SplitTypes DEF IInv
<1>1. /\ pc = "lend" /\ pc' = "deflate"
      /\ MakeAppendSpace(Max({rest, MinSpace}))
      /\ UNCHANGED <<next, zlib, todo, rest, read, written, failures>>
  BY DEF Lend
<1>2. Larger(rest) \in Nat /\ Max({rest, MinSpace}) = Larger(rest)
  <2>1. rest \in Int /\ rest \in Nat /\ MinSpace \in Int /\ MinSpace \in Nat
    BY <1>0 DEF Types
  <2> QED BY <2>1, OfTwo DEF Larger
<1>3. SinkTypes' /\ Sent' = Sent /\ Space' = LentFor(Larger(rest))
  BY <1>0, <1>1, <1>2, SpaceMade
<1>4. Types'
  BY <1>0, <1>1, <1>3 DEF Types, SinkTypes, zlib
<1>5. Rounds'
  <2>1. next = "array" => committed' = Len(container')
    BY <1>0, <1>1, NotTheContainer DEF Rounds
  <2>2. Space' = LentFor(Larger(rest))'
    BY <1>1, <1>3 DEF LentFor, Larger
  <2> QED BY <1>0, <1>1, <2>1, <2>2 DEF Rounds
<1>6. Flushed'
  BY <1>0, <1>1 DEF Flushed, NothingHeld, zlib
<1>7. OnTheWay' = OnTheWay /\ UNCHANGED <<input, failures>>
  BY <1>1, <1>3 DEF OnTheWay, zlib
<1>8. Stream'
  BY <1>0, <1>7 DEF Stream
<1> QED BY <1>4, <1>5, <1>6, <1>8 DEF IInv

LEMMA TrimKeeps ==
  ASSUME IInv, Trim
  PROVE  IInv'
<1>0. Types /\ Rounds /\ Flushed /\ Stream /\ SinkTypes
  BY SplitTypes DEF IInv
<1>1. /\ pc = "trim" /\ pc' = "send"
      /\ MakeAppendSpace(written)
      /\ UNCHANGED <<next, zlib, todo, rest, read, written, failures>>
  BY DEF Trim
<1>2. written \in Nat /\ written <= Space
  BY <1>0, <1>1 DEF Types, Rounds
<1>3. SinkTypes' /\ Sent' = Sent /\ Space' = LentFor(written) /\ Written' = Written
  BY <1>0, <1>1, <1>2, SpaceMade
<1>4. Types'
  BY <1>0, <1>1, <1>3 DEF Types, SinkTypes, zlib
<1>5. Rounds'
  <2>1. next = "array" => committed' = Len(container')
    BY <1>0, <1>1, NotTheContainer DEF Rounds
  <2>2. LentFor(written) = written
    BY <1>0, <1>2 DEF LentFor, Space, SinkTypes
  <2>3. written' = Space'
    BY <1>1, <1>3, <2>2
  <2> QED BY <1>0, <1>1, <2>1, <2>3 DEF Rounds
<1>6. Flushed'
  BY <1>0, <1>1 DEF Flushed, NothingHeld, LentFor, zlib
<1>7. OnTheWay' = OnTheWay /\ UNCHANGED <<input, failures>>
  BY <1>1, <1>3 DEF OnTheWay, zlib
<1>8. Stream'
  BY <1>0, <1>7 DEF Stream
<1> QED BY <1>4, <1>5, <1>6, <1>8 DEF IInv

(* A round whose output is gone, or lost in part. *)
LEMMA SendKeeps ==
  ASSUME IInv, Send
  PROVE  IInv'
<1>0. Types /\ Rounds /\ Flushed /\ Stream /\ SinkTypes
  BY SplitTypes DEF IInv
<1>1. /\ pc = "send" /\ FlushAppendSpace
      /\ UNCHANGED <<next, zlib, read, written>>
  BY DEF Send
<1>2. /\ written \in Nat /\ written = Space /\ failures \in Nat /\ input \in Nat
      /\ encoded \in Seq(Int) /\ window \in Seq(Int)
      /\ todo \in Seq(Nat \cup {FlushElement}) /\ todo # <<>>
      /\ rest \in Nat /\ read \in Nat /\ read <= rest
      /\ Head(todo) = FlushElement => rest = 0
  BY <1>0, <1>1 DEF Types, Rounds
<1>3. /\ SinkTypes' /\ failures' \in Nat /\ Sent \in Seq(Int) /\ Written \in Seq(Int)
      /\ next = "container" => committed' = Len(container')
  BY <1>0, <1>1, <1>2, SpaceSent
<1>4. /\ rest' \in Nat /\ todo' \in Seq(Nat \cup {FlushElement})
      /\ pc' \in {"outside", "lend"}
      /\ pc' = "lend" => todo' # <<>> /\ (Head(todo') = FlushElement => rest' = 0)
  <2>1. CASE read < rest /\ rest' = rest - read /\ pc' = "lend" /\ todo' = todo
    BY <1>2, <2>1
  <2>2. CASE /\ todo' = Tail(todo)
             /\ rest' = IF todo' = <<>> THEN 0 ELSE Size(Head(todo'))
             /\ pc' = IF todo' = <<>> THEN "outside" ELSE "lend"
    <3>1. todo' \in Seq(Nat \cup {FlushElement})
      BY <1>2, <2>2
    <3>2. CASE todo' = <<>>
      BY <2>2, <3>1, <3>2
    <3>3. CASE todo' # <<>>
      <4>1. Head(todo') \in Nat \cup {FlushElement}
        BY <3>1, <3>3
      <4> QED BY <2>2, <3>1, <3>3, <4>1 DEF Size
    <3> QED BY <3>2, <3>3
  <2> QED BY <2>1, <2>2 DEF Send
<1>5. Types'
  BY <1>0, <1>1, <1>3, <1>4 DEF Types, SinkTypes, zlib
<1>6. Rounds'
  <2>1. next = "array" => committed' = Len(container')
    BY <1>0, <1>1, NotTheContainer DEF Rounds
  <2>2. committed' = Len(container')
    BY <1>0, <1>3, <2>1 DEF Types
  <2> QED BY <1>1, <1>4, <2>2 DEF Rounds
<1>7. Flushed'
  BY <1>0, <1>1, <1>4 DEF Flushed, NothingHeld, zlib
<1>8. /\ OnTheWay = Stack(Sent, Written, encoded, window)
      /\ OnTheWay' = Stack(Sent', <<>>, encoded, window)
      /\ input' = input
  <2>1. OnTheWay = Stack(Sent, Written, encoded, window)
    BY <1>1 DEF OnTheWay, Stack
  <2>2. OnTheWay' = Stack(Sent', <<>>, encoded, window)
    BY <1>1, <1>4 DEF OnTheWay, Stack, zlib
  <2> QED BY <1>1, <2>1, <2>2 DEF zlib
<1>9. Stream'
  <2> DEFINE back == encoded \o window
  <2>0. back \in Seq(Int)
    BY <1>2, ConcatProperties
  <2>1. CASE failures' = failures /\ Sent' = Sent \o Written
    <3>1. Stacked(Sent, Written, encoded, window)
      BY <1>2, <1>3, StackIs
    <3>2. OnTheWay' = OnTheWay
      BY <1>8, <2>1, <3>1 DEF Stacked
    <3> QED BY <1>0, <1>8, <2>1, <3>2 DEF Stream
  <2>2. CASE /\ failures' # 0
             /\ \E p \in Seq(Int) :
                  /\ Len(p) <= Len(Written) /\ \A i \in 1..Len(p) : p[i] = Written[i]
                  /\ Sent' = Sent \o p
    <3>1. PICK p \in Seq(Int) :
            /\ Len(p) <= Len(Written) /\ \A i \in 1..Len(p) : p[i] = Written[i]
            /\ Sent' = Sent \o p
      BY <2>2
    <3>2. Stacked(Sent, Written, encoded, window) /\ Stacked(Sent, p, encoded, window)
      BY <1>2, <1>3, StackIs
    <3>3. OnTheWay = (Sent \o Written) \o back /\ OnTheWay' = (Sent \o p) \o back
      BY <1>8, <3>1, <3>2 DEF Stacked
    <3> HIDE DEF back
    <3>4. Good((Sent \o Written) \o back, input)
      BY <1>0, <3>3 DEF Stream
    <3>5. Good((Sent \o p) \o back, input)
      BY <1>2, <1>3, <2>0, <3>1, <3>4, Shortened
    <3>6. Good(OnTheWay', input')
      BY <1>8, <3>3, <3>5
    <3> QED BY <2>2, <3>6 DEF Stream
  <2> QED BY <1>0, <1>1, <1>2, <2>1, <2>2, SpaceSent
<1> QED BY <1>5, <1>6, <1>7, <1>9 DEF IInv

(* A part of a sequence of no length. *)
LEMMA NoPart ==
  ASSUME NEW s \in Seq(Int), NEW j \in Nat
  PROVE  UpTo(s, 0) = <<>> /\ SubSeq(s, j + 1, j + 0) = <<>>
<1>1. Len(s) \in Nat
  BY LenProperties
<1>2. Min({0, Len(s)}) = 0
  BY <1>1 DEF Min
<1> QED BY <1>2 DEF UpTo

(* A call of deflate() that does nothing. *)
LEMMA DeflateDoesNothing ==
  ASSUME IInv, pc = "deflate", pc' = "trim", read' = 0, written' = 0,
         UNCHANGED <<array, vector, window, encoded, input, version, next, todo, rest, failures>>,
         \/ NothingHeld
         \/ version # "strict" /\ lastFlush' # "full" /\ Head(todo) # FlushElement
  PROVE  IInv'
<1>0. Types /\ Rounds /\ Flushed /\ Stream /\ SinkTypes
  BY SplitTypes DEF IInv
<1>1. Types'
  BY <1>0 DEF Types, array, vector
<1>2. Space' = Space /\ Space \in Nat
  BY <1>0, SinkParts DEF Space, Vector!Space, array, vector
<1>3. Rounds'
  BY <1>0, <1>2 DEF Rounds, Types, vector
<1>4. Flushed'
  BY DEF Flushed, NothingHeld
<1>5. Sent' = Sent /\ Written' = <<>>
  <2>1. Sent' = Sent
    BY DEF Sent, Vector!Committed, array, vector
  <2>2. Written' = IF next = "array" THEN UpTo(buffer, 0)
                   ELSE SubSeq(container, committed + 1, committed + 0)
    BY DEF Written, array, vector
  <2>3. buffer \in Seq(Int) /\ container \in Seq(Int) /\ committed \in Nat
    BY <1>0, ArrayIsSequence DEF SinkTypes
  <2>4. UpTo(buffer, 0) = <<>> /\ SubSeq(container, committed + 1, committed + 0) = <<>>
    BY <2>3, NoPart
  <2> QED BY <2>1, <2>2, <2>4
<1>6. OnTheWay' = OnTheWay
  BY <1>5 DEF OnTheWay
<1>7. Stream'
  BY <1>0, <1>6 DEF Stream
<1> QED BY <1>1, <1>3, <1>4, <1>7 DEF IInv

(* The call of deflate() that works: what it takes comes behind the stream *)
(* as it was, or a mark does.                                              *)
LEMMA DeflateWorks ==
  ASSUME IInv, pc = "deflate", pc' = "trim", version = "lenient",
         NEW flush \in BOOLEAN, flush = TRUE <=> Head(todo) = FlushElement,
         NEW r \in Work(rest, Space, flush),
         WriteSpace(UpTo(r.units, Space)),
         window' = r.window, encoded' = From(r.units, Space),
         lastFlush' = IF Len(r.units) >= Space THEN "cut" ELSE IF flush = TRUE THEN "full" ELSE "none",
         read' = r.takes, input' = input + r.takes,
         written' = Min({Len(r.units), Space}),
         UNCHANGED <<version, next, todo, rest, failures>>
  PROVE  IInv'
<1> DEFINE out == UpTo(r.units, Space)
           left == From(r.units, Space)
<1>0. Types /\ Rounds /\ Flushed /\ Stream /\ SinkTypes
  BY SplitTypes DEF IInv
<1>1. /\ rest \in Nat /\ Space \in Nat /\ Sent \in Seq(Int) /\ input \in Nat
      /\ encoded \in Seq(Int) /\ window \in Seq(Int)
      /\ todo # <<>> /\ (Head(todo) = FlushElement => rest = 0)
      /\ Space = LentFor(Larger(rest))
  BY <1>0, SinkParts DEF Types, Rounds
<1>a. Worked(r, rest, Space, flush)
  BY <1>0, <1>1, WorkIs
<1>2. r.takes \in 0..rest /\ r.units \in Seq(Int) /\ r.window \in Seq(Int)
  BY <1>a DEF Worked
<1>3. \/ r.units \o r.window = (encoded \o window) \o Following(input, r.takes)
      \/ /\ r.takes = 0 /\ r.window = <<>>
         /\ r.units = (encoded \o window) \o <<Mark>>
  BY <1>a DEF Worked
<1>4. flush = TRUE => Len(r.units) >= Space \/ r.window = <<>>
  BY <1>a DEF Worked
<1>5. /\ out \in Seq(Int) /\ left \in Seq(Int) /\ out \o left = r.units
      /\ Len(r.units) \in Nat
      /\ Len(out) = IF Space <= Len(r.units) THEN Space ELSE Len(r.units)
      /\ Space >= Len(r.units) => left = <<>>
  <2> DEFINE units == r.units
             space == Space
  <2>1. units \in Seq(Int) /\ space \in Nat
    BY <1>1, <1>2
  <2> HIDE DEF units, space
  <2>2. /\ UpTo(units, space) \in Seq(Int) /\ From(units, space) \in Seq(Int)
        /\ UpTo(units, space) \o From(units, space) = units
        /\ Len(units) \in Nat
        /\ Len(UpTo(units, space)) = IF space <= Len(units) THEN space ELSE Len(units)
        /\ space >= Len(units) => From(units, space) = <<>>
    BY <2>1, CutInTwo, LenProperties
  <2> QED BY <2>2 DEF units, space
<1>6. written' = Len(out) /\ Len(out) <= Space
  BY <1>1, <1>5 DEF Min
<1> HIDE DEF out, left
<1>7. SinkTypes' /\ Sent' = Sent /\ Space' = Space /\ Written' = out
  <2>1. WriteSpace(out)
    BY DEF out
  <2> QED BY <1>0, <1>5, <1>6, <2>1, SpaceWritten
<1>8. Types'
  <2>1. window' \in Seq(Int) /\ encoded' \in Seq(Int)
    BY <1>2, <1>5 DEF left
  <2>2. read' \in Nat /\ input' \in Nat
    BY <1>1, <1>2
  <2>3. written' \in Nat
    BY <1>1, <1>5, <1>6
  <2> QED BY <1>0, <1>7, <2>1, <2>2, <2>3 DEF Types, SinkTypes
<1>9. Rounds'
  <2>1. next = "array" => committed' = Len(container')
    BY <1>0, NotTheContainer DEF Rounds
  <2>2. read' <= rest' /\ written' <= Space'
    BY <1>1, <1>2, <1>6, <1>7
  <2> QED BY <1>0, <1>1, <2>1, <2>2 DEF Rounds
<1>10. Flushed'
  <2>1. CASE flush = TRUE /\ Len(r.units) >= Space
    <3>1. rest = 0 /\ Larger(rest) = MinSpace
      BY <1>1, <2>1 DEF Larger
    <3>2. written' = LentFor(MinSpace)
      BY <1>1, <1>5, <1>6, <2>1, <3>1
    <3>3. (written = LentFor(MinSpace))'
      BY <3>2 DEF LentFor
    <3> QED BY <2>1, <3>3 DEF Flushed
  <2>2. CASE flush = TRUE /\ ~(Len(r.units) >= Space)
    <3>1. window' = <<>> /\ encoded' = <<>>
      BY <1>1, <1>4, <1>5, <2>2 DEF left
    <3> QED BY <3>1 DEF Flushed, NothingHeld
  <2>3. CASE ~(flush = TRUE)
    BY <2>3 DEF Flushed
  <2> QED BY <2>1, <2>2, <2>3
<1>11. /\ OnTheWay = Stack(Sent, <<>>, encoded, window)
       /\ OnTheWay' = Stack(Sent, out, left, r.window)
  <2>1. OnTheWay = Stack(Sent, <<>>, encoded, window)
    BY DEF OnTheWay, Stack
  <2>2. OnTheWay' = Stack(Sent, out, left, r.window)
    BY <1>7 DEF OnTheWay, Stack, left
  <2> QED BY <2>1, <2>2
<1>12. OnTheWay \in Seq(Int)
  <2>1. <<>> \in Seq(Int)
    OBVIOUS
  <2>2. Stacked(Sent, <<>>, encoded, window)
    BY <1>1, <2>1, StackIs
  <2> QED BY <1>11, <2>2 DEF Stacked
<1>13. CASE r.units \o r.window = (encoded \o window) \o Following(input, r.takes)
  <2>1. Following(input, r.takes) \in Seq(Int)
    <3>1. input \in Int /\ r.takes \in Nat
      BY <1>1, <1>2
    <3> QED BY <3>1, FollowingIs
  <2>2. Restacks(Sent, encoded, window, Following(input, r.takes), out, left, r.window)
    BY <1>1, <1>2, <1>5, <2>1, Restacked
  <2>3. OnTheWay' = OnTheWay \o Following(input, r.takes)
    BY <1>5, <1>11, <1>13, <2>2 DEF Restacks
  <2>4. /\ Good(OnTheWay, input) =>
             Good(OnTheWay \o Following(input, r.takes), input + r.takes)
        /\ Whole(OnTheWay, input) =>
             Whole(OnTheWay \o Following(input, r.takes), input + r.takes)
    <3> DEFINE before == OnTheWay
               m == r.takes
    <3>1. before \in Seq(Int) /\ m \in Nat
      BY <1>2, <1>12
    <3> HIDE DEF before, m
    <3>2. /\ Good(before, input) => Good(before \o Following(input, m), input + m)
          /\ Whole(before, input) => Whole(before \o Following(input, m), input + m)
      BY <1>1, <3>1, Grows
    <3> QED BY <3>2 DEF before, m
  <2>5. Stream'
    BY <1>0, <2>3, <2>4 DEF Stream
  <2> QED BY <1>8, <1>9, <1>10, <2>5 DEF IInv
<1>14. CASE /\ r.takes = 0 /\ r.window = <<>>
            /\ r.units = (encoded \o window) \o <<Mark>>
  <2>1. <<Mark>> \in Seq(Int)
    BY DEF Mark
  <2>2. Restacks(Sent, encoded, window, <<Mark>>, out, left, r.window)
    BY <1>1, <1>2, <1>5, <2>1, Restacked
  <2>3. OnTheWay' = OnTheWay \o <<Mark>>
    <3>1. r.units \o r.window = r.units
      BY <1>2, <1>14, ConcatEmptySeq
    <3> QED BY <1>5, <1>11, <1>14, <2>2, <3>1 DEF Restacks
  <2>4. /\ Good(OnTheWay, input) => Good(OnTheWay \o <<Mark>>, input)
        /\ Whole(OnTheWay, input) => Whole(OnTheWay \o <<Mark>>, input)
    <3> DEFINE before == OnTheWay
    <3>1. before \in Seq(Int)
      BY <1>12
    <3> HIDE DEF before
    <3>2. /\ Good(before, input) => Good(before \o <<Mark>>, input)
          /\ Whole(before, input) => Whole(before \o <<Mark>>, input)
      BY <1>1, <3>1, Marked
    <3> QED BY <3>2 DEF before
  <2>5. input' = input
    BY <1>1, <1>14
  <2>6. Stream'
    BY <1>0, <2>3, <2>4, <2>5 DEF Stream
  <2> QED BY <1>8, <1>9, <1>10, <2>6 DEF IInv
<1> QED BY <1>3, <1>13, <1>14

LEMMA DeflateKeeps ==
  ASSUME IInv, Deflate
  PROVE  IInv'
<1> DEFINE flush == Head(todo) = FlushElement
<1>0. Rounds /\ Flushed /\ pc = "deflate" /\ pc' = "trim"
  BY DEF IInv, Deflate
<1>1. UNCHANGED <<version, next, todo, rest, failures>>
  BY DEF Deflate
<1>2. CASE /\ version = "strict" /\ read' = 0 /\ written' = 0
           /\ UNCHANGED <<array, vector, window, encoded, lastFlush, input>>
  <2>1. NothingHeld
    BY <1>0, <1>2 DEF Flushed
  <2> QED BY <1>0, <1>1, <1>2, <2>1, DeflateDoesNothing
<1>3. CASE /\ version = "lenient" /\ NoProgress(rest, flush) /\ read' = 0 /\ written' = 0
           /\ lastFlush' = IF flush THEN "full" ELSE "none"
           /\ UNCHANGED <<array, vector, window, encoded, input>>
  <2>1. CASE flush
    <3>1. NothingHeld
      BY <1>0, <1>3, <2>1 DEF NoProgress, Flushed
    <3> QED BY <1>0, <1>1, <1>3, <3>1, DeflateDoesNothing
  <2>2. CASE ~flush
    <3>1. version # "strict" /\ lastFlush' # "full" /\ Head(todo) # FlushElement
      BY <1>3, <2>2
    <3> QED BY <1>0, <1>1, <1>3, <3>1, DeflateDoesNothing
  <2> QED BY <2>1, <2>2
<1>4. CASE /\ version = "lenient"
           /\ \E r \in Work(rest, Space, flush) :
                 /\ WriteSpace(UpTo(r.units, Space))
                 /\ window' = r.window /\ encoded' = From(r.units, Space)
                 /\ lastFlush' = IF Len(r.units) >= Space THEN "cut"
                                 ELSE IF flush THEN "full" ELSE "none"
                 /\ read' = r.takes /\ input' = input + r.takes
                 /\ written' = Min({Len(r.units), Space})
  <2>1. PICK r \in Work(rest, Space, flush) :
                 /\ WriteSpace(UpTo(r.units, Space))
                 /\ window' = r.window /\ encoded' = From(r.units, Space)
                 /\ lastFlush' = IF Len(r.units) >= Space THEN "cut"
                                 ELSE IF flush THEN "full" ELSE "none"
                 /\ read' = r.takes /\ input' = input + r.takes
                 /\ written' = Min({Len(r.units), Space})
    BY <1>4
  <2>2. CASE Head(todo) = FlushElement
    <3>1. r \in Work(rest, Space, TRUE)
      BY <2>2 DEF Work
    <3> QED BY <1>0, <1>1, <1>4, <2>1, <2>2, <3>1, DeflateWorks
  <2>3. CASE Head(todo) # FlushElement
    <3>1. r \in Work(rest, Space, FALSE)
      BY <2>3 DEF Work
    <3> QED BY <1>0, <1>1, <1>4, <2>1, <2>3, <3>1, DeflateWorks
  <2> QED BY <2>2, <2>3
<1> QED BY <1>0, <1>1, <1>2, <1>3, <1>4 DEF Deflate

LEMMA StepKeeps == IInv /\ [Next]_vars => IInv'
<1> SUFFICES ASSUME IInv, [Next]_vars PROVE IInv'
  OBVIOUS
<1>1. CASE Next
  BY <1>1, CallKeeps, LendKeeps, DeflateKeeps, TrimKeeps, SendKeeps DEF Next, Step
<1>2. CASE UNCHANGED vars
  <2>0. Types /\ Rounds /\ Flushed /\ Stream
    BY DEF IInv
  <2>1. Types'
    BY <1>2, <2>0 DEF Types, vars, array, vector, zlib
  <2>2. Rounds' /\ Flushed'
    BY <1>2, <2>0 DEF Rounds, Flushed, NothingHeld, Space, Vector!Space, LentFor, Larger,
                      vars, array, vector, zlib
  <2>3. OnTheWay' = OnTheWay /\ UNCHANGED <<input, failures>>
    BY <1>2 DEF OnTheWay, Sent, Written, Vector!Committed, vars, array, vector, zlib
  <2>4. Stream'
    BY <2>0, <2>3 DEF Stream
  <2> QED BY <2>1, <2>2, <2>4 DEF IInv
<1> QED BY <1>1, <1>2

(* What arrives is in order, nothing twice or made up, and nothing missing *)
(* until a flush_append_space() fails: for every size of the array and of  *)
(* the space, whatever is appended, and however zlib cuts its work.        *)
THEOREM DeflatedCorrect == Spec => []DeflatedInOrder
<1>1. IInv => DeflatedInOrder
  <2> SUFFICES ASSUME IInv PROVE DeflatedInOrder
    OBVIOUS
  <2>1. Good(OnTheWay, input) /\ (failures = 0 => Whole(OnTheWay, input))
    BY DEF IInv, Stream
  <2>2. pc = "outside" => container = Vector!Committed
    <3>1. container \in Seq(Int) /\ (pc = "outside" => committed = Len(container))
      BY DEF IInv, Types, Rounds
    <3>2. SubSeq(container, 1, Len(container)) = container
      BY <3>1
    <3> QED BY <3>1, <3>2 DEF Vector!Committed
  <2> QED BY <2>1, <2>2 DEF DeflatedInOrder, Good, Whole
<1> QED BY <1>1, InitHolds, StepKeeps, PTL DEF Spec

(* A flush that does not fill the space leaves nothing in zlib: for every  *)
(* size of the array and of the space, and every sequence of calls.        *)
THEOREM FlushCorrect == Spec => []FlushIsComplete
<1>1. IInv => FlushIsComplete
  <2> SUFFICES ASSUME IInv, pc = "send", Head(todo) = FlushElement
               PROVE  \/ window = <<>> /\ encoded = <<>>
                      \/ written = IF next = "array" THEN Min({MinSpace, ArraySize}) ELSE MinSpace
    BY DEF FlushIsComplete
  <2>1. NothingHeld \/ written = LentFor(MinSpace)
    BY DEF IInv, Flushed
  <2>2. LentFor(MinSpace) = IF next = "array" THEN Min({MinSpace, ArraySize}) ELSE MinSpace
    BY DEF LentFor, Min
  <2> QED BY <2>1, <2>2 DEF NothingHeld
<1> QED BY <1>1, InitHolds, StepKeeps, PTL DEF Spec

=============================================================================
