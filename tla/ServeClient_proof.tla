-------------------------- MODULE ServeClient_proof --------------------------
(***************************************************************************)
(* Proof that the server implements Reply, for every request, every answer *)
(* in pieces of any size, and any size of the sink's array.  What counts   *)
(* is the sink: as long as no write has failed, the socket and the array   *)
(* have together exactly the pieces that were given to the sink.           *)
(***************************************************************************)
EXTENDS ServeClient, SequenceTheorems, WellFoundedInduction, TLAPS

USE PiecesAssumption, ArrayAssumption

-----------------------------------------------------------------------------
(* Induction.                                                              *)

LEMMA SetInduction ==
  ASSUME NEW T \in SUBSET Nat, 0 \in T, \A n \in T : n + 1 \in T
  PROVE  T = Nat
<1> SUFFICES ASSUME Nat \ T # {} PROVE FALSE
  OBVIOUS
<1> DEFINE less == OpToRel(<, Nat)
<1>1. IsWellFoundedOn(less, Nat)
  BY NatLessThanWellFounded
<1>2. \A x, y \in Nat : x < y => <<x, y>> \in less
  BY DEF OpToRel
<1> HIDE DEF less
<1>3. PICK n \in Nat \ T : \A m \in Nat \ T : ~(<<m, n>> \in less)
  BY <1>1, WFMin
<1>4. n # 0 /\ n - 1 \in Nat /\ n - 1 < n /\ (n - 1) + 1 = n
  BY <1>3
<1>5. n - 1 \in T
  BY <1>2, <1>3, <1>4
<1> QED
  BY <1>3, <1>4, <1>5

-----------------------------------------------------------------------------
(* The answer.                                                             *)

Char == Nat \ {0}

(* The table of FlattenSeq for the first k pieces. *)
Joining(f, k) ==
  /\ f \in [1..k -> Seq(Char)]
  /\ \A i \in 1..k : f[i] = IF i = 1 THEN Pieces[1] ELSE f[i - 1] \o Pieces[i]

LEMMA JoiningExists == \A k \in Nat : k <= Len(Pieces) => \E f : Joining(f, k)
<1> DEFINE T == {k \in Nat : k <= Len(Pieces) => \E f : Joining(f, k)}
<1>1. 0 \in T
  <2> DEFINE f == [i \in 1..0 |-> <<>>]
  <2>1. Joining(f, 0)
    BY DEF Joining
  <2> QED
    BY <2>1
<1>2. ASSUME NEW k \in T PROVE k + 1 \in T
  <2> SUFFICES ASSUME k + 1 <= Len(Pieces) PROVE \E f : Joining(f, k + 1)
    OBVIOUS
  <2>1. k \in Nat /\ k <= Len(Pieces) /\ k + 1 \in 1..Len(Pieces) /\ Len(Pieces) \in Nat
    OBVIOUS
  <2>2. PICK f : Joining(f, k)
    BY <2>1
  <2> DEFINE next == IF k = 0 THEN Pieces[1] ELSE f[k] \o Pieces[k + 1]
             g == [i \in 1..k + 1 |-> IF i = k + 1 THEN next ELSE f[i]]
  <2>3. next \in Seq(Char)
    <3>1. Pieces[k + 1] \in Seq(Char)
      BY <2>1 DEF Char
    <3>2. CASE k = 0
      BY <3>1, <3>2
    <3>3. CASE k # 0
      <4>1. f[k] \in Seq(Char)
        BY <2>1, <2>2, <3>3 DEF Joining
      <4> QED
        BY <3>1, <3>3, <4>1
    <3> QED
      BY <3>2, <3>3
  <2>4. \A i \in 1..k : f[i] \in Seq(Char)
    BY <2>2 DEF Joining
  <2> HIDE DEF next
  <2>5. g \in [1..k + 1 -> Seq(Char)]
    <3>1. \A i \in 1..k + 1 : (IF i = k + 1 THEN next ELSE f[i]) \in Seq(Char)
      BY <2>1, <2>3, <2>4
    <3> QED
      BY <3>1
  <2>6. ASSUME NEW i \in 1..k + 1
        PROVE  g[i] = IF i = 1 THEN Pieces[1] ELSE g[i - 1] \o Pieces[i]
    <3>1. CASE i = k + 1 /\ k = 0
      BY <3>1 DEF next
    <3>2. CASE i = k + 1 /\ k # 0
      <4>1. k \in 1..k + 1 /\ k # k + 1 /\ i - 1 = k
        BY <2>1, <3>2
      <4>2. g[i - 1] = f[k] /\ g[i] = next
        BY <3>2, <4>1
      <4>3. i # 1
        BY <2>1, <3>2
      <4> QED
        BY <3>2, <4>2, <4>3 DEF next
    <3>3. CASE i # k + 1
      <4>1. i \in 1..k /\ (i # 1 => i - 1 \in 1..k + 1 /\ i - 1 # k + 1)
        BY <2>1, <3>3
      <4>2. g[i] = f[i] /\ (i # 1 => g[i - 1] = f[i - 1])
        BY <3>3, <4>1
      <4>3. f[i] = IF i = 1 THEN Pieces[1] ELSE f[i - 1] \o Pieces[i]
        BY <2>2, <4>1 DEF Joining
      <4> QED
        BY <4>2, <4>3
    <3> QED
      BY <3>1, <3>2, <3>3
  <2> HIDE DEF g
  <2>7. Joining(g, k + 1)
    BY <2>5, <2>6 DEF Joining
  <2> QED
    BY <2>7
<1> HIDE DEF T
<1>3. T \in SUBSET Nat
  BY DEF T
<1>4. T = Nat
  BY <1>1, <1>2, <1>3, SetInduction
<1> QED
  BY <1>4 DEF T

(* The first n pieces, put together. *)
Given(n) == IF n = 0 THEN <<>> ELSE (CHOOSE f : Joining(f, Len(Pieces)))[n]

LEMMA GivenIs ==
  /\ Given(0) = <<>>
  /\ \A n \in 0..Len(Pieces) : Given(n) \in Seq(Char)
  /\ \A n \in 0..(Len(Pieces) - 1) : Given(n + 1) = Given(n) \o Pieces[n + 1]
  /\ Given(Len(Pieces)) = Response
<1> DEFINE L == Len(Pieces)
           g == CHOOSE f : Joining(f, L)
           Body(f) == [i \in 1..L |-> IF i = 1 THEN Pieces[i] ELSE f[i - 1] \o Pieces[i]]
           flatten == CHOOSE f : f = Body(f)
<1>1. L \in Nat /\ L # 0
  OBVIOUS
<1>2. Joining(g, L)
  <2>0. L <= L
    BY <1>1
  <2>1. \E f : Joining(f, L)
    BY <1>1, <2>0, JoiningExists, Zenon
  <2> HIDE DEF L
  <2> QED
    BY <2>1
<1>3. Given(0) = <<>> /\ \A n \in 1..L : Given(n) = g[n]
  BY DEF Given
<1>4. Response = flatten[L]
  BY <1>1 DEF Response, FlattenSeq
<1> HIDE DEF g
<1>5. /\ DOMAIN g = 1..L
      /\ \A i \in 1..L : g[i] \in Seq(Char)
      /\ \A i \in 1..L : g[i] = IF i = 1 THEN Pieces[1] ELSE g[i - 1] \o Pieces[i]
      /\ g \in [1..L -> Seq(Char)]
  BY <1>2 DEF Joining
<1>6. g = Body(g)
  <2>1. g = [i \in 1..L |-> g[i]]
    BY <1>5
  <2> QED
    BY <1>5, <2>1
<1>7. flatten = Body(flatten)
  BY <1>6
<1> HIDE DEF flatten
<1>8. \A i \in 1..L : flatten[i] = IF i = 1 THEN Pieces[i] ELSE flatten[i - 1] \o Pieces[i]
  BY <1>7
<1> DEFINE T == {k \in Nat : k + 1 <= L => flatten[k + 1] = g[k + 1]}
<1>9. 0 \in T
  <2>1. 1 \in 1..L /\ 0 + 1 = 1
    BY <1>1
  <2>2. flatten[1] = Pieces[1] /\ g[1] = Pieces[1]
    BY <1>5, <1>8, <2>1
  <2> QED
    BY <2>1, <2>2
<1>10. ASSUME NEW k \in T PROVE k + 1 \in T
  <2> SUFFICES ASSUME (k + 1) + 1 <= L PROVE flatten[(k + 1) + 1] = g[(k + 1) + 1]
    OBVIOUS
  <2> DEFINE n == (k + 1) + 1
  <2>1. k \in Nat /\ n \in 1..L /\ n # 1 /\ n - 1 = k + 1 /\ flatten[k + 1] = g[k + 1]
    BY <1>1
  <2> HIDE DEF n
  <2>2. flatten[n] = flatten[n - 1] \o Pieces[n] /\ g[n] = g[n - 1] \o Pieces[n]
    BY <1>5, <1>8, <2>1
  <2> QED
    BY <2>1, <2>2 DEF n
<1> HIDE DEF T
<1>11. T \in SUBSET Nat
  BY DEF T
<1>12. T = Nat
  BY <1>9, <1>10, <1>11, SetInduction
<1>13. Given(L) = Response
  <2>1. L - 1 \in T /\ (L - 1) + 1 = L
    BY <1>1, <1>12
  <2> QED
    BY <1>1, <1>3, <1>4, <2>1 DEF T
<1>14. ASSUME NEW n \in 0..L PROVE Given(n) \in Seq(Char)
  <2>1. CASE n = 0
    <3>1. <<>> \in Seq(Char)
      OBVIOUS
    <3>2. Given(n) = <<>>
      BY <2>1 DEF Given
    <3> QED
      BY <3>1, <3>2
  <2>2. CASE n # 0
    <3>1. n \in 1..L
      BY <1>1, <2>2
    <3> QED
      BY <1>3, <1>5, <3>1
  <2> QED
    BY <2>1, <2>2
<1>15. ASSUME NEW n \in 0..(L - 1) PROVE Given(n + 1) = Given(n) \o Pieces[n + 1]
  <2>1. n + 1 \in 1..L /\ (n + 1) - 1 = n
    BY <1>1
  <2>2. CASE n = 0
    <3>1. Pieces[1] \in Seq(Char)
      BY <1>1 DEF Char
    <3>2. <<>> \o Pieces[1] = Pieces[1]
      BY <3>1
    <3>3. Given(n) = <<>> /\ n + 1 = 1 /\ 1 \in 1..L
      BY <2>1, <2>2 DEF Given
    <3>4. Given(1) = g[1] /\ g[1] = Pieces[1]
      BY <1>3, <1>5, <3>3
    <3> QED
      BY <3>2, <3>3, <3>4
  <2>3. CASE n # 0
    <3>1. n \in 1..L /\ n + 1 # 1
      BY <1>1, <2>3
    <3>2. g[n + 1] = g[n] \o Pieces[n + 1]
      BY <1>5, <2>1, <3>1
    <3> QED
      BY <1>3, <2>1, <3>1, <3>2
  <2> QED
    BY <2>2, <2>3
<1> QED
  BY <1>3, <1>13, <1>14, <1>15

(* The answer begins with s. *)
Begins(s) == \E rest \in Seq(Char) : s \o rest = Response

Associates(p, q, r) == (p \o q) \o r = p \o (q \o r)

LEMMA Regroup ==
  ASSUME NEW p \in Seq(Char), NEW q \in Seq(Char), NEW r \in Seq(Char)
  PROVE  Associates(p, q, r)
BY DEF Associates

(* The answer begins with the first n pieces. *)
LEMMA GivenBegins == \A n \in 0..Len(Pieces) : Begins(Given(n))
<1> DEFINE L == Len(Pieces)
           T == {k \in Nat : k <= L => Begins(Given(L - k))}
<1>1. L \in Nat
  OBVIOUS
<1>2. 0 \in T
  <2>1. Given(L) \in Seq(Char) /\ Given(L) = Response
    BY <1>1, GivenIs
  <2>2. Response \o <<>> = Response
    BY <2>1
  <2>3. <<>> \in Seq(Char)
    OBVIOUS
  <2>4. Begins(Response)
    BY <2>2, <2>3 DEF Begins
  <2>5. L - 0 = L
    BY <1>1
  <2> QED
    BY <2>1, <2>4, <2>5
<1>3. ASSUME NEW k \in T PROVE k + 1 \in T
  <2> SUFFICES ASSUME k + 1 <= L PROVE Begins(Given(L - (k + 1)))
    OBVIOUS
  <2> DEFINE n == L - (k + 1)
  <2>1. k \in Nat /\ n \in 0..(L - 1) /\ n \in 0..L /\ n + 1 = L - k /\ n + 1 \in 1..L
    BY <1>1
  <2>2. Begins(Given(L - k))
    BY <1>1, <2>1
  <2> HIDE DEF n
  <2>3. PICK rest \in Seq(Char) : Given(n + 1) \o rest = Response
    BY <2>1, <2>2 DEF Begins
  <2>4. Given(n) \in Seq(Char) /\ Pieces[n + 1] \in Seq(Char)
    BY <2>1, GivenIs DEF Char
  <2>5. Given(n + 1) = Given(n) \o Pieces[n + 1]
    BY <2>1, GivenIs
  <2>6. Associates(Given(n), Pieces[n + 1], rest)
    BY <2>4, Regroup
  <2>7. Pieces[n + 1] \o rest \in Seq(Char)
    BY <2>4
  <2>8. Begins(Given(n))
    BY <2>3, <2>5, <2>6, <2>7 DEF Begins, Associates
  <2> QED
    BY <2>8 DEF n
<1> HIDE DEF T
<1>4. T \in SUBSET Nat
  BY DEF T
<1>5. T = Nat
  BY <1>2, <1>3, <1>4, SetInduction
<1>6. ASSUME NEW n \in 0..L PROVE Begins(Given(n))
  <2>1. L - n \in T /\ L - n <= L /\ L - (L - n) = n
    BY <1>1, <1>5
  <2> QED
    BY <2>1 DEF T
<1> QED
  BY <1>6

(* A beginning of a beginning is one. *)
LEMMA ShorterBegins ==
  ASSUME NEW s \in Seq(Char), NEW t \in Seq(Char), Begins(s \o t)
  PROVE  Begins(s)
<1>1. PICK rest \in Seq(Char) : (s \o t) \o rest = Response
  BY DEF Begins
<1>2. Associates(s, t, rest) /\ t \o rest \in Seq(Char)
  BY Regroup
<1> QED
  BY <1>1, <1>2 DEF Begins, Associates

(* What grows and is a beginning, grows to a longer beginning. *)
LEMMA BeginningGrows ==
  ASSUME NEW s \in Seq(Char), NEW t \in Seq(Char), Begins(s \o t)
  PROVE  \E n \in Len(s)..Len(Response) : s \o t = SubSeq(Response, 1, n)
<1>1. PICK rest \in Seq(Char) : (s \o t) \o rest = Response
  BY DEF Begins
<1> DEFINE u == s \o t
<1>2. u \in Seq(Char) /\ Len(u) >= Len(s) /\ Len(u) \in Nat /\ Len(s) \in Nat
  OBVIOUS
<1>3. Response = u \o rest
  BY <1>1
<1> HIDE DEF u
<1>4. SubSeq(u \o rest, 1, Len(u)) = u /\ Len(u \o rest) >= Len(u) /\ Len(u \o rest) \in Nat
  BY <1>2
<1>5. Len(u) \in Len(s)..Len(Response) /\ u = SubSeq(Response, 1, Len(u))
  BY <1>2, <1>3, <1>4
<1> QED
  BY <1>5 DEF u

-----------------------------------------------------------------------------
(* The sink.                                                               *)

SplitsAt(p, n) ==
  /\ SubSeq(p, 1, n) \in Seq(Char) /\ SubSeq(p, n + 1, Len(p)) \in Seq(Char)
  /\ SubSeq(p, 1, n) \o SubSeq(p, n + 1, Len(p)) = p

LEMMA Splits ==
  ASSUME NEW p \in Seq(Char), NEW n \in Nat, n <= Len(p)
  PROVE  SplitsAt(p, n)
<1> DEFINE a == SubSeq(p, 1, n)
           b == SubSeq(p, n + 1, Len(p))
<1>1. Len(p) \in Nat /\ \A i \in 1..Len(p) : p[i] \in Char
  OBVIOUS
<1>2. a \in Seq(Char) /\ Len(a) = n /\ \A i \in 1..n : a[i] = p[i]
  BY <1>1
<1>3. b \in Seq(Char) /\ Len(b) = Len(p) - n /\ \A i \in 1..Len(p) - n : b[i] = p[n + i]
  BY <1>1
<1> HIDE DEF a, b
<1>4. /\ a \o b \in Seq(Char) /\ Len(a \o b) = Len(p)
      /\ \A i \in 1..Len(p) : (a \o b)[i] = IF i <= n THEN a[i] ELSE b[i - n]
  <2>1. Len(a) + Len(b) = Len(p)
    BY <1>1, <1>2, <1>3
  <2>2. /\ a \o b \in Seq(Char) /\ Len(a \o b) = Len(a) + Len(b)
        /\ \A i \in 1..Len(a) + Len(b) : (a \o b)[i] = IF i <= Len(a) THEN a[i] ELSE b[i - Len(a)]
    BY <1>2, <1>3, ConcatProperties
  <2> QED
    BY <1>2, <2>1, <2>2
<1>5. ASSUME NEW i \in 1..Len(p) PROVE (a \o b)[i] = p[i]
  <2>1. CASE i <= n
    BY <1>1, <1>2, <1>4, <2>1
  <2>2. CASE i > n
    <3> DEFINE h == i - n
    <3>1. h \in 1..Len(p) - n /\ n + h = i
      BY <1>1, <2>2
    <3>2. (a \o b)[i] = b[h]
      BY <1>1, <1>4, <2>2
    <3> HIDE DEF h
    <3> QED
      BY <1>3, <3>1, <3>2
  <2>3. i <= n \/ i > n
    BY <1>1
  <2> QED
    BY <2>1, <2>2, <2>3
<1>6. a \o b = p
  BY <1>1, <1>4, <1>5, SeqEqual
<1> QED
  BY <1>2, <1>3, <1>6 DEF a, b, SplitsAt

(* What a call of the socket can have taken of p.                          *)
LEMMA SocketTakes ==
  ASSUME NEW d \in Seq(Char), NEW p \in Seq(Char), Begins(d \o p),
         NEW sent \in Sender!Outcomes(p)
  PROVE  /\ sent.taken \in Seq(Char)
         /\ Begins(d \o sent.taken)
         /\ sent.ok \in BOOLEAN
         /\ sent.ok => sent.taken = p
         /\ Len(sent.taken) <= Len(p)
<1>1. CASE sent = [ok |-> TRUE, taken |-> p]
  BY <1>1
<1>2. CASE sent \in {[ok |-> FALSE, taken |-> SubSeq(p, 1, n)] : n \in 0..Sender!Longest(p)}
  <2>1. PICK n \in 0..Sender!Longest(p) : sent = [ok |-> FALSE, taken |-> SubSeq(p, 1, n)]
    BY <1>2
  <2>2. n \in Nat /\ n <= Len(p)
    BY <2>1 DEF Sender!Longest
  <2> DEFINE a == SubSeq(p, 1, n)
             b == SubSeq(p, n + 1, Len(p))
  <2>3. a \in Seq(Char) /\ b \in Seq(Char) /\ a \o b = p
    BY <2>2, Splits DEF SplitsAt
  <2>6. Len(a) <= Len(p)
    BY <2>2
  <2> HIDE DEF a, b
  <2>4. Associates(d, a, b) /\ d \o a \in Seq(Char)
    BY <2>3, Regroup
  <2>5. Begins(d \o a)
    BY <2>3, <2>4, ShorterBegins DEF Associates
  <2> QED
    BY <2>1, <2>3, <2>5, <2>6 DEF a
<1> QED
  BY <1>1, <1>2 DEF Sender!Outcomes

(* The characters of the array that are pending. *)
Waiting(b, u) == [i \in 1..u |-> b[i]]

LEMMA WaitingIsSequence ==
  ASSUME NEW u \in 0..ArraySize, NEW b \in [1..ArraySize -> Nat], \A i \in 1..u : b[i] \in Char
  PROVE  Waiting(b, u) \in Seq(Char) /\ Len(Waiting(b, u)) = u
BY DEF Waiting

(* The array b with data behind its first u characters. *)
Copied(b, u, data) ==
  [i \in 1..ArraySize |-> IF i \in u + 1 .. u + Len(data) THEN data[i - u] ELSE b[i]]

CopyWorked(c, b, u, data) ==
  /\ c \in [1..ArraySize -> Nat]
  /\ u + Len(data) \in 0..ArraySize
  /\ \A i \in 1..u + Len(data) : c[i] \in Char
  /\ Waiting(c, u + Len(data)) = Waiting(b, u) \o data

(* Copying behind the pending characters appends to them. *)
LEMMA CopyAppends ==
  ASSUME NEW u \in 0..ArraySize, NEW b \in [1..ArraySize -> Nat], \A i \in 1..u : b[i] \in Char,
         NEW data \in Seq(Char), Len(data) <= ArraySize - u,
         NEW c, c = Copied(b, u, data)
  PROVE  CopyWorked(c, b, u, data)
<1>1. Len(data) \in Nat /\ \A i \in 1..Len(data) : data[i] \in Char
  OBVIOUS
<1>2. ASSUME NEW i \in 1..ArraySize
      PROVE  /\ i \in u + 1 .. u + Len(data) => c[i] = data[i - u] /\ i - u \in 1..Len(data)
             /\ i \notin u + 1 .. u + Len(data) => c[i] = b[i]
             /\ c[i] \in Nat
  <2>1. i \in u + 1 .. u + Len(data) => i - u \in 1..Len(data)
    BY <1>1
  <2>2. c[i] = IF i \in u + 1 .. u + Len(data) THEN data[i - u] ELSE b[i]
    BY DEF Copied
  <2>3. \A x \in Char : x \in Nat
    BY DEF Char
  <2> QED
    BY <1>1, <2>1, <2>2, <2>3
<1>3. c \in [1..ArraySize -> Nat]
  <2>1. c = [i \in 1..ArraySize |-> c[i]]
    BY DEF Copied
  <2> QED
    BY <1>2, <2>1
<1>4. ASSUME NEW i \in 1..u + Len(data)
      PROVE  /\ i <= u => c[i] = b[i] /\ i \in 1..u
             /\ i > u => c[i] = data[i - u] /\ i - u \in 1..Len(data)
             /\ c[i] \in Char
  <2>1. i \in 1..ArraySize /\ (i <= u => i \in 1..u) /\ (i > u => i \in u + 1 .. u + Len(data))
        /\ (i <= u => i \notin u + 1 .. u + Len(data)) /\ (i <= u \/ i > u)
    BY <1>1
  <2>2. CASE i <= u
    BY <1>2, <2>1, <2>2
  <2>3. CASE i > u
    BY <1>1, <1>2, <2>1, <2>3
  <2> QED
    BY <2>1, <2>2, <2>3
<1> DEFINE w == Waiting(b, u)
           v == Waiting(c, u + Len(data))
<1>5. w \in Seq(Char) /\ Len(w) = u /\ \A i \in 1..u : w[i] = b[i]
  BY WaitingIsSequence DEF Waiting
<1>6. u + Len(data) \in 0..ArraySize
  BY <1>1
<1>7. v \in Seq(Char) /\ Len(v) = u + Len(data) /\ \A i \in 1..u + Len(data) : v[i] = c[i]
  BY <1>3, <1>4, <1>6, WaitingIsSequence DEF Waiting
<1> HIDE DEF w, v
<1>8. v = w \o data
  <2>1. /\ w \o data \in Seq(Char) /\ Len(w \o data) = u + Len(data)
        /\ \A i \in 1..u + Len(data) : (w \o data)[i] = IF i <= u THEN w[i] ELSE data[i - u]
    BY <1>1, <1>5, ConcatProperties
  <2>2. ASSUME NEW i \in 1..u + Len(data) PROVE v[i] = (w \o data)[i]
    <3>1. CASE i <= u
      <4>1. (w \o data)[i] = w[i]
        BY <2>1, <2>2, <3>1
      <4>2. i \in 1..u /\ c[i] = b[i]
        BY <1>4, <2>2, <3>1
      <4>3. v[i] = c[i] /\ w[i] = b[i]
        BY <1>5, <1>7, <2>2, <4>2
      <4> QED
        BY <4>1, <4>2, <4>3
    <3>2. CASE i > u
      <4>1. (w \o data)[i] = data[i - u]
        <5>1. ~(i <= u)
          BY <1>5, <2>2, <3>2
        <5> QED
          BY <2>1, <2>2, <5>1
      <4> QED
        BY <1>4, <1>7, <3>2, <4>1
    <3>3. i <= u \/ i > u
      BY <1>1, <2>2
    <3> QED
      BY <3>1, <3>2, <3>3
  <2> QED
    BY <1>7, <2>1, <2>2, SeqEqual
<1> QED
  BY <1>3, <1>4, <1>6, <1>8 DEF w, v, CopyWorked

-----------------------------------------------------------------------------
(* The invariant.                                                          *)

SinkTypes ==
  /\ used \in 0..ArraySize
  /\ buffer \in [1..ArraySize -> Nat]
  /\ \A i \in 1..used : buffer[i] \in Char
  /\ destination \in Seq(Char)
  /\ lent = FALSE

ServerTypes ==
  /\ connected \in BOOLEAN /\ broken \in BOOLEAN /\ running \in BOOLEAN
  /\ piece \in 0..Len(Pieces)
  /\ phase \in {"parsing", "answering", "over", "undefined"}

(* Until a write fails, the socket and the array have what was given.      *)
Whole == ~broken => destination \o Waiting(buffer, used) = Given(piece)

ServerInv ==
  /\ SinkTypes
  /\ ServerTypes
  /\ Whole
  /\ Begins(destination)
  /\ broken => ~connected
  /\ phase = "parsing" => piece = 0
  /\ control # "idle" => phase = "parsing"

LEMMA InitHolds == Init => ServerInv
<1> SUFFICES ASSUME Init PROVE ServerInv
  OBVIOUS
<1>1. /\ buffer = [i \in 1..ArraySize |-> 0] /\ used = 0 /\ destination = <<>> /\ lent = FALSE
      /\ phase = "parsing" /\ piece = 0 /\ connected = TRUE /\ broken = FALSE /\ running = TRUE
  BY DEF Init, Sender!Init
<1>2. <<>> \in Seq(Char) /\ Waiting(buffer, 0) = <<>>
  BY DEF Waiting
<1>3. SinkTypes
  BY <1>1, <1>2 DEF SinkTypes
<1>4. ServerTypes
  <2>1. 0 \in 0..Len(Pieces)
    OBVIOUS
  <2>2. connected \in BOOLEAN /\ broken \in BOOLEAN /\ running \in BOOLEAN
    BY <1>1
  <2> QED
    BY <1>1, <2>1, <2>2 DEF ServerTypes
<1>5. <<>> \o <<>> = <<>>
  OBVIOUS
<1>6. Whole
  BY <1>1, <1>2, <1>5, GivenIs DEF Whole
<1>7. Begins(destination)
  <2>1. Begins(Given(0))
    BY GivenBegins
  <2> QED
    BY <1>1, <2>1, GivenIs
<1> QED
  BY <1>1, <1>3, <1>4, <1>6, <1>7 DEF ServerInv, Init

(***************************************************************************)
(* What a call of the sink does for the piece n of the answer: the socket  *)
(* gets more of the answer, or nothing.                                    *)
(***************************************************************************)
Sends(n) ==
  /\ SinkTypes'
  /\ broken' \in BOOLEAN
  /\ ~broken' => destination' \o Waiting(buffer', used') = Given(n)
  /\ Begins(destination')
  /\ \E more \in Seq(Char) : destination' = destination \o more
  /\ broken => broken' /\ destination' = destination
  /\ broken' /\ ~broken => ~connected

(* The socket has nothing new. *)
LEMMA SameAsBefore ==
  ASSUME ServerInv, UNCHANGED destination
  PROVE  Begins(destination') /\ \E more \in Seq(Char) : destination' = destination \o more
<1>1. destination \o <<>> = destination
  BY DEF ServerInv, SinkTypes
<1>2. <<>> \in Seq(Char)
  OBVIOUS
<1> QED
  BY <1>1, <1>2 DEF ServerInv

LEMMA PendingIsWaiting == Sender!Pending = Waiting(buffer, used)
BY DEF Sender!Pending, Waiting

(* The facts about the call of the socket by which a sink flushes.         *)
LEMMA PendingBegins ==
  ASSUME ServerInv
  PROVE  /\ Sender!Pending \in Seq(Char) /\ Len(Sender!Pending) = used
         /\ ~broken => Begins(destination \o Sender!Pending)
<1>1. Sender!Pending \in Seq(Char) /\ Len(Sender!Pending) = used
  BY PendingIsWaiting, WaitingIsSequence DEF ServerInv, SinkTypes
<1>2. ~broken => Begins(destination \o Sender!Pending)
  BY PendingIsWaiting, GivenBegins DEF ServerInv, Whole, ServerTypes
<1> QED
  BY <1>1, <1>2

LEMMA BufferedSends ==
  ASSUME ServerInv, piece < Len(Pieces),
         Sender!AppendBuffered(Pieces[piece + 1]), UNCHANGED broken
  PROVE  Sends(piece + 1)
<1> DEFINE data == Pieces[piece + 1]
<1>1. /\ piece \in 0..Len(Pieces) /\ Len(Pieces) \in Nat
      /\ piece + 1 \in 1..Len(Pieces) /\ piece \in 0..(Len(Pieces) - 1)
  BY DEF ServerInv, ServerTypes
<1>2. data \in Seq(Char)
  BY <1>1 DEF Char
<1>3. /\ Len(data) <= ArraySize - used
      /\ buffer' = Copied(buffer, used, data)
      /\ used' = used + Len(data)
      /\ destination' = destination /\ lent' = lent
  BY DEF Sender!AppendBuffered, Sender!CopiedInto, Copied
<1> HIDE DEF data
<1>4. /\ used \in 0..ArraySize /\ buffer \in [1..ArraySize -> Nat]
      /\ \A i \in 1..used : buffer[i] \in Char
      /\ destination \in Seq(Char) /\ lent = FALSE
  BY DEF ServerInv, SinkTypes
<1>5. /\ buffer' \in [1..ArraySize -> Nat] /\ used' \in 0..ArraySize
      /\ \A i \in 1..used' : buffer'[i] \in Char
      /\ Waiting(buffer', used') = Waiting(buffer, used) \o data
  <2>1. CopyWorked(buffer', buffer, used, data)
    BY <1>2, <1>3, <1>4, CopyAppends
  <2> QED
    BY <1>3, <2>1 DEF CopyWorked
<1>6. SinkTypes'
  BY <1>3, <1>4, <1>5 DEF SinkTypes
<1>7. ASSUME ~broken PROVE destination' \o Waiting(buffer', used') = Given(piece + 1)
  <2>1. destination \o Waiting(buffer, used) = Given(piece)
    BY <1>7 DEF ServerInv, Whole
  <2>2. Waiting(buffer, used) \in Seq(Char)
    BY <1>4, WaitingIsSequence
  <2>3. Associates(destination, Waiting(buffer, used), data)
    BY <1>2, <1>4, <2>2, Regroup
  <2>4. Given(piece + 1) = Given(piece) \o data
    BY <1>1, GivenIs DEF data
  <2> QED
    BY <1>3, <1>5, <2>1, <2>3, <2>4 DEF Associates
<1>8. broken' = broken /\ broken \in BOOLEAN
  BY DEF ServerInv, ServerTypes
<1>9. Begins(destination') /\ \E more \in Seq(Char) : destination' = destination \o more
  BY <1>3, SameAsBefore
<1>10. CASE broken
  <2>1. broken' \in BOOLEAN /\ broken'
    BY <1>8, <1>10
  <2> QED
    BY <1>3, <1>6, <1>9, <1>10, <2>1 DEF Sends
<1>11. CASE ~broken
  <2>1. broken' \in BOOLEAN /\ ~broken'
    BY <1>8, <1>11
  <2> QED
    BY <1>6, <1>7, <1>9, <1>11, <2>1 DEF Sends
<1> QED
  BY <1>10, <1>11

(* A call that fails while it flushes. *)
LEMMA FlushFailsSends ==
  ASSUME ServerInv, NEW sent \in Sender!Outcomes(Sender!Pending),
         destination' = destination \o sent.taken, UNCHANGED <<buffer, used, lent>>,
         Writes(TRUE), NEW n
  PROVE  Sends(n)
<1>1. /\ ~connected /\ broken' /\ broken' \in BOOLEAN
      /\ broken => destination' = destination
  BY DEF Writes
<1>2. /\ Sender!Pending \in Seq(Char)
      /\ ~broken => Begins(destination \o Sender!Pending)
  BY PendingBegins
<1>3. destination \in Seq(Char) /\ broken \in BOOLEAN
  BY DEF ServerInv, SinkTypes, ServerTypes
<1>4. Begins(destination') /\ \E more \in Seq(Char) : destination' = destination \o more
  <2>1. CASE broken
    BY <1>1, <2>1, SameAsBefore
  <2>2. CASE ~broken
    BY <1>2, <1>3, <2>2, SocketTakes
  <2> QED
    BY <2>1, <2>2
<1>5. destination' \in Seq(Char)
  BY <1>3, <1>4
<1>6. SinkTypes'
  BY <1>5 DEF ServerInv, SinkTypes
<1> QED
  BY <1>1, <1>4, <1>6 DEF Sends

(* A piece that does not fit goes to the socket behind what was pending.   *)
LEMMA DirectSends ==
  ASSUME ServerInv, piece < Len(Pieces),
         Sender!AppendDirect(Pieces[piece + 1]), Writes(accepted' = accepted)
  PROVE  Sends(piece + 1)
<1> DEFINE data == Pieces[piece + 1]
           pending == Sender!Pending
           d == destination \o pending
<1>1. /\ piece \in 0..Len(Pieces) /\ Len(Pieces) \in Nat /\ piece + 1 \in 0..Len(Pieces)
      /\ piece + 1 \in 1..Len(Pieces) /\ piece \in 0..(Len(Pieces) - 1)
  BY DEF ServerInv, ServerTypes
<1>2. data \in Seq(Char)
  BY <1>1 DEF Char
<1>3. PICK sent \in Sender!Outcomes(data) :
        /\ destination' = (destination \o pending) \o sent.taken
        /\ accepted' = IF sent.ok THEN accepted \o data ELSE accepted
  BY DEF Sender!AppendDirect
<1>4. used' = 0 /\ buffer' = buffer /\ lent' = lent
  BY DEF Sender!AppendDirect
<1>5. /\ accepted' = accepted => ~connected
      /\ broken => destination' = destination
      /\ broken' = (broken \/ accepted' = accepted)
  BY DEF Writes
<1>6. /\ buffer \in [1..ArraySize -> Nat] /\ destination \in Seq(Char) /\ lent = FALSE
      /\ broken \in BOOLEAN
  BY DEF ServerInv, SinkTypes, ServerTypes
<1>7. pending \in Seq(Char) /\ d \in Seq(Char)
  BY <1>6, PendingBegins
<1>8. ASSUME ~broken PROVE d \o data = Given(piece + 1) /\ Begins(d \o data)
  <2>1. d = Given(piece)
    BY <1>8, PendingIsWaiting DEF ServerInv, Whole
  <2> HIDE DEF d, data
  <2>2. Given(piece + 1) = Given(piece) \o data
    BY <1>1, GivenIs DEF data
  <2>3. Begins(Given(piece + 1))
    BY <1>1, GivenBegins
  <2> QED
    BY <2>1, <2>2, <2>3
<1> HIDE DEF d, data, pending
<1>9. destination' = d \o sent.taken
  BY <1>3 DEF d
<1>10. ASSUME ~broken
       PROVE  sent.taken \in Seq(Char) /\ Begins(d \o sent.taken)
              /\ (sent.ok => sent.taken = data) /\ sent.ok \in BOOLEAN
  BY <1>2, <1>7, <1>8, <1>10, SocketTakes
<1>11. Begins(destination') /\ \E more \in Seq(Char) : destination' = destination \o more
  <2>1. CASE broken
    BY <1>5, <2>1, SameAsBefore
  <2>2. CASE ~broken
    <3>1. Associates(destination, pending, sent.taken) /\ pending \o sent.taken \in Seq(Char)
      BY <1>6, <1>7, <1>10, <2>2, Regroup
    <3>2. destination' = destination \o (pending \o sent.taken)
      BY <1>3, <3>1 DEF Associates
    <3> QED
      BY <1>9, <1>10, <2>2, <3>1, <3>2
  <2> QED
    BY <2>1, <2>2
<1>12. SinkTypes'
  <2>1. destination' \in Seq(Char)
    BY <1>6, <1>11
  <2>2. 0 \in 0..ArraySize /\ 1..0 = {}
    OBVIOUS
  <2> QED
    BY <1>4, <1>6, <2>1, <2>2 DEF SinkTypes
<1>13. Waiting(buffer', used') = <<>>
  BY <1>4 DEF Waiting
<1>14. CASE broken \/ accepted' = accepted
  <2>1. broken' /\ broken' \in BOOLEAN
    BY <1>5, <1>6, <1>14
  <2>2. broken => broken' /\ destination' = destination
    BY <1>5, <2>1
  <2>3. broken' /\ ~broken => ~connected
    BY <1>5, <1>14
  <2> QED
    BY <1>11, <1>12, <2>1, <2>2, <2>3 DEF Sends
<1>15. CASE ~broken /\ accepted' # accepted
  <2>1. ~broken' /\ broken' \in BOOLEAN
    BY <1>5, <1>15
  <2>2. sent.ok
    BY <1>3, <1>15
  <2>3. destination' = Given(piece + 1)
    BY <1>8, <1>9, <1>10, <1>15, <2>2
  <2>4. destination' \o <<>> = destination'
    BY <1>6, <1>11
  <2> QED
    BY <1>11, <1>12, <1>13, <1>15, <2>1, <2>3, <2>4 DEF Sends
<1> QED
  BY <1>14, <1>15

(* flush(): if it does not fail, the socket has all that was given. *)
LEMMA FlushSends ==
  ASSUME ServerInv, Sender!Flush, Writes(used' # 0)
  PROVE  Sends(piece) /\ (~broken' => destination' = Given(piece))
<1> DEFINE pending == Sender!Pending
<1>1. PICK sent \in Sender!Outcomes(pending) :
        /\ destination' = destination \o sent.taken
        /\ used' = IF sent.ok THEN 0 ELSE used
  BY DEF Sender!Flush
<1>2. buffer' = buffer /\ lent' = lent
  BY DEF Sender!Flush
<1>3. /\ used' # 0 => ~connected
      /\ broken => destination' = destination
      /\ broken' = (broken \/ used' # 0)
  BY DEF Writes
<1>4. /\ used \in 0..ArraySize
      /\ buffer \in [1..ArraySize -> Nat] /\ destination \in Seq(Char) /\ lent = FALSE
      /\ \A i \in 1..used : buffer[i] \in Char
      /\ broken \in BOOLEAN /\ piece \in 0..Len(Pieces)
  BY DEF ServerInv, SinkTypes, ServerTypes
<1>5. /\ pending \in Seq(Char) /\ Len(pending) = used
      /\ ~broken => Begins(destination \o pending)
  BY PendingBegins
<1>6. ~broken => destination \o pending = Given(piece)
  BY PendingIsWaiting DEF ServerInv, Whole
<1> HIDE DEF pending
<1>7. ASSUME ~broken
      PROVE  /\ sent.taken \in Seq(Char) /\ Begins(destination \o sent.taken)
             /\ (sent.ok => sent.taken = pending) /\ sent.ok \in BOOLEAN
             /\ Len(sent.taken) <= used
  BY <1>4, <1>5, <1>7, SocketTakes
<1>8. Begins(destination') /\ \E more \in Seq(Char) : destination' = destination \o more
  <2>1. CASE broken
    BY <1>3, <2>1, SameAsBefore
  <2>2. CASE ~broken
    BY <1>1, <1>7, <2>2
  <2> QED
    BY <2>1, <2>2
<1>9. used' \in 0..ArraySize /\ (used' = 0 \/ used' = used)
  <2>1. 0 \in 0..ArraySize
    OBVIOUS
  <2> QED
    BY <1>1, <1>4, <2>1
<1>10. SinkTypes'
  <2>1. destination' \in Seq(Char)
    BY <1>4, <1>8
  <2>2. \A i \in 1..used' : buffer'[i] \in Char
    <3>1. CASE used' = 0
      BY <3>1
    <3>2. CASE used' = used
      BY <1>2, <1>4, <3>2
    <3> QED
      BY <1>9, <3>1, <3>2
  <2> QED
    BY <1>2, <1>4, <1>9, <2>1, <2>2 DEF SinkTypes
<1>11. CASE broken \/ used' # 0
  <2>1. broken' /\ broken' \in BOOLEAN
    BY <1>3, <1>4, <1>11
  <2>2. broken => broken' /\ destination' = destination
    BY <1>3, <2>1
  <2>3. broken' /\ ~broken => ~connected
    BY <1>3, <1>11
  <2> QED
    BY <1>8, <1>10, <2>1, <2>2, <2>3 DEF Sends
<1>12. CASE ~broken /\ used' = 0
  <2>1. ~broken' /\ broken' \in BOOLEAN
    BY <1>3, <1>12
  <2>2. sent.taken = pending
    <3>1. CASE sent.ok
      BY <1>7, <1>12, <3>1
    <3>2. CASE ~sent.ok
      <4>1. used = 0
        BY <1>1, <1>12, <3>2
      <4>2. Len(sent.taken) = 0 /\ Len(pending) = 0
        BY <1>5, <1>7, <1>12, <4>1
      <4>3. sent.taken = <<>> /\ pending = <<>>
        BY <1>5, <1>7, <1>12, <4>2
      <4> QED
        BY <4>3
    <3> QED
      BY <3>1, <3>2
  <2>3. destination' = Given(piece)
    BY <1>1, <1>6, <1>12, <2>2
  <2>4. destination' \o Waiting(buffer', used') = destination'
    <3>1. Waiting(buffer', used') = <<>>
      BY <1>12 DEF Waiting
    <3>2. destination' \o <<>> = destination'
      BY <1>4, <1>8
    <3> QED
      BY <3>1, <3>2
  <2> QED
    BY <1>8, <1>10, <1>12, <2>1, <2>3, <2>4 DEF Sends
<1> QED
  BY <1>11, <1>12, <1>3

-----------------------------------------------------------------------------
(* The steps.                                                              *)

(* What the client may know of the server, as in ImplementsReply. *)
State == IF broken THEN "cut"
         ELSE IF phase = "over" /\ piece > 0 THEN "complete"
         ELSE IF phase = "over" \/ ~running THEN "cut" ELSE "open"

Excused == ~connected \/ ~running

Allowed ==
  [Abstract!Deliver \/ Abstract!Complete \/ Abstract!Excuse \/ Abstract!Cut]_
     <<destination, State, Excused>>

(* Steps after which the client knows nothing new. *)
LEMMA SameIsAllowed ==
  ASSUME UNCHANGED <<destination, broken, phase, piece, running, connected>>
  PROVE  Allowed
BY DEF Allowed, State, Excused

(* Steps of the source that read, and of the client that sends. *)
LEMMA SourceStep ==
  ASSUME ServerInv, UNCHANGED <<sink, phase, piece, connected, broken, running>>,
         control' # "idle" => phase = "parsing"
  PROVE  ServerInv' /\ Allowed
<1>1. /\ used' = used /\ buffer' = buffer /\ destination' = destination /\ lent' = lent
      /\ phase' = phase /\ piece' = piece /\ connected' = connected /\ broken' = broken
      /\ running' = running
  BY DEF sink
<1>2. SinkTypes' /\ Begins(destination') /\ Whole'
  BY <1>1 DEF ServerInv, SinkTypes, Whole
<1>3. ServerTypes'
  BY <1>1 DEF ServerInv, ServerTypes
<1>4. (broken => ~connected)' /\ (phase = "parsing" => piece = 0)'
  BY <1>1 DEF ServerInv
<1>5. (control # "idle" => phase = "parsing")'
  BY <1>1
<1> QED
  BY <1>1, <1>2, <1>3, <1>4, <1>5, SameIsAllowed DEF ServerInv

LEMMA SendStep == ServerInv /\ Send => ServerInv' /\ Allowed
<1> SUFFICES ASSUME ServerInv, Send PROVE ServerInv' /\ Allowed
  OBVIOUS
<1>1. control' = control
  BY DEF Send, Receiver!Arrive
<1>2. UNCHANGED <<sink, phase, piece, connected, broken, running>>
  BY DEF Send
<1> QED
  BY <1>1, <1>2, SourceStep DEF ServerInv

LEMMA GetStep == ServerInv /\ Get => ServerInv' /\ Allowed
BY SourceStep DEF Get

LEMMA ReadStep == ServerInv /\ Read => ServerInv' /\ Allowed
<1> SUFFICES ASSUME ServerInv, Read PROVE ServerInv' /\ Allowed
  OBVIOUS
<1>1. control # "idle"
  BY DEF Read, Receiver!ReadOne, Receiver!ReadTwo, Receiver!ReadRest
<1>2. UNCHANGED <<sink, phase, piece, connected, broken, running>>
  BY DEF Read
<1> QED
  BY <1>1, <1>2, SourceStep DEF ServerInv

(* The client may go, and main() may end, at any time. *)
LEMMA DisconnectStep == ServerInv /\ Disconnect => ServerInv' /\ Allowed
<1> SUFFICES ASSUME ServerInv, Disconnect PROVE ServerInv' /\ Allowed
  OBVIOUS
<1>1. /\ used' = used /\ buffer' = buffer /\ destination' = destination /\ lent' = lent
      /\ phase' = phase /\ piece' = piece /\ broken' = broken
      /\ running' = running /\ control' = control
      /\ connected' = FALSE
  BY DEF Disconnect, sink, source
<1>2. SinkTypes' /\ Begins(destination') /\ Whole'
  BY <1>1 DEF ServerInv, SinkTypes, Whole
<1>3. ServerTypes'
  BY <1>1 DEF ServerInv, ServerTypes
<1>4. ServerInv'
  BY <1>1, <1>2, <1>3 DEF ServerInv
<1>5. State' = State
  BY <1>1 DEF State
<1>6. Excused' = TRUE
  BY <1>1 DEF Excused
<1>7. CASE Excused
  <2>1. Excused = TRUE
    BY <1>7 DEF Excused
  <2> QED
    BY <1>1, <1>4, <1>5, <1>6, <2>1 DEF Allowed
<1>8. CASE ~Excused
  <2>1. Abstract!Excuse
    BY <1>1, <1>5, <1>6, <1>8 DEF Abstract!Excuse, State, Excused
  <2> QED
    BY <1>4, <2>1 DEF Allowed
<1> QED
  BY <1>7, <1>8

(* The server gives up: what was open is cut. *)
LEMMA CutIsAllowed ==
  ASSUME ServerInv, State = "open", State' = "cut", UNCHANGED destination, Excused'
  PROVE  Allowed
<1>1. Abstract!Grows
  <2>1. destination \in Seq(Char) /\ <<>> \in Seq(Char)
    BY DEF ServerInv, SinkTypes
  <2>2. destination \o <<>> = destination
    BY <2>1
  <2>3. \E n \in Len(destination)..Len(Response) : destination = SubSeq(Response, 1, n)
    BY <2>1, <2>2, BeginningGrows DEF ServerInv
  <2> QED
    BY <2>3 DEF Abstract!Grows
<1>2. Abstract!Cut
  BY <1>1 DEF Abstract!Cut, State, Excused
<1> QED
  BY <1>2 DEF Allowed

LEMMA AcceptThrowsStep == ServerInv /\ AcceptThrows => ServerInv' /\ Allowed
<1> SUFFICES ASSUME ServerInv, AcceptThrows PROVE ServerInv' /\ Allowed
  OBVIOUS
<1>1. /\ used' = used /\ buffer' = buffer /\ destination' = destination /\ lent' = lent
      /\ phase' = phase /\ piece' = piece /\ broken' = broken
      /\ connected' = connected /\ control' = control
      /\ running /\ running' = FALSE
  BY DEF AcceptThrows, sink, source
<1>2. SinkTypes' /\ Begins(destination') /\ Whole'
  BY <1>1 DEF ServerInv, SinkTypes, Whole
<1>3. ServerTypes'
  BY <1>1 DEF ServerInv, ServerTypes
<1>4. ServerInv'
  BY <1>1, <1>2, <1>3 DEF ServerInv
<1>5. Excused' = TRUE
  BY <1>1 DEF Excused
<1>6. State' = IF State = "open" THEN "cut" ELSE State
  BY <1>1 DEF State
<1>7. CASE State = "open"
  BY <1>1, <1>4, <1>5, <1>6, <1>7, CutIsAllowed
<1>8. CASE State # "open" /\ Excused
  <2>1. Excused = TRUE
    BY <1>8 DEF Excused
  <2> QED
    BY <1>1, <1>4, <1>5, <1>6, <1>8, <2>1 DEF Allowed
<1>9. CASE State # "open" /\ ~Excused
  <2>1. Abstract!Excuse
    BY <1>1, <1>5, <1>6, <1>9 DEF Abstract!Excuse, State, Excused
  <2> QED
    BY <1>4, <2>1 DEF Allowed
<1> QED
  BY <1>7, <1>8, <1>9

(* An exception while the request is read ends the coroutine.              *)
LEMMA GivesUp ==
  ASSUME ServerInv, UNCHANGED <<sink, piece, connected, broken, running>>,
         phase = "parsing", phase' = "over", control' = "idle", ~connected, running
  PROVE  ServerInv' /\ Allowed
<1>1. /\ used' = used /\ buffer' = buffer /\ destination' = destination /\ lent' = lent
      /\ piece' = piece /\ piece = 0 /\ connected' = connected /\ broken' = broken
      /\ running' = running
  BY DEF sink, ServerInv
<1>2. SinkTypes' /\ Begins(destination') /\ Whole'
  BY <1>1 DEF ServerInv, SinkTypes, Whole
<1>3. ServerTypes'
  BY <1>1 DEF ServerInv, ServerTypes
<1>4. (broken => ~connected)'
  BY <1>1 DEF ServerInv
<1>5. ServerInv'
  BY <1>2, <1>3, <1>4 DEF ServerInv
<1>6. Excused = TRUE /\ Excused' = TRUE
  BY <1>1 DEF Excused
<1>7. CASE broken
  <2>1. State = "cut" /\ State' = "cut"
    BY <1>1, <1>7 DEF State
  <2> QED
    BY <1>1, <1>5, <1>6, <2>1 DEF Allowed
<1>8. CASE ~broken
  <2>1. State = "open" /\ State' = "cut"
    BY <1>1, <1>8 DEF State
  <2> QED
    BY <1>1, <1>5, <1>6, <2>1, CutIsAllowed
<1> QED
  BY <1>7, <1>8

LEMMA ReadThrowsStep == ServerInv /\ running /\ ReadThrows => ServerInv' /\ Allowed
<1> SUFFICES ASSUME ServerInv, running, ReadThrows PROVE ServerInv' /\ Allowed
  OBVIOUS
<1>1. control # "idle" /\ control' = "idle"
  BY DEF ReadThrows, Receiver!Throw, Receiver!Return
<1> QED
  BY <1>1, GivesUp DEF ReadThrows, ServerInv

LEMMA EndpointThrowsStep == ServerInv /\ running /\ EndpointThrows => ServerInv' /\ Allowed
<1> SUFFICES ASSUME ServerInv, running, EndpointThrows PROVE ServerInv' /\ Allowed
  OBVIOUS
<1>1. control' = "idle"
  BY DEF EndpointThrows, source
<1> QED
  BY <1>1, GivesUp DEF EndpointThrows

(* The request was read, or the answer cannot be generated. *)
LEMMA PhaseStep ==
  ASSUME ServerInv, UNCHANGED <<sink, piece, connected, broken, running>>,
         phase \in {"parsing", "answering"}, phase' \in {"answering", "undefined"},
         control' = "idle"
  PROVE  ServerInv' /\ Allowed
<1>1. /\ used' = used /\ buffer' = buffer /\ destination' = destination /\ lent' = lent
      /\ piece' = piece /\ connected' = connected /\ broken' = broken /\ running' = running
  BY DEF sink
<1>2. SinkTypes' /\ Begins(destination') /\ Whole'
  BY <1>1 DEF ServerInv, SinkTypes, Whole
<1>3. ServerTypes'
  BY <1>1 DEF ServerInv, ServerTypes
<1>4. (broken => ~connected)'
  BY <1>1 DEF ServerInv
<1>5. ServerInv'
  BY <1>2, <1>3, <1>4 DEF ServerInv
<1>6. State' = State /\ Excused' = Excused
  BY <1>1 DEF State, Excused
<1> QED
  BY <1>1, <1>5, <1>6 DEF Allowed

LEMMA StartAnswerStep == ServerInv /\ StartAnswer => ServerInv' /\ Allowed
<1> SUFFICES ASSUME ServerInv, StartAnswer PROVE ServerInv' /\ Allowed
  OBVIOUS
<1>1. control' = "idle"
  BY DEF StartAnswer, source
<1> QED
  BY <1>1, PhaseStep DEF StartAnswer

LEMMA AnswerBadRequestStep == ServerInv /\ AnswerBadRequest => ServerInv' /\ Allowed
<1> SUFFICES ASSUME ServerInv, AnswerBadRequest PROVE ServerInv' /\ Allowed
  OBVIOUS
<1>1. control' = control /\ phase = "answering"
  BY DEF AnswerBadRequest, source
<1>2. control' = "idle"
  BY <1>1 DEF ServerInv
<1> QED
  BY <1>1, <1>2, PhaseStep DEF AnswerBadRequest

(***************************************************************************)
(* The sink is called for the first n pieces: the socket gets more, unless *)
(* a write has failed; and if one fails now, the client has gone.          *)
(***************************************************************************)
LEMMA AnswerKeeps ==
  ASSUME ServerInv, phase = "answering", Sends(piece'),
         piece' \in 0..Len(Pieces), phase' \in {"answering", "over"},
         UNCHANGED <<source, connected, running>>
  PROVE  ServerInv'
<1>1. control' = "idle"
  BY DEF ServerInv, source
<1>2. SinkTypes' /\ Whole' /\ Begins(destination') /\ broken' \in BOOLEAN
  BY DEF Sends, Whole
<1>3. ServerTypes'
  BY <1>2 DEF ServerInv, ServerTypes
<1>4. broken' => ~connected'
  <2>1. CASE broken
    BY <2>1 DEF ServerInv
  <2>2. CASE ~broken
    BY <2>2 DEF Sends
  <2> QED
    BY <2>1, <2>2
<1> QED
  BY <1>1, <1>2, <1>3, <1>4 DEF ServerInv

LEMMA AnswerGrows ==
  ASSUME ServerInv, NEW n, Sends(n)
  PROVE  Abstract!Grows
<1>1. PICK more \in Seq(Char) : destination' = destination \o more
  BY DEF Sends
<1>2. destination \in Seq(Char) /\ Begins(destination \o more)
  BY <1>1 DEF ServerInv, SinkTypes, Sends
<1>3. \E k \in Len(destination)..Len(Response) : destination \o more = SubSeq(Response, 1, k)
  BY <1>2, BeginningGrows
<1> QED
  BY <1>1, <1>3 DEF Abstract!Grows

LEMMA AnswerAllowed ==
  ASSUME ServerInv, running, phase = "answering", Sends(piece'),
         phase' \in {"answering", "over"},
         phase' = "over" /\ ~broken' => piece' > 0 /\ destination' = Response,
         UNCHANGED <<connected, running>>
  PROVE  Allowed
<1>1. /\ broken => broken' /\ destination' = destination
      /\ broken' /\ ~broken => ~connected
      /\ Abstract!Grows
  BY AnswerGrows DEF Sends
<1>2. Excused' = Excused
  BY DEF Excused
<1>3. CASE broken
  <2>1. State = "cut" /\ State' = "cut"
    BY <1>1, <1>3 DEF State
  <2> QED
    BY <1>1, <1>2, <1>3, <2>1 DEF Allowed
<1>4. CASE ~broken /\ broken'
  <2>1. State = "open" /\ State' = "cut"
    BY <1>4 DEF State
  <2>2. Excused'
    BY <1>1, <1>4 DEF Excused
  <2>3. Abstract!Cut
    BY <1>1, <2>1, <2>2 DEF Abstract!Cut, State, Excused
  <2> QED
    BY <2>3 DEF Allowed
<1>5. CASE ~broken /\ ~broken' /\ phase' = "answering"
  <2>1. State = "open" /\ State' = "open"
    BY <1>5 DEF State
  <2>2. Abstract!Deliver
    BY <1>1, <1>2, <2>1 DEF Abstract!Deliver, State, Excused
  <2> QED
    BY <2>2 DEF Allowed
<1>6. CASE ~broken /\ ~broken' /\ phase' = "over"
  <2>1. State = "open" /\ State' = "complete"
    BY <1>6 DEF State
  <2>2. destination' = Response
    BY <1>6
  <2>3. Abstract!Complete
    BY <1>2, <2>1, <2>2 DEF Abstract!Complete, State, Excused
  <2> QED
    BY <2>3 DEF Allowed
<1> QED
  BY <1>3, <1>4, <1>5, <1>6

LEMMA AnswerStep == ServerInv /\ running /\ Answer => ServerInv' /\ Allowed
<1> SUFFICES ASSUME ServerInv, running, Answer PROVE ServerInv' /\ Allowed
  OBVIOUS
<1>1. /\ phase = "answering" /\ phase' = "answering" /\ piece' = piece + 1
      /\ piece < Len(Pieces) /\ AppendPiece(Pieces[piece + 1])
      /\ UNCHANGED <<source, connected, running>>
  BY DEF Answer
<1>2. piece' \in 0..Len(Pieces)
  BY <1>1 DEF ServerInv, ServerTypes
<1>3. Sends(piece + 1)
  <2> DEFINE data == Pieces[piece + 1]
  <2>1. CASE Sender!AppendBuffered(data) /\ UNCHANGED broken
    BY <1>1, <2>1, BufferedSends
  <2>2. CASE Sender!AppendFlushFails(data) /\ Writes(TRUE)
    <3>1. PICK sent \in Sender!Outcomes(Sender!Pending) : destination' = destination \o sent.taken
      BY <2>2 DEF Sender!AppendFlushFails
    <3>2. UNCHANGED <<buffer, used, lent>>
      BY <2>2 DEF Sender!AppendFlushFails
    <3> QED
      BY <2>2, <3>1, <3>2, FlushFailsSends
  <2>3. CASE Sender!AppendDirect(data) /\ Writes(accepted' = accepted)
    BY <1>1, <2>3, DirectSends
  <2> QED
    BY <1>1, <2>1, <2>2, <2>3 DEF AppendPiece
<1> QED
  BY <1>1, <1>2, <1>3, AnswerKeeps, AnswerAllowed

LEMMA FinishStep == ServerInv /\ running /\ Finish => ServerInv' /\ Allowed
<1> SUFFICES ASSUME ServerInv, running, Finish PROVE ServerInv' /\ Allowed
  OBVIOUS
<1>1. /\ phase = "answering" /\ phase' = "over" /\ piece' = piece /\ piece = Len(Pieces)
      /\ Sender!Flush /\ Writes(used' # 0)
      /\ UNCHANGED <<source, connected, running>>
  BY DEF Finish
<1>2. Sends(piece) /\ (~broken' => destination' = Given(piece))
  BY <1>1, FlushSends
<1>3. piece' \in 0..Len(Pieces) /\ piece' > 0
  BY <1>1
<1>4. ~broken' => destination' = Response
  BY <1>1, <1>2, GivenIs
<1> QED
  BY <1>1, <1>2, <1>3, <1>4, AnswerKeeps, AnswerAllowed

LEMMA StepHolds == ServerInv /\ [Next]_vars => ServerInv' /\ Allowed
<1> SUFFICES ASSUME ServerInv, [Next]_vars PROVE ServerInv' /\ Allowed
  OBVIOUS
<1>1. CASE UNCHANGED vars
  <2>1. control' = control
    BY <1>1 DEF vars, source
  <2> QED
    BY <1>1, <2>1, SourceStep DEF vars, ServerInv
<1>2. CASE Serve
  BY <1>2, GetStep, ReadStep, ReadThrowsStep, StartAnswerStep, EndpointThrowsStep,
     AnswerStep, AnswerBadRequestStep, FinishStep DEF Serve
<1> QED
  BY <1>1, <1>2, SendStep, DisconnectStep, AcceptThrowsStep DEF Next

(***************************************************************************)
(* serve_client (examples/hellohttp.cpp) implements Reply: for every       *)
(* response in pieces of any size, and for sinks with an array of any      *)
(* size, the client gets the response from the beginning and without a     *)
(* hole, to the end unless it has left or main() has ended.                *)
(***************************************************************************)
THEOREM ReplyCorrect == Spec => ImplementsReply
<1>1. Init => Abstract!Init
  <2> SUFFICES ASSUME Init PROVE Abstract!Init
    OBVIOUS
  <2>1. destination = <<>> /\ broken = FALSE /\ phase = "parsing" /\ running = TRUE
        /\ connected = TRUE
    BY DEF Init, Sender!Init
  <2> QED
    BY <2>1 DEF Abstract!Init
<1>2. Allowed =>
        [Abstract!Deliver \/ Abstract!Complete \/ Abstract!Excuse \/ Abstract!Cut]_
          <<destination,
            IF broken THEN "cut"
            ELSE IF phase = "over" /\ piece > 0 THEN "complete"
            ELSE IF phase = "over" \/ ~running THEN "cut" ELSE "open",
            ~connected \/ ~running>>
  BY DEF Allowed, State, Excused
<1> QED
  BY <1>1, <1>2, InitHolds, StepHolds, PTL DEF Spec, ImplementsReply, Abstract!Spec

=============================================================================
