------------------------ MODULE HttpConnection_proof ------------------------
(***************************************************************************)
(* Proofs about texts.  The connection: whatever is sent and wherever the  *)
(* pieces are cut, request_parser_sink makes of them what it would make of *)
(* the whole text character by character; the first request it hands out   *)
(* is the one that parse_request finds; and what is generated is read      *)
(* back, by all parsers and not before its end.  And Html: the length that *)
(* the compiler computes for an element is that of its text.               *)
(***************************************************************************)
EXTENDS HttpConnection, Html, SequencesExt, FiniteSetTheorems, SequenceTheorems, WellFoundedInduction, TLAPS

-----------------------------------------------------------------------------
(* Induction over the natural numbers.                                     *)

(* A set of natural numbers with 0 and the successor of each of its       *)
(* elements has them all.                                                  *)
LEMMA SetInduction ==
  ASSUME NEW T \in SUBSET Nat, 0 \in T, \A n \in T : n + 1 \in T
  PROVE  T = Nat
<1> SUFFICES ASSUME Nat \ T # {} PROVE FALSE
  OBVIOUS
<1> DEFINE less == OpToRel(<, Nat)
<1>1. IsWellFoundedOn(less, Nat)
  BY NatLessThanWellFounded
<1>2. \A x, y \in Nat : x < y => <<x, y>> \in less
  BY DEF OpToRel
<1> HIDE DEF less
<1>3. PICK n \in Nat \ T : \A m \in Nat \ T : ~(<<m, n>> \in less)
  BY <1>1, WFMin
<1>4. n # 0 /\ n - 1 \in Nat /\ n - 1 < n /\ (n - 1) + 1 = n
  BY <1>3
<1>5. n - 1 \in T
  BY <1>2, <1>3, <1>4
<1> QED
  BY <1>3, <1>4, <1>5

-----------------------------------------------------------------------------
(* The reference for request_parser_sink.                                  *)

(* The table of Readings for the first k characters of s. *)
ReadingsTo(f, s, k) ==
  /\ f = [n \in 0..k |-> f[n]]
  /\ \A n \in 0..k : f[n] = IF n = 0 THEN Receiver!Fresh ELSE Receiver!ReadChar(f[n-1], s[n])

(* There is one for every s and k.                                         *)
LEMMA ReadingsExist ==
  ASSUME NEW s
  PROVE  \A k \in Nat : \E f : ReadingsTo(f, s, k)
<1> DEFINE T == {k \in Nat : \E f : ReadingsTo(f, s, k)}
<1>1. 0 \in T
  <2> DEFINE f == [n \in 0..0 |-> Receiver!Fresh]
  <2>1. f = [n \in 0..0 |-> f[n]] /\ f[0] = Receiver!Fresh /\ \A n \in 0..0 : n = 0
    OBVIOUS
  <2> HIDE DEF f
  <2>2. ReadingsTo(f, s, 0)
    BY <2>1 DEF ReadingsTo
  <2> QED
    BY <2>2
<1>2. ASSUME NEW k \in T PROVE k + 1 \in T
  <2>1. k \in Nat /\ k + 1 \in Nat
    OBVIOUS
  <2>2. PICK f : ReadingsTo(f, s, k)
    OBVIOUS
  <2> DEFINE g == [n \in 0..k + 1 |-> IF n = k + 1 THEN Receiver!ReadChar(f[k], s[n]) ELSE f[n]]
  <2>3. /\ \A n \in 0..k : g[n] = f[n]
        /\ g[k + 1] = Receiver!ReadChar(f[k], s[k + 1])
        /\ g = [n \in 0..k + 1 |-> g[n]]
    BY <2>1
  <2> HIDE DEF g
  <2>4. ASSUME NEW n \in 0..k + 1
        PROVE  g[n] = IF n = 0 THEN Receiver!Fresh ELSE Receiver!ReadChar(g[n-1], s[n])
    <3>1. CASE n = k + 1
      <4>1. n # 0 /\ n - 1 = k /\ k \in 0..k
        BY <2>1, <3>1
      <4>2. g[n-1] = f[k]
        BY <2>3, <4>1
      <4> QED
        BY <2>3, <3>1, <4>1, <4>2
    <3>2. CASE n # k + 1
      <4>1. n \in 0..k /\ (n # 0 => n - 1 \in 0..k)
        BY <2>1, <3>2
      <4>2. g[n] = f[n] /\ (n # 0 => g[n-1] = f[n-1])
        BY <2>3, <4>1
      <4>3. f[n] = IF n = 0 THEN Receiver!Fresh ELSE Receiver!ReadChar(f[n-1], s[n])
        BY <2>2, <4>1 DEF ReadingsTo
      <4> QED
        BY <4>2, <4>3
    <3> QED
      BY <3>1, <3>2
  <2>5. ReadingsTo(g, s, k + 1)
    BY <2>3, <2>4 DEF ReadingsTo
  <2> QED
    BY <2>1, <2>5
<1> HIDE DEF T
<1>3. T \in SUBSET Nat
  BY DEF T
<1>4. T = Nat
  BY <1>1, <1>2, <1>3, SetInduction
<1> QED
  BY <1>4 DEF T

(* Readings is the function its recursive definition describes. *)
LEMMA ReadingsAre ==
  ASSUME NEW S, NEW s \in Seq(S)
  PROVE  /\ Receiver!Readings(s)[0] = Receiver!Fresh
         /\ \A n \in 1..Len(s) :
              Receiver!Readings(s)[n] = Receiver!ReadChar(Receiver!Readings(s)[n-1], s[n])
<1> DEFINE Body(f) == [n \in 0..Len(s) |->
                         IF n = 0 THEN Receiver!Fresh ELSE Receiver!ReadChar(f[n-1], s[n])]
           r == CHOOSE f : f = Body(f)
<1>1. Len(s) \in Nat
  OBVIOUS
<1>2. Receiver!Readings(s) = r
  BY DEF Receiver!Readings
<1>3. PICK f : ReadingsTo(f, s, Len(s))
  BY <1>1, ReadingsExist
<1>4. f = Body(f)
  BY <1>3 DEF ReadingsTo
<1>5. r = Body(r)
  BY <1>4
<1> HIDE DEF r
<1>6. \A n \in 0..Len(s) : r[n] = IF n = 0 THEN Receiver!Fresh ELSE Receiver!ReadChar(r[n-1], s[n])
  BY <1>5
<1>7. 0 \in 0..Len(s) /\ \A n \in 1..Len(s) : n \in 0..Len(s) /\ n # 0
  BY <1>1
<1> QED
  BY <1>2, <1>6, <1>7

(* What has been read depends on the characters up to there alone. *)
LEMMA ReadingsOfPrefix ==
  ASSUME NEW S, NEW s \in Seq(S), NEW t \in Seq(S), NEW m \in Nat,
         m <= Len(s), m <= Len(t), \A i \in 1..m : s[i] = t[i]
  PROVE  \A n \in 0..m : Receiver!Readings(s)[n] = Receiver!Readings(t)[n]
<1> DEFINE T == {n \in Nat : n <= m => Receiver!Readings(s)[n] = Receiver!Readings(t)[n]}
<1>1. 0 \in T
  BY ReadingsAre
<1>2. ASSUME NEW n \in T PROVE n + 1 \in T
  <2> SUFFICES ASSUME n + 1 <= m
               PROVE  Receiver!Readings(s)[n + 1] = Receiver!Readings(t)[n + 1]
    OBVIOUS
  <2>1. /\ n \in Nat /\ n <= m /\ (n + 1) - 1 = n
        /\ n + 1 \in 1..m /\ n + 1 \in 1..Len(s) /\ n + 1 \in 1..Len(t)
    OBVIOUS
  <2>2. Receiver!Readings(s)[n] = Receiver!Readings(t)[n] /\ s[n + 1] = t[n + 1]
    BY <2>1
  <2>3. Receiver!Readings(s)[n + 1] = Receiver!ReadChar(Receiver!Readings(s)[n], s[n + 1])
    BY <2>1, ReadingsAre
  <2>4. Receiver!Readings(t)[n + 1] = Receiver!ReadChar(Receiver!Readings(t)[n], t[n + 1])
    BY <2>1, ReadingsAre
  <2> QED
    BY <2>2, <2>3, <2>4
<1> HIDE DEF T
<1>3. T \in SUBSET Nat
  BY DEF T
<1>4. T = Nat
  BY <1>1, <1>2, <1>3, SetInduction
<1> QED
  BY <1>4 DEF T

-----------------------------------------------------------------------------
(* What a parser is in the middle of.                                      *)

(* The states of the sink.                                                 *)
States == {"method", "path", "version", "version_lf", "key", "value_space", "value",
           "value_lf", "end_of_headers_lf"}

(* Requests and parsers, by their parts.                                   *)
Requested(m, p, h, a) == [method |-> m, path |-> p, http_version |-> h, arguments |-> a]

Parser(s, r, k, v, o) == [state |-> s, result |-> r, key |-> k, value |-> v, output |-> o]

(* The arguments and the requests that are done can be anything. *)
IsRequested(r) ==
  /\ r = Requested(r.method, r.path, r.http_version, r.arguments)
  /\ r.method \in Strings /\ r.path \in Strings /\ r.http_version \in Strings

(* What a parser has read of the current part are strings.                 *)
IsParser(p) ==
  /\ p = Parser(p.state, p.result, p.key, p.value, p.output)
  /\ p.state \in States
  /\ IsRequested(p.result)
  /\ p.key \in Strings /\ p.value \in Strings

(* Such parts make parsers and requests.                                   *)
LEMMA IsParserOf ==
  ASSUME NEW s \in States, NEW r, IsRequested(r), NEW k \in Strings, NEW v \in Strings, NEW o
  PROVE  IsParser(Parser(s, r, k, v, o))
BY DEF IsParser, Parser

LEMMA IsRequestedOf ==
  ASSUME NEW m \in Strings, NEW p \in Strings, NEW h \in Strings, NEW a
  PROVE  IsRequested(Requested(m, p, h, a))
BY DEF IsRequested, Requested

(* The states that take all characters but delimiters.                     *)
Reads == {"method", "path", "version", "key", "value"}

(* r and p with w appended to the part that is read.                       *)
ResultWith(r, part, w) ==
  Requested(IF part = "method" THEN r.method \o w ELSE r.method,
            IF part = "path" THEN r.path \o w ELSE r.path,
            IF part = "version" THEN r.http_version \o w ELSE r.http_version,
            r.arguments)

Extended(p, w) ==
  Parser(p.state, ResultWith(p.result, p.state, w),
         IF p.state = "key" THEN p.key \o w ELSE p.key,
         IF p.state = "value" THEN p.value \o w ELSE p.value,
         p.output)

(* What ends a part, and what ends or interrupts it.                       *)
Delimiter(part) ==
  IF part \in {"method", "path"} THEN SP ELSE IF part = "key" THEN CO ELSE CR

Stops(part) == {Delimiter(part)} \cup (IF part = "key" THEN {CR} ELSE {})

(* It is a parser again,                                                   *)
LEMMA ExtendedIsParser ==
  ASSUME NEW p, IsParser(p), NEW w \in Strings
  PROVE  /\ IsParser(Extended(p, w))
         /\ Extended(p, w).state = p.state
         /\ Extended(p, w).key = IF p.state = "key" THEN p.key \o w ELSE p.key
<1>1. /\ p.state \in States /\ p.key \in Strings /\ p.value \in Strings
      /\ p.result.method \in Strings /\ p.result.path \in Strings /\ p.result.http_version \in Strings
  BY DEF IsParser, IsRequested
<1>2. \A t \in Strings : t \o w \in Strings
  BY DEF Strings
<1>3. IsRequested(ResultWith(p.result, p.state, w))
  BY <1>1, <1>2, IsRequestedOf DEF ResultWith
<1>4. IsParser(Extended(p, w))
  BY <1>1, <1>2, <1>3, IsParserOf DEF Extended
<1> QED
  BY <1>4 DEF Extended, Parser

(* the same one if w is empty,                                             *)
LEMMA ExtendedByNothing ==
  ASSUME NEW p, IsParser(p)
  PROVE  Extended(p, <<>>) = p
<1>1. /\ p.key \in Strings /\ p.value \in Strings
      /\ p.result.method \in Strings /\ p.result.path \in Strings /\ p.result.http_version \in Strings
  BY DEF IsParser, IsRequested
<1>2. \A t \in Strings : t \o <<>> = t
  BY DEF Strings
<1>3. ResultWith(p.result, p.state, <<>>) = p.result
  <2>1. p.result = Requested(p.result.method, p.result.path, p.result.http_version,
                             p.result.arguments)
    BY DEF IsParser, IsRequested
  <2>2. ResultWith(p.result, p.state, <<>>)
          = Requested(p.result.method, p.result.path, p.result.http_version, p.result.arguments)
    BY <1>1, <1>2 DEF ResultWith
  <2> QED
    BY <2>1, <2>2
<1>4. p = Parser(p.state, p.result, p.key, p.value, p.output)
  BY DEF IsParser
<1>5. Extended(p, <<>>) = Parser(p.state, p.result, p.key, p.value, p.output)
  BY <1>1, <1>2, <1>3 DEF Extended
<1> QED
  BY <1>4, <1>5

(* and the order of appending does not matter.                             *)
LEMMA ExtendedTwice ==
  ASSUME NEW p, IsParser(p), NEW w \in Strings, NEW x \in Strings
  PROVE  Extended(Extended(p, w), x) = Extended(p, w \o x)
<1>1. /\ p.key \in Strings /\ p.value \in Strings
      /\ p.result.method \in Strings /\ p.result.path \in Strings /\ p.result.http_version \in Strings
  BY DEF IsParser, IsRequested
<1>2. \A t \in Strings : (t \o w) \o x = t \o (w \o x)
  BY DEF Strings
<1> DEFINE q == Extended(p, w)
<1>3. /\ q.state = p.state /\ q.result = ResultWith(p.result, p.state, w)
      /\ q.key = (IF p.state = "key" THEN p.key \o w ELSE p.key)
      /\ q.value = (IF p.state = "value" THEN p.value \o w ELSE p.value)
      /\ q.output = p.output
  BY DEF Extended, Parser
<1>4. /\ q.result.method = (IF p.state = "method" THEN p.result.method \o w ELSE p.result.method)
      /\ q.result.path = (IF p.state = "path" THEN p.result.path \o w ELSE p.result.path)
      /\ q.result.http_version
           = (IF p.state = "version" THEN p.result.http_version \o w ELSE p.result.http_version)
      /\ q.result.arguments = p.result.arguments
  BY <1>3 DEF ResultWith, Requested
<1> HIDE DEF q
<1>5. ResultWith(q.result, q.state, x) = ResultWith(p.result, p.state, w \o x)
  BY <1>1, <1>2, <1>3, <1>4 DEF ResultWith
<1> QED
  BY <1>1, <1>2, <1>3, <1>5 DEF Extended, q

(* The sink is an instance with delimiters of its own. *)
LEMMA SameDelimiters ==
  /\ Receiver!SP = SP /\ Receiver!CO = CO /\ Receiver!CR = CR /\ Receiver!LF = LF
  /\ SP # CO /\ SP # CR /\ CO # CR
BY DEF SP, CO, CR, LF, Receiver!SP, Receiver!CO, Receiver!CR, Receiver!LF

(* And it inserts like parse_request. *)
LEMMA SameInserted == \A a, k, v : Receiver!Inserted(a, k, v) = Inserted(a, k, v)
BY DEF Inserted, Receiver!Inserted

(* A character that is no delimiter. *)
LEMMA ReadsOn ==
  ASSUME NEW p, IsParser(p), p.state \in Reads, NEW c \in Characters, c \notin Stops(p.state)
  PROVE  Receiver!ReadChar(p, c) = Extended(p, <<c>>)
<1>1. p.state \notin DOMAIN Receiver!Skips
  BY DEF Reads, Receiver!Skips
<1>2. Receiver!ReadChar(p, c) = Receiver!ReadIn(p, c)
  BY <1>1 DEF Receiver!ReadChar
<1>3. /\ p.key \in Strings /\ p.value \in Strings
      /\ p.result.method \in Strings /\ p.result.path \in Strings /\ p.result.http_version \in Strings
      /\ p.result = Requested(p.result.method, p.result.path, p.result.http_version,
                              p.result.arguments)
  BY DEF IsParser, IsRequested
<1>10. p = Parser(p.state, p.result, p.key, p.value, p.output)
  BY DEF IsParser
<1>4. \A t \in Strings : Append(t, c) = t \o <<c>>
  BY DEF Strings
<1>5. CASE p.state = "method"
  <2>1. c # SP
    BY <1>5 DEF Stops, Delimiter
  <2>2. Receiver!ReadIn(p, c) = [p EXCEPT !.result["method"] = Append(@, c)]
    BY <1>5, <2>1, SameDelimiters DEF Receiver!ReadIn
  <2>3. PICK r : r = [p.result EXCEPT !.method = Append(@, c)]
    OBVIOUS
  <2>4. r = Requested(Append(p.result.method, c), p.result.path,
                         p.result.http_version, p.result.arguments)
    BY <1>3, <2>3 DEF Requested
  <2>5. Receiver!ReadIn(p, c) = Parser(p.state, r, p.key, p.value, p.output)
    BY <1>10, <2>2, <2>3 DEF Parser
  <2> QED
    BY <1>2, <1>3, <1>4, <1>5, <2>4, <2>5 DEF Extended, ResultWith
<1>6. CASE p.state = "path"
  <2>1. c # SP
    BY <1>6 DEF Stops, Delimiter
  <2>2. Receiver!ReadIn(p, c) = [p EXCEPT !.result["path"] = Append(@, c)]
    BY <1>6, <2>1, SameDelimiters DEF Receiver!ReadIn
  <2>3. PICK r : r = [p.result EXCEPT !.path = Append(@, c)]
    OBVIOUS
  <2>4. r = Requested(p.result.method, Append(p.result.path, c),
                         p.result.http_version, p.result.arguments)
    BY <1>3, <2>3 DEF Requested
  <2>5. Receiver!ReadIn(p, c) = Parser(p.state, r, p.key, p.value, p.output)
    BY <1>10, <2>2, <2>3 DEF Parser
  <2> QED
    BY <1>2, <1>3, <1>4, <1>6, <2>4, <2>5 DEF Extended, ResultWith
<1>7. CASE p.state = "version"
  <2>1. c # CR
    BY <1>7 DEF Stops, Delimiter
  <2>2. Receiver!ReadIn(p, c) = [p EXCEPT !.result.http_version = Append(@, c)]
    BY <1>7, <2>1, SameDelimiters DEF Receiver!ReadIn
  <2>3. PICK r : r = [p.result EXCEPT !.http_version = Append(@, c)]
    OBVIOUS
  <2>4. r = Requested(p.result.method, p.result.path,
                         Append(p.result.http_version, c), p.result.arguments)
    BY <1>3, <2>3 DEF Requested
  <2>5. Receiver!ReadIn(p, c) = Parser(p.state, r, p.key, p.value, p.output)
    BY <1>10, <2>2, <2>3 DEF Parser
  <2> QED
    BY <1>2, <1>3, <1>4, <1>7, <2>4, <2>5 DEF Extended, ResultWith
<1>8. CASE p.state = "key"
  <2>1. c # CR /\ c # CO
    BY <1>8 DEF Stops, Delimiter
  <2>2. Receiver!ReadIn(p, c) = [p EXCEPT !.key = Append(@, c)]
    BY <1>8, <2>1, SameDelimiters DEF Receiver!ReadIn
  <2>3. [p EXCEPT !.key = Append(@, c)]
          = Parser(p.state, p.result, Append(p.key, c), p.value, p.output)
    BY <1>10 DEF Parser
  <2>4. Append(p.key, c) = p.key \o <<c>>
    BY <1>3, <1>4
  <2>5. ResultWith(p.result, p.state, <<c>>) = p.result
    BY <1>3, <1>8 DEF ResultWith
  <2>6. Extended(p, <<c>>) = Parser(p.state, p.result, p.key \o <<c>>, p.value, p.output)
    BY <1>8, <2>5 DEF Extended
  <2> QED
    BY <1>2, <2>2, <2>3, <2>4, <2>6
<1>9. CASE p.state = "value"
  <2>1. c # CR
    BY <1>9 DEF Stops, Delimiter
  <2>2. Receiver!ReadIn(p, c) = [p EXCEPT !.value = Append(@, c)]
    BY <1>9, <2>1, SameDelimiters DEF Receiver!ReadIn
  <2>3. [p EXCEPT !.value = Append(@, c)]
          = Parser(p.state, p.result, p.key, Append(p.value, c), p.output)
    BY <1>10, SMTT(20) DEF Parser
  <2>4. Append(p.value, c) = p.value \o <<c>>
    BY <1>3, <1>4
  <2>5. ResultWith(p.result, p.state, <<c>>) = p.result
    BY <1>3, <1>9 DEF ResultWith
  <2>6. Extended(p, <<c>>) = Parser(p.state, p.result, p.key, p.value \o <<c>>, p.output)
    BY <1>9, <2>5 DEF Extended
  <2> QED
    BY <1>2, <2>2, <2>3, <2>4, <2>6
<1> QED
  BY <1>5, <1>6, <1>7, <1>8, <1>9 DEF Reads

(* The delimiters that end what a state reads, and the characters that     *)
(* are skipped.                                                            *)
LEMMA ReadsDelimiter ==
  ASSUME NEW p, IsParser(p)
  PROVE  /\ p.state \in {"method", "path"} =>
              Receiver!ReadChar(p, SP)
                = Parser(IF p.state = "method" THEN "path" ELSE "version",
                         p.result, p.key, p.value, p.output)
         /\ p.state = "version" =>
              Receiver!ReadChar(p, CR) = Parser("version_lf", p.result, p.key, p.value, p.output)
         /\ p.state = "key" =>
              /\ Receiver!ReadChar(p, CO)
                   = Parser("value_space", p.result, p.key, p.value, p.output)
              /\ Receiver!ReadChar(p, CR)
                   = Parser("end_of_headers_lf", Receiver!EmptyRequest, p.key, p.value,
                            Append(p.output, p.result))
         /\ p.state = "value" =>
              Receiver!ReadChar(p, CR)
                = Parser("value_lf",
                         [p.result EXCEPT !.arguments = Inserted(@, p.key, p.value)],
                         <<>>, <<>>, p.output)
<1>1. p.state \in Reads => \A c : Receiver!ReadChar(p, c) = Receiver!ReadIn(p, c)
  BY DEF Receiver!ReadChar, Receiver!Skips, Reads
<1>2. p = Parser(p.state, p.result, p.key, p.value, p.output)
  BY DEF IsParser
<1>3. CASE p.state \in {"method", "path"}
  <2>1. Receiver!ReadIn(p, SP)
          = [p EXCEPT !.state = IF @ = "method" THEN "path" ELSE "version"]
    BY <1>3, SameDelimiters DEF Receiver!ReadIn
  <2>2. Receiver!ReadIn(p, SP) = Parser(IF p.state = "method" THEN "path" ELSE "version",
                                        p.result, p.key, p.value, p.output)
    BY <1>2, <2>1 DEF Parser
  <2> QED
    BY <1>1, <1>3, <2>2 DEF Reads
<1>4. CASE p.state = "version"
  <2>1. Receiver!ReadIn(p, CR) = [p EXCEPT !.state = "version_lf"]
    BY <1>4, SameDelimiters DEF Receiver!ReadIn
  <2>2. Receiver!ReadIn(p, CR) = Parser("version_lf", p.result, p.key, p.value, p.output)
    BY <1>2, <2>1 DEF Parser
  <2> QED
    BY <1>1, <1>4, <2>2 DEF Reads
<1>5. CASE p.state = "key"
  <2>1. Receiver!ReadIn(p, CO) = [p EXCEPT !.state = "value_space"]
    BY <1>5, SameDelimiters DEF Receiver!ReadIn
  <2>2. Receiver!ReadIn(p, CO) = Parser("value_space", p.result, p.key, p.value, p.output)
    BY <1>2, <2>1 DEF Parser
  <2>3. Receiver!ReadIn(p, CR) = [p EXCEPT !.state = "end_of_headers_lf",
                                           !.output = Append(@, p.result),
                                           !.result = Receiver!EmptyRequest]
    BY <1>5, SameDelimiters DEF Receiver!ReadIn
  <2>4. Receiver!ReadIn(p, CR) = Parser("end_of_headers_lf", Receiver!EmptyRequest, p.key,
                                        p.value, Append(p.output, p.result))
    BY <1>2, <2>3 DEF Parser
  <2> QED
    BY <1>1, <1>5, <2>2, <2>4 DEF Reads
<1>6. CASE p.state = "value"
  <2> DEFINE table == Inserted(p.result.arguments, p.key, p.value)
  <2>1. PICK r : r = [p.result EXCEPT !.arguments = table]
    OBVIOUS
  <2>2. Receiver!ReadIn(p, CR) = [p EXCEPT !.state = "value_lf",
                                           !.result.arguments = table,
                                           !.key = <<>>, !.value = <<>>]
    BY <1>6, SameDelimiters, SameInserted DEF Receiver!ReadIn
  <2> HIDE DEF table
  <2>3. Receiver!ReadIn(p, CR) = Parser("value_lf", r, <<>>, <<>>, p.output)
    BY <1>2, <2>1, <2>2 DEF Parser
  <2> QED
    BY <1>1, <1>6, <2>1, <2>3 DEF Reads, table
<1> QED
  BY <1>3, <1>4, <1>5, <1>6

(* An optional character, or one that is read in the state behind.         *)
LEMMA ReadsOptional ==
  ASSUME NEW s \in DOMAIN Receiver!Skips, NEW r, NEW k, NEW v, NEW o, NEW c
  PROVE  LET next == Receiver!Skips[s].next
             p == Parser(next, r, k, v, o)
         IN  /\ next \in Reads
             /\ c = Receiver!Skips[s].char =>
                  Receiver!ReadChar(Parser(s, r, k, v, o), c) = p
             /\ c # Receiver!Skips[s].char =>
                  Receiver!ReadChar(Parser(s, r, k, v, o), c) = Receiver!ReadChar(p, c)
<1> DEFINE next == Receiver!Skips[s].next
           q == Parser(s, r, k, v, o)
           p == Parser(next, r, k, v, o)
<1>1. next \in Reads /\ Reads \cap DOMAIN Receiver!Skips = {}
  BY DEF Receiver!Skips, Reads
<1> HIDE DEF next
<1>2. q.state = s /\ p.state = next /\ [q EXCEPT !.state = next] = p
  BY DEF Parser
<1> HIDE DEF q, p
<1>3. Receiver!ReadChar(q, c) = IF c = Receiver!Skips[s].char THEN p ELSE Receiver!ReadIn(p, c)
  BY <1>2 DEF Receiver!ReadChar, next
<1>4. Receiver!ReadChar(p, c) = Receiver!ReadIn(p, c)
  BY <1>1, <1>2 DEF Receiver!ReadChar
<1> QED
  BY <1>1, <1>3, <1>4 DEF next, p, q

-----------------------------------------------------------------------------
(* Several characters at once.                                             *)

(* A header line ends before it has a colon, among the first n characters. *)
CutOff(s, n) ==
  \E i \in 1..n : /\ s[i] = CR
                  /\ Receiver!Readings(s)[i-1].state = "key"
                  /\ Receiver!Readings(s)[i-1].key # <<>>

(* One more character of a text behind its i-th.                           *)
LEMMA OneMore ==
  ASSUME NEW s \in Strings, NEW i \in Nat, NEW n \in Nat, i + n + 1 <= Len(s)
  PROVE  /\ SubSeq(s, i + 1, i + n) \in Strings
         /\ SubSeq(s, i + 1, i + n + 1) = SubSeq(s, i + 1, i + n) \o <<s[i + n + 1]>>
         /\ Len(SubSeq(s, i + 1, i + n)) = n
         /\ s[i + n + 1] \in Characters
<1> DEFINE a == SubSeq(s, i + 1, i + n)
           b == SubSeq(s, i + 1, i + n + 1)
<1>1. a \in Strings /\ Len(a) = n /\ \A j \in 1..n : a[j] = s[i + j]
  BY DEF Strings
<1>2. b \in Strings /\ Len(b) = n + 1 /\ \A j \in 1..n + 1 : b[j] = s[i + j]
  BY DEF Strings
<1>3. s[i + n + 1] \in Characters /\ i + (n + 1) = i + n + 1
  BY DEF Strings
<1> HIDE DEF a, b
<1> DEFINE c == a \o <<s[i + n + 1]>>
<1>4. c \in Strings /\ Len(c) = n + 1 /\ (\A j \in 1..n : c[j] = a[j]) /\ c[n + 1] = s[i + n + 1]
  BY <1>1, <1>3 DEF Strings
<1> HIDE DEF c
<1>5. \A j \in 1..n + 1 : b[j] = c[j]
  <2> SUFFICES ASSUME NEW j \in 1..n + 1 PROVE b[j] = c[j]
    OBVIOUS
  <2>1. CASE j = n + 1
    BY <1>2, <1>3, <1>4, <2>1
  <2>2. CASE j # n + 1
    <3>1. j \in 1..n
      BY <2>2
    <3> QED
      BY <1>1, <1>2, <1>4, <3>1
  <2> QED
    BY <2>1, <2>2
<1>6. b = c
  BY <1>2, <1>4, <1>5 DEF Strings
<1> QED
  BY <1>1, <1>3, <1>6 DEF a, b, c

(* A parser p in front of the character i + 1 that reads a part without    *)
(* delimiters: where a round of the loop in append() ends, the reference   *)
(* has read the same.                                                      *)
LEMMA ReadsPart ==
  ASSUME NEW s \in Strings, NEW p, IsParser(p), p.state \in Reads, NEW i \in Nat, i < Len(s),
         Receiver!Readings(s)[i + 1] = Receiver!ReadChar(p, s[i + 1]),
         p.state = "key" => s[i + 1] # CR,
         NEW m \in Nat, i + m <= Len(s),
         \A j \in i + 1 .. i + m : s[j] # Delimiter(p.state)
  PROVE  \/ CutOff(s, i + m)
         \/ /\ m # 0 => Receiver!Readings(s)[i + m] = Extended(p, SubSeq(s, i + 1, i + m))
            /\ i + m < Len(s) =>
                 Receiver!Readings(s)[i + m + 1]
                   = Receiver!ReadChar(Extended(p, SubSeq(s, i + 1, i + m)), s[i + m + 1])
<1> DEFINE Part(n) == SubSeq(s, i + 1, i + n)
           Reached(n) ==
             /\ n # 0 => Receiver!Readings(s)[i + n] = Extended(p, Part(n))
             /\ i + n < Len(s) =>
                  Receiver!Readings(s)[i + n + 1] = Receiver!ReadChar(Extended(p, Part(n)), s[i + n + 1])
           T == {n \in Nat : n <= m => CutOff(s, i + n) \/ Reached(n)}
<1>0. Len(s) \in Nat
  BY DEF Strings
<1>1. 0 \in T
  <2>1. Part(0) = <<>> /\ i + 0 = i
    BY DEF Strings
  <2>2. Extended(p, Part(0)) = p
    BY <2>1, ExtendedByNothing
  <2> HIDE DEF Part
  <2>3. Reached(0)
    BY <2>1, <2>2
  <2> QED
    BY <2>3
<1>2. ASSUME NEW n \in T PROVE n + 1 \in T
  <2> SUFFICES ASSUME n + 1 <= m PROVE CutOff(s, i + (n + 1)) \/ Reached(n + 1)
    OBVIOUS
  <2>0. n \in Nat /\ (n <= m => CutOff(s, i + n) \/ Reached(n))
    OBVIOUS
  <2> HIDE DEF T, Reached
  <2>1. /\ n \in Nat /\ n <= m /\ i + n < Len(s) /\ i + n + 1 <= Len(s)
        /\ i + (n + 1) = i + n + 1 /\ n + 1 # 0
        /\ i + n + 1 \in i + 1 .. i + m /\ i + n + 1 \in 1..Len(s)
        /\ (i + n + 1) - 1 = i + n
    BY <1>0, <2>0
  <2>2. CASE CutOff(s, i + n)
    <3>1. \A j \in 1..i + n : j \in 1..i + (n + 1)
      BY <2>1
    <3> QED
      BY <2>2, <3>1 DEF CutOff
  <2>3. CASE ~CutOff(s, i + n)
    <3>1. Reached(n)
      BY <2>0, <2>1, <2>3
    <3>2. /\ Part(n) \in Strings /\ Part(n + 1) = Part(n) \o <<s[i + n + 1]>> /\ Len(Part(n)) = n
          /\ s[i + n + 1] \in Characters
      <4>1. SubSeq(s, i + 1, i + (n + 1)) = SubSeq(s, i + 1, i + n + 1)
        BY <2>1
      <4> QED
        BY <2>1, <4>1, OneMore
    <3> DEFINE c == s[i + n + 1]
               q == Extended(p, Part(n))
    <3>3. Receiver!Readings(s)[i + n + 1] = Receiver!ReadChar(q, c)
      BY <2>1, <3>1 DEF Reached
    <3>4. n # 0 => Receiver!Readings(s)[i + n] = q
      BY <3>1 DEF Reached
    <3> HIDE DEF Part
    <3>5. IsParser(q) /\ q.state = p.state /\ q.key = (IF p.state = "key" THEN p.key \o Part(n) ELSE p.key)
      BY <3>2, ExtendedIsParser
    <3>6. Extended(q, <<c>>) = Extended(p, Part(n + 1))
      <4>1. <<c>> \in Strings
        BY <3>2 DEF Strings
      <4>2. Extended(Extended(p, Part(n)), <<c>>) = Extended(p, Part(n) \o <<c>>)
        <5> HIDE DEF c
        <5> QED
          BY <3>2, <4>1, ExtendedTwice
      <4> QED
        BY <3>2, <4>2
    <3> HIDE DEF q
    <3>7. CASE c \in Stops(p.state)
      <4>1. p.state = "key" /\ c = CR
        BY <2>1, <3>7 DEF Stops
      <4>2. n # 0
        <5> SUFFICES ASSUME n = 0 PROVE FALSE
          OBVIOUS
        <5>1. i + n + 1 = i + 1
          OBVIOUS
        <5> QED
          BY <4>1, <5>1
      <4>3. Receiver!Readings(s)[i + n].state = "key" /\ Receiver!Readings(s)[i + n].key # <<>>
        <5>1. p.key \in Strings
          BY DEF IsParser
        <5>2. p.key \o Part(n) # <<>>
          BY <3>2, <4>2, <5>1 DEF Strings
        <5> QED
          BY <3>4, <3>5, <4>1, <4>2, <5>2
      <4>4. CutOff(s, i + n + 1)
        <5>1. i + n + 1 \in 1..i + n + 1
          BY <2>1
        <5> QED
          BY <2>1, <4>1, <4>3, <5>1 DEF CutOff
      <4> QED
        BY <2>1, <4>4
    <3>8. CASE c \notin Stops(p.state)
      <4>1. Receiver!Readings(s)[i + n + 1] = Extended(p, Part(n + 1))
        BY <3>2, <3>3, <3>5, <3>6, <3>8, ReadsOn
      <4>2. ASSUME i + (n + 1) < Len(s)
            PROVE  Receiver!Readings(s)[i + (n + 1) + 1]
                     = Receiver!ReadChar(Extended(p, Part(n + 1)), s[i + (n + 1) + 1])
        <5>1. i + (n + 1) + 1 \in 1..Len(s) /\ (i + (n + 1) + 1) - 1 = i + n + 1
          BY <1>0, <2>1, <4>2
        <5> QED
          BY <4>1, <5>1, ReadingsAre DEF Strings
      <4> QED
        BY <2>1, <4>1, <4>2 DEF Reached
    <3> QED
      BY <3>7, <3>8
  <2> QED
    BY <2>2, <2>3
<1> HIDE DEF T
<1>3. T \in SUBSET Nat
  BY DEF T
<1>4. m \in T
  BY <1>1, <1>2, <1>3, SetInduction
<1> QED
  BY <1>4 DEF T

-----------------------------------------------------------------------------
(* One round of the loop in append().                                      *)

(* There is a smallest number in every set of natural numbers.             *)
LEMMA SmallestNumber ==
  ASSUME NEW U \in SUBSET Nat, U # {}
  PROVE  \E n \in U : \A m \in U : n <= m
<1> SUFFICES ASSUME \A n \in U : \E m \in U : ~(n <= m) PROVE FALSE
  OBVIOUS
<1> DEFINE T == {n \in Nat : \A m \in U : n <= m}
<1>1. 0 \in T
  OBVIOUS
<1>2. ASSUME NEW n \in T PROVE n + 1 \in T
  <2>1. n \notin U
    OBVIOUS
  <2>2. \A m \in U : m # n /\ n <= m /\ m \in Nat
    BY <2>1
  <2> QED
    BY <2>2
<1> HIDE DEF T
<1>3. T \in SUBSET Nat
  BY DEF T
<1>4. T = Nat
  BY <1>1, <1>2, <1>3, SetInduction
<1>5. PICK n \in U : TRUE
  OBVIOUS
<1>6. n + 1 \in T /\ n \in Nat
  BY <1>4
<1> QED
  BY <1>6 DEF T

(* std::find *)
LEMMA FindIs ==
  ASSUME NEW s \in Strings, NEW c
  PROVE  LET at == Receiver!Find(s, c, 1)
         IN  /\ at \in 1..Len(s) + 1
             /\ \A h \in 1..at - 1 : s[h] # c
             /\ at <= Len(s) => s[at] = c
<1> DEFINE U == {j \in 1..Len(s) : s[j] = c}
           First(j) == s[j] = c /\ \A h \in 1..j - 1 : s[h] # c
<1>1. Len(s) \in Nat
  BY DEF Strings
<1>2. CASE U = {}
  <2>1. Receiver!Find(s, c, 1) = Len(s) + 1
    BY <1>2 DEF Receiver!Find
  <2> QED
    BY <1>1, <1>2, <2>1
<1>3. CASE U # {}
  <2>1. \E j \in 1..Len(s) : s[j] = c
    BY <1>3
  <2>2. Receiver!Find(s, c, 1) = CHOOSE j \in 1..Len(s) : First(j)
    BY <2>1 DEF Receiver!Find
  <2>3. U \in SUBSET Nat
    BY <1>1
  <2>4. PICK n \in U : \A m \in U : n <= m
    BY <1>3, <2>3, SmallestNumber, Zenon
  <2>5. n \in 1..Len(s) /\ s[n] = c
    OBVIOUS
  <2>6. ASSUME NEW h \in 1..n - 1 PROVE s[h] # c
    <3>1. h \in 1..Len(s) /\ ~(n <= h)
      BY <1>1, <2>5
    <3>2. h \notin U
      BY <2>4, <3>1
    <3> QED
      BY <3>1, <3>2
  <2>7. First(n)
    BY <2>5, <2>6
  <2> HIDE DEF First
  <2>8. \E j \in 1..Len(s) : First(j)
    BY <2>5, <2>7
  <2>9. Receiver!Find(s, c, 1) \in 1..Len(s) /\ First(Receiver!Find(s, c, 1))
    BY <2>2, <2>8, Zenon
  <2> QED
    BY <1>1, <2>9 DEF First
<1> QED
  BY <1>2, <1>3

(* A parser p at character i + 1 of s, where the rest d of a piece begins: *)
(* it is where the reference is, or has already seen that an optional      *)
(* character is missing.                                                   *)
Agrees(s, i, d, p) ==
  \/ Receiver!Readings(s)[i] = p
  \/ \E skip \in DOMAIN Receiver!Skips :
       /\ Receiver!Readings(s)[i] = Parser(skip, p.result, p.key, p.value, p.output)
       /\ p.state = Receiver!Skips[skip].next
       /\ d # <<>> /\ d[1] # Receiver!Skips[skip].char

(* Unless a line has been cut off already.                                 *)
Follows(s, i, d, p) ==
  /\ s \in Strings /\ d \in Strings /\ i \in Nat /\ i + Len(d) <= Len(s)
  /\ \A j \in 1..Len(d) : d[j] = s[i + j]
  /\ IsParser(p)
  /\ CutOff(s, i) \/ Agrees(s, i, d, p)

(* The rest of a piece without its first n characters. *)
LEMMA Further ==
  ASSUME NEW s, NEW i, NEW d, NEW p, Follows(s, i, d, p), NEW n \in 0..Len(d)
  PROVE  LET rest == SubSeq(d, n + 1, Len(d))
         IN  /\ rest \in Strings /\ i + n \in Nat /\ Len(rest) = Len(d) - n
             /\ (i + n) + Len(rest) <= Len(s)
             /\ \A j \in 1..Len(rest) : rest[j] = s[(i + n) + j]
<1> DEFINE rest == SubSeq(d, n + 1, Len(d))
<1>1. d \in Strings /\ i \in Nat /\ i + Len(d) <= Len(s) /\ Len(d) \in Nat /\ Len(s) \in Nat
  BY DEF Follows, Strings
<1>2. rest \in Strings /\ Len(rest) = Len(d) - n
  BY <1>1 DEF Strings
<1>5. \A j \in 1..Len(d) - n : rest[j] = d[n + j]
  <2> SUFFICES ASSUME NEW j \in 1..Len(d) - n PROVE rest[j] = d[n + j]
    OBVIOUS
  <2>1. rest[j] = d[(n + 1) + j - 1] /\ (n + 1) + j - 1 = n + j
    BY <1>1 DEF Strings
  <2> QED
    BY <2>1
<1> HIDE DEF rest
<1>3. \A j \in 1..Len(rest) : n + j \in 1..Len(d) /\ i + (n + j) = (i + n) + j
  BY <1>1, <1>2
<1>4. \A j \in 1..Len(rest) : rest[j] = s[(i + n) + j]
  BY <1>2, <1>3, <1>5 DEF Follows
<1>6. i + n \in Nat /\ (i + n) + Len(rest) <= Len(s)
  BY <1>1, <1>2
<1> QED
  BY <1>2, <1>4, <1>6 DEF rest

(* A line without a colon stays one.                                       *)
LEMMA StaysCutOff ==
  ASSUME NEW s, NEW i \in Nat, NEW j \in Nat, i <= j, CutOff(s, i)
  PROVE  CutOff(s, j)
<1>1. \A n \in 1..i : n \in 1..j
  OBVIOUS
<1> QED
  BY <1>1 DEF CutOff

(* The next character is read the same by the reference and the parser. *)
LEMMA NextCharacter ==
  ASSUME NEW s, NEW i, NEW d, NEW p, Follows(s, i, d, p), d # <<>>, ~CutOff(s, i)
  PROVE  /\ i < Len(s) /\ d[1] = s[i + 1] /\ d[1] \in Characters
         /\ p.state \in Reads =>
              Receiver!Readings(s)[i + 1] = Receiver!ReadChar(p, s[i + 1])
<1>1. /\ s \in Strings /\ d \in Strings /\ i \in Nat /\ i + Len(d) <= Len(s) /\ Agrees(s, i, d, p)
      /\ IsParser(p) /\ \A j \in 1..Len(d) : d[j] = s[i + j]
  BY DEF Follows
<1>2. 1 \in 1..Len(d) /\ d[1] \in Characters /\ i < Len(s) /\ Len(s) \in Nat
  BY <1>1 DEF Strings
<1>3. d[1] = s[i + 1]
  BY <1>1, <1>2
<1>4. i + 1 \in 1..Len(s) /\ (i + 1) - 1 = i
  BY <1>1, <1>2
<1>5. Receiver!Readings(s)[i + 1] = Receiver!ReadChar(Receiver!Readings(s)[i], s[i + 1])
  BY <1>1, <1>4, ReadingsAre DEF Strings
<1>6. ASSUME p.state \in Reads
      PROVE  Receiver!Readings(s)[i + 1] = Receiver!ReadChar(p, s[i + 1])
  <2>1. CASE Receiver!Readings(s)[i] = p
    BY <1>5, <2>1
  <2>2. CASE Receiver!Readings(s)[i] # p
    <3>1. PICK skip \in DOMAIN Receiver!Skips :
            /\ Receiver!Readings(s)[i] = Parser(skip, p.result, p.key, p.value, p.output)
            /\ p.state = Receiver!Skips[skip].next
            /\ d # <<>> /\ d[1] # Receiver!Skips[skip].char
      BY <1>1, <2>2 DEF Agrees
    <3>2. p = Parser(Receiver!Skips[skip].next, p.result, p.key, p.value, p.output)
      BY <1>1, <3>1 DEF IsParser
    <3>3. Receiver!ReadChar(Parser(skip, p.result, p.key, p.value, p.output), d[1])
            = Receiver!ReadChar(p, d[1])
      BY <3>1, <3>2, ReadsOptional
    <3> QED
      BY <1>3, <1>5, <3>1, <3>3
  <2> QED
    BY <2>1, <2>2
<1> QED
  BY <1>2, <1>3, <1>6

(* A round that looks for the delimiter c. *)
LEMMA RoundReadsPart ==
  ASSUME NEW s, NEW i, NEW d, NEW p, Follows(s, i, d, p), d # <<>>, p.state \in Reads,
         NEW c, c = Delimiter(p.state),
         p.state = "key" => d[1] # CR
  PROVE  LET at == Receiver!Find(d, c, 1)
             before == SubSeq(d, 1, at - 1)
             after == SubSeq(d, at + 1, Len(d))
             q == Extended(p, before)
         IN  /\ before \in Strings /\ IsParser(q) /\ at \in 1..Len(d) + 1
             /\ at > Len(d) => after = <<>> /\ Follows(s, i + Len(d), <<>>, q)
             /\ at <= Len(d) =>
                  /\ Len(after) = Len(d) - at
                  /\ IsParser(Receiver!ReadChar(q, c)) =>
                       Follows(s, i + at, after, Receiver!ReadChar(q, c))
<1> DEFINE at == Receiver!Find(d, c, 1)
           m == at - 1
           before == SubSeq(d, 1, at - 1)
           after == SubSeq(d, at + 1, Len(d))
           q == Extended(p, before)
<1>1. /\ s \in Strings /\ d \in Strings /\ i \in Nat /\ i + Len(d) <= Len(s) /\ IsParser(p)
      /\ Len(d) \in Nat /\ Len(s) \in Nat /\ \A j \in 1..Len(d) : d[j] = s[i + j]
  BY DEF Follows, Strings
<1>2. /\ at \in 1..Len(d) + 1
      /\ \A h \in 1..at - 1 : d[h] # c
      /\ at <= Len(d) => d[at] = c
  BY <1>1, FindIs
<1> HIDE DEF at
<1>3. m \in 0..Len(d) /\ i + m <= Len(s)
  BY <1>1, <1>2
<1>4. before \in Strings /\ Len(before) = m /\ \A j \in 1..m : before[j] = d[j]
  BY <1>1, <1>2 DEF Strings
<1>5. IsParser(q)
  BY <1>1, <1>4, ExtendedIsParser
<1>6. before = SubSeq(s, i + 1, i + m)
  <2> DEFINE t == SubSeq(s, i + 1, i + m)
  <2>1. t \in Strings /\ Len(t) = m /\ \A j \in 1..m : t[j] = s[i + j]
    BY <1>1, <1>3 DEF Strings
  <2>2. \A j \in 1..m : before[j] = t[j]
    BY <1>1, <1>3, <1>4, <2>1
  <2> HIDE DEF t, before
  <2>3. before = t
    BY <1>4, <2>1, <2>2 DEF Strings
  <2> QED
    BY <2>3 DEF t
<1>7. CutOff(s, i + m) \/ ~CutOff(s, i)
  BY <1>1, <1>3, StaysCutOff
<1>8. \/ CutOff(s, i + m)
      \/ /\ m # 0 => Receiver!Readings(s)[i + m] = q
         /\ i + m < Len(s) =>
              Receiver!Readings(s)[i + m + 1] = Receiver!ReadChar(q, s[i + m + 1])
  <2> SUFFICES ASSUME ~CutOff(s, i + m) PROVE
         /\ m # 0 => Receiver!Readings(s)[i + m] = q
         /\ i + m < Len(s) =>
              Receiver!Readings(s)[i + m + 1] = Receiver!ReadChar(q, s[i + m + 1])
    OBVIOUS
  <2>1. /\ i < Len(s) /\ d[1] = s[i + 1]
        /\ Receiver!Readings(s)[i + 1] = Receiver!ReadChar(p, s[i + 1])
    BY <1>7, NextCharacter
  <2>2. ASSUME NEW j \in i + 1 .. i + m
        PROVE  s[j] # Delimiter(p.state)
    <3>1. j - i \in 1..m /\ j - i \in 1..Len(d) /\ i + (j - i) = j
      BY <1>1, <1>3
    <3>2. s[j] = d[j - i] /\ d[j - i] # c
      BY <1>1, <1>2, <3>1
    <3> QED
      BY <3>2
  <2>3. m \in Nat
    BY <1>3
  <2> HIDE DEF m, before, q
  <2>4. \/ CutOff(s, i + m)
        \/ /\ m # 0 => Receiver!Readings(s)[i + m] = Extended(p, SubSeq(s, i + 1, i + m))
           /\ i + m < Len(s) =>
                Receiver!Readings(s)[i + m + 1]
                  = Receiver!ReadChar(Extended(p, SubSeq(s, i + 1, i + m)), s[i + m + 1])
    <3>1. p.state = "key" => s[i + 1] # CR
      BY <2>1
    <3>2. s \in Strings /\ IsParser(p) /\ i \in Nat /\ i + m <= Len(s)
      BY <1>1, <1>3
    <3> QED
      BY <2>1, <2>2, <2>3, <3>1, <3>2, ReadsPart
  <2> QED
    BY <1>6, <2>4 DEF q
<1> HIDE DEF q, before
<1>9. ASSUME at > Len(d)
      PROVE  after = <<>> /\ Follows(s, i + Len(d), <<>>, q)
  <2>1. at = Len(d) + 1 /\ m = Len(d) /\ m # 0
    BY <1>1, <1>2, <1>9 DEF Strings
  <2>2. after = <<>>
    BY <1>1, <2>1 DEF Strings
  <2>3. <<>> \in Strings /\ Len(<<>>) = 0 /\ i + Len(d) \in Nat
    BY <1>1 DEF Strings
  <2>4. CutOff(s, i + Len(d)) \/ Agrees(s, i + Len(d), <<>>, q)
    BY <1>8, <2>1 DEF Agrees
  <2> QED
    BY <1>1, <1>5, <2>2, <2>3, <2>4 DEF Follows
<1>10. ASSUME at <= Len(d)
       PROVE  /\ Len(after) = Len(d) - at
              /\ IsParser(Receiver!ReadChar(q, c)) =>
                   Follows(s, i + at, after, Receiver!ReadChar(q, c))
  <2>1. at \in 0..Len(d) /\ i + m < Len(s) /\ i + m + 1 = i + at /\ at \in 1..Len(d)
    BY <1>1, <1>2, <1>10
  <2>2. /\ after \in Strings /\ i + at \in Nat /\ Len(after) = Len(d) - at
        /\ (i + at) + Len(after) <= Len(s)
        /\ \A j \in 1..Len(after) : after[j] = s[(i + at) + j]
    BY <2>1, Further
  <2>3. s[i + at] = c
    BY <1>1, <1>2, <1>10, <2>1
  <2>4. CutOff(s, i + at) \/ Receiver!Readings(s)[i + at] = Receiver!ReadChar(q, c)
    <3>1. CutOff(s, i + m) => CutOff(s, i + at)
      BY <1>1, <1>3, <2>1, StaysCutOff
    <3> QED
      BY <1>8, <2>1, <2>3, <3>1
  <2> HIDE DEF after
  <2> QED
    BY <1>1, <2>2, <2>4 DEF Follows, Agrees
<1> QED
  BY <1>2, <1>4, <1>5, <1>9, <1>10 DEF at, before, q

-----------------------------------------------------------------------------
(* The sink.                                                               *)

(* The parser that the variables are, and the invariant of the sink.       *)
Now == Parser(state, result, key, value, output)

Following == Len(data) <= fed /\ Follows(stream, fed - Len(data), data, Now)

SinkInv == fed \in Nat /\ (failed \/ Following)

(* What Following says about each variable.                                *)
LEMMA NowIs ==
  ASSUME Following
  PROVE  /\ Now.state = state /\ Now.result = result /\ Now.key = key /\ Now.value = value
         /\ Now.output = output
         /\ IsParser(Now) /\ state \in States /\ IsRequested(result)
         /\ key \in Strings /\ value \in Strings /\ data \in Strings
BY DEF Following, Follows, IsParser, Now, Parser

(* What append() makes of m_result.                                        *)
LEMMA ResultIs ==
  ASSUME NEW r, IsRequested(r), NEW w \in Strings
  PROVE  /\ \A s \in {"method", "path"} : [r EXCEPT ![s] = @ \o w] = ResultWith(r, s, w)
         /\ [r EXCEPT !.http_version = @ \o w] = ResultWith(r, "version", w)
         /\ \A s \in {"key", "value"} : ResultWith(r, s, w) = r
         /\ \A a : IsRequested([r EXCEPT !.arguments = a])
<1> DEFINE m == r.method
           p == r.path
           h == r.http_version
           b == r.arguments
<1>1. /\ r = Requested(m, p, h, b) /\ m \in Strings /\ p \in Strings /\ h \in Strings
      /\ r.method = m /\ r.path = p /\ r.http_version = h /\ r.arguments = b
  BY DEF IsRequested
<1> HIDE DEF m, p, h, b
<1>2. /\ \A x : [r EXCEPT !["method"] = x] = Requested(x, p, h, b)
      /\ \A x : [r EXCEPT !["path"] = x] = Requested(m, x, h, b)
      /\ \A x : [r EXCEPT !.http_version = x] = Requested(m, p, x, b)
      /\ \A x : [r EXCEPT !.arguments = x] = Requested(m, p, h, x)
  BY <1>1 DEF Requested
<1>3. /\ ResultWith(r, "method", w) = Requested(m \o w, p, h, b)
      /\ ResultWith(r, "path", w) = Requested(m, p \o w, h, b)
      /\ ResultWith(r, "version", w) = Requested(m, p, h \o w, b)
      /\ \A s \in {"key", "value"} : ResultWith(r, s, w) = Requested(m, p, h, b)
  BY <1>1 DEF ResultWith
<1>4. \A s \in {"method", "path"} : [r EXCEPT ![s] = @ \o w] = ResultWith(r, s, w)
  <2>1. [r EXCEPT !["method"] = @ \o w] = ResultWith(r, "method", w)
    <3>1. r["method"] \o w = m \o w
      BY <1>1
    <3>2. PICK x : x = m \o w
      OBVIOUS
    <3>3. [r EXCEPT !["method"] = x] = ResultWith(r, "method", w)
      BY <1>2, <1>3, <3>2
    <3> QED
      BY <3>1, <3>2, <3>3
  <2>2. [r EXCEPT !["path"] = @ \o w] = ResultWith(r, "path", w)
    <3>1. r["path"] \o w = p \o w
      BY <1>1
    <3>2. PICK x : x = p \o w
      OBVIOUS
    <3>3. [r EXCEPT !["path"] = x] = ResultWith(r, "path", w)
      BY <1>2, <1>3, <3>2
    <3> QED
      BY <3>1, <3>2, <3>3
  <2> QED
    BY <2>1, <2>2
<1>5. [r EXCEPT !.http_version = @ \o w] = ResultWith(r, "version", w)
  BY <1>1, <1>2, <1>3
<1>6. \A a : IsRequested([r EXCEPT !.arguments = a])
  BY <1>1, <1>2, IsRequestedOf
<1> QED
  BY <1>1, <1>3, <1>4, <1>5, <1>6

(* A round that looks for a delimiter leads to a parser next, which is the *)
(* old one with what is before the delimiter, and the delimiter.           *)
LEMMA Advances ==
  ASSUME Following, fed \in Nat, data # <<>>, state \in Reads, state = "key" => data[1] # CR,
         NEW c, c = Delimiter(state), NEW next,
         LET q == Extended(Now, Receiver!Before(c))
         IN  IF Receiver!Seen(c)
               THEN next = Receiver!ReadChar(q, c) /\ IsParser(next)
               ELSE next = q
  PROVE  /\ Len(Receiver!After(c)) <= fed
         /\ Follows(stream, fed - Len(Receiver!After(c)), Receiver!After(c), next)
<1> DEFINE i == fed - Len(data)
           at == Receiver!Find(data, c, 1)
           before == SubSeq(data, 1, at - 1)
           after == SubSeq(data, at + 1, Len(data))
           q == Extended(Now, before)
<1>1. Len(data) \in Nat /\ Len(data) <= fed /\ i \in Nat /\ Follows(stream, i, data, Now)
  BY NowIs DEF Following, Strings
<1>2. Now.state = state
  BY NowIs
<1>3. /\ before \in Strings /\ IsParser(q) /\ at \in 1..Len(data) + 1
      /\ at > Len(data) => after = <<>> /\ Follows(stream, i + Len(data), <<>>, q)
      /\ at <= Len(data) =>
           /\ Len(after) = Len(data) - at
           /\ IsParser(Receiver!ReadChar(q, c)) =>
                Follows(stream, i + at, after, Receiver!ReadChar(q, c))
  <2> HIDE DEF i
  <2>1. Now.state \in Reads /\ c = Delimiter(Now.state) /\ (Now.state = "key" => data[1] # CR)
    BY <1>2
  <2> QED
    BY <1>1, <2>1, RoundReadsPart
<1>4. /\ Receiver!Before(c) = before /\ Receiver!After(c) = after
      /\ Receiver!Seen(c) <=> at <= Len(data)
  BY DEF Receiver!Before, Receiver!After, Receiver!Seen, Receiver!At
<1> HIDE DEF before, after, q
<1>5. CASE at > Len(data)
  <2>1. i + Len(data) = fed /\ Len(<<>>) = 0 /\ fed - 0 = fed
    BY <1>1
  <2>2. next = q
    BY <1>1, <1>3, <1>4, <1>5 DEF q
  <2> QED
    BY <1>3, <1>4, <1>5, <2>1, <2>2
<1>6. CASE at <= Len(data)
  <2>1. Len(after) = Len(data) - at /\ fed - Len(after) = i + at /\ Len(after) <= fed
    BY <1>1, <1>3, <1>6
  <2>2. next = Receiver!ReadChar(q, c) /\ IsParser(next)
    BY <1>4, <1>6 DEF q
  <2> QED
    BY <1>3, <1>4, <1>6, <2>1, <2>2
<1> QED
  BY <1>1, <1>3, <1>5, <1>6

(* Following' for a state whose parts are known. *)
LEMMA FollowingNext ==
  ASSUME stream' = stream, fed' = fed, NEW d, data' = d, NEW next,
         Len(d) <= fed, Follows(stream, fed - Len(d), d, next), Now' = next
  PROVE  Following'
BY DEF Following

(* append() of each state keeps up with the reference.  Method and path:   *)
LEMMA MethodOrPathFollows ==
  ASSUME Following, fed \in Nat, Receiver!MethodOrPath
  PROVE  Following'
<1> DEFINE w == Receiver!Before(SP)
           q == Extended(Now, w)
<1>1. /\ data # <<>> /\ state \in {"method", "path"}
      /\ result' = [result EXCEPT ![state] = @ \o w]
      /\ data' = Receiver!After(SP)
      /\ state' = IF ~Receiver!Seen(SP) THEN state
                  ELSE IF state = "method" THEN "path" ELSE "version"
      /\ stream' = stream /\ fed' = fed /\ key' = key /\ value' = value /\ output' = output
  BY SameDelimiters DEF Receiver!MethodOrPath, Receiver!Buffer
<1>2. w \in Strings
  BY NowIs, FindIs DEF Receiver!Before, Receiver!At, Strings
<1>3. IsParser(q) /\ q.state = state
  BY <1>2, NowIs, ExtendedIsParser
<1>4. result' = ResultWith(result, state, w)
  <2> HIDE DEF w
  <2>1. \A s \in {"method", "path"} : [result EXCEPT ![s] = @ \o w] = ResultWith(result, s, w)
    BY <1>2, NowIs, ResultIs
  <2> QED
    BY <1>1, <2>1
<1>5. q = Parser(state, ResultWith(result, state, w), key, value, output)
  BY <1>1, NowIs DEF Extended
<1> HIDE DEF w
<1>6. /\ q.result = ResultWith(result, state, w) /\ q.key = key /\ q.value = value
      /\ q.output = output
  BY <1>5 DEF Parser
<1> HIDE DEF q
<1>7. Receiver!ReadChar(q, SP)
        = Parser(IF state = "method" THEN "path" ELSE "version", q.result, q.key, q.value, q.output)
  BY <1>1, <1>3, ReadsDelimiter
<1>8. IsParser(Receiver!ReadChar(q, SP))
  <2>1. IsRequested(q.result) /\ q.key \in Strings /\ q.value \in Strings
    BY <1>3 DEF IsParser
  <2>2. (IF state = "method" THEN "path" ELSE "version") \in States
    BY DEF States
  <2> QED
    BY <1>7, <2>1, <2>2, IsParserOf
<1>9. Now' = IF Receiver!Seen(SP) THEN Receiver!ReadChar(q, SP) ELSE q
  BY <1>1, <1>4, <1>5, <1>6, <1>7 DEF Now
<1>10. SP = Delimiter(state) /\ state \in Reads /\ state # "key"
  BY <1>1 DEF Delimiter, Reads
<1> QED
  BY <1>1, <1>8, <1>9, <1>10, Advances, FollowingNext DEF q, w

(* the version,                                                            *)
LEMMA VersionFollows ==
  ASSUME Following, fed \in Nat, Receiver!Version
  PROVE  Following'
<1> DEFINE w == Receiver!Before(CR)
           q == Extended(Now, w)
<1>1. /\ data # <<>> /\ state = "version"
      /\ result' = [result EXCEPT !.http_version = @ \o w]
      /\ data' = Receiver!After(CR)
      /\ state' = IF Receiver!Seen(CR) THEN "version_lf" ELSE state
      /\ stream' = stream /\ fed' = fed /\ key' = key /\ value' = value /\ output' = output
  BY SameDelimiters DEF Receiver!Version
<1>2. w \in Strings
  BY NowIs, FindIs DEF Receiver!Before, Receiver!At, Strings
<1>3. IsParser(q) /\ q.state = state
  BY <1>2, NowIs, ExtendedIsParser
<1>4. result' = ResultWith(result, state, w)
  <2> HIDE DEF w
  <2>1. [result EXCEPT !.http_version = @ \o w] = ResultWith(result, "version", w)
    BY <1>2, NowIs, ResultIs
  <2> QED
    BY <1>1, <2>1
<1>5. q = Parser(state, ResultWith(result, state, w), key, value, output)
  BY <1>1, NowIs DEF Extended
<1> HIDE DEF w
<1>6. /\ q.result = ResultWith(result, state, w) /\ q.key = key /\ q.value = value
      /\ q.output = output
  BY <1>5 DEF Parser
<1> HIDE DEF q
<1>7. Receiver!ReadChar(q, CR) = Parser("version_lf", q.result, q.key, q.value, q.output)
  BY <1>1, <1>3, ReadsDelimiter
<1>8. IsParser(Receiver!ReadChar(q, CR))
  <2>1. IsRequested(q.result) /\ q.key \in Strings /\ q.value \in Strings /\ "version_lf" \in States
    BY <1>3 DEF IsParser, States
  <2> QED
    BY <1>7, <2>1, IsParserOf
<1>9. Now' = IF Receiver!Seen(CR) THEN Receiver!ReadChar(q, CR) ELSE q
  BY <1>1, <1>4, <1>5, <1>6, <1>7 DEF Now
<1>10. CR = Delimiter(state) /\ state \in Reads /\ state # "key"
  BY <1>1 DEF Delimiter, Reads
<1> QED
  BY <1>1, <1>8, <1>9, <1>10, Advances, FollowingNext DEF q, w

(* the key of a header, which ends at a colon,                             *)
LEMMA KeyFollows ==
  ASSUME Following, fed \in Nat, Receiver!Key
  PROVE  Following'
<1> DEFINE w == Receiver!Before(CO)
           q == Extended(Now, w)
<1>1. /\ data # <<>> /\ state = "key" /\ Head(data) # CR
      /\ key' = key \o w
      /\ data' = Receiver!After(CO)
      /\ state' = IF Receiver!Seen(CO) THEN "value_space" ELSE state
      /\ stream' = stream /\ fed' = fed /\ result' = result /\ value' = value /\ output' = output
  BY SameDelimiters DEF Receiver!Key
<1>2. w \in Strings
  BY NowIs, FindIs DEF Receiver!Before, Receiver!At, Strings
<1>3. IsParser(q) /\ q.state = state
  BY <1>2, NowIs, ExtendedIsParser
<1>4. ResultWith(result, state, w) = result
  <2> HIDE DEF w
  <2>1. \A s \in {"key", "value"} : ResultWith(result, s, w) = result
    BY <1>2, NowIs, ResultIs
  <2> QED
    BY <1>1, <2>1
<1>5. q = Parser(state, result, key \o w, value, output)
  BY <1>1, <1>4, NowIs DEF Extended
<1> HIDE DEF w
<1>6. q.result = result /\ q.key = key \o w /\ q.value = value /\ q.output = output
  BY <1>5 DEF Parser
<1> HIDE DEF q
<1>7. Receiver!ReadChar(q, CO) = Parser("value_space", q.result, q.key, q.value, q.output)
  BY <1>1, <1>3, ReadsDelimiter
<1>8. IsParser(Receiver!ReadChar(q, CO))
  <2>1. IsRequested(q.result) /\ q.key \in Strings /\ q.value \in Strings /\ "value_space" \in States
    BY <1>3 DEF IsParser, States
  <2> QED
    BY <1>7, <2>1, IsParserOf
<1>9. Now' = IF Receiver!Seen(CO) THEN Receiver!ReadChar(q, CO) ELSE q
  BY <1>1, <1>5, <1>6, <1>7 DEF Now
<1>10. CO = Delimiter(state) /\ state \in Reads /\ data[1] # CR
  BY <1>1, NowIs DEF Delimiter, Reads, Strings
<1> QED
  BY <1>1, <1>8, <1>9, <1>10, Advances, FollowingNext DEF q, w

(* its value,                                                              *)
LEMMA ValueFollows ==
  ASSUME Following, fed \in Nat, Receiver!Value
  PROVE  Following'
<1> DEFINE w == Receiver!Before(CR)
           q == Extended(Now, w)
           r == [result EXCEPT !.arguments = Inserted(@, key, value \o w)]
<1>1. /\ data # <<>> /\ state = "value"
      /\ data' = Receiver!After(CR)
      /\ Receiver!Seen(CR) =>
           result' = r /\ key' = <<>> /\ value' = <<>> /\ state' = "value_lf"
      /\ ~Receiver!Seen(CR) =>
           value' = value \o w /\ result' = result /\ key' = key /\ state' = state
      /\ stream' = stream /\ fed' = fed /\ output' = output
  BY SameDelimiters, SameInserted DEF Receiver!Value
<1>2. w \in Strings
  BY NowIs, FindIs DEF Receiver!Before, Receiver!At, Strings
<1>3. IsParser(q) /\ q.state = state
  BY <1>2, NowIs, ExtendedIsParser
<1>4. ResultWith(result, state, w) = result
  <2> HIDE DEF w
  <2>1. \A s \in {"key", "value"} : ResultWith(result, s, w) = result
    BY <1>2, NowIs, ResultIs
  <2> QED
    BY <1>1, <2>1
<1>5. q = Parser(state, result, key, value \o w, output)
  BY <1>1, <1>4, NowIs DEF Extended
<1>6. q.result = result /\ q.key = key /\ q.value = value \o w /\ q.output = output
  <2> HIDE DEF w, q
  <2> QED
    BY <1>5 DEF Parser
<1>7. Receiver!ReadChar(q, CR) = Parser("value_lf", r, <<>>, <<>>, q.output)
  <2> HIDE DEF w, q
  <2>1. Receiver!ReadChar(q, CR)
          = Parser("value_lf", [q.result EXCEPT !.arguments = Inserted(@, q.key, q.value)],
                   <<>>, <<>>, q.output)
    BY <1>1, <1>3, ReadsDelimiter
  <2> QED
    BY <1>6, <2>1
<1>8. IsRequested(r)
  <2> HIDE DEF w
  <2>1. \A a : IsRequested([result EXCEPT !.arguments = a])
    BY <1>2, NowIs, ResultIs
  <2> QED
    BY <2>1
<1> HIDE DEF w, q, r
<1>9. IsParser(Receiver!ReadChar(q, CR))
  <2>1. <<>> \in Strings /\ "value_lf" \in States
    BY DEF Strings, States
  <2> QED
    BY <1>7, <1>8, <2>1, IsParserOf
<1>10. Now' = IF Receiver!Seen(CR) THEN Receiver!ReadChar(q, CR) ELSE q
  BY <1>1, <1>5, <1>6, <1>7 DEF Now
<1>11. CR = Delimiter(state) /\ state \in Reads /\ state # "key"
  BY <1>1 DEF Delimiter, Reads
<1> QED
  BY <1>1, <1>9, <1>10, <1>11, Advances, FollowingNext DEF q, w

(* A round that takes one character, or none. *)
LEMMA Steps ==
  ASSUME Following, fed \in Nat, data # <<>>
  PROVE  /\ data[1] = Head(data) /\ Tail(data) \in Strings
         /\ Len(data) <= fed /\ fed - Len(data) \in Nat
         /\ Len(Tail(data)) <= fed
         /\ \A next :
              /\ IsParser(next)
              /\ CutOff(stream, fed - Len(data))
                   \/ Receiver!Readings(stream)[fed - Len(data) + 1] = next
              => Follows(stream, fed - Len(Tail(data)), Tail(data), next)
<1> PICK n : n = 1
  OBVIOUS
<1> DEFINE i == fed - Len(data)
           rest == SubSeq(data, n + 1, Len(data))
<1>1. /\ data \in Strings /\ Len(data) \in Nat /\ Len(data) <= fed /\ i \in Nat
      /\ n \in 0..Len(data) /\ data[1] = Head(data) /\ Tail(data) = rest
  BY NowIs DEF Following, Strings
<1>2. Follows(stream, i, data, Now)
  BY DEF Following
<1> HIDE DEF i
<1>3. /\ rest \in Strings /\ i + n \in Nat /\ Len(rest) = Len(data) - n
      /\ (i + n) + Len(rest) <= Len(stream)
      /\ \A j \in 1..Len(rest) : rest[j] = stream[(i + n) + j]
  <2>1. n \in 0..Len(data)
    BY <1>1
  <2>2. \A m \in 0..Len(data) :
          LET r == SubSeq(data, m + 1, Len(data))
          IN  /\ r \in Strings /\ i + m \in Nat /\ Len(r) = Len(data) - m
              /\ (i + m) + Len(r) <= Len(stream)
              /\ \A j \in 1..Len(r) : r[j] = stream[(i + m) + j]
    BY <1>2, Further
  <2> HIDE DEF rest
  <2> QED
    BY <2>1, <2>2 DEF rest
<1> HIDE DEF rest
<1>4. fed - Len(rest) = i + n /\ Len(rest) <= fed
  BY <1>1, <1>3 DEF i
<1>5. stream \in Strings
  BY <1>2 DEF Follows
<1>6. ASSUME NEW next, IsParser(next),
             CutOff(stream, i) \/ Receiver!Readings(stream)[i + n] = next
      PROVE  Follows(stream, i + n, rest, next)
  <2>1. CutOff(stream, i) => CutOff(stream, i + n)
    BY <1>1, <1>3, StaysCutOff
  <2> QED
    BY <1>3, <1>5, <1>6, <2>1 DEF Follows, Agrees
<1> QED
  BY <1>1, <1>3, <1>4, <1>6 DEF i

(* an optional character, skipped with the one behind it,                  *)
LEMMA SkipOptionalFollows ==
  ASSUME Following, fed \in Nat, Receiver!SkipOptional
  PROVE  Following'
<1> DEFINE i == fed - Len(data)
           next == Parser(Receiver!Skips[state].next, result, key, value, output)
<1>1. /\ data # <<>> /\ state \in DOMAIN Receiver!Skips
      /\ data' = IF Head(data) = Receiver!Skips[state].char THEN Tail(data) ELSE data
      /\ state' = Receiver!Skips[state].next
      /\ stream' = stream /\ fed' = fed /\ result' = result /\ key' = key /\ value' = value
      /\ output' = output
  BY DEF Receiver!SkipOptional
<1>2. Now' = next
  BY <1>1 DEF Now
<1>3. IsParser(next)
  <2>1. Receiver!Skips[state].next \in States
    BY <1>1 DEF Receiver!Skips, States
  <2> QED
    BY <2>1, NowIs, IsParserOf
<1>4. /\ Receiver!Skips[state].next \in Reads
      /\ data[1] = Receiver!Skips[state].char => Receiver!ReadChar(Now, data[1]) = next
  BY <1>1, ReadsOptional DEF Now
<1>5. next.state = Receiver!Skips[state].next /\ next.result = result /\ next.key = key
      /\ next.value = value /\ next.output = output
  BY DEF Parser
<1> HIDE DEF next
<1>6. CutOff(stream, i) \/ Receiver!Readings(stream)[i] = Now
  <2>1. Agrees(stream, i, data, Now) \/ CutOff(stream, i)
    BY DEF Following, Follows
  <2>2. \A skip \in DOMAIN Receiver!Skips : Receiver!Skips[skip].next # state
    BY <1>1 DEF Receiver!Skips
  <2> QED
    BY <2>1, <2>2, NowIs DEF Agrees
<1>7. CASE data[1] = Receiver!Skips[state].char
  <2>1. data' = Tail(data)
    BY <1>1, <1>7, Steps
  <2>2. CutOff(stream, i) \/ Receiver!Readings(stream)[i + 1] = next
    <3> SUFFICES ASSUME ~CutOff(stream, i) PROVE Receiver!Readings(stream)[i + 1] = next
      OBVIOUS
    <3>1. i < Len(stream) /\ data[1] = stream[i + 1] /\ i \in Nat /\ stream \in Strings
      BY <1>1, Steps, NextCharacter DEF Following, Follows
    <3>2. i + 1 \in 1..Len(stream) /\ (i + 1) - 1 = i
      BY <3>1 DEF Strings
    <3>3. Receiver!Readings(stream)[i + 1]
            = Receiver!ReadChar(Receiver!Readings(stream)[i], stream[i + 1])
      BY <3>1, <3>2, ReadingsAre DEF Strings
    <3> QED
      BY <1>4, <1>6, <1>7, <3>1, <3>3
  <2>3. Len(Tail(data)) <= fed /\ Follows(stream, fed - Len(Tail(data)), Tail(data), next)
    BY <1>1, <1>3, <2>2, Steps
  <2> QED
    BY <1>1, <1>2, <2>1, <2>3, FollowingNext
<1>8. CASE data[1] # Receiver!Skips[state].char
  <2>1. data' = data
    BY <1>1, <1>8, Steps
  <2>2. CutOff(stream, i) \/ Agrees(stream, i, data, next)
    BY <1>1, <1>5, <1>6, <1>8 DEF Agrees, Now
  <2>3. Follows(stream, i, data, next) /\ Len(data) <= fed
    BY <1>3, <2>2 DEF Following, Follows
  <2> QED
    BY <1>1, <1>2, <2>1, <2>3, FollowingNext
<1> QED
  BY <1>7, <1>8

(* and the end of the headers, where m_output can fail.                    *)
LEMMA EndOfHeadersFollows ==
  ASSUME Following, fed \in Nat, failed \in BOOLEAN, Receiver!EndOfHeaders
  PROVE  failed' \/ Following'
<1> DEFINE i == fed - Len(data)
           next == Parser("end_of_headers_lf", Receiver!EmptyRequest, key, value,
                          Append(output, result))
<1> SUFFICES ASSUME failed' # TRUE PROVE Following'
  OBVIOUS
<1>1. /\ data # <<>> /\ state = "key" /\ Head(data) = CR
      /\ state' = "end_of_headers_lf" /\ result' = Receiver!EmptyRequest
      /\ output' = Append(output, result) /\ data' = Tail(data)
      /\ stream' = stream /\ fed' = fed /\ key' = key /\ value' = value
  BY SameDelimiters DEF Receiver!EndOfHeaders
<1>2. Now' = next
  BY <1>1 DEF Now
<1>3. IsParser(next)
  <2>1. Receiver!EmptyRequest = Requested(<<>>, <<>>, <<>>, Receiver!NoArguments)
    BY DEF Receiver!EmptyRequest, Requested
  <2>2. <<>> \in Strings /\ "end_of_headers_lf" \in States
    BY DEF Strings, States
  <2>3. IsRequested(Receiver!EmptyRequest)
    BY <2>1, <2>2, IsRequestedOf
  <2> QED
    BY <2>2, <2>3, NowIs, IsParserOf
<1>4. Receiver!ReadChar(Now, CR) = next
  BY <1>1, NowIs, ReadsDelimiter
<1> HIDE DEF next
<1>5. CutOff(stream, i) \/ Receiver!Readings(stream)[i + 1] = next
  <2>1. Follows(stream, i, data, Now)
    BY DEF Following
  <2>2. Now.state \in Reads /\ data[1] = CR
    BY <1>1, NowIs, Steps DEF Reads
  <2> HIDE DEF i
  <2>3. CutOff(stream, i) \/ Receiver!Readings(stream)[i + 1] = Receiver!ReadChar(Now, CR)
    BY <1>1, <2>1, <2>2, NextCharacter
  <2> QED
    BY <1>4, <2>3
<1>6. Len(Tail(data)) <= fed /\ Follows(stream, fed - Len(Tail(data)), Tail(data), next)
  BY <1>1, <1>3, <1>5, Steps
<1> QED
  BY <1>1, <1>2, <1>6, FollowingNext

(* So every round of append() does,                                        *)
LEMMA RoundFollows ==
  ASSUME SinkInv, failed \in BOOLEAN, Receiver!Round
  PROVE  SinkInv'
<1>1. fed' = fed /\ (failed => failed')
  BY DEF Receiver!Round, Receiver!MethodOrPath, Receiver!Version, Receiver!SkipOptional,
         Receiver!EndOfHeaders, Receiver!Key, Receiver!Value
<1>2. CASE failed
  BY <1>1, <1>2 DEF SinkInv
<1>3. CASE ~failed
  <2>1. Following /\ fed \in Nat
    BY <1>3 DEF SinkInv
  <2>2. failed' \/ Following'
    BY <2>1, MethodOrPathFollows, VersionFollows, SkipOptionalFollows, EndOfHeadersFollows,
       KeyFollows, ValueFollows DEF Receiver!Round
  <2> QED
    BY <1>1, <2>1, <2>2 DEF SinkInv
<1> QED
  BY <1>2, <1>3

(* and a new piece, when the last one has been read.                       *)
LEMMA FeedFollows ==
  ASSUME SinkInv, NEW n \in 1..Len(stream), Receiver!Feed(n)
  PROVE  SinkInv'
<1>1. /\ data = <<>> /\ fed + n <= Len(stream)
      /\ data' = SubSeq(stream, fed + 1, fed + n) /\ fed' = fed + n
      /\ stream' = stream /\ failed' = failed /\ Now' = Now
  BY DEF Receiver!Feed, Now
<1>2. CASE failed
  BY <1>1, <1>2 DEF SinkInv
<1>3. CASE ~failed
  <2>1. Following /\ fed \in Nat /\ Len(<<>>) = 0 /\ n \in Nat
    BY <1>3 DEF SinkInv
  <2>2. /\ stream \in Strings /\ IsParser(Now)
        /\ CutOff(stream, fed) \/ Receiver!Readings(stream)[fed] = Now
    BY <1>1, <2>1 DEF Following, Follows, Agrees
  <2> DEFINE d == SubSeq(stream, fed + 1, fed + n)
  <2>3. d \in Strings /\ Len(d) = n /\ \A j \in 1..n : d[j] = stream[fed + j]
    <3>1. stream \in Seq(Characters) /\ Len(stream) \in Nat
      BY <2>2 DEF Strings
    <3>2. fed + 1 \in 1..Len(stream) + 1 /\ fed + n \in (fed + 1) - 1..Len(stream)
      BY <1>1, <2>1, <3>1
    <3>3. /\ d \in Seq(Characters) /\ Len(d) = (fed + n) - (fed + 1) + 1
          /\ \A j \in 1..(fed + n) - (fed + 1) + 1 : d[j] = stream[(fed + 1) + j - 1]
      BY <3>1, <3>2, SubSeqProperties
    <3>4. /\ (fed + n) - (fed + 1) + 1 = n
          /\ \A j \in 1..n : (fed + 1) + j - 1 = fed + j
      BY <2>1
    <3> QED
      BY <3>3, <3>4 DEF Strings
  <2> HIDE DEF d
  <2>4. Follows(stream, fed, d, Now)
    <3>1. CutOff(stream, fed) \/ Agrees(stream, fed, d, Now)
      BY <2>2 DEF Agrees
    <3>2. fed + Len(d) <= Len(stream) /\ \A j \in 1..Len(d) : d[j] = stream[fed + j]
      BY <1>1, <2>3
    <3> QED
      BY <2>1, <2>2, <2>3, <3>1, <3>2 DEF Follows
  <2>5. (fed + n) - Len(d) = fed /\ Len(d) <= fed + n /\ fed + n \in Nat
    BY <2>1, <2>3
  <2>6. data' = d
    BY <1>1 DEF d
  <2> QED
    BY <1>1, <2>4, <2>5, <2>6 DEF SinkInv, Following
<1> QED
  BY <1>2, <1>3

(* What arrives later changes nothing of what has been read. *)
LEMMA SendFollows ==
  ASSUME SinkInv, stream \in Strings, NEW t \in Strings, stream' = stream \o t,
         UNCHANGED <<fed, data, state, result, key, value, output, failed>>
  PROVE  SinkInv'
<1>1. CASE failed
  BY <1>1 DEF SinkInv
<1>2. CASE ~failed
  <2> DEFINE i == fed - Len(data)
             s == stream \o t
  <2>1. Len(data) <= fed /\ Follows(stream, i, data, Now) /\ fed \in Nat /\ Len(data) \in Nat
    BY <1>2, NowIs DEF SinkInv, Following, Strings
  <2>2. /\ s \in Strings /\ Len(s) = Len(stream) + Len(t)
        /\ \A j \in 1..Len(stream) : s[j] = stream[j]
    BY DEF Strings
  <2>3. i \in Nat /\ i + Len(data) <= Len(stream) /\ Len(t) \in Nat /\ Len(stream) \in Nat
    BY <2>1 DEF Follows, Strings
  <2> HIDE DEF s, i
  <2>4. \A j \in 1..Len(data) : i + j \in 1..Len(stream)
    BY <2>1, <2>3
  <2>5. \A n \in 0..i : Receiver!Readings(stream)[n] = Receiver!Readings(s)[n]
    <3>1. i <= Len(stream) /\ i <= Len(s) /\ \A j \in 1..i : stream[j] = s[j]
      BY <2>1, <2>2, <2>3
    <3> QED
      BY <2>2, <2>3, <3>1, ReadingsOfPrefix DEF Strings
  <2>6. CutOff(stream, i) => CutOff(s, i)
    <3> SUFFICES ASSUME NEW j \in 1..i, stream[j] = CR,
                        Receiver!Readings(stream)[j-1].state = "key",
                        Receiver!Readings(stream)[j-1].key # <<>>
                 PROVE  CutOff(s, i)
      BY DEF CutOff
    <3>1. j \in 1..Len(stream) /\ j - 1 \in 0..i
      BY <2>1, <2>3
    <3> QED
      BY <2>2, <2>5, <3>1 DEF CutOff
  <2>7. Agrees(stream, i, data, Now) => Agrees(s, i, data, Now)
    <3>1. i \in 0..i
      BY <2>3
    <3> QED
      BY <2>5, <3>1 DEF Agrees
  <2>8. Follows(s, i, data, Now)
    <3>1. i + Len(data) <= Len(s)
      BY <2>1, <2>2, <2>3
    <3>2. \A j \in 1..Len(data) : data[j] = s[i + j]
      BY <2>1, <2>2, <2>4 DEF Follows
    <3> QED
      BY <2>1, <2>2, <2>6, <2>7, <3>1, <3>2 DEF Follows
  <2>9. Now' = Now /\ stream' = s /\ fed' - Len(data') = i /\ Len(data') <= fed'
    BY <2>1 DEF Now, s, i
  <2> QED
    BY <2>1, <2>8, <2>9 DEF SinkInv, Following
<1> QED
  BY <1>1, <1>2

(* The property is what the invariant says between two pieces. *)
LEMMA BetweenPieces ==
  ASSUME SinkInv, failed \in BOOLEAN
  PROVE  PiecesDoNotMatter
<1> SUFFICES ASSUME data = <<>>, ~failed, ~Receiver!KeyCutOff(SubSeq(stream, 1, fed))
             PROVE  LET r == Receiver!Readings(stream)[fed]
                    IN  /\ state = r.state /\ result = r.result /\ key = r.key
                        /\ value = r.value /\ output = r.output
  BY DEF PiecesDoNotMatter, Receiver!PiecesDoNotMatter
<1> DEFINE s == SubSeq(stream, 1, fed)
<1>1. /\ fed \in Nat /\ fed <= Len(stream) /\ stream \in Strings
      /\ CutOff(stream, fed) \/ Receiver!Readings(stream)[fed] = Now
  <2>1. Len(data) = 0 /\ Following /\ fed \in Nat /\ fed - 0 = fed /\ fed + 0 = fed
    BY DEF SinkInv
  <2> QED
    BY <2>1 DEF Following, Follows, Agrees
<1>2. s \in Strings /\ Len(s) = fed /\ \A j \in 1..fed : s[j] = stream[j]
  BY <1>1 DEF Strings
<1>3. ~Receiver!KeyCutOff(s)
  OBVIOUS
<1> HIDE DEF s
<1>4. \A n \in 0..fed : Receiver!Readings(s)[n] = Receiver!Readings(stream)[n]
  BY <1>1, <1>2, ReadingsOfPrefix DEF Strings
<1>5. ~CutOff(stream, fed)
  <2> SUFFICES ASSUME NEW j \in 1..fed, stream[j] = CR,
                      Receiver!Readings(stream)[j-1].state = "key",
                      Receiver!Readings(stream)[j-1].key # <<>>
               PROVE  FALSE
    BY DEF CutOff
  <2>1. j - 1 \in 0..fed
    BY <1>1
  <2> QED
    BY <1>2, <1>3, <1>4, <2>1, SameDelimiters DEF Receiver!KeyCutOff
<1>6. Receiver!Readings(stream)[fed] = Now
  BY <1>1, <1>5
<1> QED
  BY <1>6 DEF Now, Parser

-----------------------------------------------------------------------------
(* FlattenSeq puts one sequence behind the other.                          *)

(* Concatenations f[0], f[1], ... of what the sequences are together. *)
Concatenations(f, S, seqs, k) ==
  /\ f = [i \in 0..k |-> f[i]]
  /\ \A i \in 0..k : f[i] \in Seq(S)
  /\ f[0] = <<>>
  /\ \A i \in 1..k : f[i] = f[i-1] \o seqs[i]

(* There are the concatenations of the first k sequences of seqs.          *)
LEMMA ConcatenationsExist ==
  ASSUME NEW S, NEW seqs \in Seq(Seq(S))
  PROVE  \A k \in Nat : k <= Len(seqs) => \E f : Concatenations(f, S, seqs, k)
<1> DEFINE T == {k \in Nat : k <= Len(seqs) => \E f : Concatenations(f, S, seqs, k)}
<1>1. 0 \in T
  <2> DEFINE f == [i \in 0..0 |-> <<>>]
  <2>1. /\ f = [i \in 0..0 |-> f[i]] /\ \A i \in 0..0 : f[i] = <<>> /\ i = 0
        /\ f[0] = <<>> /\ <<>> \in Seq(S) /\ 1..0 = {}
    OBVIOUS
  <2> HIDE DEF f
  <2>2. Concatenations(f, S, seqs, 0)
    BY <2>1 DEF Concatenations
  <2> QED
    BY <2>2
<1>2. ASSUME NEW k \in T PROVE k + 1 \in T
  <2>1. k \in Nat /\ k + 1 \in Nat /\ (k <= Len(seqs) => \E f : Concatenations(f, S, seqs, k))
    OBVIOUS
  <2> HIDE DEF T
  <2> SUFFICES ASSUME k + 1 <= Len(seqs) PROVE \E f : Concatenations(f, S, seqs, k + 1)
    BY <2>1 DEF T
  <2>2. k <= Len(seqs) /\ k + 1 \in 1..Len(seqs) /\ k \in 0..k /\ k # k + 1 /\ 0 \in 0..k
    BY <2>1
  <2>3. PICK f : Concatenations(f, S, seqs, k)
    BY <2>1, <2>2
  <2> DEFINE next == f[k] \o seqs[k + 1]
             g == [i \in 0..k + 1 |-> IF i = k + 1 THEN next ELSE f[i]]
  <2>4. next \in Seq(S)
    <3>1. f[k] \in Seq(S) /\ seqs[k + 1] \in Seq(S)
      BY <2>2, <2>3 DEF Concatenations
    <3> QED
      BY <3>1
  <2> HIDE DEF next
  <2>5. /\ g = [i \in 0..k + 1 |-> g[i]]
        /\ g[k + 1] = next
        /\ \A i \in 0..k : g[i] = f[i]
    BY <2>1
  <2> HIDE DEF g
  <2>6. ASSUME NEW i \in 0..k + 1 PROVE g[i] \in Seq(S)
    <3>1. i = k + 1 \/ i \in 0..k
      BY <2>1
    <3> QED
      BY <2>3, <2>4, <2>5, <3>1 DEF Concatenations
  <2>7. ASSUME NEW i \in 1..k + 1 PROVE g[i] = g[i-1] \o seqs[i]
    <3>1. CASE i = k + 1
      <4>1. i - 1 = k
        BY <2>1, <3>1
      <4> QED
        BY <2>2, <2>5, <3>1, <4>1 DEF next
    <3>2. CASE i # k + 1
      <4>1. i \in 1..k /\ i \in 0..k /\ i - 1 \in 0..k
        BY <2>1, <3>2
      <4> QED
        BY <2>3, <2>5, <4>1 DEF Concatenations
    <3> QED
      BY <3>1, <3>2
  <2>8. Concatenations(g, S, seqs, k + 1)
    BY <2>2, <2>3, <2>5, <2>6, <2>7 DEF Concatenations
  <2> QED
    BY <2>8
<1> HIDE DEF T
<1>3. T \in SUBSET Nat
  BY DEF T
<1>4. T = Nat
  BY <1>1, <1>2, <1>3, SetInduction
<1> QED
  BY <1>4 DEF T

(* FlattenSeq is the last of them.                                         *)
LEMMA FlattenSeqIs ==
  ASSUME NEW S, NEW seqs \in Seq(Seq(S))
  PROVE  \E f : Concatenations(f, S, seqs, Len(seqs)) /\ FlattenSeq(seqs) = f[Len(seqs)]
<1> DEFINE L == Len(seqs)
           Body(h) == [i \in 1..L |-> IF i = 1 THEN seqs[i] ELSE h[i-1] \o seqs[i]]
           flatten == CHOOSE h : h = Body(h)
<1>1. L \in Nat
  OBVIOUS
<1>2. PICK f : Concatenations(f, S, seqs, L)
  BY <1>1, ConcatenationsExist
<1>5. f[0] = <<>> /\ \A i \in 1..L : f[i] = f[i-1] \o seqs[i]
  BY <1>2 DEF Concatenations
<1>6. \A i \in 1..L : seqs[i] \in Seq(S)
  OBVIOUS
<1>3. CASE L = 0
  <2>1. FlattenSeq(seqs) = seqs /\ seqs = <<>>
    BY <1>3 DEF FlattenSeq
  <2> QED
    BY <1>2, <1>3, <2>1 DEF Concatenations
<1>4. CASE L # 0
  <2>1. FlattenSeq(seqs) = flatten[L]
    BY <1>4 DEF FlattenSeq
  <2> DEFINE g == [i \in 1..L |-> f[i]]
  <2>2. ASSUME NEW i \in 1..L
        PROVE  f[i] = IF i = 1 THEN seqs[i] ELSE g[i-1] \o seqs[i]
    <3>1. f[i] = f[i-1] \o seqs[i] /\ f[0] = <<>> /\ seqs[i] \in Seq(S)
      BY <1>5, <1>6
    <3>2. CASE i = 1
      <4>1. f[i-1] = <<>>
        BY <3>1, <3>2
      <4>2. <<>> \o seqs[i] = seqs[i]
        BY <3>1
      <4> QED
        BY <3>1, <3>2, <4>1, <4>2
    <3>3. CASE i # 1
      <4>1. i - 1 \in 1..L
        BY <1>1, <3>3
      <4>2. g[i-1] = f[i-1]
        BY <4>1
      <4> QED
        BY <3>1, <3>3, <4>2
    <3> QED
      BY <3>2, <3>3
  <2>3. g = Body(g)
    BY <2>2
  <2>4. flatten = Body(flatten)
    <3> HIDE DEF Body
    <3>1. \E h : h = Body(h)
      BY <2>3
    <3> QED
      BY <3>1
  <2> HIDE DEF flatten
  <2>5. \A i \in 1..L : flatten[i] = IF i = 1 THEN seqs[i] ELSE flatten[i-1] \o seqs[i]
    BY <2>4
  <2> DEFINE T == {k \in Nat : k + 1 <= L => flatten[k + 1] = f[k + 1]}
  <2>6. \A i \in 1..L : f[i] = IF i = 1 THEN seqs[i] ELSE f[i-1] \o seqs[i]
    <3> SUFFICES ASSUME NEW i \in 1..L
                 PROVE  f[i] = IF i = 1 THEN seqs[i] ELSE f[i-1] \o seqs[i]
      OBVIOUS
    <3>1. i # 1 => i - 1 \in 1..L
      BY <1>1
    <3> QED
      BY <2>2, <3>1
  <2>7. 0 \in T
    <3>1. 0 + 1 = 1 /\ 1 \in 1..L
      BY <1>1, <1>4
    <3> QED
      BY <2>5, <2>6, <3>1
  <2>8. ASSUME NEW k \in T PROVE k + 1 \in T
    <3>1. k \in Nat /\ (k + 1 <= L => flatten[k + 1] = f[k + 1])
      OBVIOUS
    <3> HIDE DEF T
    <3> SUFFICES ASSUME (k + 1) + 1 <= L
                 PROVE  flatten[(k + 1) + 1] = f[(k + 1) + 1]
      BY <3>1 DEF T
    <3> DEFINE i == (k + 1) + 1
    <3>2. i \in 1..L /\ i # 1 /\ i - 1 = k + 1 /\ k + 1 <= L
      BY <1>1, <3>1
    <3> HIDE DEF i
    <3>3. flatten[i] = flatten[i-1] \o seqs[i] /\ f[i] = f[i-1] \o seqs[i]
      BY <2>5, <2>6, <3>2
    <3>4. flatten[i] = f[i]
      BY <3>1, <3>2, <3>3
    <3> QED
      BY <3>4 DEF i
  <2> HIDE DEF T
  <2>9. T \in SUBSET Nat
    BY DEF T
  <2>10. T = Nat
    BY <2>7, <2>8, <2>9, SetInduction
  <2>11. L - 1 \in T /\ (L - 1) + 1 = L /\ (L - 1) + 1 <= L
    BY <1>1, <1>4, <2>10
  <2>12. flatten[L] = f[L]
    BY <2>11 DEF T
  <2> QED
    BY <1>2, <2>1, <2>12
<1> QED
  BY <1>3, <1>4

-----------------------------------------------------------------------------
(* The messages.                                                           *)

(* So is the one of the sender.                                            *)
LEMMA FlattensTo ==
  ASSUME NEW S, NEW seqs \in Seq(Seq(S))
  PROVE  Sender!FlattenSeq(seqs) \in Seq(S)
<1>1. Sender!FlattenSeq(seqs) = FlattenSeq(seqs)
  BY DEF Sender!FlattenSeq, FlattenSeq
<1>2. PICK f : Concatenations(f, S, seqs, Len(seqs)) /\ FlattenSeq(seqs) = f[Len(seqs)]
  BY FlattenSeqIs
<1>3. Len(seqs) \in 0..Len(seqs)
  OBVIOUS
<1> QED
  BY <1>1, <1>2, <1>3 DEF Concatenations

(* A finite set can be enumerated.                                         *)
LEMMA SetToSeqIs ==
  ASSUME NEW S, IsFiniteSet(S)
  PROVE  Sender!SetToSeq(S) \in Seq(S)
<1> DEFINE n == Cardinality(S)
           Lists(f) == Sender!IsInjective(f)
<1>1. n \in Nat /\ \E f : f \in Bijection(1..n, S)
  BY FS_CardinalityType DEF ExistsBijection
<1>2. PICK f : f \in Bijection(1..n, S)
  BY <1>1
<1>3. f \in [1..n -> S] /\ Lists(f)
  BY <1>2 DEF Bijection, Injection, IsInjective, Sender!IsInjective
<1>6. Sender!Cardinality(S) = n
  BY DEF Sender!Cardinality, Cardinality
<1>4. Sender!SetToSeq(S) = CHOOSE g \in [1..n -> S] : Lists(g)
  <2> HIDE DEF n, Lists
  <2> QED
    BY <1>6 DEF Sender!SetToSeq, Lists
<1> HIDE DEF Lists, n
<1>5. Sender!SetToSeq(S) \in [1..n -> S]
  BY <1>3, <1>4, Zenon
<1> QED
  BY <1>1, <1>5

(* The delimiters of the generators are characters.                        *)
LEMMA SendersDelimiters ==
  /\ <<Sender!SP>> \in Strings
  /\ <<Sender!CO, Sender!SP>> \in Strings
  /\ <<Sender!CR, Sender!LF>> \in Strings
<1>1. Sender!SP \in Characters /\ Sender!CO \in Characters /\ Sender!CR \in Characters /\ Sender!LF \in Characters
  BY DEF Sender!SP, Sender!CO, Sender!CR, Sender!LF, SP, CO, CR, LF, Characters, Delimiters
<1>2. \A c \in Characters : <<c>> \in Strings
  BY DEF Strings
<1>3. \A c, d \in Characters : <<c, d>> \in Strings
  BY DEF Strings
<1> QED
  BY <1>1, <1>2, <1>3

(* generate_header for every element of a map.                             *)
LEMMA MapIsGenerated ==
  ASSUME NEW a, IsTable(a)
  PROVE  Sender!GenerateHeaderMap(a) \in Seq(Strings)
<1> DEFINE keys == Sender!SetToSeq(DOMAIN a)
           lines == [i \in 1..Len(keys) |-> Sender!GenerateHeader(keys[i], a[keys[i]])]
<1>1. keys \in Seq(DOMAIN a)
  BY SetToSeqIs DEF IsTable
<1>2. Sender!GenerateHeaderMap(a) = Sender!FlattenSeq(lines)
  BY DEF Sender!GenerateHeaderMap
<1> HIDE DEF keys
<1>3. ASSUME NEW i \in 1..Len(keys)
      PROVE  Sender!GenerateHeader(keys[i], a[keys[i]]) \in Seq(Strings)
  <2>1. keys[i] \in Strings /\ a[keys[i]] \in Strings
    BY <1>1 DEF IsTable
  <2> QED
    BY <2>1, SendersDelimiters DEF Sender!GenerateHeader
<1>4. lines \in Seq(Seq(Strings))
  BY <1>1, <1>3
<1> HIDE DEF lines
<1> QED
  BY <1>2, <1>4, FlattensTo

(* What a message is made of are strings, for each kind of message. *)
LEMMA MessageIsGenerated ==
  ASSUME Sender!Init
  PROVE  pieces \in Seq(Strings)
<1>1. /\ message \in Requests \cup Responses \cup [text : Texts]
      /\ pieces = IF "method" \in DOMAIN message THEN Sender!GenerateRequest(message)
                  ELSE IF "status" \in DOMAIN message THEN Sender!GenerateResponse(message)
                  ELSE <<message.text>>
  BY DEF Sender!Init, Sender!IsRequest, Sender!IsResponse
<1>2. \A a, b, c \in Strings : Sender!GenerateLine(a, b, c) \in Seq(Strings)
  <2> SUFFICES ASSUME NEW a \in Strings, NEW b \in Strings, NEW c \in Strings
               PROVE  Sender!GenerateLine(a, b, c) \in Seq(Strings)
    OBVIOUS
  <2> QED
    BY SendersDelimiters DEF Sender!GenerateLine
<1>3. \A l, h \in Seq(Strings) : l \o h \o <<<<Sender!CR, Sender!LF>>>> \in Seq(Strings)
  BY SendersDelimiters
<1>4. CASE message \in Requests
  <2>1. /\ DOMAIN message = {"method", "path", "http_version", "arguments"}
        /\ message.method \in Strings /\ message.path \in Strings
        /\ message.http_version \in Strings /\ IsTable(message.arguments)
    <3>1. /\ message = [method |-> message.method, path |-> message.path,
                       http_version |-> message.http_version, arguments |-> message.arguments]
          /\ message.method \in Strings /\ message.path \in Strings
          /\ message.http_version \in Strings /\ IsTable(message.arguments)
      BY <1>4, MessagesAssumption
    <3> QED
      BY <3>1
  <2>2. Sender!GenerateHeaderMap(message.arguments) \in Seq(Strings)
    BY <2>1, MapIsGenerated
  <2>3. Sender!GenerateRequest(message) \in Seq(Strings)
    BY <1>2, <1>3, <2>1, <2>2 DEF Sender!GenerateRequest
  <2> QED
    BY <1>1, <2>1, <2>3
<1>5. CASE message \in Responses
  <2>1. /\ DOMAIN message = {"http_version", "status", "status_text", "arguments"}
        /\ message.http_version \in Strings /\ message.status_text \in Strings
        /\ \E s \in DOMAIN Numerals : Numerals[s] = message.status
        /\ IsTable(message.arguments)
    <3>1. /\ message = [http_version |-> message.http_version, status |-> message.status,
                       status_text |-> message.status_text, arguments |-> message.arguments]
          /\ message.http_version \in Strings /\ message.status_text \in Strings
          /\ \E s \in DOMAIN Numerals : Numerals[s] = message.status
          /\ IsTable(message.arguments)
      BY <1>5, MessagesAssumption
    <3> QED
      BY <3>1
  <2>2. Sender!Numeral(message.status) \in Strings
    <3>1. Sender!Numeral(message.status) \in DOMAIN Numerals
      BY <2>1 DEF Sender!Numeral
    <3>2. DOMAIN Numerals \subseteq Strings
      BY MessagesAssumption DEF Strings
    <3> QED
      BY <3>1, <3>2
  <2>3. Sender!GenerateHeaderMap(message.arguments) \in Seq(Strings)
    BY <2>1, MapIsGenerated
  <2>4. Sender!GenerateResponse(message) \in Seq(Strings)
    BY <1>2, <1>3, <2>1, <2>2, <2>3 DEF Sender!GenerateResponse
  <2>5. "method" \notin DOMAIN message /\ "status" \in DOMAIN message
    BY <2>1
  <2> QED
    BY <1>1, <2>4, <2>5
<1>6. CASE message \in [text : Texts]
  <2>1. DOMAIN message = {"text"} /\ message.text \in Strings
    BY <1>6, MessagesAssumption
  <2>2. "method" \notin DOMAIN message /\ "status" \notin DOMAIN message
    BY <2>1
  <2> QED
    BY <1>1, <2>1, <2>2
<1> QED
  BY <1>1, <1>4, <1>5, <1>6

-----------------------------------------------------------------------------
(* The connection.                                                         *)

(* The inductive invariant of sending, arriving and reading.               *)
ConnectionInv ==
  /\ pieces \in Seq(Strings) /\ stream \in Strings /\ failed \in BOOLEAN
  /\ SinkInv

(* It holds before anything is sent,                                       *)
LEMMA ConnectionStarts == Init => ConnectionInv
<1> SUFFICES ASSUME Init PROVE ConnectionInv
  OBVIOUS
<1>1. pieces \in Seq(Strings)
  BY MessageIsGenerated DEF Init
<1>2. /\ stream = <<>> /\ fed = 0 /\ data = <<>> /\ state = "method"
      /\ result = Receiver!EmptyRequest /\ key = <<>> /\ value = <<>> /\ output = <<>>
      /\ failed = FALSE
  BY DEF Init, Receiver!Init
<1>3. <<>> \in Strings /\ Len(<<>>) = 0 /\ 0 - 0 = 0 /\ 0 + 0 = 0 /\ 1..0 = {}
  BY DEF Strings
<1>4. Receiver!Readings(<<>>)[0] = Receiver!Fresh
  BY <1>3, ReadingsAre DEF Strings
<1>5. Now = Receiver!Fresh
  BY <1>2 DEF Now, Parser, Receiver!Fresh
<1>6. IsParser(Now)
  <2>1. Receiver!EmptyRequest = Requested(<<>>, <<>>, <<>>, Receiver!NoArguments)
    BY DEF Receiver!EmptyRequest, Requested
  <2>2. "method" \in States
    BY DEF States
  <2> QED
    BY <1>2, <1>3, <2>1, <2>2, IsRequestedOf, IsParserOf DEF Now
<1>7. Follows(<<>>, 0, <<>>, Now)
  BY <1>3, <1>4, <1>5, <1>6 DEF Follows, Agrees
<1>8. Follows(stream, fed - Len(data), data, Now) /\ Len(data) <= fed /\ fed \in Nat
  BY <1>2, <1>3, <1>7
<1>9. stream \in Strings /\ failed \in BOOLEAN
  BY <1>2, <1>3
<1> QED
  BY <1>1, <1>8, <1>9 DEF ConnectionInv, SinkInv, Following

(* and whatever is sent, arrives or is read.                               *)
LEMMA ConnectionGoesOn == ConnectionInv /\ [Next]_vars => ConnectionInv'
<1> SUFFICES ASSUME ConnectionInv, [Next]_vars PROVE ConnectionInv'
  OBVIOUS
<1>1. pieces \in Seq(Strings) /\ stream \in Strings /\ failed \in BOOLEAN /\ SinkInv
  BY DEF ConnectionInv
<1>2. CASE Send
  <2>1. /\ pieces # <<>> /\ stream' = stream \o Head(pieces) /\ pieces' = Tail(pieces)
        /\ UNCHANGED <<fed, data, state, result, key, value, output, failed>>
    BY <1>2 DEF Send, Sender!AppendPiece
  <2>2. Head(pieces) \in Strings /\ pieces' \in Seq(Strings)
    BY <1>1, <2>1
  <2>3. stream' \in Strings
    BY <1>1, <2>1, <2>2 DEF Strings
  <2>4. SinkInv'
    BY <1>1, <2>1, <2>2, SendFollows
  <2> QED
    BY <1>1, <2>1, <2>2, <2>3, <2>4 DEF ConnectionInv
<1>3. ASSUME NEW n \in 1..Len(stream), Receive(n) PROVE ConnectionInv'
  <2>1. Receiver!Feed(n) /\ pieces' = pieces /\ stream' = stream /\ failed' = failed
    BY <1>3 DEF Receive, Receiver!Feed
  <2>2. SinkInv'
    BY <1>1, <2>1, FeedFollows
  <2> QED
    BY <1>1, <2>1, <2>2 DEF ConnectionInv
<1>4. CASE Parse
  <2>1. Receiver!Round /\ pieces' = pieces
    BY <1>4 DEF Parse
  <2>2. stream' = stream /\ failed' \in BOOLEAN
    BY <1>1, <2>1
       DEF Receiver!Round, Receiver!MethodOrPath, Receiver!Version, Receiver!SkipOptional,
           Receiver!EndOfHeaders, Receiver!Key, Receiver!Value
  <2>3. SinkInv'
    BY <1>1, <2>1, RoundFollows
  <2> QED
    BY <1>1, <2>1, <2>2, <2>3 DEF ConnectionInv
<1>5. CASE UNCHANGED vars
  <2>1. UNCHANGED <<pieces, stream, fed, data, state, result, key, value, output, failed>>
    BY <1>5 DEF vars
  <2> QED
    BY <1>1, <2>1 DEF ConnectionInv, SinkInv, Following, Now
<1> QED
  BY <1>2, <1>3, <1>4, <1>5 DEF Next

(***************************************************************************)
(* For every text and whatever pieces it comes in, request_parser_sink is  *)
(* between two pieces where its reference is that reads one character at a *)
(* time, until a header line lacks a colon or m_output has failed.         *)
(***************************************************************************)
THEOREM PiecesCorrect == Spec => []PiecesDoNotMatter
<1>1. ConnectionInv => PiecesDoNotMatter
  BY BetweenPieces DEF ConnectionInv
<1> QED
  BY <1>1, ConnectionStarts, ConnectionGoesOn, PTL DEF Spec

-----------------------------------------------------------------------------
(* The lines of a text.                                                    *)

(* What a line is that starts with the character j, in terms of those that *)
(* start behind.                                                           *)
LineEnds(next) == [found |-> TRUE, text |-> <<>>, next |-> next]

(* The line l with c in front of it.                                       *)
LineBegins(c, l) == IF l.found THEN [l EXCEPT !.text = <<c>> \o @] ELSE Nothing

(* The line at j, where f are those behind.                                *)
LineStep(f, s, j) ==
  IF j > Len(s) THEN Nothing
  ELSE IF s[j] = LF THEN LineEnds(j + 1)
  ELSE IF s[j] # CR THEN LineBegins(s[j], f[j + 1])
  ELSE IF j + 1 > Len(s) THEN Nothing
  ELSE IF s[j + 1] = LF THEN LineEnds(j + 2)
  ELSE LineBegins(CR, f[j + 2])

(* The table of lines from i on.                                           *)
LinesFrom(f, s, i) ==
  /\ f = [j \in i..Len(s) + 2 |-> f[j]]
  /\ \A j \in i..Len(s) + 2 : f[j] = LineStep(f, s, j)

(* There is a table of them for the last k characters,                     *)
LEMMA LinesExist ==
  ASSUME NEW s \in Strings
  PROVE  \A k \in Nat : k <= Len(s) + 1 => \E f : LinesFrom(f, s, Len(s) + 2 - k)
<1> DEFINE L == Len(s) + 2
           T == {k \in Nat : k <= Len(s) + 1 => \E f : LinesFrom(f, s, L - k)}
<1>0. Len(s) \in Nat
  BY DEF Strings
<1>1. 0 \in T
  <2> DEFINE f == [j \in L..L |-> Nothing]
  <2>1. f = [j \in L..L |-> f[j]] /\ \A j \in L..L : j > Len(s) /\ f[j] = Nothing
    BY <1>0
  <2> HIDE DEF f
  <2>2. LinesFrom(f, s, L)
    BY <2>1 DEF LinesFrom, LineStep
  <2>3. L - 0 = L
    BY <1>0
  <2> HIDE DEF L
  <2> QED
    BY <2>2, <2>3
<1>2. ASSUME NEW k \in T PROVE k + 1 \in T
  <2>1. k \in Nat /\ k + 1 \in Nat /\ (k <= Len(s) + 1 => \E f : LinesFrom(f, s, L - k))
    OBVIOUS
  <2> HIDE DEF T
  <2> SUFFICES ASSUME k + 1 <= Len(s) + 1 PROVE \E f : LinesFrom(f, s, L - (k + 1))
    BY <2>1 DEF T
  <2> DEFINE n == L - (k + 1)
  <2>2. n \in 1..L /\ L - k = n + 1 /\ L \in Nat
    BY <1>0, <2>1
  <2>3. PICK f : LinesFrom(f, s, n + 1)
    BY <1>0, <2>1, <2>2
  <2> DEFINE g == [j \in n..L |-> IF j = n THEN LineStep(f, s, n) ELSE f[j]]
  <2>4. /\ g = [j \in n..L |-> g[j]]
        /\ g[n] = LineStep(f, s, n)
        /\ \A j \in n + 1..L : g[j] = f[j]
    BY <2>2
  <2> HIDE DEF g, n
  <2>5. ASSUME NEW j \in n..L PROVE g[j] = LineStep(g, s, j)
    <3>1. j <= Len(s) => j + 1 \in n + 1..L
      BY <1>0, <2>2
    <3>2. j + 1 <= Len(s) => j + 2 \in n + 1..L
      BY <1>0, <2>2
    <3>3. j \in Int
      BY <1>0, <2>2
    <3> HIDE DEF L
    <3>4. LineStep(f, s, j) = LineStep(g, s, j)
      <4>1. CASE j > Len(s)
        BY <4>1 DEF LineStep
      <4>2. CASE j <= Len(s) /\ j + 1 > Len(s)
        <5>1. g[j + 1] = f[j + 1]
          BY <2>4, <3>1, <4>2
        <5> QED
          BY <5>1, <4>2 DEF LineStep
      <4>3. CASE j <= Len(s) /\ j + 1 <= Len(s)
        <5>1. g[j + 1] = f[j + 1] /\ g[j + 2] = f[j + 2]
          BY <2>4, <3>1, <3>2, <4>3
        <5> QED
          BY <5>1, <4>3 DEF LineStep
      <4> QED
        BY <1>0, <3>3, <4>1, <4>2, <4>3
    <3>5. CASE j = n
      BY <2>4, <3>4, <3>5
    <3>6. CASE j # n
      <4>1. j \in n + 1..L
        BY <2>2, <3>6 DEF L
      <4>2. f[j] = LineStep(f, s, j)
        BY <2>3, <4>1 DEF LinesFrom, L
      <4> QED
        BY <2>4, <3>4, <4>1, <4>2
    <3> QED
      BY <3>5, <3>6
  <2>6. LinesFrom(g, s, n)
    BY <2>4, <2>5 DEF LinesFrom
  <2> QED
    BY <2>6 DEF n
<1> HIDE DEF T
<1>3. T \in SUBSET Nat
  BY DEF T
<1>4. T = Nat
  BY <1>1, <1>2, <1>3, SetInduction
<1> QED
  BY <1>4 DEF T

(* which is what Line looks into.                                          *)
LEMMA LineIs ==
  ASSUME NEW s \in Strings, NEW j \in 1..Len(s) + 2
  PROVE  Line(s, j) = LineStep([h \in 1..Len(s) + 2 |-> Line(s, h)], s, j)
<1> DEFINE L == Len(s) + 2
           Body(f) == [h \in 1..L |-> LineStep(f, s, h)]
           table == CHOOSE f : f = Body(f)
<1>0. Len(s) \in Nat
  BY DEF Strings
<1>1. PICK f : LinesFrom(f, s, 1)
  <2>1. Len(s) + 1 \in Nat /\ Len(s) + 2 - (Len(s) + 1) = 1 /\ Len(s) + 1 <= Len(s) + 1
    BY <1>0
  <2> QED
    BY <2>1, LinesExist
<1>2. f = Body(f)
  BY <1>1 DEF LinesFrom
<1>3. table = Body(table)
  <2> HIDE DEF Body
  <2>1. \E g : g = Body(g)
    BY <1>2
  <2> QED
    BY <2>1
<1>4. \A h : Line(s, h) = table[h]
  BY DEF Line, LineStep, LineEnds, LineBegins
<1> HIDE DEF table
<1>5. \A h \in 1..L : table[h] = LineStep(table, s, h)
  BY <1>3
<1>6. [h \in 1..L |-> Line(s, h)] = table
  <2>1. [h \in 1..L |-> Line(s, h)] = [h \in 1..L |-> table[h]]
    BY <1>4
  <2>2. table = [h \in 1..L |-> table[h]]
    BY <1>3
  <2> QED
    BY <2>1, <2>2
<1> QED
  BY <1>4, <1>5, <1>6

(* Induction backwards, over the characters of a text.                     *)
LEMMA BackwardInduction ==
  ASSUME NEW n \in Nat, NEW T \in SUBSET Nat, n \in T,
         \A j \in T : j # 0 /\ j <= n => j - 1 \in T
  PROVE  \A j \in 0..n : j \in T
<1> DEFINE U == {k \in Nat : k <= n => n - k \in T}
<1>1. 0 \in U
  OBVIOUS
<1>2. ASSUME NEW k \in U PROVE k + 1 \in U
  <2>1. k \in Nat /\ (k <= n => n - k \in T)
    OBVIOUS
  <2> HIDE DEF U
  <2> SUFFICES ASSUME k + 1 <= n PROVE n - (k + 1) \in T
    BY <2>1 DEF U
  <2>2. n - k \in T /\ n - k # 0 /\ n - k <= n /\ (n - k) - 1 = n - (k + 1)
    BY <2>1
  <2> QED
    BY <2>2
<1> HIDE DEF U
<1>3. U \in SUBSET Nat
  BY DEF U
<1>4. U = Nat
  BY <1>1, <1>2, <1>3, SetInduction
<1> SUFFICES ASSUME NEW j \in 0..n PROVE j \in T
  OBVIOUS
<1>5. n - j \in U /\ n - j <= n /\ n - (n - j) = j
  BY <1>4
<1> QED
  BY <1>5 DEF U

(* Each case of Line. *)
LEMMA LineCases ==
  ASSUME NEW s \in Strings, NEW j \in 1..Len(s) + 2
  PROVE  /\ j > Len(s) => Line(s, j) = Nothing
         /\ j <= Len(s) =>
              /\ s[j] = LF => Line(s, j) = LineEnds(j + 1)
              /\ s[j] # LF /\ s[j] # CR => Line(s, j) = LineBegins(s[j], Line(s, j + 1))
              /\ s[j] = CR /\ j + 1 > Len(s) => Line(s, j) = Nothing
              /\ s[j] = CR /\ j + 1 <= Len(s) =>
                   Line(s, j) = IF s[j + 1] = LF THEN LineEnds(j + 2)
                                ELSE LineBegins(CR, Line(s, j + 2))
<1> DEFINE f == [h \in 1..Len(s) + 2 |-> Line(s, h)]
<1>0. Len(s) \in Nat /\ CR # LF
  BY DEF Strings, CR, LF
<1>1. Line(s, j) = LineStep(f, s, j)
  BY LineIs
<1>2. \A h \in 1..Len(s) + 2 : f[h] = Line(s, h)
  OBVIOUS
<1> HIDE DEF f
<1>3. j <= Len(s) => f[j + 1] = Line(s, j + 1)
  BY <1>0, <1>2
<1>4. j + 1 <= Len(s) => f[j + 2] = Line(s, j + 2)
  BY <1>0, <1>2
<1>5. j \in Int
  OBVIOUS
<1>6. CASE j > Len(s)
  BY <1>0, <1>1, <1>5, <1>6 DEF LineStep
<1>7. CASE j <= Len(s) /\ s[j] = LF
  BY <1>0, <1>1, <1>5, <1>7 DEF LineStep
<1>8. CASE j <= Len(s) /\ s[j] # LF /\ s[j] # CR
  BY <1>0, <1>1, <1>3, <1>5, <1>8 DEF LineStep
<1>9. CASE j <= Len(s) /\ s[j] = CR
  BY <1>0, <1>1, <1>3, <1>4, <1>5, <1>9 DEF LineStep
<1> QED
  BY <1>0, <1>5, <1>6, <1>7, <1>8, <1>9

(* A character in front of a line. *)
LEMMA LineBeginsIs ==
  ASSUME NEW c, NEW l, NEW t, NEW n, l = [found |-> TRUE, text |-> t, next |-> n]
  PROVE  LineBegins(c, l) = [found |-> TRUE, text |-> <<c>> \o t, next |-> n]
<1>1. l.found /\ l.text = t
  OBVIOUS
<1>2. LineBegins(c, l) = [l EXCEPT !.text = <<c>> \o t]
  BY <1>1, Zenon DEF LineBegins
<1>3. \A f, x, m : m = [found |-> f, text |-> t, next |-> n] =>
                    [m EXCEPT !.text = x] = [found |-> f, text |-> x, next |-> n]
  OBVIOUS
<1> QED
  BY <1>2, <1>3, Zenon

(* A line that is found is a text in front of a position behind it. *)
IsLine(l, s, j) ==
  /\ l = [found |-> TRUE, text |-> l.text, next |-> l.next]
  /\ l.text \in Strings /\ l.next \in j + 1..Len(s) + 1

(* A line that is found is one.                                            *)
LEMMA LineFound ==
  ASSUME NEW s \in Strings, NEW j \in 1..Len(s) + 2
  PROVE  Line(s, j) = Nothing \/ IsLine(Line(s, j), s, j)
<1>0. Len(s) \in Nat /\ \A h \in 1..Len(s) : s[h] \in Characters
  BY DEF Strings
<1>1. \A l : LineBegins(l, Nothing) = Nothing
  BY DEF LineBegins, Nothing
<1>2. ASSUME NEW k \in 1..Len(s), NEW c \in Characters, NEW l, NEW h \in k + 1..k + 2, IsLine(l, s, h)
      PROVE  IsLine(LineBegins(c, l), s, k)
  <2>1. l = [found |-> TRUE, text |-> l.text, next |-> l.next] /\ l.text \in Strings
        /\ l.next \in h + 1..Len(s) + 1
    BY <1>2 DEF IsLine
  <2>2. LineBegins(c, l) = [found |-> TRUE, text |-> <<c>> \o l.text, next |-> l.next]
    BY <2>1, LineBeginsIs
  <2>3. <<c>> \o l.text \in Strings /\ l.next \in k + 1..Len(s) + 1
    BY <1>0, <1>2, <2>1 DEF Strings
  <2> QED
    BY <2>2, <2>3 DEF IsLine
<1>3. ASSUME NEW k \in 1..Len(s), NEW h \in k + 1..k + 2, h <= Len(s) + 1
      PROVE  IsLine(LineEnds(h), s, k)
  <2>1. <<>> \in Strings /\ h \in k + 1..Len(s) + 1
    BY <1>0, <1>3 DEF Strings
  <2> QED
    BY <2>1 DEF IsLine, LineEnds
<1> DEFINE Good(h) == Line(s, h) = Nothing \/ IsLine(Line(s, h), s, h)
<1>4. \A h \in {Len(s) + 1, Len(s) + 2} : Good(h)
  BY <1>0, LineCases
<1>5. ASSUME NEW k \in 1..Len(s), Good(k + 1), k + 1 <= Len(s) => Good(k + 2)
      PROVE  Good(k)
  <2>1. k \in 1..Len(s) + 2 /\ k <= Len(s) /\ k \in Nat /\ s[k] \in Characters
        /\ k + 1 \in k + 1..k + 2 /\ k + 2 \in k + 1..k + 2 /\ k + 1 <= Len(s) + 1 /\ CR \in Characters
    BY <1>0 DEF Characters, Delimiters
  <2>2. CASE s[k] = LF
    <3>1. Line(s, k) = LineEnds(k + 1)
      BY <2>1, <2>2, LineCases
    <3> QED
      BY <1>3, <2>1, <3>1
  <2>3. CASE s[k] # LF /\ s[k] # CR
    <3>1. Line(s, k) = LineBegins(s[k], Line(s, k + 1))
      BY <2>1, <2>3, LineCases
    <3> QED
      BY <1>1, <1>2, <1>5, <2>1, <3>1
  <2>4. CASE s[k] = CR /\ k + 1 > Len(s)
    <3>1. Line(s, k) = Nothing
      BY <2>1, <2>4, LineCases
    <3> QED
      BY <3>1
  <2>5. CASE s[k] = CR /\ k + 1 <= Len(s) /\ s[k + 1] = LF
    <3>1. Line(s, k) = LineEnds(k + 2) /\ k + 2 <= Len(s) + 1
      BY <1>0, <2>1, <2>5, LineCases
    <3> QED
      BY <1>3, <2>1, <3>1
  <2>6. CASE s[k] = CR /\ k + 1 <= Len(s) /\ s[k + 1] # LF
    <3>1. Line(s, k) = LineBegins(CR, Line(s, k + 2))
      BY <2>1, <2>6, LineCases
    <3> QED
      BY <1>1, <1>2, <1>5, <2>1, <2>6, <3>1
  <2> QED
    BY <1>0, <2>1, <2>2, <2>3, <2>4, <2>5, <2>6
<1> DEFINE U == {k \in Nat : k = 0 \/ (Good(k) /\ Good(k + 1))}
<1> HIDE DEF Good
<1>6. Len(s) + 1 \in U
  <2>1. (Len(s) + 1) + 1 = Len(s) + 2 /\ Len(s) + 1 \in Nat
    BY <1>0
  <2> QED
    BY <1>4, <2>1
<1>7. ASSUME NEW k \in U, k # 0, k <= Len(s) + 1 PROVE k - 1 \in U
  <2>1. k - 1 \in Nat /\ Good(k) /\ Good(k + 1) /\ (k - 1) + 1 = k /\ (k - 1) + 2 = k + 1
    BY <1>7
  <2>2. k - 1 # 0 => k - 1 \in 1..Len(s)
    BY <1>0, <1>7, <2>1
  <2>3. k - 1 # 0 => Good(k - 1)
    BY <1>5, <2>1, <2>2
  <2> QED
    BY <2>1, <2>3
<1> HIDE DEF U
<1>8. U \in SUBSET Nat /\ Len(s) + 1 \in Nat
  BY <1>0 DEF U
<1>9. \A k \in 0..Len(s) + 1 : k \in U
  BY <1>6, <1>7, <1>8, BackwardInduction
<1>10. CASE j = Len(s) + 2
  BY <1>4, <1>10 DEF Good
<1>11. CASE j # Len(s) + 2
  <2>1. j \in 0..Len(s) + 1 /\ j # 0
    BY <1>0, <1>11
  <2> QED
    BY <1>9, <2>1 DEF U, Good
<1> QED
  BY <1>10, <1>11

(* A line that ends in CR and LF.                                          *)
LEMMA LineToCr ==
  ASSUME NEW s \in Strings, NEW j \in 1..Len(s), NEW e \in j..Len(s), e + 1 <= Len(s),
         s[e] = CR, s[e + 1] = LF, \A h \in j..e - 1 : s[h] # CR /\ s[h] # LF
  PROVE  Line(s, j) = [found |-> TRUE, text |-> SubSeq(s, j, e - 1), next |-> e + 2]
<1> DEFINE Is(k) == Line(s, k) = [found |-> TRUE, text |-> SubSeq(s, k, e - 1), next |-> e + 2]
           T == {k \in Nat : k < j \/ Is(k)}
<1>0. Len(s) \in Nat /\ e \in Nat /\ e \in 1..Len(s) + 2 /\ e <= Len(s) /\ CR # LF
  BY DEF Strings, CR, LF
<1>1. e \in T
  <2>1. Line(s, e) = LineEnds(e + 2)
    BY <1>0, LineCases
  <2>2. SubSeq(s, e, e - 1) = <<>>
    BY <1>0 DEF Strings
  <2> QED
    BY <1>0, <2>1, <2>2 DEF LineEnds
<1>2. ASSUME NEW k \in T, k # 0, k <= e PROVE k - 1 \in T
  <2>1. k \in Nat /\ (k < j \/ Is(k)) /\ k - 1 \in Nat
    BY <1>2
  <2> HIDE DEF T
  <2> SUFFICES ASSUME k - 1 >= j PROVE Is(k - 1)
    BY <2>1 DEF T
  <2> DEFINE c == s[k - 1]
             t == SubSeq(s, k, e - 1)
  <2>2. k - 1 \in j..e - 1 /\ k - 1 \in 1..Len(s) + 2 /\ k - 1 <= Len(s) /\ (k - 1) + 1 = k
    BY <1>0, <1>2, <2>1
  <2>3. Line(s, k - 1) = LineBegins(c, Line(s, k))
    BY <2>2, LineCases
  <2>4. Line(s, k) = [found |-> TRUE, text |-> t, next |-> e + 2]
    BY <2>1, <2>2
  <2>5. Line(s, k - 1) = [found |-> TRUE, text |-> <<c>> \o t, next |-> e + 2]
    BY <2>3, <2>4, LineBeginsIs
  <2>6. <<c>> \o t = SubSeq(s, k - 1, e - 1)
    <3> DEFINE u == SubSeq(s, k - 1, e - 1)
               v == <<c>> \o t
               n == e - k
    <3>1. n \in Nat
      BY <1>0, <1>2, <2>1
    <3>2. c \in Characters /\ t \in Strings /\ Len(t) = n /\ \A i \in 1..n : t[i] = s[k + i - 1]
      BY <1>0, <1>2, <2>1, <2>2 DEF Strings
    <3>3. u \in Strings /\ Len(u) = n + 1 /\ \A i \in 1..n + 1 : u[i] = s[(k - 1) + i - 1]
      BY <1>0, <1>2, <2>1, <2>2 DEF Strings
    <3> HIDE DEF t, n
    <3>4. v \in Strings /\ Len(v) = n + 1 /\ v[1] = c /\ \A i \in 2..n + 1 : v[i] = t[i - 1]
      BY <3>1, <3>2 DEF Strings
    <3> HIDE DEF u, v
    <3>5. ASSUME NEW i \in 1..n + 1 PROVE u[i] = v[i]
      <4>1. CASE i = 1
        <5>1. (k - 1) + i - 1 = k - 1
          BY <2>1, <4>1
        <5> QED
          BY <3>3, <3>4, <4>1, <5>1
      <4>2. CASE i # 1
        <5>1. i \in 2..n + 1 /\ i - 1 \in 1..n /\ (k - 1) + i - 1 = k + (i - 1) - 1
          BY <2>1, <3>1, <4>2
        <5> QED
          BY <3>2, <3>3, <3>4, <5>1
      <4> QED
        BY <4>1, <4>2
    <3>6. u = v
      BY <3>3, <3>4, <3>5 DEF Strings
    <3> QED
      BY <3>6 DEF u, v
  <2> QED
    BY <2>5, <2>6
<1> HIDE DEF T
<1>3. T \in SUBSET Nat
  BY DEF T
<1>4. j \in T
  <2>1. j \in 0..e
    BY <1>0
  <2> QED
    BY <1>0, <1>1, <1>2, <1>3, <2>1, BackwardInduction
<1> QED
  BY <1>4 DEF T

(* A line the text ends in is not delivered.                               *)
LEMMA LineUnended ==
  ASSUME NEW s \in Strings, NEW j \in 1..Len(s) + 1,
         \A h \in j..Len(s) : s[h] # LF /\ (s[h] = CR => h = Len(s))
  PROVE  Line(s, j) = Nothing
<1> DEFINE T == {k \in Nat : k < j \/ Line(s, k) = Nothing}
<1>0. Len(s) \in Nat
  BY DEF Strings
<1>1. Len(s) + 1 \in T
  BY <1>0, LineCases
<1>2. ASSUME NEW k \in T, k # 0, k <= Len(s) + 1 PROVE k - 1 \in T
  <2>1. k \in Nat /\ (k < j \/ Line(s, k) = Nothing) /\ k - 1 \in Nat
    BY <1>2
  <2> HIDE DEF T
  <2> SUFFICES ASSUME k - 1 >= j PROVE Line(s, k - 1) = Nothing
    BY <2>1 DEF T
  <2>2. k - 1 \in j..Len(s) /\ k - 1 \in 1..Len(s) + 2 /\ k - 1 <= Len(s) /\ (k - 1) + 1 = k
    BY <1>0, <1>2, <2>1
  <2>3. CASE s[k - 1] = CR
    <3>1. (k - 1) + 1 > Len(s)
      BY <1>0, <2>2, <2>3
    <3> QED
      BY <2>2, <2>3, <3>1, LineCases
  <2>4. CASE s[k - 1] # CR
    <3>1. Line(s, k - 1) = LineBegins(s[k - 1], Line(s, k))
      BY <2>2, <2>4, LineCases
    <3>2. Line(s, k) = Nothing
      BY <2>1, <2>2
    <3> QED
      BY <3>1, <3>2 DEF LineBegins, Nothing
  <2> QED
    BY <2>3, <2>4
<1> HIDE DEF T
<1>3. T \in SUBSET Nat /\ Len(s) + 1 \in Nat /\ j \in 0..Len(s) + 1
  BY <1>0 DEF T
<1>4. j \in T
  BY <1>1, <1>2, <1>3, BackwardInduction
<1> QED
  BY <1>4 DEF T

-----------------------------------------------------------------------------
(* The header lines of a text.                                             *)

(* A header line t in front of later ones. *)
HeaderBefore(t, later) ==
  LET v == SplitValueLine(t)
  IN  IF later.found THEN [later EXCEPT !.arguments = Inserted(@, v.key, v.value)] ELSE Nothing

(* There are no more lines with arguments.                                 *)
NoHeaders == [found |-> TRUE, arguments |-> NoArguments]

(* The arguments from j on, where f are those of later lines,              *)
HeaderStep(f, s, j) ==
  LET l == Line(s, j)
  IN  IF ~l.found THEN Nothing
      ELSE IF l.text = <<>> THEN NoHeaders
      ELSE HeaderBefore(l.text, f[l.next])

(* and the lines that are split, where f are the later ones.               *)
TextStep(f, s, j) ==
  LET l == Line(s, j)
  IN  IF ~l.found \/ l.text = <<>> THEN {} ELSE {l.text} \cup f[l.next]

(* The tables of both from i on.                                           *)
HeadersFrom(f, g, s, i) ==
  /\ f = [j \in i..Len(s) + 1 |-> f[j]] /\ g = [j \in i..Len(s) + 1 |-> g[j]]
  /\ \A j \in i..Len(s) + 1 : f[j] = HeaderStep(f, s, j) /\ g[j] = TextStep(g, s, j)

(* What follows a line is behind it, *)
LEMMA NextLine ==
  ASSUME NEW s \in Strings, NEW j \in 1..Len(s) + 1
  PROVE  /\ Line(s, j).found \in BOOLEAN
         /\ Line(s, j).found =>
              /\ IsLine(Line(s, j), s, j)
              /\ Line(s, j).text \in Strings /\ Line(s, j).next \in j + 1..Len(s) + 1
<1>1. j \in 1..Len(s) + 2
  BY DEF Strings
<1>2. Line(s, j) = Nothing \/ IsLine(Line(s, j), s, j)
  BY <1>1, LineFound
<1>3. CASE Line(s, j) = Nothing
  BY <1>3 DEF Nothing
<1>4. CASE IsLine(Line(s, j), s, j)
  <2>1. Line(s, j).found = TRUE
    BY <1>4 DEF IsLine
  <2> QED
    BY <1>4, <2>1 DEF IsLine
<1> QED
  BY <1>2, <1>3, <1>4

(* so that there are tables of the lines of a text,                        *)
LEMMA HeadersExist ==
  ASSUME NEW s \in Strings
  PROVE  \A k \in Nat : k <= Len(s) + 1 => \E f, g : HeadersFrom(f, g, s, Len(s) + 2 - k)
<1> DEFINE L == Len(s) + 1
           T == {k \in Nat : k <= Len(s) + 1 => \E f, g : HeadersFrom(f, g, s, Len(s) + 2 - k)}
<1>0. Len(s) \in Nat
  BY DEF Strings
<1>1. 0 \in T
  <2> DEFINE f == [j \in {} |-> Nothing]
  <2>1. Len(s) + 2 - 0 = L + 1 /\ L + 1..L = {}
    BY <1>0
  <2>2. f = [j \in {} |-> f[j]]
    OBVIOUS
  <2> HIDE DEF f
  <2>3. HeadersFrom(f, f, s, L + 1)
    BY <2>1, <2>2 DEF HeadersFrom
  <2> QED
    BY <2>1, <2>3
<1>2. ASSUME NEW k \in T PROVE k + 1 \in T
  <2>1. k \in Nat /\ k + 1 \in Nat
        /\ (k <= Len(s) + 1 => \E f, g : HeadersFrom(f, g, s, Len(s) + 2 - k))
    OBVIOUS
  <2> HIDE DEF T
  <2> SUFFICES ASSUME k + 1 <= Len(s) + 1
               PROVE \E f, g : HeadersFrom(f, g, s, Len(s) + 2 - (k + 1))
    BY <2>1 DEF T
  <2> DEFINE n == Len(s) + 2 - (k + 1)
  <2>2. n \in 1..L /\ Len(s) + 2 - k = n + 1 /\ L \in Nat
    BY <1>0, <2>1
  <2>3. PICK f, g : HeadersFrom(f, g, s, n + 1)
    BY <1>0, <2>1, <2>2
  <2> DEFINE ff == [j \in n..L |-> IF j = n THEN HeaderStep(f, s, n) ELSE f[j]]
             gg == [j \in n..L |-> IF j = n THEN TextStep(g, s, n) ELSE g[j]]
  <2>4. /\ ff = [j \in n..L |-> ff[j]] /\ gg = [j \in n..L |-> gg[j]]
        /\ ff[n] = HeaderStep(f, s, n) /\ gg[n] = TextStep(g, s, n)
        /\ \A j \in n + 1..L : ff[j] = f[j] /\ gg[j] = g[j]
    BY <2>2
  <2> HIDE DEF ff, gg, n
  <2>5. ASSUME NEW j \in n..L PROVE ff[j] = HeaderStep(ff, s, j) /\ gg[j] = TextStep(gg, s, j)
    <3>1. Line(s, j).found \in BOOLEAN /\ (Line(s, j).found => Line(s, j).next \in n + 1..L)
      <4>1. j \in 1..Len(s) + 1
        BY <2>2
      <4>2. /\ Line(s, j).found \in BOOLEAN
            /\ Line(s, j).found => Line(s, j).next \in j + 1..Len(s) + 1
        BY <4>1, NextLine
      <4>3. \A h \in j + 1..Len(s) + 1 : h \in n + 1..L
        BY <2>2
      <4> QED
        BY <4>2, <4>3
    <3>2. HeaderStep(ff, s, j) = HeaderStep(f, s, j) /\ TextStep(gg, s, j) = TextStep(g, s, j)
      BY <2>4, <3>1 DEF HeaderStep, TextStep
    <3>3. CASE j = n
      BY <2>4, <3>2, <3>3
    <3>4. CASE j # n
      <4>1. j \in n + 1..L
        BY <2>2, <3>4 DEF L
      <4>2. f[j] = HeaderStep(f, s, j) /\ g[j] = TextStep(g, s, j)
        BY <2>3, <4>1 DEF HeadersFrom, L
      <4> QED
        BY <2>4, <3>2, <4>1, <4>2
    <3> QED
      BY <3>3, <3>4
  <2>6. HeadersFrom(ff, gg, s, n)
    BY <2>4, <2>5 DEF HeadersFrom
  <2> QED
    BY <2>6 DEF n
<1> HIDE DEF T
<1>3. T \in SUBSET Nat
  BY DEF T
<1>4. T = Nat
  BY <1>1, <1>2, <1>3, SetInduction
<1> QED
  BY <1>4 DEF T

(* which HeaderLines and HeaderTexts look into.                            *)
LEMMA HeadersAre ==
  ASSUME NEW s \in Strings, NEW j \in 1..Len(s) + 1
  PROVE  /\ HeaderLines(s, j) = HeaderStep([h \in 1..Len(s) + 1 |-> HeaderLines(s, h)], s, j)
         /\ HeaderTexts(s, j) = TextStep([h \in 1..Len(s) + 1 |-> HeaderTexts(s, h)], s, j)
<1> DEFINE L == Len(s) + 1
           Body(f) == [h \in 1..L |-> HeaderStep(f, s, h)]
           Texts1(f) == [h \in 1..L |-> TextStep(f, s, h)]
           table == CHOOSE f : f = Body(f)
           texts == CHOOSE f : f = Texts1(f)
<1>0. Len(s) \in Nat
  BY DEF Strings
<1>1. PICK f, g : HeadersFrom(f, g, s, 1)
  <2>1. Len(s) + 1 \in Nat /\ Len(s) + 2 - (Len(s) + 1) = 1 /\ Len(s) + 1 <= Len(s) + 1
    BY <1>0
  <2> QED
    BY <2>1, HeadersExist
<1>2. f = Body(f) /\ g = Texts1(g)
  BY <1>1 DEF HeadersFrom
<1>3. table = Body(table) /\ texts = Texts1(texts)
  <2> HIDE DEF Body, Texts1
  <2>1. (\E h : h = Body(h)) /\ \E h : h = Texts1(h)
    BY <1>2
  <2> QED
    BY <2>1
<1>4. \A h : HeaderLines(s, h) = table[h]
  BY DEF HeaderLines, HeaderStep, HeaderBefore, NoHeaders
<1>5. \A h : HeaderTexts(s, h) = texts[h]
  BY DEF HeaderTexts, TextStep
<1> HIDE DEF table, texts
<1>6. /\ \A h \in 1..L : table[h] = HeaderStep(table, s, h)
      /\ \A h \in 1..L : texts[h] = TextStep(texts, s, h)
  BY <1>3
<1>7. [h \in 1..L |-> HeaderLines(s, h)] = table
  <2>1. [h \in 1..L |-> HeaderLines(s, h)] = [h \in 1..L |-> table[h]]
    BY <1>4
  <2>2. table = [h \in 1..L |-> table[h]]
    BY <1>3
  <2> QED
    BY <2>1, <2>2
<1>8. [h \in 1..L |-> HeaderTexts(s, h)] = texts
  <2>1. [h \in 1..L |-> HeaderTexts(s, h)] = [h \in 1..L |-> texts[h]]
    BY <1>5
  <2>2. texts = [h \in 1..L |-> texts[h]]
    BY <1>3
  <2> QED
    BY <2>1, <2>2
<1> QED
  BY <1>4, <1>5, <1>6, <1>7, <1>8

(* The end of the header, and one more line. *)
LEMMA HeaderCases ==
  ASSUME NEW s \in Strings, NEW j \in 1..Len(s) + 1
  PROVE  LET l == Line(s, j)
         IN  /\ ~l.found => HeaderLines(s, j) = Nothing /\ HeaderTexts(s, j) = {}
             /\ l.found /\ l.text = <<>> =>
                  HeaderLines(s, j) = NoHeaders /\ HeaderTexts(s, j) = {}
             /\ l.found /\ l.text # <<>> =>
                  /\ HeaderLines(s, j) = HeaderBefore(l.text, HeaderLines(s, l.next))
                  /\ HeaderTexts(s, j) = {l.text} \cup HeaderTexts(s, l.next)
<1> DEFINE l == Line(s, j)
           f == [h \in 1..Len(s) + 1 |-> HeaderLines(s, h)]
           g == [h \in 1..Len(s) + 1 |-> HeaderTexts(s, h)]
<1>1. HeaderLines(s, j) = HeaderStep(f, s, j) /\ HeaderTexts(s, j) = TextStep(g, s, j)
  BY HeadersAre
<1>2. l.found \in BOOLEAN /\ (l.found => l.next \in j + 1..Len(s) + 1)
  BY NextLine
<1>3. \A h \in j + 1..Len(s) + 1 : h \in 1..Len(s) + 1
  BY DEF Strings
<1>4. l.found => f[l.next] = HeaderLines(s, l.next) /\ g[l.next] = HeaderTexts(s, l.next)
  BY <1>2, <1>3
<1> HIDE DEF f, g
<1> QED
  BY <1>1, <1>2, <1>4 DEF HeaderStep, TextStep

(* std::find from some position on. *)
LEMMA FindFrom ==
  ASSUME NEW s \in Strings, NEW c, NEW i \in 1..Len(s) + 1
  PROVE  LET at == Find(s, c, i)
         IN  /\ at \in i..Len(s) + 1
             /\ \A h \in i..at - 1 : s[h] # c
             /\ at <= Len(s) => s[at] = c
<1> DEFINE U == {j \in i..Len(s) : s[j] = c}
           First(j) == s[j] = c /\ \A h \in i..j - 1 : s[h] # c
<1>1. Len(s) \in Nat /\ i \in Nat
  BY DEF Strings
<1>2. CASE U = {}
  <2>1. Find(s, c, i) = Len(s) + 1
    BY <1>2 DEF Find
  <2> QED
    BY <1>1, <1>2, <2>1
<1>3. CASE U # {}
  <2>1. \E j \in i..Len(s) : s[j] = c
    BY <1>3
  <2>2. Find(s, c, i) = CHOOSE j \in i..Len(s) : First(j)
    BY <2>1 DEF Find
  <2>3. U \in SUBSET Nat
    BY <1>1
  <2>4. PICK n \in U : \A m \in U : n <= m
    BY <1>3, <2>3, SmallestNumber, Zenon
  <2>5. n \in i..Len(s) /\ s[n] = c
    OBVIOUS
  <2>6. ASSUME NEW h \in i..n - 1 PROVE s[h] # c
    <3>1. h \in i..Len(s) /\ ~(n <= h)
      BY <1>1, <2>5
    <3> QED
      BY <2>4, <3>1
  <2>7. First(n)
    BY <2>5, <2>6
  <2> HIDE DEF First
  <2>8. Find(s, c, i) \in i..Len(s) /\ First(Find(s, c, i))
    BY <2>2, <2>5, <2>7
  <2> QED
    BY <1>1, <2>8 DEF First
<1> QED
  BY <1>2, <1>3

(* A part of a part of a text. *)
LEMMA PartOfPart ==
  ASSUME NEW s \in Strings, NEW a \in Nat \ {0}, NEW b \in Nat, b <= Len(s), a <= b + 1,
         NEW c \in Nat \ {0}, NEW d \in Nat, a + d - 1 <= b
  PROVE  SubSeq(SubSeq(s, a, b), c, d) = SubSeq(s, a + c - 1, a + d - 1)
<1> DEFINE t == SubSeq(s, a, b)
           u == SubSeq(t, c, d)
           v == SubSeq(s, a + c - 1, a + d - 1)
<1>0. Len(s) \in Nat
  BY DEF Strings
<1>1. t \in Strings /\ Len(t) = b - a + 1 /\ \A i \in 1..b - a + 1 : t[i] = s[a + i - 1]
  BY <1>0 DEF Strings
<1> HIDE DEF t
<1>2. CASE c > d
  <2>1. u = <<>> /\ v = <<>>
    BY <1>0, <1>1, <1>2 DEF Strings
  <2> QED
    BY <2>1 DEF t
<1>3. CASE c <= d
  <2>1. u \in Strings /\ Len(u) = d - c + 1 /\ \A i \in 1..d - c + 1 : u[i] = t[c + i - 1]
    <3>1. c \in 1..Len(t) /\ d \in 1..Len(t) /\ c <= d + 1
      BY <1>0, <1>1, <1>3
    <3>2. SubSeq(t, c, d) \in Strings /\ Len(SubSeq(t, c, d)) = d - c + 1
      BY <1>1, <1>3, <3>1 DEF Strings
    <3>3. \A i \in 1..d - c + 1 : SubSeq(t, c, d)[i] = t[c + i - 1]
      BY <1>1, <1>3, <3>1 DEF Strings
    <3> QED
      BY <3>2, <3>3
  <2>2. v \in Strings /\ Len(v) = d - c + 1 /\ \A i \in 1..d - c + 1 : v[i] = s[(a + c - 1) + i - 1]
    BY <1>0, <1>3 DEF Strings
  <2> HIDE DEF u, v
  <2>3. ASSUME NEW i \in 1..d - c + 1 PROVE u[i] = v[i]
    <3>1. c + i - 1 \in 1..b - a + 1 /\ a + (c + i - 1) - 1 = (a + c - 1) + i - 1
      BY <1>3
    <3> QED
      BY <1>1, <2>1, <2>2, <3>1
  <2>4. u = v
    <3>1. /\ u = [i \in 1..d - c + 1 |-> u[i]] /\ v = [i \in 1..d - c + 1 |-> v[i]]
      BY <2>1, <2>2 DEF Strings
    <3> QED
      BY <2>3, <3>1
  <2> QED
    BY <2>4 DEF u, v, t
<1> QED
  BY <1>2, <1>3

-----------------------------------------------------------------------------
(* What the reference for request_parser_sink makes of a line.             *)

(* The part of a line that a state reads, without a CR. *)
LEMMA RunRead ==
  ASSUME NEW s \in Strings, NEW p, IsParser(p), p.state \in Reads, NEW i \in Nat, i < Len(s),
         ~CutOff(s, i),
         Receiver!Readings(s)[i + 1] = Receiver!ReadChar(p, s[i + 1]),
         NEW m \in Nat, i + m < Len(s),
         \A j \in i + 1 .. i + m : s[j] # Delimiter(p.state) /\ s[j] # CR
  PROVE  /\ ~CutOff(s, i + m)
         /\ \A n \in 1..m : Receiver!Readings(s)[i + n] = Extended(p, SubSeq(s, i + 1, i + n))
         /\ Receiver!Readings(s)[i + m + 1]
              = Receiver!ReadChar(Extended(p, SubSeq(s, i + 1, i + m)), s[i + m + 1])
<1>0. Len(s) \in Nat
  BY DEF Strings
<1>1. ASSUME NEW n \in 0..m PROVE ~CutOff(s, i + n)
  <2> SUFFICES ASSUME NEW j \in 1..i + n, s[j] = CR,
                      Receiver!Readings(s)[j-1].state = "key",
                      Receiver!Readings(s)[j-1].key # <<>>
               PROVE  FALSE
    BY DEF CutOff
  <2>1. j \notin i + 1..i + m
    OBVIOUS
  <2>2. j \in 1..i
    BY <2>1
  <2> QED
    BY <2>2 DEF CutOff
<1>2. CASE m = 0
  <2>1. 1..m = {} /\ i + m = i /\ SubSeq(s, i + 1, i + m) = <<>>
    BY <1>0, <1>2 DEF Strings
  <2>2. Extended(p, SubSeq(s, i + 1, i + m)) = p
    BY <2>1, ExtendedByNothing
  <2> QED
    BY <2>1, <2>2
<1>3. CASE m # 0
  <2>1. s[i + 1] # CR
    <3>1. i + 1 \in i + 1..i + m
      BY <1>3
    <3> QED
      BY <3>1
  <2>2. ASSUME NEW n \in 1..m
        PROVE  /\ Receiver!Readings(s)[i + n] = Extended(p, SubSeq(s, i + 1, i + n))
               /\ Receiver!Readings(s)[i + n + 1]
                    = Receiver!ReadChar(Extended(p, SubSeq(s, i + 1, i + n)), s[i + n + 1])
    <3>1. n \in Nat /\ n # 0 /\ i + n <= Len(s) /\ i + n < Len(s) /\ n \in 0..m
          /\ \A j \in i + 1..i + n : s[j] # Delimiter(p.state)
      BY <1>0
    <3>2. ~CutOff(s, i + n)
      BY <1>1, <3>1
    <3> QED
      BY <2>1, <3>1, <3>2, ReadsPart, ZenonT(40)
  <2>3. m \in 1..m /\ m \in 0..m
    BY <1>3
  <2> QED
    BY <1>1, <2>2, <2>3
<1> QED
  BY <1>2, <1>3

(* It stays a parser, and the requests that are done stay done.            *)
LEMMA ReadsOnItsWay ==
  ASSUME NEW p, IsParser(p), p.state \in Reads, NEW c \in Characters
  PROVE  /\ IsParser(Receiver!ReadChar(p, c))
         /\ Receiver!ReadChar(p, c).output \in {p.output, Append(p.output, p.result)}
<1> DEFINE q == Receiver!ReadChar(p, c)
<1>1. /\ p.state \in States /\ IsRequested(p.result) /\ p.key \in Strings /\ p.value \in Strings
      /\ <<>> \in Strings
  BY DEF IsParser, Strings
<1>2. CASE c \notin Stops(p.state)
  <2>1. q = Extended(p, <<c>>) /\ <<c>> \in Strings
    BY <1>2, ReadsOn DEF Strings
  <2>2. Extended(p, <<c>>).output = p.output
    BY DEF Extended, Parser
  <2> HIDE DEF q
  <2>3. IsParser(q)
    BY <2>1, ExtendedIsParser
  <2> QED
    BY <2>1, <2>2, <2>3 DEF q
<1>3. CASE c \in Stops(p.state)
  <2>0. \A z, r, k, v, o : Parser(z, r, k, v, o).output = o
    BY DEF Parser
  <2>1. CASE p.state \in {"method", "path"}
    <3>1. q = Parser(IF p.state = "method" THEN "path" ELSE "version", p.result, p.key, p.value, p.output)
      BY <1>3, <2>1, ReadsDelimiter DEF Stops, Delimiter
    <3>2. (IF p.state = "method" THEN "path" ELSE "version") \in States
      BY DEF States
    <3> HIDE DEF q
    <3> QED
      BY <1>1, <2>0, <3>1, <3>2, IsParserOf DEF q
  <2>2. CASE p.state = "version"
    <3>1. q = Parser("version_lf", p.result, p.key, p.value, p.output)
      BY <1>3, <2>2, ReadsDelimiter DEF Stops, Delimiter
    <3>2. "version_lf" \in States
      BY DEF States
    <3> HIDE DEF q
    <3> QED
      BY <1>1, <2>0, <3>1, <3>2, IsParserOf DEF q
  <2>3. CASE p.state = "key" /\ c = CO
    <3>1. q = Parser("value_space", p.result, p.key, p.value, p.output)
      BY <2>3, ReadsDelimiter
    <3>2. "value_space" \in States
      BY DEF States
    <3> HIDE DEF q
    <3> QED
      BY <1>1, <2>0, <3>1, <3>2, IsParserOf DEF q
  <2>4. CASE p.state = "key" /\ c = CR
    <3> DEFINE o == Append(p.output, p.result)
    <3>1. q = Parser("end_of_headers_lf", Receiver!EmptyRequest, p.key, p.value, o)
      BY <2>4, ReadsDelimiter
    <3>2. "end_of_headers_lf" \in States
      BY DEF States
    <3>3. IsRequested(Receiver!EmptyRequest)
      <4>1. Receiver!EmptyRequest = Requested(<<>>, <<>>, <<>>, Receiver!NoArguments)
        BY DEF Receiver!EmptyRequest, Requested
      <4> QED
        BY <1>1, <4>1, IsRequestedOf
    <3> HIDE DEF q, o
    <3>4. IsParser(q)
      BY <1>1, <3>1, <3>2, <3>3, IsParserOf
    <3>5. q.output = o
      BY <2>0, <3>1
    <3> QED
      BY <3>4, <3>5 DEF q, o
  <2>5. CASE p.state = "value"
    <3> DEFINE r == [p.result EXCEPT !.arguments = Inserted(@, p.key, p.value)]
    <3>1. q = Parser("value_lf", r, <<>>, <<>>, p.output)
      BY <1>3, <2>5, ReadsDelimiter DEF Stops, Delimiter
    <3>2. "value_lf" \in States
      BY DEF States
    <3>3. IsRequested(r)
      BY <1>1, ResultIs
    <3> HIDE DEF q, r
    <3> QED
      BY <1>1, <2>0, <3>1, <3>2, <3>3, IsParserOf DEF q
  <2> QED
    BY <1>3, <2>1, <2>2, <2>3, <2>4, <2>5 DEF Reads, Stops, Delimiter
<1> QED
  BY <1>2, <1>3

(* Any character leads to a parser, which may have a request more.         *)
LEMMA ReadCharKeeps ==
  ASSUME NEW p, IsParser(p), NEW c \in Characters
  PROVE  /\ IsParser(Receiver!ReadChar(p, c))
         /\ Receiver!ReadChar(p, c).output \in {p.output, Append(p.output, p.result)}
<1>1. CASE p.state \in Reads
  BY <1>1, ReadsOnItsWay
<1>2. CASE p.state \in DOMAIN Receiver!Skips
  <2> DEFINE next == Receiver!Skips[p.state].next
             q == Parser(next, p.result, p.key, p.value, p.output)
  <2>1. p = Parser(p.state, p.result, p.key, p.value, p.output) /\ IsRequested(p.result)
        /\ p.key \in Strings /\ p.value \in Strings
    BY DEF IsParser
  <2>2. /\ next \in Reads
        /\ Receiver!ReadChar(p, c) \in {q, Receiver!ReadChar(q, c)}
    BY <1>2, <2>1, ReadsOptional
  <2> HIDE DEF next
  <2>3. next \in States
    BY <2>2 DEF Reads, States
  <2>4. IsParser(q) /\ q.state = next /\ q.output = p.output /\ q.result = p.result
    BY <2>1, <2>3, IsParserOf DEF Parser
  <2> HIDE DEF q
  <2>5. IsParser(Receiver!ReadChar(q, c))
        /\ Receiver!ReadChar(q, c).output \in {q.output, Append(q.output, q.result)}
    BY <2>2, <2>4, ReadsOnItsWay
  <2> QED
    BY <2>2, <2>4, <2>5
<1>3. p.state \in Reads \cup DOMAIN Receiver!Skips
  BY DEF IsParser, States, Reads, Receiver!Skips
<1> QED
  BY <1>1, <1>2, <1>3

(* There is a first request, r. *)
First(o, r) == o # <<>> /\ o[1] = r /\ \E S : o \in Seq(S)

(* It stays the first one whatever is read behind it.                      *)
LEMMA FirstStays ==
  ASSUME NEW s \in Strings, NEW i \in 0..Len(s), NEW r,
         IsParser(Receiver!Readings(s)[i]), First(Receiver!Readings(s)[i].output, r)
  PROVE  \A n \in i..Len(s) : /\ IsParser(Receiver!Readings(s)[n])
                              /\ First(Receiver!Readings(s)[n].output, r)
<1> DEFINE Good(n) == IsParser(Receiver!Readings(s)[n]) /\ First(Receiver!Readings(s)[n].output, r)
           T == {k \in Nat : i + k <= Len(s) => Good(i + k)}
<1>0. Len(s) \in Nat
  BY DEF Strings
<1>1. 0 \in T
  BY <1>0
<1>2. ASSUME NEW k \in T PROVE k + 1 \in T
  <2>1. k \in Nat /\ (i + k <= Len(s) => Good(i + k))
    OBVIOUS
  <2> HIDE DEF T
  <2> SUFFICES ASSUME i + (k + 1) <= Len(s) PROVE Good(i + (k + 1))
    BY <2>1 DEF T
  <2> DEFINE n == i + (k + 1)
             p == Receiver!Readings(s)[i + k]
  <2>2. n \in 1..Len(s) /\ n - 1 = i + k /\ s[n] \in Characters
    BY <1>0, <2>1 DEF Strings
  <2>3. Receiver!Readings(s)[n] = Receiver!ReadChar(p, s[n])
    BY <2>2, ReadingsAre DEF Strings
  <2>4. Good(i + k)
    BY <1>0, <2>1
  <2> HIDE DEF n, p
  <2>5. /\ IsParser(Receiver!Readings(s)[n])
        /\ Receiver!Readings(s)[n].output \in {p.output, Append(p.output, p.result)}
    BY <2>2, <2>3, <2>4, ReadCharKeeps DEF p
  <2>6. First(p.output, r)
    BY <2>4 DEF p
  <2>7. First(Append(p.output, p.result), r)
    <3>1. PICK S : p.output \in Seq(S)
      BY <2>6 DEF First
    <3> DEFINE o == p.output
               x == p.result
               U == S \cup {x}
    <3>2. o \in Seq(U) /\ x \in U /\ o # <<>> /\ o[1] = r
      BY <2>6, <3>1 DEF First
    <3> HIDE DEF o, x, U
    <3>3. Append(o, x) \in Seq(U) /\ Append(o, x) # <<>> /\ Append(o, x)[1] = r
      BY <3>2
    <3> QED
      BY <3>3 DEF First, o, x
  <2> QED
    BY <2>5, <2>6, <2>7 DEF n
<1> HIDE DEF T
<1>3. T \in SUBSET Nat
  BY DEF T
<1>4. T = Nat
  BY <1>1, <1>2, <1>3, SetInduction
<1> SUFFICES ASSUME NEW n \in i..Len(s) PROVE Good(n)
  OBVIOUS
<1>5. n - i \in T /\ i + (n - i) = n
  BY <1>0, <1>4
<1> QED
  BY <1>0, <1>5 DEF T

(* The next character cuts off no line unless it is CR within a key.       *)
LEMMA NotCutOffThere ==
  ASSUME NEW s, NEW n \in Nat, ~CutOff(s, n),
         \/ s[n + 1] # CR \/ Receiver!Readings(s)[n].state # "key"
         \/ Receiver!Readings(s)[n].key = <<>>
  PROVE  ~CutOff(s, n + 1)
<1> SUFFICES ASSUME NEW j \in 1..n + 1, s[j] = CR,
                    Receiver!Readings(s)[j-1].state = "key",
                    Receiver!Readings(s)[j-1].key # <<>>
             PROVE  FALSE
  BY DEF CutOff
<1>1. CASE j = n + 1
  <2>1. j - 1 = n
    BY <1>1
  <2> QED
    BY <1>1, <2>1
<1>2. CASE j # n + 1
  <2>1. j \in 1..n
    BY <1>2
  <2> QED
    BY <2>1 DEF CutOff
<1> QED
  BY <1>1, <1>2

(* A part that p reads, behind the i-th character, with its delimiter at d. *)
PartAt(s, p, i, d) ==
  /\ IsParser(p) /\ p.state \in Reads
  /\ ~CutOff(s, i)
  /\ Receiver!Readings(s)[i + 1] = Receiver!ReadChar(p, s[i + 1])
  /\ Receiver!Readings(s)[i].state = "key" => p.state = "key"
  /\ d \in i + 1..Len(s) /\ s[d] = Delimiter(p.state)
  /\ \A j \in i + 1..d - 1 : s[j] # Delimiter(p.state) /\ s[j] # CR

PartIsRead(s, p, i, d) ==
  LET q == Extended(p, SubSeq(s, i + 1, d - 1))
  IN  /\ IsParser(q) /\ q.state = p.state
      /\ Receiver!Readings(s)[d] = Receiver!ReadChar(q, Delimiter(p.state))
      /\ ~CutOff(s, d)
      /\ \A n \in i + 1..d - 1 : /\ Receiver!Readings(s)[n].state = p.state
                                 /\ Receiver!Readings(s)[n].output = p.output

(* It is read. *)
LEMMA PartRead ==
  ASSUME NEW s \in Strings, NEW p, NEW i \in Nat, NEW d, PartAt(s, p, i, d)
  PROVE  PartIsRead(s, p, i, d)
<1> SUFFICES ASSUME IsParser(p), p.state \in Reads, ~CutOff(s, i),
                    Receiver!Readings(s)[i + 1] = Receiver!ReadChar(p, s[i + 1]),
                    Receiver!Readings(s)[i].state = "key" => p.state = "key",
                    d \in i + 1..Len(s), s[d] = Delimiter(p.state),
                    \A j \in i + 1..d - 1 : s[j] # Delimiter(p.state) /\ s[j] # CR
             PROVE  LET q == Extended(p, SubSeq(s, i + 1, d - 1))
                    IN  /\ IsParser(q) /\ q.state = p.state
                        /\ Receiver!Readings(s)[d] = Receiver!ReadChar(q, Delimiter(p.state))
                        /\ ~CutOff(s, d)
                        /\ \A n \in i + 1..d - 1 : /\ Receiver!Readings(s)[n].state = p.state
                                                   /\ Receiver!Readings(s)[n].output = p.output
  BY DEF PartAt, PartIsRead
<1> DEFINE m == d - 1 - i
           Part(n) == SubSeq(s, i + 1, i + n)
           q == Extended(p, Part(m))
<1>0. Len(s) \in Nat /\ d \in Nat
  BY DEF Strings
<1>1. m \in Nat /\ i + m = d - 1 /\ i + m + 1 = d /\ i < Len(s) /\ i + m < Len(s) /\ d - 1 \in Nat
      /\ (d - 1) + 1 = d
  BY <1>0
<1>2. \A j \in i + 1..i + m : s[j] # Delimiter(p.state) /\ s[j] # CR
  BY <1>1
<1> HIDE DEF m
<1>3. /\ ~CutOff(s, i + m)
      /\ \A n \in 1..m : Receiver!Readings(s)[i + n] = Extended(p, Part(n))
      /\ Receiver!Readings(s)[i + m + 1] = Receiver!ReadChar(Extended(p, Part(m)), s[i + m + 1])
  <2>1. m \in Nat /\ i + m < Len(s) /\ i < Len(s)
    BY <1>1
  <2> QED
    BY <1>2, <2>1, RunRead
<1>4. \A n \in 0..m : Part(n) \in Strings
  BY <1>0, <1>1 DEF Strings
<1> HIDE DEF Part
<1>5. \A n \in 0..m : /\ IsParser(Extended(p, Part(n))) /\ Extended(p, Part(n)).state = p.state
                      /\ Extended(p, Part(n)).output = p.output
  <2>1. \A w : Extended(p, w).output = p.output
    BY DEF Extended, Parser
  <2> QED
    BY <1>4, <2>1, ExtendedIsParser
<1>6. IsParser(q) /\ q.state = p.state
  <2>1. m \in 0..m
    BY <1>1
  <2> QED
    BY <1>5, <2>1
<1>7. ASSUME NEW n \in i + 1..d - 1
      PROVE  /\ Receiver!Readings(s)[n].state = p.state
             /\ Receiver!Readings(s)[n].output = p.output
  <2>1. n - i \in 1..m /\ n - i \in 0..m /\ i + (n - i) = n
    BY <1>0, <1>1
  <2> QED
    BY <1>3, <1>5, <2>1
<1>8. Receiver!Readings(s)[d] = Receiver!ReadChar(q, Delimiter(p.state))
  BY <1>1, <1>3
<1>9. ~CutOff(s, d)
  <2>1. CASE p.state = "key"
    <3>1. s[(d - 1) + 1] # CR
      BY <1>1, <2>1, SameDelimiters DEF Delimiter
    <3> QED
      BY <1>1, <1>3, <3>1, NotCutOffThere
  <2>2. CASE p.state # "key"
    <3>1. Receiver!Readings(s)[d - 1].state # "key"
      <4>1. CASE d - 1 = i
        BY <2>2, <4>1
      <4>2. CASE d - 1 # i
        <5>1. d - 1 \in i + 1..d - 1
          BY <1>0, <4>2
        <5> QED
          BY <1>7, <2>2, <5>1
      <4> QED
        BY <4>1, <4>2
    <3> QED
      BY <1>1, <1>3, <3>1, NotCutOffThere
  <2> QED
    BY <2>1, <2>2
<1>10. Part(m) = SubSeq(s, i + 1, d - 1)
  BY <1>1 DEF Part
<1> QED
  BY <1>6, <1>7, <1>8, <1>9, <1>10

(* An optional LF. *)
LEMMA LineFeedRead ==
  ASSUME NEW s \in Strings, NEW i \in Nat, i + 1 <= Len(s), s[i + 1] = LF, ~CutOff(s, i),
         NEW skip \in {"version_lf", "value_lf", "end_of_headers_lf"},
         NEW r, NEW k, NEW v, NEW o,
         Receiver!Readings(s)[i] = Parser(skip, r, k, v, o)
  PROVE  /\ Receiver!Readings(s)[i + 1]
              = Parser(IF skip = "end_of_headers_lf" THEN "method" ELSE "key", r, k, v, o)
         /\ ~CutOff(s, i + 1)
<1>1. /\ skip \in DOMAIN Receiver!Skips /\ Receiver!Skips[skip].char = LF
      /\ Receiver!Skips[skip].next = IF skip = "end_of_headers_lf" THEN "method" ELSE "key"
  BY SameDelimiters DEF Receiver!Skips
<1>2. i + 1 \in 1..Len(s) /\ (i + 1) - 1 = i
  BY DEF Strings
<1>3. Receiver!Readings(s)[i + 1] = Receiver!ReadChar(Parser(skip, r, k, v, o), s[i + 1])
  BY <1>2, ReadingsAre DEF Strings
<1>4. Receiver!Readings(s)[i + 1] = Parser(Receiver!Skips[skip].next, r, k, v, o)
  BY <1>1, <1>3, ReadsOptional
<1>5. s[i + 1] # CR
  BY DEF CR, LF
<1> QED
  BY <1>1, <1>4, <1>5, NotCutOffThere

(* The parts of a parser that reads w, and a delimiter. *)
LEMMA ExtendedIs ==
  ASSUME NEW m, NEW p, NEW h, NEW a, NEW k, NEW v, NEW o, NEW w
  PROVE  /\ Extended(Parser("method", Requested(m, p, h, a), k, v, o), w)
              = Parser("method", Requested(m \o w, p, h, a), k, v, o)
         /\ Extended(Parser("path", Requested(m, p, h, a), k, v, o), w)
              = Parser("path", Requested(m, p \o w, h, a), k, v, o)
         /\ Extended(Parser("version", Requested(m, p, h, a), k, v, o), w)
              = Parser("version", Requested(m, p, h \o w, a), k, v, o)
         /\ Extended(Parser("key", Requested(m, p, h, a), k, v, o), w)
              = Parser("key", Requested(m, p, h, a), k \o w, v, o)
         /\ Extended(Parser("value", Requested(m, p, h, a), k, v, o), w)
              = Parser("value", Requested(m, p, h, a), k, v \o w, o)
<1> DEFINE r == Requested(m, p, h, a)
           q(s) == Parser(s, r, k, v, o)
<1>1. /\ r.method = m /\ r.path = p /\ r.http_version = h /\ r.arguments = a
  BY DEF Requested
<1> HIDE DEF r
<1>2. \A s : /\ q(s).state = s /\ q(s).result = r /\ q(s).key = k /\ q(s).value = v
             /\ q(s).output = o
  BY DEF Parser
<1> HIDE DEF q
<1>3. /\ ResultWith(r, "method", w) = Requested(m \o w, p, h, a)
      /\ ResultWith(r, "path", w) = Requested(m, p \o w, h, a)
      /\ ResultWith(r, "version", w) = Requested(m, p, h \o w, a)
      /\ \A s \in {"key", "value"} : ResultWith(r, s, w) = r
  <2>1. ResultWith(r, "method", w) = Requested(m \o w, p, h, a)
    BY <1>1 DEF ResultWith
  <2>2. ResultWith(r, "path", w) = Requested(m, p \o w, h, a)
    BY <1>1 DEF ResultWith
  <2>3. ResultWith(r, "version", w) = Requested(m, p, h \o w, a)
    BY <1>1 DEF ResultWith
  <2>4. \A s \in {"key", "value"} : ResultWith(r, s, w) = r
    BY <1>1 DEF ResultWith, r
  <2> QED
    BY <2>1, <2>2, <2>3, <2>4
<1> HIDE DEF r
<1>4. \A s : Extended(q(s), w)
              = Parser(s, ResultWith(r, s, w), IF s = "key" THEN k \o w ELSE k,
                       IF s = "value" THEN v \o w ELSE v, o)
  BY <1>2 DEF Extended
<1>5. Extended(q("method"), w) = Parser("method", Requested(m \o w, p, h, a), k, v, o)
  BY <1>3, <1>4
<1>6. Extended(q("path"), w) = Parser("path", Requested(m, p \o w, h, a), k, v, o)
  BY <1>3, <1>4
<1>7. Extended(q("version"), w) = Parser("version", Requested(m, p, h \o w, a), k, v, o)
  BY <1>3, <1>4
<1>8. Extended(q("key"), w) = Parser("key", r, k \o w, v, o)
  BY <1>3, <1>4
<1>9. Extended(q("value"), w) = Parser("value", r, k, v \o w, o)
  BY <1>3, <1>4
<1> QED
  BY <1>5, <1>6, <1>7, <1>8, <1>9 DEF q, r

(* The delimiter of a part leads to the next state. *)
StateBehind(part) ==
  CASE part = "method" -> "path" [] part = "path" -> "version"
    [] part = "version" -> "version_lf" [] part = "key" -> "value_space"

(* Each delimiter leads to the state behind its part.                      *)
LEMMA DelimiterRead ==
  ASSUME NEW q, IsParser(q), q.state \in {"method", "path", "version", "key"}
  PROVE  Receiver!ReadChar(q, Delimiter(q.state))
           = Parser(StateBehind(q.state), q.result, q.key, q.value, q.output)
<1>1. CASE q.state = "method"
  <2>1. Delimiter(q.state) = SP /\ StateBehind(q.state) = "path"
    BY <1>1 DEF Delimiter, StateBehind
  <2> QED
    BY <1>1, <2>1, ReadsDelimiter
<1>2. CASE q.state = "path"
  <2>1. Delimiter(q.state) = SP /\ StateBehind(q.state) = "version"
    BY <1>2 DEF Delimiter, StateBehind
  <2> QED
    BY <1>2, <2>1, ReadsDelimiter
<1>3. CASE q.state = "version"
  <2>1. Delimiter(q.state) = CR /\ StateBehind(q.state) = "version_lf"
    BY <1>3 DEF Delimiter, StateBehind
  <2> QED
    BY <1>3, <2>1, ReadsDelimiter
<1>4. CASE q.state = "key"
  <2>1. Delimiter(q.state) = CO /\ StateBehind(q.state) = "value_space"
    BY <1>4 DEF Delimiter, StateBehind
  <2> QED
    BY <1>4, <2>1, ReadsDelimiter
<1> QED
  BY <1>1, <1>2, <1>3, <1>4

(* The request line t with spaces at a and b.                              *)
LEMMA RequestLineRead ==
  ASSUME NEW s \in Strings, NEW e \in 1..Len(s), e + 1 <= Len(s), s[e] = CR, s[e + 1] = LF,
         \A j \in 1..e - 1 : s[j] # CR,
         NEW a \in 1..e - 1, NEW b \in a + 1..e - 1, s[a] = SP, s[b] = SP,
         \A j \in 1..a - 1 : s[j] # SP, \A j \in a + 1..b - 1 : s[j] # SP
  PROVE  /\ Receiver!Readings(s)[e + 1]
              = Parser("key", Requested(SubSeq(s, 1, a - 1), SubSeq(s, a + 1, b - 1),
                                        SubSeq(s, b + 1, e - 1), NoArguments), <<>>, <<>>, <<>>)
         /\ ~CutOff(s, e + 1)
         /\ \A n \in 0..e + 1 : /\ Receiver!Readings(s)[n].state # "value_space"
                                /\ Receiver!Readings(s)[n].output = <<>>
<1> DEFINE none == <<>>
           M == SubSeq(s, 1, a - 1)
           P == SubSeq(s, a + 1, b - 1)
           H == SubSeq(s, b + 1, e - 1)
           R(m, p, h) == Requested(m, p, h, NoArguments)
           p0 == Parser("method", R(none, none, none), none, none, none)
           p1 == Parser("path", R(M, none, none), none, none, none)
           p2 == Parser("version", R(M, P, none), none, none, none)
           p3 == Parser("version_lf", R(M, P, H), none, none, none)
<1>0. Len(s) \in Nat /\ a \in Nat /\ b \in Nat /\ e \in Nat /\ a < b /\ b < e /\ none \in Strings
      /\ \A w \in Strings : none \o w = w
  BY DEF Strings
<1> HIDE DEF none
<1>15. none \in Strings
  BY <1>0
<1>1. M \in Strings /\ P \in Strings /\ H \in Strings
  <2>1. \A i, j \in Nat : i # 0 /\ i <= j + 1 /\ j <= Len(s) => SubSeq(s, i, j) \in Strings
    BY DEF Strings
  <2>2. a - 1 \in Nat /\ b - 1 \in Nat /\ e - 1 \in Nat /\ a + 1 \in Nat /\ b + 1 \in Nat
        /\ 1 <= (a - 1) + 1 /\ a + 1 <= (b - 1) + 1 /\ b + 1 <= (e - 1) + 1
        /\ a - 1 <= Len(s) /\ b - 1 <= Len(s) /\ e - 1 <= Len(s) /\ 1 # 0 /\ a + 1 # 0 /\ b + 1 # 0
    BY <1>0, SMTT(20)
  <2> QED
    BY <2>1, <2>2
<1>2. Receiver!Readings(s)[0] = p0
  <2>1. Receiver!Fresh = p0
    BY DEF Receiver!Fresh, Receiver!EmptyRequest, Receiver!NoArguments, NoArguments, Parser, Requested, none
  <2> QED
    BY <2>1, ReadingsAre DEF Strings
<1> HIDE DEF M, P, H
<1>3. \A m, p, h \in Strings : IsRequested(R(m, p, h))
  BY IsRequestedOf
<1>4. IsParser(p0) /\ IsParser(p1) /\ IsParser(p2)
  BY <1>0, <1>1, <1>3, IsParserOf DEF States
<1>5. /\ \A q, r, k, v, o : Parser(q, r, k, v, o).state = q /\ Parser(q, r, k, v, o).output = o
                             /\ Parser(q, r, k, v, o).result = r /\ Parser(q, r, k, v, o).key = k
                             /\ Parser(q, r, k, v, o).value = v
      /\ \A m, p, h : /\ R(m, p, h).method = m /\ R(m, p, h).path = p /\ R(m, p, h).http_version = h
                      /\ R(m, p, h).arguments = NoArguments
  BY DEF Parser, Requested
<1>6. /\ Extended(p0, M) = Parser("method", R(M, none, none), none, none, none)
      /\ Extended(p1, P) = Parser("path", R(M, P, none), none, none, none)
      /\ Extended(p2, H) = Parser("version", R(M, P, H), none, none, none)
  <2>1. none \o M = M /\ none \o P = P /\ none \o H = H
    BY <1>0, <1>1
  <2>2. Extended(p0, M) = Parser("method", R(none \o M, none, none), none, none, none)
    BY ExtendedIs
  <2>3. Extended(p1, P) = Parser("path", R(M, none \o P, none), none, none, none)
    BY ExtendedIs
  <2>4. Extended(p2, H) = Parser("version", R(M, P, none \o H), none, none, none)
    BY ExtendedIs
  <2> QED
    BY <2>1, <2>2, <2>3, <2>4
<1>7. ASSUME NEW i \in 0..Len(s) - 1
      PROVE  Receiver!Readings(s)[i + 1] = Receiver!ReadChar(Receiver!Readings(s)[i], s[i + 1])
  <2>1. i + 1 \in 1..Len(s) /\ (i + 1) - 1 = i
    BY <1>0
  <2> QED
    BY <2>1, ReadingsAre DEF Strings
<1>8. ~CutOff(s, 0)
  BY DEF CutOff
<1>9. /\ Delimiter("method") = SP /\ Delimiter("path") = SP /\ Delimiter("version") = CR
      /\ {"method", "path", "version"} \subseteq Reads
  BY DEF Delimiter, Reads
<1>10. /\ Receiver!Readings(s)[a] = p1 /\ ~CutOff(s, a)
       /\ \A n \in 1..a - 1 : /\ Receiver!Readings(s)[n].state = "method"
                              /\ Receiver!Readings(s)[n].output = none
  <2> HIDE DEF p0, p1, R
  <2>1. p0.state = "method" /\ p0.output = none
    BY <1>5 DEF p0
  <2>2. a \in 0 + 1..Len(s) /\ 0 \in 0..Len(s) - 1 /\ \A j \in 0 + 1..a - 1 : s[j] # SP /\ s[j] # CR
    BY <1>0
  <2>3. Receiver!Readings(s)[0 + 1] = Receiver!ReadChar(p0, s[0 + 1])
    BY <1>2, <1>7, <2>2
  <2> DEFINE q == Extended(p0, SubSeq(s, 0 + 1, a - 1))
  <2>4. /\ IsParser(q) /\ q.state = "method"
        /\ Receiver!Readings(s)[a] = Receiver!ReadChar(q, SP)
        /\ ~CutOff(s, a)
        /\ \A n \in 0 + 1..a - 1 : /\ Receiver!Readings(s)[n].state = "method"
                                   /\ Receiver!Readings(s)[n].output = none
    <3>1. Receiver!Readings(s)[0].state = "key" => p0.state = "key"
      BY <1>2
    <3>2. IsParser(p0) /\ p0.state \in Reads /\ Delimiter(p0.state) = SP /\ 0 \in Nat
      BY <1>4, <1>9, <2>1
    <3>8. PartAt(s, p0, 0, a)
      BY <1>8, <2>2, <2>3, <3>1, <3>2 DEF PartAt
    <3>9. PartIsRead(s, p0, 0, a)
      BY <3>8, <3>2, PartRead
    <3> QED
      BY <3>9, <2>1, <3>2 DEF PartIsRead
  <2>5. q = Parser("method", R(M, none, none), none, none, none)
    BY <1>6 DEF M
  <2>6. Receiver!ReadChar(q, SP) = p1
    <3>1. q.state = "method" /\ q.result = R(M, none, none) /\ q.key = none /\ q.value = none /\ q.output = none
      BY <1>5, <2>5
    <3>2. Delimiter(q.state) = SP /\ StateBehind(q.state) = "path" /\ IsParser(q)
      BY <2>4, <3>1 DEF Delimiter, StateBehind
    <3>3. Receiver!ReadChar(q, SP) = Parser("path", q.result, q.key, q.value, q.output)
      BY <3>1, <3>2, DelimiterRead
    <3> QED
      BY <3>1, <3>3 DEF p1
  <2> QED
    BY <2>4, <2>6
<1>11. /\ Receiver!Readings(s)[b] = p2 /\ ~CutOff(s, b)
       /\ \A n \in a + 1..b - 1 : /\ Receiver!Readings(s)[n].state = "path"
                                  /\ Receiver!Readings(s)[n].output = none
  <2> HIDE DEF p1, p2, R
  <2>1. p1.state = "path" /\ p1.output = none
    BY <1>5 DEF p1
  <2>2. b \in a + 1..Len(s) /\ a \in 0..Len(s) - 1 /\ \A j \in a + 1..b - 1 : s[j] # SP /\ s[j] # CR
    BY <1>0, SMTT(20)
  <2>3. Receiver!Readings(s)[a + 1] = Receiver!ReadChar(p1, s[a + 1])
    BY <1>10, <1>7, <2>2
  <2> DEFINE q == Extended(p1, SubSeq(s, a + 1, b - 1))
  <2>4. /\ IsParser(q) /\ q.state = "path"
        /\ Receiver!Readings(s)[b] = Receiver!ReadChar(q, SP)
        /\ ~CutOff(s, b)
        /\ \A n \in a + 1..b - 1 : /\ Receiver!Readings(s)[n].state = "path"
                                   /\ Receiver!Readings(s)[n].output = none
    <3>1. Receiver!Readings(s)[a].state = "key" => p1.state = "key"
      BY <1>10, <2>1
    <3>2. IsParser(p1) /\ p1.state \in Reads /\ Delimiter(p1.state) = SP /\ a \in Nat
      BY <1>0, <1>4, <1>9, <2>1
    <3>3. ~CutOff(s, a)
      BY <1>10
    <3>8. PartAt(s, p1, a, b)
      BY <2>2, <2>3, <3>1, <3>2, <3>3 DEF PartAt
    <3>9. PartIsRead(s, p1, a, b)
      BY <3>8, <3>2, PartRead
    <3> QED
      BY <3>9, <2>1, <3>2 DEF PartIsRead
  <2>5. q = Parser("path", R(M, P, none), none, none, none)
    BY <1>6 DEF P
  <2>6. Receiver!ReadChar(q, SP) = p2
    <3>1. q.state = "path" /\ q.result = R(M, P, none) /\ q.key = none /\ q.value = none /\ q.output = none
      BY <1>5, <2>5
    <3>2. Delimiter(q.state) = SP /\ StateBehind(q.state) = "version" /\ IsParser(q)
      BY <2>4, <3>1 DEF Delimiter, StateBehind
    <3>3. Receiver!ReadChar(q, SP) = Parser("version", q.result, q.key, q.value, q.output)
      BY <3>1, <3>2, DelimiterRead
    <3> QED
      BY <3>1, <3>3 DEF p2
  <2> QED
    BY <2>4, <2>6
<1>12. /\ Receiver!Readings(s)[e] = p3 /\ ~CutOff(s, e)
       /\ \A n \in b + 1..e - 1 : /\ Receiver!Readings(s)[n].state = "version"
                                  /\ Receiver!Readings(s)[n].output = none
  <2> HIDE DEF p2, p3, R
  <2>1. p2.state = "version" /\ p2.output = none
    BY <1>5 DEF p2
  <2>2. e \in b + 1..Len(s) /\ b \in 0..Len(s) - 1 /\ \A j \in b + 1..e - 1 : s[j] # CR
    BY <1>0
  <2>3. Receiver!Readings(s)[b + 1] = Receiver!ReadChar(p2, s[b + 1])
    BY <1>11, <1>7, <2>2
  <2> DEFINE q == Extended(p2, SubSeq(s, b + 1, e - 1))
  <2>4. /\ IsParser(q) /\ q.state = "version"
        /\ Receiver!Readings(s)[e] = Receiver!ReadChar(q, CR)
        /\ ~CutOff(s, e)
        /\ \A n \in b + 1..e - 1 : /\ Receiver!Readings(s)[n].state = "version"
                                   /\ Receiver!Readings(s)[n].output = none
    <3>1. Receiver!Readings(s)[b].state = "key" => p2.state = "key"
      BY <1>11, <2>1
    <3>2. IsParser(p2) /\ p2.state \in Reads /\ Delimiter(p2.state) = CR /\ b \in Nat
      BY <1>0, <1>4, <1>9, <2>1
    <3>3. ~CutOff(s, b)
      BY <1>11
    <3>4. e \in b + 1..Len(s) /\ s[e] = CR /\ \A j \in b + 1..e - 1 : s[j] # CR
      BY <2>2
    <3>8. PartAt(s, p2, b, e)
      BY <2>3, <3>1, <3>2, <3>3, <3>4 DEF PartAt
    <3>9. PartIsRead(s, p2, b, e)
      BY <3>8, <3>2, PartRead
    <3> QED
      BY <3>9, <2>1, <3>2 DEF PartIsRead
  <2>5. q = Parser("version", R(M, P, H), none, none, none)
    BY <1>6 DEF H
  <2>6. Receiver!ReadChar(q, CR) = p3
    <3>1. q.state = "version" /\ q.result = R(M, P, H) /\ q.key = none /\ q.value = none /\ q.output = none
      BY <1>5, <2>5
    <3>2. Delimiter(q.state) = CR /\ StateBehind(q.state) = "version_lf" /\ IsParser(q)
      BY <2>4, <3>1 DEF Delimiter, StateBehind
    <3>3. Receiver!ReadChar(q, CR) = Parser("version_lf", q.result, q.key, q.value, q.output)
      BY <3>1, <3>2, DelimiterRead
    <3> QED
      BY <3>1, <3>3 DEF p3
  <2> QED
    BY <2>4, <2>6
<1>13. /\ Receiver!Readings(s)[e + 1] = Parser("key", R(M, P, H), none, none, none)
       /\ ~CutOff(s, e + 1)
  BY <1>0, <1>12, LineFeedRead
<1>14. ASSUME NEW n \in 0..e + 1
       PROVE  /\ Receiver!Readings(s)[n].state # "value_space"
              /\ Receiver!Readings(s)[n].output = none
  <2>1. n \in {0, a, b, e, e + 1} \/ n \in 1..a - 1 \/ n \in a + 1..b - 1 \/ n \in b + 1..e - 1
    BY <1>0
  <2>2. CASE n \in {0, a, b, e, e + 1}
    BY <1>2, <1>5, <1>10, <1>11, <1>12, <1>13, <2>2
  <2>3. CASE n \notin {0, a, b, e, e + 1}
    BY <1>10, <1>11, <1>12, <2>1, <2>3
  <2> QED
    BY <2>2, <2>3
<1> QED
  BY <1>13, <1>14 DEF M, P, H, none

(* Where the value of a header line with a colon at d begins, less one. *)
ValueBehind(s, d) == IF s[d + 1] = SP THEN d + 1 ELSE d

(* A line of s split at its first colon. *)
LEMMA SplitIs ==
  ASSUME NEW s \in Strings, NEW i \in Nat, NEW e \in Nat, e <= Len(s), s[e] = CR,
         NEW d \in i + 1..e - 1, s[d] = CO, \A j \in i + 1..d - 1 : s[j] # CO
  PROVE  /\ Find(SubSeq(s, i + 1, e - 1), CO, 1) = d - i
         /\ SplitValueLine(SubSeq(s, i + 1, e - 1))
              = [key |-> SubSeq(s, i + 1, d - 1), value |-> SubSeq(s, ValueBehind(s, d) + 1, e - 1)]
<1> DEFINE t == SubSeq(s, i + 1, e - 1)
           c == Find(t, CO, 1)
           second == IF c < Len(t) /\ t[c + 1] = SP THEN c + 2 ELSE c + 1
           l == e - 1 - i
<1>0. Len(s) \in Nat /\ d \in Nat /\ l \in Nat /\ d - i \in 1..l /\ e - 1 \in Nat /\ e - 1 <= Len(s)
      /\ i + 1 \in Nat \ {0} /\ i + 1 <= (e - 1) + 1
  BY DEF Strings
<1>1. t \in Strings /\ Len(t) = l /\ \A j \in 1..l : t[j] = s[i + j]
  <2>1. t \in Strings /\ Len(t) = (e - 1) - (i + 1) + 1
    BY <1>0 DEF Strings
  <2>2. \A j \in 1..(e - 1) - (i + 1) + 1 : t[j] = s[(i + 1) + j - 1]
    BY <1>0 DEF Strings
  <2>3. (e - 1) - (i + 1) + 1 = l /\ \A j \in 1..l : (i + 1) + j - 1 = i + j
    BY <1>0
  <2> HIDE DEF t, l
  <2> QED
    BY <2>1, <2>2, <2>3
<1>2. \A a \in Nat \ {0} : \A b \in Nat : a <= l + 1 /\ b <= l =>
        SubSeq(t, a, b) = SubSeq(s, i + a, i + b)
  <2> SUFFICES ASSUME NEW a \in Nat \ {0}, NEW b \in Nat, a <= l + 1, b <= l
               PROVE  SubSeq(t, a, b) = SubSeq(s, i + a, i + b)
    OBVIOUS
  <2>1. (i + 1) + b - 1 <= e - 1 /\ (i + 1) + b - 1 = i + b /\ (i + 1) + a - 1 = i + a
    BY <1>0
  <2>2. SubSeq(t, a, b) = SubSeq(s, (i + 1) + a - 1, (i + 1) + b - 1)
    BY <1>0, <2>1, PartOfPart
  <2> QED
    BY <2>1, <2>2
<1> HIDE DEF t
<1>3. c = d - i
  <2>1. 1 \in 1..Len(t) + 1
    BY <1>0, <1>1
  <2>2. c \in 1..Len(t) + 1 /\ (\A h \in 1..c - 1 : t[h] # CO) /\ (c <= Len(t) => t[c] = CO)
    BY <1>1, <2>1, FindFrom
  <2> HIDE DEF c
  <2>3. i + (d - i) = d /\ t[d - i] = CO
    BY <1>0, <1>1
  <2>4. ~(d - i \in 1..c - 1)
    BY <2>2, <2>3
  <2>5. c <= l /\ c \in 1..l /\ c <= d - i
    BY <1>0, <1>1, <2>2, <2>4
  <2>6. t[c] = CO /\ t[c] = s[i + c]
    BY <1>1, <2>2, <2>5
  <2>7. ~(i + c \in i + 1..d - 1)
    BY <2>6
  <2> QED
    BY <1>0, <2>5, <2>7
<1> HIDE DEF c
<1>4. /\ SplitValueLine(t).key = SubSeq(t, 1, c - 1)
      /\ SplitValueLine(t).value = SubSeq(t, second, Len(t))
      /\ SplitValueLine(t) = [key |-> SplitValueLine(t).key, value |-> SplitValueLine(t).value]
  BY DEF SplitValueLine, c
<1>5. second = ValueBehind(s, d) + 1 - i /\ second \in Nat \ {0} /\ second <= l + 1
      /\ i + second = ValueBehind(s, d) + 1
  <2>1. CASE d + 1 = e
    <3>1. s[d + 1] # SP /\ ~(c < Len(t))
      BY <1>0, <1>1, <1>3, <2>1, SameDelimiters
    <3>2. second = c + 1 /\ ValueBehind(s, d) = d
      BY <3>1 DEF ValueBehind
    <3> HIDE DEF second
    <3> QED
      BY <1>0, <1>3, <3>2
  <2>2. CASE d + 1 # e
    <3>1. c + 1 \in 1..l /\ c < l /\ i + (c + 1) = d + 1
      BY <1>0, <1>3, <2>2
    <3>2. t[c + 1] = s[d + 1] /\ c < Len(t)
      BY <1>1, <3>1
    <3> HIDE DEF l
    <3>3. CASE s[d + 1] = SP
      <4>1. second = c + 2 /\ ValueBehind(s, d) = d + 1
        BY <3>2, <3>3 DEF ValueBehind
      <4> HIDE DEF second
      <4> QED
        BY <1>0, <1>3, <3>1, <4>1
    <3>4. CASE s[d + 1] # SP
      <4>1. second = c + 1 /\ ValueBehind(s, d) = d
        BY <3>2, <3>4 DEF ValueBehind
      <4> HIDE DEF second
      <4> QED
        BY <1>0, <1>3, <3>1, <4>1
    <3> QED
      BY <3>3, <3>4
  <2> QED
    BY <2>1, <2>2
<1> HIDE DEF second
<1>6. SubSeq(t, second, Len(t)) = SubSeq(s, ValueBehind(s, d) + 1, e - 1)
  <2>1. i + l = e - 1 /\ l <= l
    BY <1>0
  <2> HIDE DEF l
  <2> QED
    BY <1>0, <1>1, <1>2, <1>5, <2>1
<1>7. SubSeq(t, 1, c - 1) = SubSeq(s, i + 1, d - 1)
  <2>1. c - 1 \in Nat /\ c - 1 <= l /\ i + (c - 1) = d - 1 /\ 1 <= l + 1 /\ 1 \in Nat \ {0}
    BY <1>0, <1>3
  <2> HIDE DEF l
  <2> QED
    BY <1>2, <2>1
<1> QED
  BY <1>3, <1>4, <1>6, <1>7 DEF t, c

(* The request r with one more header line. *)
WithArgument(r, k, v) == [r EXCEPT !.arguments = Inserted(@, k, v)]

(* A header line from i + 1 to the line break at e, its first colon at d. *)
HeaderAt(s, i, d, e) ==
  /\ e \in Nat /\ e + 1 <= Len(s) /\ s[e] = CR /\ s[e + 1] = LF
  /\ \A j \in i + 1..e - 1 : s[j] # CR
  /\ d \in i + 1..e - 1 /\ s[d] = CO
  /\ \A j \in i + 1..d - 1 : s[j] # CO

(* What becomes of it. *)
HeaderIsRead(s, i, d, e, r, o) ==
  LET v == SplitValueLine(SubSeq(s, i + 1, e - 1))
  IN  /\ Receiver!Readings(s)[e + 1]
           = Parser("key", WithArgument(r, v.key, v.value), <<>>, <<>>, o)
      /\ IsRequested(WithArgument(r, v.key, v.value))
      /\ ~CutOff(s, e + 1)
      /\ Receiver!Readings(s)[d].key = v.key
      /\ \A n \in i + 1..e + 1 :
           /\ Receiver!Readings(s)[n].state = "value_space" <=> n = d
           /\ Receiver!Readings(s)[n].output = o

(* The sink reads such a line as split_value_line does. *)
LEMMA HeaderRead ==
  ASSUME NEW s \in Strings, NEW i \in Nat, ~CutOff(s, i), NEW d, NEW e, HeaderAt(s, i, d, e),
         NEW r, IsRequested(r), NEW o, Receiver!Readings(s)[i] = Parser("key", r, <<>>, <<>>, o)
  PROVE  HeaderIsRead(s, i, d, e, r, o)
<1>x. /\ e \in Nat /\ e + 1 <= Len(s) /\ s[e] = CR /\ s[e + 1] = LF
      /\ \A j \in i + 1..e - 1 : s[j] # CR
      /\ d \in i + 1..e - 1 /\ s[d] = CO
      /\ \A j \in i + 1..d - 1 : s[j] # CO
  BY DEF HeaderAt
<1> USE <1>x
<1> DEFINE none == <<>>
           K == SubSeq(s, i + 1, d - 1)
           i2 == ValueBehind(s, d)
           V == SubSeq(s, i2 + 1, e - 1)
           r2 == WithArgument(r, K, V)
           p1 == Parser("key", r, none, none, o)
           p2 == Parser("value", r, K, none, o)
<1>0. Len(s) \in Nat /\ d \in Nat /\ d < e /\ i < d /\ d + 1 <= e /\ e < Len(s) /\ CR # SP
  BY SameDelimiters DEF Strings
<1>1. none \in Strings /\ \A w \in Strings : none \o w = w
  BY DEF Strings
<1>2. Receiver!Readings(s)[i] = p1
  OBVIOUS
<1>3. SplitValueLine(SubSeq(s, i + 1, e - 1)) = [key |-> K, value |-> V]
  <2>1. e <= Len(s)
    BY <1>0
  <2> QED
    BY <2>1, SplitIs
<1> HIDE DEF none
<1>4. (i2 = d /\ s[d + 1] # SP) \/ (i2 = d + 1 /\ s[d + 1] = SP /\ d + 1 < e)
  <2>1. s[d + 1] = SP => d + 1 # e
    BY <1>0
  <2> QED
    BY <1>0, <2>1 DEF ValueBehind
<1> HIDE DEF i2
<1>5. i2 \in Nat /\ i2 < e /\ i2 + 1 \in Nat /\ i2 \in d..e - 1
  BY <1>0, <1>4
<1>6. K \in Strings /\ V \in Strings
  <2>1. \A a, b \in Nat : a # 0 /\ a <= b + 1 /\ b <= Len(s) => SubSeq(s, a, b) \in Strings
    BY DEF Strings
  <2>2. d - 1 \in Nat /\ i + 1 \in Nat /\ i + 1 # 0 /\ i + 1 <= (d - 1) + 1 /\ d - 1 <= Len(s)
    BY <1>0
  <2>3. e - 1 \in Nat /\ i2 + 1 # 0 /\ i2 + 1 <= (e - 1) + 1 /\ e - 1 <= Len(s)
    BY <1>0, <1>5
  <2> QED
    BY <1>5, <2>1, <2>2, <2>3
<1> HIDE DEF K, V
<1>7. /\ \A q, t, k, v : /\ Parser(q, t, k, v, o).state = q /\ Parser(q, t, k, v, o).output = o
                         /\ Parser(q, t, k, v, o).result = t /\ Parser(q, t, k, v, o).key = k
                         /\ Parser(q, t, k, v, o).value = v
  BY DEF Parser
<1>8. IsParser(p1) /\ IsParser(p2) /\ IsRequested(r2)
  <2>1. IsParser(p1)
    BY <1>1, IsParserOf DEF States
  <2>2. IsParser(p2)
    BY <1>1, <1>6, IsParserOf DEF States
  <2>3. IsRequested(r2)
    BY <1>1, ResultIs DEF WithArgument
  <2> QED
    BY <2>1, <2>2, <2>3
<1>9. /\ p1.state = "key" /\ p1.output = o /\ Delimiter("key") = CO /\ "key" \in Reads
      /\ p2.state = "value" /\ p2.output = o /\ Delimiter("value") = CR /\ "value" \in Reads
  BY <1>7 DEF Delimiter, Reads
<1> HIDE DEF r2
<1>10. ASSUME NEW n \in 0..Len(s) - 1
       PROVE  Receiver!Readings(s)[n + 1] = Receiver!ReadChar(Receiver!Readings(s)[n], s[n + 1])
  <2>1. n + 1 \in 1..Len(s) /\ (n + 1) - 1 = n
    BY <1>0
  <2> QED
    BY <2>1, ReadingsAre DEF Strings
<1>11. /\ Extended(p1, K) = Parser("key", r, K, none, o)
       /\ Extended(p2, V) = Parser("value", r, K, V, o)
  <2>1. r = Requested(r.method, r.path, r.http_version, r.arguments)
    BY DEF IsRequested
  <2> DEFINE m == r.method
             p == r.path
             h == r.http_version
             a == r.arguments
             R == Requested(m, p, h, a)
  <2>2. none \o K = K /\ none \o V = V /\ r = R
    BY <1>1, <1>6, <2>1
  <2> HIDE DEF m, p, h, a
  <2>3. Extended(Parser("key", R, none, none, o), K) = Parser("key", R, none \o K, none, o)
    BY ExtendedIs
  <2>4. Extended(Parser("value", R, K, none, o), V) = Parser("value", R, K, none \o V, o)
    BY ExtendedIs
  <2> HIDE DEF R
  <2> QED
    BY <2>2, <2>3, <2>4
<1>12. /\ Receiver!Readings(s)[d] = Parser("value_space", r, K, none, o) /\ ~CutOff(s, d)
       /\ \A n \in i + 1..d - 1 : /\ Receiver!Readings(s)[n].state = "key"
                                  /\ Receiver!Readings(s)[n].output = o
  <2> DEFINE q == Extended(p1, SubSeq(s, i + 1, d - 1))
  <2>1. q = Parser("key", r, K, none, o)
    BY <1>11 DEF K
  <2> HIDE DEF p1
  <2>2. d \in i + 1..Len(s) /\ i \in 0..Len(s) - 1 /\ \A j \in i + 1..d - 1 : s[j] # CO /\ s[j] # CR
    BY <1>0
  <2>3. Receiver!Readings(s)[i + 1] = Receiver!ReadChar(p1, s[i + 1])
    BY <1>2, <1>10, <2>2
  <2>4. /\ IsParser(q) /\ q.state = "key"
        /\ Receiver!Readings(s)[d] = Receiver!ReadChar(q, CO)
        /\ ~CutOff(s, d)
        /\ \A n \in i + 1..d - 1 : /\ Receiver!Readings(s)[n].state = "key"
                                   /\ Receiver!Readings(s)[n].output = o
    <3>1. IsParser(p1) /\ p1.state \in Reads /\ Delimiter(p1.state) = CO
      BY <1>8, <1>9
    <3>2. Receiver!Readings(s)[i].state = "key" => p1.state = "key"
      BY <1>9
    <3>3. s[d] = CO
      OBVIOUS
    <3>8. PartAt(s, p1, i, d)
      BY <1>9, <2>2, <2>3, <3>1, <3>2, <3>3 DEF PartAt
    <3>9. PartIsRead(s, p1, i, d)
      BY <3>8, PartRead
    <3> QED
      BY <3>9, <1>9, <3>1 DEF PartIsRead
  <2> HIDE DEF q
  <2>5. q.state = "key" /\ q.result = r /\ q.key = K /\ q.value = none /\ q.output = o
    BY <1>7, <2>1
  <2>6. Receiver!ReadChar(q, CO) = Parser("value_space", q.result, q.key, q.value, q.output)
    <3>1. Delimiter(q.state) = CO /\ StateBehind(q.state) = "value_space" /\ IsParser(q)
      BY <2>4, <2>5 DEF Delimiter, StateBehind
    <3> QED
      BY <2>5, <3>1, DelimiterRead
  <2> QED
    BY <2>4, <2>5, <2>6
<1>13. /\ Receiver!Readings(s)[i2 + 1] = Receiver!ReadChar(p2, s[i2 + 1]) /\ ~CutOff(s, i2)
       /\ Receiver!Readings(s)[i2].state # "key"
       /\ i2 = d + 1 => Receiver!Readings(s)[i2] = p2
  <2> DEFINE q == Parser("value_space", r, K, none, o)
  <2>1. "value_space" \in DOMAIN Receiver!Skips /\ Receiver!Skips["value_space"].char = SP
        /\ Receiver!Skips["value_space"].next = "value"
    BY SameDelimiters DEF Receiver!Skips
  <2>2. d \in 0..Len(s) - 1
    BY <1>0
  <2>3. Receiver!Readings(s)[d + 1] = Receiver!ReadChar(q, s[d + 1])
    BY <1>10, <1>12, <2>2
  <2>4. /\ s[d + 1] = SP => Receiver!ReadChar(q, s[d + 1]) = p2
        /\ s[d + 1] # SP => Receiver!ReadChar(q, s[d + 1]) = Receiver!ReadChar(p2, s[d + 1])
    <3> DEFINE c == s[d + 1]
    <3> HIDE DEF c
    <3>1. /\ c = SP => Receiver!ReadChar(q, c) = p2
          /\ c # SP => Receiver!ReadChar(q, c) = Receiver!ReadChar(p2, c)
      BY <2>1, ReadsOptional
    <3> QED
      BY <3>1 DEF c
  <2>5. q.state = "value_space"
    BY <1>7
  <2> HIDE DEF q, p2
  <2>6. CASE i2 = d /\ s[d + 1] # SP
    BY <1>12, <2>3, <2>4, <2>5, <2>6 DEF q
  <2>7. CASE i2 = d + 1 /\ s[d + 1] = SP
    <3>1. Receiver!Readings(s)[i2] = p2
      BY <2>3, <2>4, <2>7
    <3>2. i2 \in 0..Len(s) - 1
      BY <1>0, <1>5
    <3>3. Receiver!Readings(s)[i2 + 1] = Receiver!ReadChar(p2, s[i2 + 1])
      BY <1>10, <3>1, <3>2
    <3>4. s[d + 1] # CR
      BY <1>0, <2>7
    <3>5. ~CutOff(s, i2)
      BY <1>0, <1>12, <2>7, <3>4, NotCutOffThere
    <3> QED
      BY <1>9, <3>1, <3>3, <3>5
  <2> QED
    BY <1>4, <2>6, <2>7
<1>14. /\ Receiver!Readings(s)[e] = Parser("value_lf", r2, <<>>, <<>>, o) /\ ~CutOff(s, e)
       /\ \A n \in i2 + 1..e - 1 : /\ Receiver!Readings(s)[n].state = "value"
                                   /\ Receiver!Readings(s)[n].output = o
  <2> DEFINE q == Extended(p2, SubSeq(s, i2 + 1, e - 1))
  <2>1. q = Parser("value", r, K, V, o)
    BY <1>11 DEF V
  <2> HIDE DEF p2
  <2>2. e \in i2 + 1..Len(s) /\ s[e] = CR /\ \A j \in i2 + 1..e - 1 : s[j] # CR
    BY <1>0, <1>5
  <2>4. /\ IsParser(q) /\ q.state = "value"
        /\ Receiver!Readings(s)[e] = Receiver!ReadChar(q, CR)
        /\ ~CutOff(s, e)
        /\ \A n \in i2 + 1..e - 1 : /\ Receiver!Readings(s)[n].state = "value"
                                    /\ Receiver!Readings(s)[n].output = o
    <3>1. IsParser(p2) /\ p2.state \in Reads /\ Delimiter(p2.state) = CR
      BY <1>8, <1>9
    <3>2. Receiver!Readings(s)[i2].state = "key" => p2.state = "key"
      BY <1>13
    <3>3. ~CutOff(s, i2) /\ Receiver!Readings(s)[i2 + 1] = Receiver!ReadChar(p2, s[i2 + 1])
      BY <1>13
    <3>4. /\ e \in i2 + 1..Len(s) /\ s[e] = Delimiter(p2.state)
          /\ \A j \in i2 + 1..e - 1 : s[j] # Delimiter(p2.state) /\ s[j] # CR
      BY <2>2, <3>1
    <3>5. i2 \in Nat /\ p2.state = "value" /\ p2.output = o
      BY <1>5, <1>9
    <3>6. /\ IsParser(q) /\ q.state = p2.state
          /\ Receiver!Readings(s)[e] = Receiver!ReadChar(q, Delimiter(p2.state))
          /\ ~CutOff(s, e)
          /\ \A n \in i2 + 1..e - 1 : /\ Receiver!Readings(s)[n].state = p2.state
                                      /\ Receiver!Readings(s)[n].output = p2.output
      <4>1. PartAt(s, p2, i2, e)
        BY <3>1, <3>2, <3>3, <3>4 DEF PartAt
      <4>2. PartIsRead(s, p2, i2, e)
        BY <3>5, <4>1, PartRead
      <4> QED
        BY <4>2 DEF PartIsRead
    <3> QED
      BY <3>1, <3>5, <3>6
  <2> HIDE DEF q
  <2>5. q.state = "value" /\ q.result = r /\ q.key = K /\ q.value = V /\ q.output = o
    BY <1>7, <2>1
  <2>6. Receiver!ReadChar(q, CR)
          = Parser("value_lf", [q.result EXCEPT !.arguments = Inserted(@, q.key, q.value)],
                   <<>>, <<>>, q.output)
    BY <2>4, <2>5, ReadsDelimiter
  <2>7. Receiver!ReadChar(q, CR) = Parser("value_lf", r2, <<>>, <<>>, o)
    BY <2>5, <2>6 DEF r2, WithArgument
  <2> QED
    BY <2>4, <2>7
<1>15. Receiver!Readings(s)[e + 1] = Parser("key", r2, <<>>, <<>>, o) /\ ~CutOff(s, e + 1)
  BY <1>0, <1>14, LineFeedRead
<1>16. ASSUME NEW n \in i + 1..e + 1
       PROVE  /\ Receiver!Readings(s)[n].state = "value_space" <=> n = d
              /\ Receiver!Readings(s)[n].output = o
  <2>1. n \in i + 1..d - 1 \/ n = d \/ (n = d + 1 /\ i2 = n) \/ n \in i2 + 1..e - 1 \/ n = e \/ n = e + 1
    BY <1>0, <1>4, <1>5
  <2>2. n \in i2 + 1..e - 1 => n # d
    BY <1>4, <1>0
  <2>3. e # d /\ e + 1 # d /\ (n \in i + 1..d - 1 => n # d) /\ d + 1 # d
    BY <1>0
  <2> DEFINE x == Receiver!Readings(s)[n]
  <2>4. CASE n \in i + 1..d - 1
    BY <1>12, <2>3, <2>4
  <2>5. CASE n = d
    BY <1>7, <1>12, <2>5
  <2>6. CASE n = d + 1 /\ i2 = n
    <3>1. Receiver!Readings(s)[n] = p2
      BY <1>13, <2>6
    <3> QED
      BY <1>9, <2>3, <2>6, <3>1
  <2>7. CASE n \in i2 + 1..e - 1
    BY <1>14, <2>2, <2>7
  <2>8. CASE n = e
    BY <1>7, <1>14, <2>3, <2>8
  <2>9. CASE n = e + 1
    BY <1>7, <1>15, <2>3, <2>9
  <2> QED
    BY <2>1, <2>4, <2>5, <2>6, <2>7, <2>8, <2>9
<1>17. Receiver!Readings(s)[d].key = K
  BY <1>7, <1>12
<1> DEFINE v == SplitValueLine(SubSeq(s, i + 1, e - 1))
<1>18. v.key = K /\ v.value = V
  BY <1>3
<1> HIDE DEF v
<1>19. r2 = WithArgument(r, v.key, v.value)
  BY <1>18 DEF r2
<1> QED
  BY <1>8, <1>15, <1>16, <1>17, <1>18, <1>19 DEF v, HeaderIsRead

-----------------------------------------------------------------------------
(* Tables of arguments.                                                    *)

(* a is a function.                                                        *)
IsTableOf(a) == a = [k \in DOMAIN a |-> a[k]]

(* What f has not is taken from g.                                         *)
Over(f, g) == [k \in DOMAIN f \cup DOMAIN g |-> IF k \in DOMAIN f THEN f[k] ELSE g[k]]

(* Tables are equal if they have the same values of the same keys.         *)
LEMMA SameTable ==
  ASSUME NEW f, NEW g, IsTableOf(f), IsTableOf(g), DOMAIN f = DOMAIN g,
         \A k \in DOMAIN f : f[k] = g[k]
  PROVE  f = g
BY DEF IsTableOf

(* A table of one key.                                                     *)
Entry(k, v) == [x \in {k} |-> v]

(* An entry in front of later ones. *)
LEMMA InsertedOver ==
  ASSUME NEW a, NEW k, NEW v, NEW g
  PROVE  Over(Inserted(a, k, v), g) = Over(a, Over(Entry(k, v), g))
<1> DEFINE e == Entry(k, v)
           i == Inserted(a, k, v)
           h == Over(e, g)
           l == Over(i, g)
           r == Over(a, h)
<1>1. DOMAIN e = {k} /\ e[k] = v
  BY DEF Entry
<1> HIDE DEF e
<1>2. /\ DOMAIN i = DOMAIN a \cup {k} /\ (\A x \in DOMAIN a : i[x] = a[x])
      /\ k \notin DOMAIN a => i[k] = v
  BY DEF Inserted, IsTableOf
<1>3. /\ DOMAIN h = {k} \cup DOMAIN g /\ h[k] = v
      /\ \A x \in DOMAIN g \ {k} : h[x] = g[x]
  BY <1>1 DEF Over, IsTableOf
<1> HIDE DEF i, h
<1>4. /\ IsTableOf(l) /\ DOMAIN l = DOMAIN a \cup {k} \cup DOMAIN g
      /\ \A x \in DOMAIN a \cup {k} : l[x] = i[x]
      /\ \A x \in DOMAIN g \ (DOMAIN a \cup {k}) : l[x] = g[x]
  BY <1>2 DEF Over, IsTableOf
<1>5. /\ IsTableOf(r) /\ DOMAIN r = DOMAIN a \cup {k} \cup DOMAIN g
      /\ \A x \in DOMAIN a : r[x] = a[x]
      /\ \A x \in ({k} \cup DOMAIN g) \ DOMAIN a : r[x] = h[x]
  BY <1>3 DEF Over, IsTableOf
<1> HIDE DEF l, r
<1>6. ASSUME NEW x \in DOMAIN l PROVE l[x] = r[x]
  <2>1. CASE x \in DOMAIN a
    BY <1>2, <1>4, <1>5, <2>1
  <2>2. CASE x = k /\ x \notin DOMAIN a
    <3>1. l[x] = i[x] /\ i[x] = v
      BY <1>2, <1>4, <2>2
    <3>2. r[x] = h[x] /\ h[x] = v
      BY <1>3, <1>5, <2>2
    <3> QED
      BY <3>1, <3>2
  <2>3. CASE x # k /\ x \notin DOMAIN a
    <3>1. x \in DOMAIN g
      BY <1>4, <2>3
    <3> QED
      BY <1>3, <1>4, <1>5, <2>3, <3>1
  <2> QED
    BY <2>1, <2>2, <2>3
<1>7. l = r
  <2>1. DOMAIN l = DOMAIN r
    BY <1>4, <1>5
  <2> QED
    BY <1>4, <1>5, <1>6, <2>1, SameTable
<1> QED
  BY <1>7 DEF l, r, i, h, e

(* A new entry can as well be inserted behind. *)
LEMMA InsertedBefore ==
  ASSUME NEW k, NEW v, NEW g, k \notin DOMAIN g
  PROVE  Over(Entry(k, v), g) = Inserted(g, k, v)
<1> DEFINE e == Entry(k, v)
           l == Over(e, g)
           r == Inserted(g, k, v)
<1>1. DOMAIN e = {k} /\ e[k] = v
  BY DEF Entry
<1> HIDE DEF e
<1>2. /\ IsTableOf(l) /\ DOMAIN l = {k} \cup DOMAIN g /\ l[k] = v
      /\ \A x \in DOMAIN g \ {k} : l[x] = g[x]
  BY <1>1 DEF Over, IsTableOf
<1>3. /\ IsTableOf(r) /\ DOMAIN r = {k} \cup DOMAIN g /\ r[k] = v
      /\ \A x \in DOMAIN g : r[x] = g[x]
  BY DEF Inserted, IsTableOf
<1> HIDE DEF l, r
<1>4. l = r
  BY <1>2, <1>3, SameTable
<1> QED
  BY <1>4 DEF l, r, e

(* Nothing in front of or behind a table. *)
LEMMA OverNothing ==
  ASSUME NEW f, IsTableOf(f)
  PROVE  Over(f, NoArguments) = f /\ Over(NoArguments, f) = f
<1>1. DOMAIN NoArguments = {}
  BY DEF NoArguments
<1> HIDE DEF NoArguments
<1> DEFINE a == Over(f, NoArguments)
           b == Over(NoArguments, f)
<1>2. IsTableOf(a) /\ DOMAIN a = DOMAIN f /\ \A k \in DOMAIN f : a[k] = f[k]
  BY <1>1 DEF Over, IsTableOf
<1>3. IsTableOf(b) /\ DOMAIN b = DOMAIN f /\ \A k \in DOMAIN f : b[k] = f[k]
  BY <1>1 DEF Over, IsTableOf
<1> HIDE DEF a, b
<1>4. a = f /\ b = f
  BY <1>2, <1>3, SameTable
<1> QED
  BY <1>4 DEF a, b

-----------------------------------------------------------------------------

(* The empty line behind the header lines. *)
LEMMA EmptyLineRead ==
  ASSUME NEW s \in Strings, NEW i \in Nat, ~CutOff(s, i), i + 2 <= Len(s),
         s[i + 1] = CR, s[i + 2] = LF,
         NEW r, IsRequested(r), NEW o, Receiver!Readings(s)[i] = Parser("key", r, <<>>, <<>>, o)
  PROVE  /\ IsParser(Receiver!Readings(s)[i + 1])
         /\ Receiver!Readings(s)[i + 1].output = Append(o, r)
         /\ Receiver!Readings(s)[i + 2]
              = Parser("method", Receiver!EmptyRequest, <<>>, <<>>, Append(o, r))
<1> DEFINE none == <<>>
           O == Append(o, r)
           p == Parser("key", r, none, none, o)
           q == Parser("end_of_headers_lf", Receiver!EmptyRequest, none, none, O)
<1>1. none \in Strings /\ Len(s) \in Nat
  BY DEF Strings
<1>2. Receiver!Readings(s)[i] = p
  OBVIOUS
<1> HIDE DEF none
<1>3. p.state = "key" /\ p.key = none /\ p.result = r /\ p.value = none /\ p.output = o
  BY DEF Parser
<1>4. IsParser(p)
  BY <1>1, IsParserOf DEF States
<1> HIDE DEF p
<1>5. i + 1 \in 1..Len(s) /\ (i + 1) - 1 = i
  BY <1>1
<1>6. Receiver!Readings(s)[i + 1] = Receiver!ReadChar(p, s[i + 1])
  BY <1>2, <1>5, ReadingsAre DEF Strings
<1>7. Receiver!ReadChar(p, CR)
        = Parser("end_of_headers_lf", Receiver!EmptyRequest, p.key, p.value, Append(p.output, p.result))
  BY <1>3, <1>4, ReadsDelimiter
<1>8. Receiver!Readings(s)[i + 1] = q
  BY <1>3, <1>6, <1>7
<1>9. IsParser(q) /\ q.output = O
  <2>1. IsRequested(Receiver!EmptyRequest)
    <3>1. Receiver!EmptyRequest = Requested(none, none, none, Receiver!NoArguments)
      BY DEF Receiver!EmptyRequest, Requested, none
    <3> QED
      BY <1>1, <3>1, IsRequestedOf
  <2> HIDE DEF O
  <2>2. IsParser(q)
    BY <1>1, <2>1, IsParserOf DEF States
  <2> QED
    BY <2>2 DEF Parser
<1>10. ~CutOff(s, i + 1)
  BY <1>2, <1>3, NotCutOffThere DEF none
<1>11. Receiver!Readings(s)[i + 2]
         = Parser("method", Receiver!EmptyRequest, <<>>, <<>>, Append(o, r))
  <2>1. (i + 1) + 1 = i + 2 /\ i + 1 \in Nat /\ (i + 1) + 1 <= Len(s) /\ s[(i + 1) + 1] = LF
    BY <1>1
  <2>2. Receiver!Readings(s)[i + 1] = Parser("end_of_headers_lf", Receiver!EmptyRequest, <<>>, <<>>, O)
    BY <1>8 DEF none
  <2> HIDE DEF O
  <2>3. Receiver!Readings(s)[(i + 1) + 1] = Parser("method", Receiver!EmptyRequest, <<>>, <<>>, O)
    BY <1>10, <2>1, <2>2, LineFeedRead
  <2> QED
    BY <2>1, <2>3 DEF O
<1> QED
  BY <1>8, <1>9, <1>11

(* A header line that ends before it has a colon.                          *)
LEMMA NoColonRead ==
  ASSUME NEW s \in Strings, NEW i \in Nat,
         NEW r, IsRequested(r), NEW o, Receiver!Readings(s)[i] = Parser("key", r, <<>>, <<>>, o),
         NEW e \in i + 2..Len(s), s[e] = CR,
         \A j \in i + 1..e - 1 : s[j] # CR /\ s[j] # CO
  PROVE  CutOff(s, e)
<1> SUFFICES ASSUME ~CutOff(s, i) PROVE CutOff(s, e)
  <2>1. e \in Nat /\ i <= e
    OBVIOUS
  <2> QED
    BY <2>1, StaysCutOff
<1> DEFINE none == <<>>
           p == Parser("key", r, none, none, o)
           m == e - 1 - i
           w == SubSeq(s, i + 1, i + m)
<1>1. none \in Strings /\ Len(s) \in Nat /\ m \in Nat /\ m \in 1..m /\ i + m = e - 1 /\ i + m < Len(s)
      /\ i < Len(s) /\ e \in 1..e
  BY DEF Strings
<1>2. Receiver!Readings(s)[i] = p /\ \A t \in Strings : none \o t = t
  BY DEF Strings
<1> HIDE DEF none
<1>3. p.state = "key" /\ p.key = none
  BY DEF Parser
<1>4. IsParser(p)
  BY <1>1, IsParserOf DEF States
<1> HIDE DEF p, m
<1>5. i + 1 \in 1..Len(s) /\ (i + 1) - 1 = i
  BY <1>1
<1>6. Receiver!Readings(s)[i + 1] = Receiver!ReadChar(p, s[i + 1])
  BY <1>2, <1>5, ReadingsAre DEF Strings
<1>7. \A j \in i + 1..i + m : s[j] # CO /\ s[j] # CR
  BY <1>1
<1>8. Delimiter(p.state) = CO /\ p.state \in Reads
  BY <1>3 DEF Delimiter, Reads
<1>9. \A n \in 1..m : Receiver!Readings(s)[i + n] = Extended(p, SubSeq(s, i + 1, i + n))
  <2>1. \A j \in i + 1..i + m : s[j] # Delimiter(p.state) /\ s[j] # CR
    BY <1>7, <1>8
  <2>2. m \in Nat /\ i + m < Len(s) /\ i < Len(s)
    BY <1>1
  <2> QED
    BY <1>4, <1>6, <1>8, <2>1, <2>2, RunRead, ZenonT(40)
<1>10. w \in Strings /\ Len(w) = m
  BY <1>1 DEF Strings
<1>11. Receiver!Readings(s)[e - 1] = Extended(p, w)
  BY <1>1, <1>9
<1> HIDE DEF w
<1>12. Extended(p, w).state = "key" /\ Extended(p, w).key = w
  BY <1>2, <1>3, <1>4, <1>10, ExtendedIsParser
<1>13. w # <<>>
  BY <1>1, <1>10
<1> QED
  BY <1>1, <1>11, <1>12, <1>13 DEF CutOff

(* Where a line ends in a text of lines that end in CR LF. *)
LEMMA LineEndsThere ==
  ASSUME NEW s \in Strings, Receiver!LinesEndInCrLf(s), NEW i \in 0..Len(s),
         i # 0 => s[i] = LF, Line(s, i + 1).found
  PROVE  \E e \in i + 1..Len(s) :
           /\ e + 1 <= Len(s) /\ s[e] = CR /\ s[e + 1] = LF
           /\ \A j \in i + 1..e - 1 : s[j] # CR /\ s[j] # LF
           /\ Line(s, i + 1) = [found |-> TRUE, text |-> SubSeq(s, i + 1, e - 1), next |-> e + 2]
<1> DEFINE U == {j \in i + 1..Len(s) : s[j] = CR}
<1>0. Len(s) \in Nat /\ CR # LF
  BY DEF Strings, CR, LF
<1>1. /\ \A j \in 1..Len(s) : s[j] = CR => j < Len(s) /\ s[j + 1] = LF
      /\ \A j \in 1..Len(s) : s[j] = LF => j > 1 /\ s[j - 1] = CR
  BY SameDelimiters DEF Receiver!LinesEndInCrLf
<1>2. ASSUME NEW e \in i + 1..Len(s) + 1, \A j \in i + 1..e - 1 : s[j] # CR
      PROVE  \A j \in i + 1..e - 1 : s[j] # LF
  <2> SUFFICES ASSUME NEW j \in i + 1..e - 1, s[j] = LF PROVE FALSE
    OBVIOUS
  <2>1. j > 1 /\ s[j - 1] = CR
    BY <1>0, <1>1
  <2>2. CASE j = i + 1
    <3>1. j - 1 = i /\ i # 0
      BY <2>1, <2>2
    <3> QED
      BY <1>0, <2>1, <3>1
  <2>3. CASE j # i + 1
    <3>1. j - 1 \in i + 1..e - 1
      BY <2>3
    <3> QED
      BY <1>2, <2>1, <3>1
  <2> QED
    BY <2>2, <2>3
<1>3. CASE U = {}
  <2>1. \A j \in i + 1..Len(s) : s[j] # CR
    BY <1>3
  <2>2. Len(s) + 1 \in i + 1..Len(s) + 1 /\ (Len(s) + 1) - 1 = Len(s) /\ i + 1 \in 1..Len(s) + 1
    BY <1>0
  <2>3. \A j \in i + 1..Len(s) : s[j] # LF
    BY <1>2, <2>1, <2>2
  <2>4. Line(s, i + 1) = Nothing
    BY <2>1, <2>2, <2>3, LineUnended
  <2> QED
    BY <2>4 DEF Nothing
<1>4. CASE U # {}
  <2>1. U \in SUBSET Nat
    BY <1>0
  <2>2. PICK e \in U : \A m \in U : e <= m
    BY <1>4, <2>1, SmallestNumber, Zenon
  <2>3. e \in i + 1..Len(s) /\ s[e] = CR /\ e \in 1..Len(s) /\ e \in i + 1..Len(s) + 1 /\ i + 1 \in 1..Len(s)
    BY <1>0
  <2>4. e + 1 <= Len(s) /\ s[e + 1] = LF
    BY <1>0, <1>1, <2>3
  <2>5. ASSUME NEW j \in i + 1..e - 1 PROVE s[j] # CR
    <3>1. j \in i + 1..Len(s) /\ ~(e <= j)
      BY <2>3
    <3> QED
      BY <2>2, <3>1
  <2>6. \A j \in i + 1..e - 1 : s[j] # LF
    BY <1>2, <2>3, <2>5
  <2>7. Line(s, i + 1) = [found |-> TRUE, text |-> SubSeq(s, i + 1, e - 1), next |-> e + 2]
    BY <2>3, <2>4, <2>5, <2>6, LineToCr
  <2> QED
    BY <2>3, <2>4, <2>5, <2>6, <2>7
<1> QED
  BY <1>3, <1>4

-----------------------------------------------------------------------------
(* What both parsers make of the header lines behind the character i.      *)

(* Where the sink finds the colons of the first request. *)
ValuesFrom(s, i) ==
  {n \in i + 1..Len(s) : /\ Receiver!Readings(s)[n].state = "value_space"
                         /\ Receiver!Readings(s)[n].output = <<>>
                         /\ Receiver!Readings(s)[n - 1].state # "value_space"}

(* The keys at which they begin, and that these are different ones.        *)
KeysAt(s, V) == {Receiver!Readings(s)[n].key : n \in V}

KeysDiffer(s, V) ==
  \A m, n \in V : Receiver!Readings(s)[m].key = Receiver!Readings(s)[n].key => m = n

(* The sink inserts G into the arguments it has, parse_request assigns A. *)
SameArguments(s, i, r, G, A) ==
  /\ HeaderLines(s, i + 1) = [found |-> TRUE, arguments |-> A]
  /\ IsTableOf(G) /\ IsTableOf(A)
  /\ First(Receiver!Readings(s)[Len(s)].output,
           Requested(r.method, r.path, r.http_version, Over(r.arguments, G)))
  /\ DOMAIN G = KeysAt(s, ValuesFrom(s, i)) /\ DOMAIN A = DOMAIN G
  /\ KeysDiffer(s, ValuesFrom(s, i)) => G = A

(* What both find from i + 1 on, if no key is repeated.                    *)
HeadersAgree(s, i) ==
  \A r : /\ IsRequested(r) /\ IsTableOf(r.arguments)
         /\ i \in 1..Len(s) /\ s[i] = LF
         /\ Receiver!Readings(s)[i] = Parser("key", r, <<>>, <<>>, <<>>)
         /\ HeaderLines(s, i + 1).found
         => \E G, A : SameArguments(s, i, r, G, A)

(* They agree about the empty line, *)
LEMMA EmptyLineAgrees ==
  ASSUME NEW s \in Strings, ~CutOff(s, Len(s)), NEW r, IsRequested(r), IsTableOf(r.arguments),
         NEW i \in 1..Len(s), i + 2 <= Len(s), s[i + 1] = CR, s[i + 2] = LF,
         Receiver!Readings(s)[i] = Parser("key", r, <<>>, <<>>, <<>>),
         Line(s, i + 1).found, Line(s, i + 1).text = <<>>
  PROVE  \E G, A : SameArguments(s, i, r, G, A)
<1> DEFINE none == <<>>
           o == Append(none, r)
<1>0. Len(s) \in Nat /\ i \in Nat /\ i <= Len(s) /\ i + 1 \in 1..Len(s) + 1
  BY DEF Strings
<1>1. ~CutOff(s, i)
  BY <1>0, StaysCutOff
<1>2. /\ IsParser(Receiver!Readings(s)[i + 1])
      /\ Receiver!Readings(s)[i + 1].output = o
  BY <1>0, <1>1, EmptyLineRead
<1>3. HeaderLines(s, i + 1) = NoHeaders
  BY <1>0, HeaderCases
<1>4. First(o, r)
  <2>1. r \in {r} /\ none \in Seq({r})
    OBVIOUS
  <2>2. o \in Seq({r}) /\ o # <<>> /\ o[1] = r
    BY <2>1
  <2> HIDE DEF o
  <2> QED
    BY <2>2 DEF First
<1> HIDE DEF o
<1>5. \A n \in i + 1..Len(s) : First(Receiver!Readings(s)[n].output, r)
  <2>1. i + 1 \in 0..Len(s)
    BY <1>0
  <2> QED
    BY <1>2, <1>4, <2>1, FirstStays
<1>6. ValuesFrom(s, i) = {}
  BY <1>5 DEF ValuesFrom, First
<1>7. IsTableOf(NoArguments) /\ DOMAIN NoArguments = {}
  BY DEF NoArguments, IsTableOf
<1>8. r = Requested(r.method, r.path, r.http_version, Over(r.arguments, NoArguments))
  BY OverNothing DEF IsRequested
<1>9. First(Receiver!Readings(s)[Len(s)].output, r)
  <2>1. Len(s) \in i + 1..Len(s)
    BY <1>0
  <2> QED
    BY <1>5, <2>1
<1>10. KeysAt(s, {}) = {}
  BY DEF KeysAt
<1>11. SameArguments(s, i, r, NoArguments, NoArguments)
  <2> HIDE DEF NoArguments
  <2>1. HeaderLines(s, i + 1) = [found |-> TRUE, arguments |-> NoArguments]
    BY <1>3 DEF NoHeaders
  <2>2. First(Receiver!Readings(s)[Len(s)].output,
              Requested(r.method, r.path, r.http_version, Over(r.arguments, NoArguments)))
    BY <1>8, <1>9
  <2> QED
    BY <1>6, <1>7, <1>10, <2>1, <2>2 DEF SameArguments
<1> QED
  BY <1>11

(* about one more line with a colon at d,                                  *)
LEMMA HeaderAgrees ==
  ASSUME NEW s \in Strings, ~CutOff(s, Len(s)), NEW r, IsRequested(r), IsTableOf(r.arguments),
         NEW i \in 1..Len(s),
         Receiver!Readings(s)[i] = Parser("key", r, <<>>, <<>>, <<>>),
         NEW e \in i + 1..Len(s), e + 1 <= Len(s), s[e] = CR, s[e + 1] = LF,
         \A j \in i + 1..e - 1 : s[j] # CR,
         NEW d \in i + 1..e - 1, s[d] = CO, \A j \in i + 1..d - 1 : s[j] # CO,
         Line(s, i + 1) = [found |-> TRUE, text |-> SubSeq(s, i + 1, e - 1), next |-> e + 2],
         HeaderLines(s, i + 1).found,
         HeadersAgree(s, e + 1)
  PROVE  \E G, A : SameArguments(s, i, r, G, A)
<1> DEFINE t == SubSeq(s, i + 1, e - 1)
           v == SplitValueLine(t)
           k == v.key
           x == v.value
           r2 == WithArgument(r, k, x)
           none == <<>>
<1>0. Len(s) \in Nat /\ i \in Nat /\ i <= Len(s) /\ e \in Nat /\ i + 1 \in 1..Len(s) + 1 /\ e + 2 = (e + 1) + 1
      /\ d \in Nat /\ e + 1 \in 1..Len(s) /\ d \in i + 1..e + 1
  BY DEF Strings
<1>1. ~CutOff(s, i)
  BY <1>0, StaysCutOff
<1>2. /\ Receiver!Readings(s)[e + 1] = Parser("key", r2, <<>>, <<>>, none)
      /\ IsRequested(r2)
      /\ Receiver!Readings(s)[d].key = k
      /\ \A n \in i + 1..e + 1 :
           /\ Receiver!Readings(s)[n].state = "value_space" <=> n = d
           /\ Receiver!Readings(s)[n].output = none
  <2>1. Receiver!Readings(s)[i] = Parser("key", r, <<>>, <<>>, none)
    OBVIOUS
  <2> HIDE DEF none
  <2>2. HeaderAt(s, i, d, e)
    BY <1>0 DEF HeaderAt
  <2>3. HeaderIsRead(s, i, d, e, r, none)
    BY <1>0, <1>1, <2>1, <2>2, HeaderRead
  <2> QED
    BY <2>3 DEF HeaderIsRead
<1>3. Line(s, i + 1).found /\ Line(s, i + 1).text = t /\ Line(s, i + 1).next = e + 2
  OBVIOUS
<1>4. t # <<>>
  <2>1. Len(t) = (e - 1) - (i + 1) + 1
    BY <1>0 DEF Strings
  <2> QED
    BY <1>0, <2>1
<1> HIDE DEF t
<1>5. HeaderLines(s, i + 1) = HeaderBefore(t, HeaderLines(s, e + 2))
  BY <1>0, <1>3, <1>4, HeaderCases
<1> DEFINE later == HeaderLines(s, e + 2)
<1>6. later.found
  <2> SUFFICES ASSUME ~later.found PROVE FALSE
    OBVIOUS
  <2> HIDE DEF later
  <2>1. HeaderLines(s, i + 1) = Nothing
    BY <1>5 DEF HeaderBefore, later
  <2> QED
    BY <2>1 DEF Nothing
<1>7. HeaderLines(s, i + 1) = [later EXCEPT !.arguments = Inserted(@, k, x)]
  BY <1>5, <1>6 DEF HeaderBefore
<1> HIDE DEF later, k, x, v
<1>8. /\ r2.method = r.method /\ r2.path = r.path /\ r2.http_version = r.http_version
      /\ r2.arguments = Inserted(r.arguments, k, x)
  <2>1. r = Requested(r.method, r.path, r.http_version, r.arguments)
    BY DEF IsRequested
  <2>2. PICK y : y = Inserted(r.arguments, k, x)
    OBVIOUS
  <2>3. r2 = [r EXCEPT !.arguments = y]
    BY <2>2 DEF WithArgument
  <2> HIDE DEF r2
  <2> QED
    BY <2>1, <2>2, <2>3 DEF Requested
<1> HIDE DEF r2
<1>9. IsTableOf(r2.arguments)
  BY <1>8 DEF Inserted, IsTableOf
<1>10. PICK G, A : SameArguments(s, e + 1, r2, G, A)
  <2>1. HeaderLines(s, (e + 1) + 1).found /\ s[e + 1] = LF
    BY <1>0, <1>6 DEF later
  <2> QED
    BY <1>0, <1>2, <1>9, <2>1 DEF HeadersAgree
<1> DEFINE G2 == Over(Entry(k, x), G)
           A2 == Inserted(A, k, x)
           V == ValuesFrom(s, i)
           W == ValuesFrom(s, e + 1)
<1>11. /\ later = [found |-> TRUE, arguments |-> A]
       /\ IsTableOf(G) /\ IsTableOf(A)
       /\ First(Receiver!Readings(s)[Len(s)].output,
                Requested(r2.method, r2.path, r2.http_version, Over(r2.arguments, G)))
       /\ DOMAIN G = KeysAt(s, W) /\ DOMAIN A = DOMAIN G
       /\ KeysDiffer(s, W) => G = A
  BY <1>0, <1>10 DEF SameArguments, later
<1>12. IsTableOf(G2) /\ IsTableOf(A2) /\ DOMAIN G2 = {k} \cup DOMAIN G /\ DOMAIN A2 = DOMAIN A \cup {k}
  BY DEF IsTableOf, Over, Inserted, Entry
<1>13. V = {d} \cup W
  <2>1. \A n \in i + 1..Len(s) : n \in i + 1..e + 1 \/ n \in (e + 1) + 1..Len(s)
    BY <1>0
  <2>2. \A n \in (e + 1) + 1..Len(s) : n \in i + 1..Len(s)
    BY <1>0
  <2>3. d \in i + 1..Len(s)
    BY <1>0
  <2>4. Receiver!Readings(s)[d - 1].state # "value_space"
    <3>1. CASE d = i + 1
      <4>1. d - 1 = i
        BY <1>0, <3>1
      <4> QED
        BY <4>1 DEF Parser
    <3>2. CASE d # i + 1
      <4>1. d - 1 \in i + 1..e + 1 /\ d - 1 # d
        BY <1>0, <3>2
      <4> QED
        BY <1>2, <4>1
    <3> QED
      BY <3>1, <3>2
  <2> QED
    BY <1>0, <1>2, <2>1, <2>2, <2>3, <2>4 DEF ValuesFrom
<1>14. d \notin W
  BY <1>0 DEF ValuesFrom
<1> HIDE DEF V, W
<1>15. KeysAt(s, V) = {k} \cup KeysAt(s, W)
  BY <1>2, <1>13 DEF KeysAt
<1>16. ASSUME KeysDiffer(s, V) PROVE G2 = A2
  <2>1. KeysDiffer(s, W)
    BY <1>13, <1>16 DEF KeysDiffer
  <2>2. k \notin KeysAt(s, W)
    BY <1>2, <1>13, <1>14, <1>16 DEF KeysDiffer, KeysAt
  <2>3. G = A /\ k \notin DOMAIN G
    BY <1>11, <2>1, <2>2
  <2> QED
    BY <2>3, InsertedBefore
<1>17. HeaderLines(s, i + 1) = [found |-> TRUE, arguments |-> A2]
  <2>1. \A f, y, m : m = [found |-> f, arguments |-> A] =>
                        [m EXCEPT !.arguments = y] = [found |-> f, arguments |-> y]
    OBVIOUS
  <2>2. later.arguments = A
    BY <1>11
  <2>3. HeaderLines(s, i + 1) = [later EXCEPT !.arguments = A2]
    BY <1>7, <2>2, Zenon
  <2> QED
    BY <1>11, <2>1, <2>3, Zenon
<1>18. Over(r2.arguments, G) = Over(r.arguments, G2)
  <2>1. r2.arguments = Inserted(r.arguments, k, x)
    BY <1>8
  <2>2. Over(Inserted(r.arguments, k, x), G) = Over(r.arguments, G2)
    BY InsertedOver
  <2> QED
    BY <2>1, <2>2
<1>19. SameArguments(s, i, r, G2, A2)
  <2> HIDE DEF G2, A2
  <2>1. First(Receiver!Readings(s)[Len(s)].output,
              Requested(r.method, r.path, r.http_version, Over(r.arguments, G2)))
    BY <1>8, <1>11, <1>18
  <2>2. DOMAIN G2 = KeysAt(s, V) /\ DOMAIN A2 = DOMAIN G2
    BY <1>11, <1>12, <1>15
  <2> QED
    BY <1>12, <1>16, <1>17, <2>1, <2>2 DEF SameArguments, V
<1> QED
  BY <1>19

(* and so line by line from the last one on.                               *)
LEMMA HeadersAgreeBefore ==
  ASSUME NEW s \in Strings, Receiver!LinesEndInCrLf(s), ~CutOff(s, Len(s)),
         NEW i \in 1..Len(s), \A j \in i + 1..Len(s) : HeadersAgree(s, j)
  PROVE  HeadersAgree(s, i)
<1> DEFINE none == <<>>
<1>0. Len(s) \in Nat /\ i \in Nat /\ i \in 0..Len(s) /\ i + 1 \in 1..Len(s) + 1
  BY DEF Strings
<1> SUFFICES ASSUME NEW r, IsRequested(r), IsTableOf(r.arguments), s[i] = LF,
                    Receiver!Readings(s)[i] = Parser("key", r, none, none, none),
                    HeaderLines(s, i + 1).found
             PROVE  \E G, A : SameArguments(s, i, r, G, A)
  BY DEF HeadersAgree
<1>1. Line(s, i + 1).found
  <2> SUFFICES ASSUME ~Line(s, i + 1).found PROVE FALSE
    OBVIOUS
  <2>1. HeaderLines(s, i + 1) = Nothing
    BY <1>0, HeaderCases
  <2> QED
    BY <2>1 DEF Nothing
<1>2. PICK e \in i + 1..Len(s) :
           /\ e + 1 <= Len(s) /\ s[e] = CR /\ s[e + 1] = LF
           /\ \A j \in i + 1..e - 1 : s[j] # CR /\ s[j] # LF
           /\ Line(s, i + 1) = [found |-> TRUE, text |-> SubSeq(s, i + 1, e - 1), next |-> e + 2]
  BY <1>0, <1>1, LineEndsThere
<1>3. CASE e = i + 1
  <2>1. Line(s, i + 1).text = <<>>
    <3>1. Line(s, i + 1).text = SubSeq(s, i + 1, e - 1)
      BY <1>2
    <3> QED
      BY <1>0, <1>3, <3>1
  <2>2. i + 2 <= Len(s) /\ s[i + 1] = CR /\ s[i + 2] = LF
    BY <1>0, <1>2, <1>3
  <2> QED
    BY <1>1, <2>1, <2>2, EmptyLineAgrees
<1>4. CASE e # i + 1
  <2> DEFINE colons == {d \in i + 1..e - 1 : s[d] = CO}
  <2>1. e \in i + 2..Len(s) /\ e \in Nat
    BY <1>0, <1>2, <1>4
  <2>2. colons # {}
    <3> SUFFICES ASSUME colons = {} PROVE FALSE
      OBVIOUS
    <3>1. \A j \in i + 1..e - 1 : s[j] # CR /\ s[j] # CO
      BY <1>2
    <3> HIDE DEF none
    <3>2. CutOff(s, e)
      <4>1. s[e] = CR
        BY <1>2
      <4> USE DEF none
      <4> QED
        BY <1>0, <2>1, <3>1, <4>1, NoColonRead
    <3> QED
      BY <1>0, <2>1, <3>2, StaysCutOff
  <2>3. colons \in SUBSET Nat
    BY <1>0
  <2>4. PICK d \in colons : \A m \in colons : d <= m
    BY <2>2, <2>3, SmallestNumber
  <2>5. d \in i + 1..e - 1 /\ s[d] = CO /\ \A j \in i + 1..d - 1 : s[j] # CO
    BY <1>0, <2>1, <2>4
  <2>6. HeadersAgree(s, e + 1)
    BY <1>0, <1>2, <2>1
  <2>7. \A j \in i + 1..e - 1 : s[j] # CR
    BY <1>2
  <2> HIDE DEF colons
  <2> QED
    BY <1>2, <2>5, <2>6, <2>7, HeaderAgrees
<1> QED
  BY <1>3, <1>4

(* By induction, they agree wherever a line begins.                        *)
LEMMA HeadersAlwaysAgree ==
  ASSUME NEW s \in Strings, Receiver!LinesEndInCrLf(s), ~CutOff(s, Len(s)), NEW i \in 1..Len(s)
  PROVE  HeadersAgree(s, i)
<1> DEFINE n == Len(s) + 1
           T == {j \in Nat : \A h \in j..Len(s) : h # 0 => HeadersAgree(s, h)}
<1>0. Len(s) \in Nat /\ n \in Nat /\ i \in Nat
  BY DEF Strings
<1>1. n \in T
  BY <1>0
<1>2. ASSUME NEW j \in T, j # 0, j <= n PROVE j - 1 \in T
  <2>0. j \in Nat /\ j - 1 \in Nat
    BY <1>0, <1>2
  <2>1. ASSUME NEW h \in j - 1..Len(s), h # 0 PROVE HeadersAgree(s, h)
    <3>1. CASE h = j - 1
      <4>1. h \in 1..Len(s)
        BY <1>0, <2>0, <2>1
      <4>2. \A m \in h + 1..Len(s) : HeadersAgree(s, m)
        BY <1>0, <2>0, <3>1
      <4> QED
        BY <4>1, <4>2, HeadersAgreeBefore
    <3>2. CASE h # j - 1
      BY <1>0, <2>0, <2>1, <3>2
    <3> QED
      BY <3>1, <3>2
  <2> QED
    BY <2>0, <2>1
<1>3. T \in SUBSET Nat
  OBVIOUS
<1> HIDE DEF T, n
<1>4. \A j \in 0..n : j \in T
  BY <1>0, <1>1, <1>2, <1>3, BackwardInduction
<1> QED
  BY <1>0, <1>4 DEF T, n

-----------------------------------------------------------------------------
(* The two parsers on a whole text.                                        *)

(* The sink's definitions are those here. *)
LEMMA SameCardinality == \A S : Receiver!Cardinality(S) = Cardinality(S)
BY DEF Cardinality, Receiver!Cardinality

(* And so is parse_request of the sink.                                    *)
LEMMA SameParser ==
  ASSUME NEW s
  PROVE  Receiver!ParseRequest(s) = ParseRequest(s)
<1>1. \A c, t, i : Receiver!Find(t, c, i) = Find(t, c, i)
  BY DEF Find, Receiver!Find
<1>2. \A i : Receiver!Line(s, i) = Line(s, i)
  BY SameDelimiters DEF Line, Receiver!Line, Nothing, Receiver!Nothing
<1>3. \A t : Receiver!SplitValueLine(t) = SplitValueLine(t)
  BY <1>1, SameDelimiters DEF SplitValueLine, Receiver!SplitValueLine
<1>4. \A i : Receiver!HeaderLines(s, i) = HeaderLines(s, i)
  BY SameDelimiters DEF HeaderLines, Receiver!HeaderLines, Line, Receiver!Line, Nothing, Receiver!Nothing,
     SplitValueLine, Receiver!SplitValueLine, Find, Receiver!Find, Inserted, Receiver!Inserted,
     NoArguments, Receiver!NoArguments
<1> QED
  BY DEF ParseRequest, Receiver!ParseRequest, HeaderLines, Receiver!HeaderLines, Line, Receiver!Line,
     Nothing, Receiver!Nothing, SplitValueLine, Receiver!SplitValueLine, Find, Receiver!Find,
     Inserted, Receiver!Inserted, NoArguments, Receiver!NoArguments,
     SP, Receiver!SP, CO, Receiver!CO, CR, Receiver!CR, LF, Receiver!LF

(* Where std::find stops before the end. *)
LEMMA FoundAt ==
  ASSUME NEW s \in Strings, NEW c, NEW i \in 1..Len(s) + 1, NEW at, at = Find(s, c, i),
         at <= Len(s)
  PROVE  s[at] = c /\ \A h \in i..at - 1 : s[h] # c
BY FindFrom

(* What parse_request finds in a text. *)
LEMMA RequestFound ==
  ASSUME NEW s \in Strings, ParseRequest(s).found
  PROVE  LET t == Line(s, 1).text
             a == Find(t, SP, 1)
             b == Find(t, SP, a + 1)
             headers == HeaderLines(s, Line(s, 1).next)
         IN  /\ Line(s, 1).found /\ a \in 1..Len(t) /\ b \in a + 1..Len(t) /\ headers.found
             /\ ParseRequest(s) =
                  [found |-> TRUE,
                   method |-> SubSeq(t, 1, a - 1), path |-> SubSeq(t, a + 1, b - 1),
                   http_version |-> SubSeq(t, b + 1, Len(t)),
                   arguments |-> headers.arguments]
<1> DEFINE t == Line(s, 1).text
           a == Find(t, SP, 1)
           b == Find(t, SP, a + 1)
           headers == HeaderLines(s, Line(s, 1).next)
           request == [found |-> TRUE,
                       method |-> SubSeq(t, 1, a - 1), path |-> SubSeq(t, a + 1, b - 1),
                       http_version |-> SubSeq(t, b + 1, Len(t)),
                       arguments |-> headers.arguments]
           incomplete == a > Len(t) \/ b > Len(t) \/ ~headers.found
<1>1. ParseRequest(s) = IF ~Line(s, 1).found THEN Nothing
                        ELSE IF incomplete THEN Nothing ELSE request
  BY DEF ParseRequest
<1>2. Nothing.found = FALSE
  BY DEF Nothing
<1>3. Line(s, 1).found /\ ~incomplete /\ ParseRequest(s) = request
  <2> HIDE DEF incomplete, request
  <2> QED
    BY <1>1, <1>2
<1>4. a \in 1..Len(t) /\ b \in a + 1..Len(t) /\ headers.found
  <2>1. t \in Strings /\ Len(t) \in Nat
    <3>1. 1 \in 1..Len(s) + 1
      BY DEF Strings
    <3> QED
      BY <1>3, <3>1, NextLine DEF Strings
  <2>2. a \in 1..Len(t) + 1
    <3>1. 1 \in 1..Len(t) + 1
      BY <2>1
    <3> HIDE DEF t
    <3> QED
      BY <2>1, <3>1, FindFrom
  <2>3. a \in 1..Len(t) /\ ~(b > Len(t)) /\ headers.found
    BY <1>3, <2>1, <2>2
  <2>4. b \in a + 1..Len(t) + 1
    <3>1. a + 1 \in 1..Len(t) + 1
      BY <2>1, <2>3
    <3> HIDE DEF t, a
    <3> QED
      BY <2>1, <3>1, FindFrom
  <2> QED
    BY <2>1, <2>3, <2>4
<1> QED
  BY <1>3, <1>4

(* As many keys as lines: none is repeated. *)
LEMMA KeysCounted ==
  ASSUME NEW s, NEW V, IsFiniteSet(V), Cardinality(KeysAt(s, V)) = Cardinality(V)
  PROVE  KeysDiffer(s, V)
<1> DEFINE T == KeysAt(s, V)
           f == [n \in V |-> Receiver!Readings(s)[n].key]
<1>1. f \in Surjection(V, T)
  BY DEF Surjection, KeysAt
<1>2. \A m, n \in V : f[m] = f[n] => m = n
  <2> HIDE DEF f, T
  <2>1. f \in Injection(V, T)
    BY <1>1, FS_Surjection DEF T
  <2> QED
    BY <2>1 DEF Injection, IsInjective
<1> QED
  BY <1>2 DEF KeysDiffer

(* What parse_request finds is the first request that the sink hands out.  *)
LEMMA FirstRequestsAgree ==
  ASSUME NEW s \in Strings, Receiver!LinesEndInCrLf(s), ~CutOff(s, Len(s)),
         ParseRequest(s).found,
         Cardinality(DOMAIN ParseRequest(s).arguments) = Receiver!HeadersOfFirst(s)
  PROVE  First(Receiver!Readings(s)[Len(s)].output,
               Requested(ParseRequest(s).method, ParseRequest(s).path,
                         ParseRequest(s).http_version, ParseRequest(s).arguments))
<1> DEFINE none == <<>>
           batch == ParseRequest(s)
           t == Line(s, 1).text
           a == Find(t, SP, 1)
           b == Find(t, SP, a + 1)
           M == SubSeq(s, 1, a - 1)
<1>0. Len(s) \in Nat /\ 0 \in 0..Len(s) /\ 0 + 1 = 1
  BY DEF Strings
<1>1. /\ Line(s, 1).found /\ a \in 1..Len(t) /\ b \in a + 1..Len(t)
      /\ HeaderLines(s, Line(s, 1).next).found
      /\ batch.method = SubSeq(t, 1, a - 1) /\ batch.path = SubSeq(t, a + 1, b - 1)
      /\ batch.http_version = SubSeq(t, b + 1, Len(t))
      /\ batch.arguments = HeaderLines(s, Line(s, 1).next).arguments
  <2> HIDE DEF t, a, b
  <2> QED
    BY RequestFound DEF t, a, b
<1>2. PICK e \in 0 + 1..Len(s) :
           /\ e + 1 <= Len(s) /\ s[e] = CR /\ s[e + 1] = LF
           /\ \A j \in 0 + 1..e - 1 : s[j] # CR /\ s[j] # LF
           /\ Line(s, 0 + 1) = [found |-> TRUE, text |-> SubSeq(s, 0 + 1, e - 1), next |-> e + 2]
  <2>1. Line(s, 0 + 1).found
    BY <1>1
  <2> QED
    <3>1. ASSUME NEW i, i = 0
          PROVE  \E e \in i + 1..Len(s) :
                   /\ e + 1 <= Len(s) /\ s[e] = CR /\ s[e + 1] = LF
                   /\ \A j \in i + 1..e - 1 : s[j] # CR /\ s[j] # LF
                   /\ Line(s, i + 1)
                        = [found |-> TRUE, text |-> SubSeq(s, i + 1, e - 1), next |-> e + 2]
      <4>1. i \in 0..Len(s) /\ (i # 0 => s[i] = LF) /\ Line(s, i + 1).found
        BY <1>0, <2>1, <3>1
      <4> QED
        BY <4>1, LineEndsThere
    <3> QED
      BY <3>1
<1>3. /\ e \in Nat /\ e \in 1..Len(s) /\ e + 1 \in 1..Len(s) /\ e + 2 = (e + 1) + 1
      /\ t = SubSeq(s, 1, e - 1) /\ Line(s, 1).next = e + 2
      /\ \A j \in 1..e - 1 : s[j] # CR
  BY <1>0, <1>2
<1>4. t \in Strings /\ Len(t) = e - 1 /\ \A j \in 1..e - 1 : t[j] = s[j]
  <2>1. t = SubSeq(s, 1, e - 1) /\ s \in Seq(Characters) /\ 1 \in Nat /\ e - 1 \in Nat /\ e - 1 <= Len(s)
    BY <1>0, <1>3 DEF Strings
  <2> HIDE DEF t
  <2> QED
    BY <2>1, SMTT(20) DEF Strings
<1> HIDE DEF t
<1>5. /\ a \in 1..e - 1 /\ b \in a + 1..e - 1 /\ s[a] = SP /\ s[b] = SP
      /\ \A j \in 1..a - 1 : s[j] # SP
      /\ \A j \in a + 1..b - 1 : s[j] # SP
  <2>1. 1 \in 1..Len(t) + 1 /\ a + 1 \in 1..Len(t) + 1
    BY <1>1, <1>3, <1>4
  <2>2. a <= Len(t) /\ t[a] = SP /\ \A j \in 1..a - 1 : t[j] # SP
    BY <1>1, <1>4, <2>1, FoundAt, SMTT(20)
  <2>3. b <= Len(t) /\ t[b] = SP /\ \A j \in a + 1..b - 1 : t[j] # SP
    <3> HIDE DEF a
    <3> QED
      BY <1>1, <1>4, <2>1, FindFrom, SMTT(20)
  <2> HIDE DEF a, b
  <2>4. a \in 1..e - 1 /\ b \in a + 1..e - 1
    BY <1>1, <1>3, <1>4
  <2>5. /\ \A j \in 1..a - 1 : j \in 1..e - 1
        /\ \A j \in a + 1..b - 1 : j \in 1..e - 1
        /\ b \in 1..e - 1
    BY <1>3, <2>4
  <2> QED
    BY <1>4, <2>2, <2>3, <2>4, <2>5
<1> HIDE DEF a, b
<1>6. /\ batch.method = SubSeq(s, 1, a - 1) /\ batch.path = SubSeq(s, a + 1, b - 1)
      /\ batch.http_version = SubSeq(s, b + 1, e - 1)
  <2>1. /\ e - 1 \in Nat /\ e - 1 <= Len(s) /\ a \in Nat /\ b \in Nat /\ a - 1 \in Nat /\ b - 1 \in Nat
        /\ a + 1 \in Nat \ {0} /\ b + 1 \in Nat \ {0}
        /\ a - 1 <= e - 1 /\ b - 1 <= e - 1 /\ 1 <= (e - 1) + 1
    BY <1>0, <1>3, <1>5
  <2>2. \A c \in Nat \ {0}, d \in Nat : d <= e - 1 => SubSeq(t, c, d) = SubSeq(s, c, d)
    <3> SUFFICES ASSUME NEW c \in Nat \ {0}, NEW d \in Nat, d <= e - 1
                 PROVE  SubSeq(t, c, d) = SubSeq(s, c, d)
      OBVIOUS
    <3>1. 1 + d - 1 = d /\ 1 + c - 1 = c /\ 1 + d - 1 <= e - 1
      BY <2>1
    <3>2. SubSeq(SubSeq(s, 1, e - 1), c, d) = SubSeq(s, 1 + c - 1, 1 + d - 1)
      BY <2>1, <3>1, PartOfPart
    <3> QED
      BY <1>3, <3>1, <3>2
  <2> QED
    BY <1>1, <1>4, <2>1, <2>2
<1> DEFINE P == SubSeq(s, a + 1, b - 1)
           H == SubSeq(s, b + 1, e - 1)
           r == Requested(M, P, H, NoArguments)
<1>7. /\ Receiver!Readings(s)[e + 1] = Parser("key", r, none, none, none)
      /\ \A n \in 0..e + 1 : /\ Receiver!Readings(s)[n].state # "value_space"
                             /\ Receiver!Readings(s)[n].output = none
  <2>1. ~CutOff(s, e + 1)
    BY <1>0, <1>3, StaysCutOff
  <2>2. e + 1 <= Len(s) /\ s[e] = CR /\ s[e + 1] = LF
    BY <1>2
  <2> QED
    BY <1>3, <1>5, <2>2, RequestLineRead
<1>8. M \in Strings /\ P \in Strings /\ H \in Strings
  <2>1. \A c, d \in Nat : c # 0 /\ c <= d + 1 /\ d <= Len(s) => SubSeq(s, c, d) \in Strings
    BY DEF Strings
  <2>2. /\ a - 1 \in Nat /\ 1 <= (a - 1) + 1 /\ a - 1 <= Len(s)
        /\ a + 1 \in Nat /\ a + 1 # 0 /\ b - 1 \in Nat /\ a + 1 <= (b - 1) + 1 /\ b - 1 <= Len(s)
        /\ b + 1 \in Nat /\ b + 1 # 0 /\ e - 1 \in Nat /\ b + 1 <= (e - 1) + 1 /\ e - 1 <= Len(s)
    BY <1>0, <1>3, <1>5
  <2> QED
    BY <2>1, <2>2
<1> HIDE DEF M, P, H
<1>9. /\ IsRequested(r) /\ r.method = M /\ r.path = P /\ r.http_version = H
      /\ r.arguments = NoArguments /\ IsTableOf(NoArguments)
  <2>1. IsRequested(r)
    BY <1>8, IsRequestedOf
  <2> QED
    BY <2>1 DEF Requested, NoArguments, IsTableOf
<1> HIDE DEF r
<1>10. PICK G, A : SameArguments(s, e + 1, r, G, A)
  <2>1. HeadersAgree(s, e + 1)
    BY <1>3, HeadersAlwaysAgree
  <2>2. HeaderLines(s, (e + 1) + 1).found
    BY <1>1, <1>3
  <2> QED
    BY <1>2, <1>3, <1>7, <1>9, <2>1, <2>2 DEF HeadersAgree
<1> DEFINE V == ValuesFrom(s, e + 1)
<1>11. /\ batch.arguments = A /\ IsTableOf(G)
       /\ First(Receiver!Readings(s)[Len(s)].output, Requested(M, P, H, Over(NoArguments, G)))
       /\ DOMAIN A = KeysAt(s, V)
       /\ KeysDiffer(s, V) => G = A
  BY <1>1, <1>3, <1>9, <1>10 DEF SameArguments
<1>12. Receiver!HeadersOfFirst(s) = Cardinality(V) /\ IsFiniteSet(V)
  <2> DEFINE U == {n \in 1..Len(s) :
                     Receiver!Readings(s)[n].state = "value_space" /\ Receiver!Readings(s)[n].output = <<>>
                       /\ Receiver!Readings(s)[n-1].state # "value_space"}
  <2>1. V = U
    <3>1. \A n \in 1..Len(s) : n \in 0..e + 1 \/ n \in (e + 1) + 1..Len(s)
      BY <1>0, <1>3
    <3>2. \A n \in (e + 1) + 1..Len(s) : n \in 1..Len(s)
      BY <1>0, <1>3
    <3> QED
      BY <1>7, <3>1, <3>2 DEF ValuesFrom
  <2>2. Receiver!HeadersOfFirst(s) = Cardinality(U)
    BY SameCardinality DEF Receiver!HeadersOfFirst
  <2>3. IsFiniteSet(1..Len(s))
    <3>1. 1 \in Int /\ Len(s) \in Int
      BY <1>0
    <3> QED
      BY <3>1, FS_Interval
  <2> QED
    BY <2>1, <2>2, <2>3, FS_Subset
<1>13. G = A
  BY <1>11, <1>12, KeysCounted
<1>14. Over(NoArguments, G) = G
  BY <1>11, OverNothing
<1> QED
  BY <1>6, <1>11, <1>13, <1>14 DEF M, P, H

(* When a text has gone through the sink, the two have found the same.     *)
LEMMA AgreeInTheEnd ==
  ASSUME SinkInv, failed \in BOOLEAN
  PROVE  ParsersAgree
<1> DEFINE batch == ParseRequest(stream)
           o == Receiver!Readings(stream)[Len(stream)].output
           r == Requested(batch.method, batch.path, batch.http_version, batch.arguments)
<1> SUFFICES ASSUME fed = Len(stream), data = <<>>, ~failed,
                    Receiver!LinesEndInCrLf(stream), ~Receiver!KeyCutOff(stream),
                    batch.found, Cardinality(DOMAIN batch.arguments) = Receiver!HeadersOfFirst(stream)
             PROVE  /\ output # <<>>
                    /\ \A field \in DOMAIN Receiver!EmptyRequest : output[1][field] = batch[field]
  BY SameParser, SameCardinality DEF ParsersAgree, Receiver!ParsersAgree
<1>1. stream \in Strings
  BY DEF SinkInv, Following, Follows
<1>2. SubSeq(stream, 1, fed) = stream
  BY <1>1 DEF Strings
<1>3. output = o
  <2>1. PiecesDoNotMatter
    BY BetweenPieces
  <2> QED
    BY <1>2, <2>1 DEF PiecesDoNotMatter, Receiver!PiecesDoNotMatter
<1>4. ~CutOff(stream, Len(stream))
  BY SameDelimiters DEF CutOff, Receiver!KeyCutOff
<1>5. First(o, r)
  BY <1>1, <1>4, FirstRequestsAgree
<1>6. /\ DOMAIN Receiver!EmptyRequest = {"method", "path", "http_version", "arguments"}
      /\ r.method = batch.method /\ r.path = batch.path
      /\ r.http_version = batch.http_version /\ r.arguments = batch.arguments
  BY DEF Receiver!EmptyRequest, Requested
<1> HIDE DEF batch, o, r
<1>7. output # <<>> /\ output[1] = r
  BY <1>3, <1>5 DEF First
<1> QED
  BY <1>6, <1>7

(***************************************************************************)
(* The two parsers of the library agree: the request that parse_request    *)
(* makes of a text is the first one that request_parser_sink has handed    *)
(* out when the text has gone through it in whatever pieces, for lines     *)
(* that end in CR LF, header lines with a colon and keys that differ.      *)
(***************************************************************************)
THEOREM ParsersCorrect == Spec => []ParsersAgree
<1>1. ConnectionInv => ParsersAgree
  BY AgreeInTheEnd DEF ConnectionInv
<1> QED
  BY <1>1, ConnectionStarts, ConnectionGoesOn, PTL DEF Spec

-----------------------------------------------------------------------------
(* Texts line by line.                                                     *)

(* The text t begins with u. *)
Begins(u, t) == Len(u) <= Len(t) /\ \A j \in 1..Len(u) : t[j] = u[j]

(* One text behind the other. *)
LEMMA TextJoined ==
  ASSUME NEW s \in Strings, NEW t \in Strings
  PROVE  /\ s \o t \in Strings /\ Len(s \o t) = Len(s) + Len(t)
         /\ Len(s) \in Nat /\ Len(t) \in Nat
         /\ \A j \in 1..Len(s) : (s \o t)[j] = s[j]
         /\ \A j \in 1..Len(t) : (s \o t)[Len(s) + j] = t[j]
         /\ Begins(s, s \o t)
<1>1. /\ s \o t \in Strings /\ Len(s \o t) = Len(s) + Len(t)
      /\ Len(s) \in Nat /\ Len(t) \in Nat
      /\ \A j \in 1..Len(s) : (s \o t)[j] = s[j]
      /\ \A j \in 1..Len(t) : (s \o t)[Len(s) + j] = t[j]
  BY DEF Strings
<1> QED
  BY <1>1 DEF Begins

(* Texts that grow all begin alike. *)
LEMMA GrowingTexts ==
  ASSUME NEW G, NEW n \in Nat, \A k \in 0..n : G[k] \in Strings,
         \A k \in 1..n : Begins(G[k - 1], G[k])
  PROVE  \A i, j \in 0..n : i <= j => Begins(G[i], G[j])
<1> SUFFICES ASSUME NEW i \in 0..n PROVE \A j \in 0..n : i <= j => Begins(G[i], G[j])
  OBVIOUS
<1> DEFINE T == {k \in Nat : i + k <= n => Begins(G[i], G[i + k])}
<1>0. \A k \in 0..n : Len(G[k]) \in Nat
  BY DEF Strings
<1>1. 0 \in T
  <2>1. i + 0 = i
    OBVIOUS
  <2> QED
    BY <1>0, <2>1 DEF Begins
<1>2. ASSUME NEW k \in T PROVE k + 1 \in T
  <2>1. k \in Nat /\ (i + k <= n => Begins(G[i], G[i + k]))
    OBVIOUS
  <2> HIDE DEF T
  <2> SUFFICES ASSUME i + (k + 1) <= n PROVE Begins(G[i], G[i + (k + 1)])
    BY <2>1 DEF T
  <2> DEFINE m == i + (k + 1)
  <2>2. m \in 1..n /\ m - 1 = i + k /\ i + k <= n /\ i + k \in 0..n
    BY <2>1
  <2>3. Begins(G[m - 1], G[m]) /\ Begins(G[i], G[m - 1])
    BY <2>1, <2>2
  <2>4. Len(G[i]) \in Nat /\ Len(G[m - 1]) \in Nat /\ Len(G[m]) \in Nat
    BY <1>0, <2>2
  <2> HIDE DEF m
  <2>5. Begins(G[i], G[m])
    BY <2>3, <2>4 DEF Begins
  <2> QED
    BY <2>5 DEF m
<1> HIDE DEF T
<1>3. T \in SUBSET Nat
  BY DEF T
<1>4. T = Nat
  BY <1>1, <1>2, <1>3, SetInduction
<1>5. ASSUME NEW j \in 0..n, i <= j PROVE Begins(G[i], G[j])
  <2>1. j - i \in T /\ i + (j - i) = j
    BY <1>4, <1>5
  <2> QED
    BY <2>1 DEF T
<1> QED
  BY <1>5

(* A text of the N lines L, the last of them empty: G[n] are the first n.  *)
LineEnd == <<CR, LF>>

LinesTo(G, L, N) ==
  /\ N \in Nat /\ N >= 2 /\ G[0] = <<>> /\ L[N] = <<>>
  /\ \A n \in 0..N : G[n] \in Strings
  /\ \A n \in 1..N : /\ L[n] \in Strings
                     /\ \A j \in 1..Len(L[n]) : L[n][j] # CR /\ L[n][j] # LF
                     /\ G[n] = (G[n - 1] \o L[n]) \o LineEnd

(* The first lines of a text are its beginning. *)
LEMMA LinesGrow ==
  ASSUME NEW G, NEW L, NEW N, LinesTo(G, L, N), NEW n \in 1..N
  PROVE  Begins(G[n], G[N])
<1>0. LineEnd \in Strings /\ N \in Nat
  BY DEF LineEnd, Strings, Characters, Delimiters, LinesTo
<1>1. \A k \in 1..N : Begins(G[k - 1], G[k])
  <2> SUFFICES ASSUME NEW k \in 1..N PROVE Begins(G[k - 1], G[k])
    OBVIOUS
  <2>1. k - 1 \in 0..N /\ k \in 0..N
    BY <1>0
  <2>2. G[k - 1] \in Strings /\ L[k] \in Strings /\ G[k] = (G[k - 1] \o L[k]) \o LineEnd
    BY <2>1 DEF LinesTo
  <2> DEFINE b == G[k - 1]
             c == b \o L[k]
             d == c \o LineEnd
  <2>3. c \in Strings /\ Begins(b, c)
    BY <2>2, TextJoined
  <2> HIDE DEF c
  <2>4. d \in Strings /\ Begins(c, d)
    BY <1>0, <2>3, TextJoined
  <2> HIDE DEF d
  <2>5. Begins(b, d)
    BY <2>2, <2>3, <2>4 DEF Begins, Strings
  <2> QED
    BY <2>2, <2>5 DEF c, d
<1>2. \A k \in 0..N : G[k] \in Strings
  BY DEF LinesTo
<1>3. n \in 0..N /\ N \in 0..N /\ n <= N
  BY <1>0
<1> QED
  BY <1>0, <1>1, <1>2, <1>3, GrowingTexts

(* The n-th line of s is from p + 1 to the line break at q - 1. *)
LineAt(s, p, q, l) ==
  /\ p \in Nat /\ q \in Nat /\ q = p + Len(l) + 2 /\ q <= Len(s) /\ q - 1 \in 1..Len(s) /\ q \in 1..Len(s)
  /\ s[q - 1] = CR /\ s[q] = LF
  /\ \A j \in p + 1..q - 2 : s[j] # CR /\ s[j] # LF
  /\ \A j \in 1..Len(l) : s[p + j] = l[j]
  /\ SubSeq(s, p + 1, q - 2) = l

(* Where a text is cut into its lines. *)
LEMMA LineIsAt ==
  ASSUME NEW G, NEW L, NEW N, LinesTo(G, L, N), NEW n \in 1..N,
         NEW s \in Strings, Begins(s, G[N]), Len(G[n]) <= Len(s)
  PROVE  LineAt(s, Len(G[n - 1]), Len(G[n]), L[n])
<1> DEFINE a == G[n - 1]
           l == L[n]
           g == G[n]
           p == Len(a)
           q == Len(g)
<1>1. /\ a \in Strings /\ g \in Strings /\ l \in Strings /\ LineEnd \in Strings
      /\ g = (a \o l) \o LineEnd
      /\ \A j \in 1..Len(l) : l[j] # CR /\ l[j] # LF
      /\ Len(LineEnd) = 2 /\ LineEnd[1] = CR /\ LineEnd[2] = LF
      /\ N \in Nat /\ G[N] \in Strings
  <2>1. LineEnd \in Strings /\ Len(LineEnd) = 2 /\ LineEnd[1] = CR /\ LineEnd[2] = LF
    BY DEF LineEnd, Strings, Characters, Delimiters
  <2>2. n - 1 \in 0..N /\ n \in 0..N /\ N \in 0..N /\ N \in Nat
    BY DEF LinesTo
  <2> QED
    BY <2>1, <2>2 DEF LinesTo
<1>2. Begins(g, G[N])
  BY LinesGrow
<1> HIDE DEF a, l, g
<1> DEFINE b == a \o l
           m == Len(b)
<1>3. /\ b \in Strings /\ m = p + Len(l) /\ p \in Nat /\ Len(l) \in Nat
      /\ \A j \in 1..Len(l) : b[p + j] = l[j]
  BY <1>1, TextJoined
<1> HIDE DEF b
<1>4. /\ g = b \o LineEnd
      /\ q = m + 2 /\ \A j \in 1..m : g[j] = b[j]
      /\ \A j \in 1..2 : g[m + j] = LineEnd[j]
  <2>1. g = b \o LineEnd
    BY <1>1 DEF b
  <2>2. /\ Len(b \o LineEnd) = m + Len(LineEnd)
        /\ \A j \in 1..m : (b \o LineEnd)[j] = b[j]
        /\ \A j \in 1..Len(LineEnd) : (b \o LineEnd)[m + j] = LineEnd[j]
    BY <1>1, <1>3, TextJoined
  <2> QED
    BY <1>1, <2>1, <2>2
<1>5. Len(s) \in Nat /\ q <= Len(s) /\ \A j \in 1..q : s[j] = g[j]
  <2>1. Len(s) \in Nat /\ q <= Len(s) /\ q \in Nat
    BY <1>1 DEF Strings, g
  <2>2. \A j \in 1..q : j \in 1..Len(s)
    BY <2>1
  <2> QED
    BY <1>2, <2>1, <2>2 DEF Begins, g
<1>6. s[q - 1] = CR /\ s[q] = LF
  <2>1. q - 1 = m + 1 /\ q = m + 2 /\ q - 1 \in 1..q /\ q \in 1..q /\ 1 \in 1..2 /\ 2 \in 1..2
    BY <1>3, <1>4
  <2>2. g[m + 1] = LineEnd[1] /\ g[m + 2] = LineEnd[2]
    BY <1>4, <2>1
  <2>3. s[q - 1] = g[q - 1] /\ s[q] = g[q]
    BY <1>5, <2>1
  <2> QED
    BY <1>1, <2>1, <2>2, <2>3
<1>7. \A j \in 1..Len(l) : s[p + j] = l[j]
  <2> SUFFICES ASSUME NEW j \in 1..Len(l) PROVE s[p + j] = l[j]
    OBVIOUS
  <2>1. p + j \in 1..q /\ p + j \in 1..m
    BY <1>3, <1>4
  <2> QED
    BY <1>3, <1>4, <1>5, <2>1
<1>8. \A j \in p + 1..q - 2 : s[j] # CR /\ s[j] # LF
  <2> SUFFICES ASSUME NEW j \in p + 1..q - 2 PROVE s[j] # CR /\ s[j] # LF
    OBVIOUS
  <2>1. j - p \in 1..Len(l) /\ p + (j - p) = j
    BY <1>3, <1>4
  <2> QED
    BY <1>1, <1>7, <2>1
<1>9. SubSeq(s, p + 1, q - 2) = l
  <2> DEFINE t == SubSeq(s, p + 1, q - 2)
  <2>1. t \in Strings /\ Len(t) = Len(l) /\ \A j \in 1..Len(l) : t[j] = s[p + j]
    <3>1. q - 2 = p + Len(l) /\ p + Len(l) <= Len(s)
      BY <1>3, <1>4, <1>5
    <3>2. \A x \in Nat, y \in Nat : x + y <= Len(s) =>
             LET w == SubSeq(s, x + 1, x + y)
             IN  w \in Strings /\ Len(w) = y /\ \A j \in 1..y : w[j] = s[x + j]
      BY DEF Strings
    <3>3. t = SubSeq(s, p + 1, p + Len(l))
      BY <3>1
    <3> HIDE DEF t
    <3> QED
      BY <1>3, <3>1, <3>2, <3>3
  <2> HIDE DEF t
  <2>2. \A j \in 1..Len(l) : t[j] = l[j]
    BY <1>7, <2>1
  <2>3. t = l
    BY <1>1, <2>1, <2>2, SeqEqual DEF Strings
  <2> QED
    BY <2>3 DEF t
<1>10. q = p + Len(l) + 2 /\ q \in Nat /\ q - 1 \in 1..Len(s) /\ q \in 1..Len(s)
  BY <1>3, <1>4, <1>5
<1> QED
  BY <1>3, <1>5, <1>6, <1>7, <1>8, <1>9, <1>10 DEF LineAt, a, l, g

(* The part of a text that reads w. *)
LEMMA PartIs ==
  ASSUME NEW s \in Strings, NEW w \in Strings, NEW i \in Nat, i + Len(w) <= Len(s),
         \A j \in 1..Len(w) : s[i + j] = w[j]
  PROVE  SubSeq(s, i + 1, i + Len(w)) = w
<1> DEFINE t == SubSeq(s, i + 1, i + Len(w))
<1>1. t \in Strings /\ Len(t) = Len(w) /\ \A j \in 1..Len(w) : t[j] = s[i + j]
  <2>1. Len(w) \in Nat
    BY DEF Strings
  <2>2. \A x \in Nat, y \in Nat : x + y <= Len(s) =>
           LET u == SubSeq(s, x + 1, x + y)
           IN  u \in Strings /\ Len(u) = y /\ \A j \in 1..y : u[j] = s[x + j]
    BY DEF Strings
  <2> QED
    BY <2>1, <2>2
<1> HIDE DEF t
<1>2. \A j \in 1..Len(w) : t[j] = w[j]
  BY <1>1
<1>3. t = w
  BY <1>1, <1>2, SeqEqual DEF Strings
<1> QED
  BY <1>3 DEF t

(* The first line of a message is split at its first two spaces.           *)
LineOf(a, b, c) == (((a \o <<SP>>) \o b) \o <<SP>>) \o c

(* Where its words are.                                                    *)
LEMMA LineOfIs ==
  ASSUME NEW a \in Strings, NEW b \in Strings, NEW c \in Strings
  PROVE  LET t == LineOf(a, b, c)
         IN  /\ t \in Strings /\ Len(t) = Len(a) + Len(b) + Len(c) + 2
             /\ Len(a) \in Nat /\ Len(b) \in Nat /\ Len(c) \in Nat
             /\ \A j \in 1..Len(a) : t[j] = a[j]
             /\ t[Len(a) + 1] = SP
             /\ \A j \in 1..Len(b) : t[Len(a) + 1 + j] = b[j]
             /\ t[Len(a) + Len(b) + 2] = SP
             /\ \A j \in 1..Len(c) : t[Len(a) + Len(b) + 2 + j] = c[j]
<1> DEFINE e == <<SP>>
           t1 == a \o e
           t2 == t1 \o b
           t3 == t2 \o e
           t == t3 \o c
<1>0. e \in Strings /\ Len(e) = 1 /\ e[1] = SP
  BY DEF Strings, Characters, Delimiters
<1> HIDE DEF e
<1>1. /\ t1 \in Strings /\ Len(t1) = Len(a) + 1 /\ Len(a) \in Nat
      /\ \A j \in 1..Len(a) : t1[j] = a[j]
      /\ t1[Len(a) + 1] = SP
  <2>1. /\ t1 \in Strings /\ Len(t1) = Len(a) + Len(e) /\ Len(a) \in Nat
        /\ \A j \in 1..Len(a) : t1[j] = a[j]
        /\ \A j \in 1..Len(e) : t1[Len(a) + j] = e[j]
    BY <1>0, TextJoined
  <2> QED
    BY <1>0, <2>1
<1> HIDE DEF t1
<1>2. /\ t2 \in Strings /\ Len(t2) = Len(a) + 1 + Len(b) /\ Len(b) \in Nat
      /\ \A j \in 1..Len(a) + 1 : t2[j] = t1[j]
      /\ \A j \in 1..Len(b) : t2[Len(a) + 1 + j] = b[j]
  <2>1. /\ t2 \in Strings /\ Len(t2) = Len(t1) + Len(b) /\ Len(b) \in Nat
        /\ \A j \in 1..Len(t1) : t2[j] = t1[j]
        /\ \A j \in 1..Len(b) : t2[Len(t1) + j] = b[j]
    BY <1>1, TextJoined
  <2> QED
    BY <1>1, <2>1
<1> HIDE DEF t2
<1>3. /\ t3 \in Strings /\ Len(t3) = Len(a) + Len(b) + 2
      /\ \A j \in 1..Len(a) + 1 + Len(b) : t3[j] = t2[j]
      /\ t3[Len(a) + Len(b) + 2] = SP
  <2>1. /\ t3 \in Strings /\ Len(t3) = Len(t2) + Len(e)
        /\ \A j \in 1..Len(t2) : t3[j] = t2[j]
        /\ \A j \in 1..Len(e) : t3[Len(t2) + j] = e[j]
    BY <1>0, <1>2, TextJoined
  <2>2. Len(a) + Len(b) + 2 = Len(t2) + 1 /\ 1 \in 1..Len(e)
    BY <1>0, <1>1, <1>2
  <2>3. Len(t3) = Len(a) + Len(b) + 2
    BY <1>0, <2>1, <2>2
  <2> QED
    BY <1>0, <1>2, <2>1, <2>2, <2>3
<1> HIDE DEF t3
<1>4. /\ t \in Strings /\ Len(t) = Len(a) + Len(b) + 2 + Len(c) /\ Len(c) \in Nat
      /\ \A j \in 1..Len(a) + Len(b) + 2 : t[j] = t3[j]
      /\ \A j \in 1..Len(c) : t[Len(a) + Len(b) + 2 + j] = c[j]
  <2>1. /\ t \in Strings /\ Len(t) = Len(t3) + Len(c) /\ Len(c) \in Nat
        /\ \A j \in 1..Len(t3) : t[j] = t3[j]
        /\ \A j \in 1..Len(c) : t[Len(t3) + j] = c[j]
    BY <1>3, TextJoined
  <2> QED
    BY <1>3, <2>1
<1> HIDE DEF t
<1>5. /\ \A j \in 1..Len(a) : t[j] = a[j]
      /\ t[Len(a) + 1] = SP
      /\ \A j \in 1..Len(b) : t[Len(a) + 1 + j] = b[j]
      /\ t[Len(a) + Len(b) + 2] = SP
  <2>1. \A j \in 1..Len(a) + 1 : /\ j \in 1..Len(a) + 1 + Len(b) /\ j \in 1..Len(a) + Len(b) + 2
                                 /\ t[j] = t1[j]
    BY <1>1, <1>2, <1>3, <1>4
  <2>2. \A j \in 1..Len(b) : /\ Len(a) + 1 + j \in 1..Len(a) + 1 + Len(b)
                             /\ Len(a) + 1 + j \in 1..Len(a) + Len(b) + 2
    BY <1>1, <1>2
  <2>3. Len(a) + Len(b) + 2 \in 1..Len(a) + Len(b) + 2 /\ Len(a) + 1 \in 1..Len(a) + 1
    BY <1>1, <1>2
  <2>4. \A j \in 1..Len(a) : j \in 1..Len(a) + 1
    BY <1>1
  <2> QED
    BY <1>1, <1>2, <1>3, <1>4, <2>1, <2>2, <2>3, <2>4
<1>6. Len(t) = Len(a) + Len(b) + Len(c) + 2
  BY <1>1, <1>2, <1>4
<1>7. t = LineOf(a, b, c)
  BY DEF t, t3, t2, t1, e, LineOf
<1> QED
  BY <1>1, <1>2, <1>4, <1>5, <1>6, <1>7

(* The places of the spaces that are found, and what is between them.      *)
LineIsSplit(a, b, c) ==
  LET t == LineOf(a, b, c)
      x == Find(t, SP, 1)
      y == Find(t, SP, x + 1)
  IN  /\ t \in Strings /\ x \in 1..Len(t) /\ y \in x + 1..Len(t)
      /\ t[x] = SP /\ t[y] = SP
      /\ \A j \in 1..x - 1 : t[j] # SP
      /\ \A j \in x + 1..y - 1 : t[j] # SP
      /\ (\A j \in 1..Len(a) : a[j] # SP) =>
           /\ SubSeq(t, 1, x - 1) = a
           /\ (\A j \in 1..Len(b) : b[j] # SP) =>
                SubSeq(t, x + 1, y - 1) = b /\ SubSeq(t, y + 1, Len(t)) = c

(* They are those between the words if these have none.                    *)
LEMMA LineSplit ==
  ASSUME NEW a \in Strings, NEW b \in Strings, NEW c \in Strings
  PROVE  LineIsSplit(a, b, c)
<1> DEFINE t == LineOf(a, b, c)
           x == Find(t, SP, 1)
           y == Find(t, SP, x + 1)
<1>1. /\ t \in Strings /\ Len(t) = Len(a) + Len(b) + Len(c) + 2
      /\ Len(a) \in Nat /\ Len(b) \in Nat /\ Len(c) \in Nat
      /\ \A j \in 1..Len(a) : t[j] = a[j]
      /\ t[Len(a) + 1] = SP
      /\ \A j \in 1..Len(b) : t[Len(a) + 1 + j] = b[j]
      /\ t[Len(a) + Len(b) + 2] = SP
      /\ \A j \in 1..Len(c) : t[Len(a) + Len(b) + 2 + j] = c[j]
  BY LineOfIs
<1> HIDE DEF t
<1>2. 1 \in 1..Len(t) + 1 /\ Len(t) \in Nat
  BY <1>1
<1>3. x \in 1..Len(t) + 1 /\ (\A h \in 1..x - 1 : t[h] # SP) /\ (x <= Len(t) => t[x] = SP)
  BY <1>1, <1>2, FindFrom
<1> HIDE DEF x
<1>4. x \in 1..Len(a) + 1
  <2> SUFFICES ASSUME ~(x <= Len(a) + 1) PROVE FALSE
    BY <1>2, <1>3
  <2>1. Len(a) + 1 \in 1..x - 1
    BY <1>1, <1>2, <1>3
  <2> QED
    BY <1>1, <1>3, <2>1
<1>5. x + 1 \in 1..Len(t) + 1
  BY <1>1, <1>2, <1>4
<1>6. y \in x + 1..Len(t) + 1 /\ (\A h \in x + 1..y - 1 : t[h] # SP) /\ (y <= Len(t) => t[y] = SP)
  BY <1>1, <1>5, FindFrom
<1> HIDE DEF y
<1>7. y \in x + 1..Len(a) + Len(b) + 2
  <2> SUFFICES ASSUME ~(y <= Len(a) + Len(b) + 2) PROVE FALSE
    BY <1>1, <1>2, <1>3, <1>6
  <2>1. Len(a) + Len(b) + 2 \in x + 1..y - 1
    BY <1>1, <1>4, <1>6
  <2> QED
    BY <1>1, <1>6, <2>1
<1>8. x \in 1..Len(t) /\ y \in x + 1..Len(t) /\ t[x] = SP /\ t[y] = SP
  <2>1. x <= Len(t) /\ y <= Len(t)
    BY <1>1, <1>4, <1>7
  <2> QED
    BY <1>1, <1>2, <1>3, <1>6, <2>1
<1>9. ASSUME \A j \in 1..Len(a) : a[j] # SP
      PROVE  x = Len(a) + 1 /\ SubSeq(t, 1, x - 1) = a
  <2>1. x = Len(a) + 1
    <3> SUFFICES ASSUME x # Len(a) + 1 PROVE FALSE
      OBVIOUS
    <3>1. x \in 1..Len(a)
      BY <1>1, <1>4
    <3> QED
      BY <1>1, <1>8, <1>9, <3>1
  <2>2. \A j \in 1..Len(a) : t[0 + j] = a[j]
    BY <1>1
  <2>3. SubSeq(t, 0 + 1, 0 + Len(a)) = a
    <3>1. 0 + Len(a) <= Len(t)
      BY <1>1
    <3> QED
      BY <1>1, <2>2, <3>1, PartIs
  <2>4. 0 + 1 = 1 /\ 0 + Len(a) = x - 1
    BY <1>1, <2>1
  <2> QED
    BY <2>1, <2>3, <2>4
<1>10. ASSUME \A j \in 1..Len(a) : a[j] # SP, \A j \in 1..Len(b) : b[j] # SP
       PROVE  SubSeq(t, x + 1, y - 1) = b /\ SubSeq(t, y + 1, Len(t)) = c
  <2>1. x = Len(a) + 1
    BY <1>9, <1>10
  <2>2. y = Len(a) + Len(b) + 2
    <3> SUFFICES ASSUME y # Len(a) + Len(b) + 2 PROVE FALSE
      OBVIOUS
    <3> DEFINE z == y - (Len(a) + 1)
    <3>1. y \in Int /\ Len(a) + 2 <= y /\ y <= Len(a) + Len(b) + 1
      <4>1. x \in Int /\ y \in Int /\ x + 1 <= y /\ y <= Len(a) + Len(b) + 2
        BY <1>1, <1>4, <1>7
      <4>2. Len(a) \in Int /\ Len(b) \in Int /\ y # Len(a) + Len(b) + 2
        BY <1>1
      <4> QED
        BY <2>1, <4>1, <4>2
    <3>2. z \in 1..Len(b) /\ Len(a) + 1 + z = y
      BY <1>1, <3>1
    <3> HIDE DEF z
    <3>3. t[y] = b[z] /\ b[z] # SP
      BY <1>1, <1>10, <3>2
    <3> QED
      BY <1>8, <3>3
  <2>3. SubSeq(t, x + 1, x + Len(b)) = b
    <3>1. \A j \in 1..Len(b) : t[x + j] = b[j]
      BY <1>1, <2>1
    <3>2. x \in Nat /\ x + Len(b) <= Len(t)
      BY <1>1, <2>1
    <3> QED
      BY <1>1, <3>1, <3>2, PartIs
  <2>4. SubSeq(t, y + 1, y + Len(c)) = c
    <3>1. \A j \in 1..Len(c) : t[y + j] = c[j]
      BY <1>1, <2>2
    <3>2. y \in Nat /\ y + Len(c) <= Len(t)
      BY <1>1, <2>2
    <3> QED
      BY <1>1, <3>1, <3>2, PartIs
  <2>5. x + Len(b) = y - 1 /\ y + Len(c) = Len(t)
    BY <1>1, <2>1, <2>2
  <2> QED
    BY <2>3, <2>4, <2>5
<1> QED
  BY <1>1, <1>3, <1>6, <1>8, <1>9, <1>10 DEF t, x, y, LineIsSplit

(* A header line is split at its first colon.                              *)
HeaderOf(k, v) == (k \o <<CO, SP>>) \o v

(* What split_value_line makes of it.                                      *)
LEMMA HeaderSplit ==
  ASSUME NEW k \in Strings, NEW v \in Strings
  PROVE  LET t == HeaderOf(k, v)
             d == Find(t, CO, 1)
             split == SplitValueLine(t)
         IN  /\ t \in Strings /\ t # <<>> /\ d \in 1..Len(t) - 1 /\ t[d] = CO
             /\ \A j \in 1..d - 1 : t[j] # CO
             /\ \A j \in 1..Len(split.key) : split.key[j] # CO
             /\ (\A j \in 1..Len(k) : k[j] # CO) => split.key = k /\ split.value = v
<1> DEFINE e == <<CO, SP>>
           h == k \o e
           t == h \o v
           d == Find(t, CO, 1)
           split == SplitValueLine(t)
           second == IF d < Len(t) /\ t[d + 1] = SP THEN d + 2 ELSE d + 1
<1>0. split.key = SubSeq(t, 1, d - 1) /\ split.value = SubSeq(t, second, Len(t))
  BY DEF SplitValueLine
<1>1. t = HeaderOf(k, v)
  BY DEF HeaderOf
<1>2. e \in Strings /\ Len(e) = 2 /\ e[1] = CO /\ e[2] = SP
  BY DEF Strings, Characters, Delimiters
<1> HIDE DEF e, split
<1>3. /\ h \in Strings /\ Len(h) = Len(k) + 2 /\ Len(k) \in Nat
      /\ \A j \in 1..Len(k) : h[j] = k[j]
      /\ h[Len(k) + 1] = CO /\ h[Len(k) + 2] = SP
  <2>1. /\ h \in Strings /\ Len(h) = Len(k) + Len(e) /\ Len(k) \in Nat
        /\ \A j \in 1..Len(k) : h[j] = k[j]
        /\ \A j \in 1..Len(e) : h[Len(k) + j] = e[j]
    BY <1>2, TextJoined
  <2> QED
    BY <1>2, <2>1
<1> HIDE DEF h
<1>4. /\ t \in Strings /\ Len(t) = Len(k) + 2 + Len(v) /\ Len(v) \in Nat
      /\ \A j \in 1..Len(k) + 2 : t[j] = h[j]
      /\ \A j \in 1..Len(v) : t[Len(k) + 2 + j] = v[j]
  <2>1. /\ t \in Strings /\ Len(t) = Len(h) + Len(v) /\ Len(v) \in Nat
        /\ \A j \in 1..Len(h) : t[j] = h[j]
        /\ \A j \in 1..Len(v) : t[Len(h) + j] = v[j]
    BY <1>3, TextJoined
  <2> QED
    BY <1>3, <2>1
<1> HIDE DEF t
<1>5. t[Len(k) + 1] = CO /\ t[Len(k) + 2] = SP /\ \A j \in 1..Len(k) : t[j] = k[j]
  <2>1. Len(k) + 1 \in 1..Len(k) + 2 /\ Len(k) + 2 \in 1..Len(k) + 2
    BY <1>3
  <2>2. \A j \in 1..Len(k) : j \in 1..Len(k) + 2
    BY <1>3
  <2> QED
    BY <1>3, <1>4, <2>1, <2>2
<1>6. d \in 1..Len(t) + 1 /\ (\A j \in 1..d - 1 : t[j] # CO) /\ (d <= Len(t) => t[d] = CO)
  <2>1. 1 \in 1..Len(t) + 1
    BY <1>3, <1>4
  <2> QED
    BY <1>4, <2>1, FindFrom
<1> HIDE DEF d
<1>7. d \in 1..Len(k) + 1
  <2> SUFFICES ASSUME ~(d <= Len(k) + 1) PROVE FALSE
    BY <1>3, <1>4, <1>6
  <2>1. Len(k) + 1 \in 1..d - 1
    BY <1>3, <1>4, <1>6
  <2> QED
    BY <1>5, <1>6, <2>1
<1>8. d \in 1..Len(t) - 1 /\ t[d] = CO
  BY <1>3, <1>4, <1>6, <1>7
<1>9. \A j \in 1..Len(split.key) : split.key[j] # CO
  <2>1. Len(SubSeq(t, 1, d - 1)) = d - 1 /\ \A j \in 1..d - 1 : SubSeq(t, 1, d - 1)[j] = t[j]
    BY <1>4, <1>8 DEF Strings
  <2> QED
    BY <1>0, <1>6, <2>1
<1>10. ASSUME \A j \in 1..Len(k) : k[j] # CO
       PROVE  split.key = k /\ split.value = v
  <2>1. d = Len(k) + 1
    <3> SUFFICES ASSUME d # Len(k) + 1 PROVE FALSE
      OBVIOUS
    <3>1. d \in 1..Len(k)
      BY <1>3, <1>7
    <3> QED
      BY <1>5, <1>8, <1>10, <3>1
  <2>2. SubSeq(t, 0 + 1, 0 + Len(k)) = k
    <3>1. 0 + Len(k) <= Len(t) /\ \A j \in 1..Len(k) : t[0 + j] = k[j]
      BY <1>3, <1>4, <1>5
    <3> QED
      BY <1>4, <3>1, PartIs
  <2>3. 0 + 1 = 1 /\ 0 + Len(k) = d - 1
    BY <1>3, <2>1
  <2> DEFINE i == Len(k) + 2
  <2>4. SubSeq(t, i + 1, i + Len(v)) = v
    <3>1. i \in Nat /\ i + Len(v) <= Len(t) /\ \A j \in 1..Len(v) : t[i + j] = v[j]
      BY <1>3, <1>4
    <3> HIDE DEF i
    <3> QED
      BY <1>4, <3>1, PartIs
  <2>5. second = i + 1 /\ i + Len(v) = Len(t)
    <3>1. d < Len(t) /\ d + 1 = Len(k) + 2 /\ d + 2 = i + 1
      BY <1>3, <1>4, <2>1
    <3>2. t[d + 1] = SP
      BY <1>5, <3>1
    <3>3. i + Len(v) = Len(t)
      BY <1>3, <1>4
    <3> QED
      BY <3>1, <3>2, <3>3
  <2> HIDE DEF i, second
  <2> QED
    BY <1>0, <2>2, <2>3, <2>4, <2>5
<1>11. t # <<>>
  BY <1>3, <1>4
<1> QED
  BY <1>1, <1>4, <1>6, <1>8, <1>9, <1>10, <1>11 DEF split, d

(* How line_source reads the n-th line: whole, or not at all. *)
LEMMA LineThere ==
  ASSUME NEW G, NEW L, NEW N, LinesTo(G, L, N), NEW n \in 1..N,
         NEW u \in Strings, Begins(u, G[N]), Len(G[n - 1]) <= Len(u)
  PROVE  LET p == Len(G[n - 1])
             q == Len(G[n])
         IN  /\ p \in Nat /\ q \in Nat /\ q <= Len(G[N]) /\ p + 1 \in 1..Len(u) + 1
             /\ q > Len(u) => Line(u, p + 1) = Nothing
             /\ q <= Len(u) => Line(u, p + 1) = [found |-> TRUE, text |-> L[n], next |-> q + 1]
<1> DEFINE p == Len(G[n - 1])
           q == Len(G[n])
           w == G[N]
<1>0. w \in Strings /\ Len(u) \in Nat /\ Len(w) \in Nat
  BY DEF LinesTo, Strings
<1>1. Begins(w, w) /\ Len(G[n]) <= Len(w)
  <2>1. Begins(w, w)
    BY <1>0 DEF Begins
  <2>2. \A k \in 0..N : G[k] \in Strings
    BY DEF LinesTo
  <2> QED
    BY <2>1, LinesGrow DEF Begins
<1>2. LineAt(w, p, q, L[n])
  BY <1>0, <1>1, LineIsAt
<1>3. /\ p \in Nat /\ q \in Nat /\ q <= Len(w) /\ q = p + Len(L[n]) + 2 /\ Len(L[n]) \in Nat
      /\ w[q - 1] = CR /\ w[q] = LF /\ \A j \in p + 1..q - 2 : w[j] # CR /\ w[j] # LF
  <2>1. Len(L[n]) \in Nat
    BY DEF LinesTo, Strings
  <2> QED
    BY <1>2, <2>1 DEF LineAt
<1> HIDE DEF p, q
<1>4. p + 1 \in 1..Len(u) + 1
  BY <1>0, <1>3 DEF p
<1>5. ASSUME q > Len(u) PROVE Line(u, p + 1) = Nothing
  <2>1. ASSUME NEW h \in p + 1..Len(u) PROVE u[h] # LF /\ (u[h] = CR => h = Len(u))
    <3>1. h \in 1..Len(u) /\ u[h] = w[h]
      BY <1>0, <1>3, <2>1 DEF Begins
    <3>2. h \in p + 1..q - 2 \/ (h = q - 1 /\ h = Len(u))
      BY <1>0, <1>3, <1>5, <2>1
    <3> QED
      BY <1>3, <3>1, <3>2, SameDelimiters DEF CR, LF
  <2> QED
    BY <1>4, <2>1, LineUnended
<1>6. ASSUME q <= Len(u)
      PROVE  Line(u, p + 1) = [found |-> TRUE, text |-> L[n], next |-> q + 1]
  <2>1. LineAt(u, p, q, L[n])
    BY <1>6, LineIsAt DEF p, q
  <2>2. /\ p + 1 \in 1..Len(u) /\ q - 1 \in p + 1..Len(u) /\ (q - 1) + 1 <= Len(u)
        /\ (q - 1) + 1 = q /\ (q - 1) - 1 = q - 2 /\ (q - 1) + 2 = q + 1
    <3>1. p \in Nat /\ q \in Nat /\ p + 2 <= q /\ q <= Len(u) /\ Len(u) \in Nat
      BY <1>0, <1>3, <1>6
    <3> QED
      BY <3>1
  <2>3. u[q - 1] = CR /\ u[(q - 1) + 1] = LF
    BY <2>1, <2>2 DEF LineAt
  <2>4. \A h \in p + 1..(q - 1) - 1 : u[h] # CR /\ u[h] # LF
    BY <2>1, <2>2 DEF LineAt
  <2>5. Line(u, p + 1) = [found |-> TRUE, text |-> SubSeq(u, p + 1, (q - 1) - 1), next |-> (q - 1) + 2]
    BY <2>2, <2>3, <2>4, LineToCr
  <2>6. SubSeq(u, p + 1, q - 2) = L[n]
    BY <2>1 DEF LineAt
  <2> QED
    BY <2>2, <2>5, <2>6
<1> QED
  BY <1>3, <1>4, <1>5, <1>6 DEF p, q

-----------------------------------------------------------------------------
(* What parse_request and parse_response read of a generated header.       *)

(* The lines are those of a message with the arguments a. *)
HeadersOf(L, K, a, N) ==
  \A n \in 2..N - 1 : /\ K[n] \in Strings /\ a[K[n]] \in Strings
                      /\ L[n] = HeaderOf(K[n], a[K[n]])

(* No key has a colon.                                                     *)
NoColons(A) == \A k \in DOMAIN A : \A j \in 1..Len(k) : k[j] # CO

(* No key from the n-th line on, or in front of it, has a colon. *)
Separated(K, m, n) == \A i \in m..n : \A j \in 1..Len(K[i]) : K[i][j] # CO

(* The arguments on the lines from m to n. *)
Entries(K, a, m, n) == [k \in {K[i] : i \in m..n} |-> a[k]]

(* split_value_line does not look behind the end of a line. *)
Within(t) == Find(t, CO, 1) < Len(t)

(* Arguments are found: those on the lines, unless a key has a colon.      *)
BatchFinds(h, K, a, m, n) ==
  \E A : /\ h = [found |-> TRUE, arguments |-> A]
         /\ IsTableOf(A) /\ NoColons(A)
         /\ Separated(K, m, n) => A = Entries(K, a, m, n)

(* The header lines behind the n-th line of a text that begins like G[N]. *)
BatchReads(u, G, K, a, N, n) ==
  /\ \A t \in HeaderTexts(u, Len(G[n]) + 1) : Within(t)
  /\ Len(u) < Len(G[N]) => HeaderLines(u, Len(G[n]) + 1) = Nothing
  /\ Len(u) = Len(G[N]) => BatchFinds(HeaderLines(u, Len(G[n]) + 1), K, a, n + 1, N - 1)

(* One more header line. *)
LEMMA BatchBefore ==
  ASSUME NEW K, NEW a, NEW m \in Nat, NEW n \in Nat, m <= n,
         K[m] \in Strings, a[K[m]] \in Strings,
         NEW later, BatchFinds(later, K, a, m + 1, n)
  PROVE  BatchFinds(HeaderBefore(HeaderOf(K[m], a[K[m]]), later), K, a, m, n)
<1> DEFINE k == K[m]
           v == a[K[m]]
           t == HeaderOf(k, v)
           x == SplitValueLine(t)
<1>1. PICK A : /\ later = [found |-> TRUE, arguments |-> A]
               /\ IsTableOf(A) /\ NoColons(A)
               /\ Separated(K, m + 1, n) => A = Entries(K, a, m + 1, n)
  BY DEF BatchFinds
<1>2. /\ \A j \in 1..Len(x.key) : x.key[j] # CO
      /\ (\A j \in 1..Len(k) : k[j] # CO) => x.key = k /\ x.value = v
  <2> HIDE DEF x
  <2> QED
    BY HeaderSplit DEF x
<1> DEFINE B == Inserted(A, x.key, x.value)
<1>3. HeaderBefore(t, later) = [found |-> TRUE, arguments |-> B]
  <2> HIDE DEF t
  <2>1. \A f, y, z : y = [found |-> f, arguments |-> A] =>
                       [y EXCEPT !.arguments = z] = [found |-> f, arguments |-> z]
    OBVIOUS
  <2>2. HeaderBefore(t, later) = [later EXCEPT !.arguments = Inserted(@, x.key, x.value)]
    BY <1>1 DEF HeaderBefore
  <2>3. later.arguments = A
    BY <1>1
  <2>4. HeaderBefore(t, later) = [later EXCEPT !.arguments = B]
    BY <2>2, <2>3, Zenon
  <2> HIDE DEF B
  <2> QED
    BY <1>1, <2>1, <2>4, Zenon
<1> HIDE DEF x, t
<1>4. IsTableOf(B) /\ DOMAIN B = DOMAIN A \cup {x.key}
  BY DEF Inserted, IsTableOf
<1>5. NoColons(B)
  BY <1>1, <1>2, <1>4 DEF NoColons
<1>6. ASSUME Separated(K, m, n) PROVE B = Entries(K, a, m, n)
  <2>1. Separated(K, m + 1, n) /\ \A j \in 1..Len(k) : k[j] # CO
    <3>1. m \in m..n /\ \A i \in m + 1..n : i \in m..n
      OBVIOUS
    <3> QED
      BY <1>6, <3>1 DEF Separated
  <2>2. x.key = k /\ x.value = v /\ A = Entries(K, a, m + 1, n)
    BY <1>1, <1>2, <2>1
  <2>3. {K[i] : i \in m..n} = {K[i] : i \in m + 1..n} \cup {k}
    <3>1. \A i : i \in m..n <=> i = m \/ i \in m + 1..n
      OBVIOUS
    <3> QED
      BY <3>1
  <2> QED
    BY <2>2, <2>3 DEF Entries, Inserted
<1> QED
  BY <1>1, <1>3, <1>4, <1>5, <1>6 DEF BatchFinds, t

(* One line more, from the last one to the first:                          *)
LEMMA BatchStep ==
  ASSUME NEW G, NEW L, NEW N, LinesTo(G, L, N), NEW K, NEW a, HeadersOf(L, K, a, N),
         NEW u \in Strings, Begins(u, G[N]), NEW n \in 1..N - 1, Len(G[n]) <= Len(u),
         n + 1 < N /\ Len(G[n + 1]) <= Len(u) => BatchReads(u, G, K, a, N, n + 1)
  PROVE  BatchReads(u, G, K, a, N, n)
<1> DEFINE p == Len(G[n])
           q == Len(G[n + 1])
           l == Line(u, p + 1)
<1>0. N \in Nat /\ n \in Nat /\ n + 1 \in 1..N /\ (n + 1) - 1 = n /\ Len(u) \in Nat /\ L[N] = <<>>
  BY DEF LinesTo, Strings
<1>1. /\ p \in Nat /\ q \in Nat /\ q <= Len(G[N]) /\ p + 1 \in 1..Len(u) + 1
      /\ q > Len(u) => l = Nothing
      /\ q <= Len(u) => l = [found |-> TRUE, text |-> L[n + 1], next |-> q + 1]
  <2>1. LET r == Len(G[(n + 1) - 1])
        IN  /\ r \in Nat /\ q \in Nat /\ q <= Len(G[N]) /\ r + 1 \in 1..Len(u) + 1
            /\ q > Len(u) => Line(u, r + 1) = Nothing
            /\ q <= Len(u) => Line(u, r + 1) = [found |-> TRUE, text |-> L[n + 1], next |-> q + 1]
    BY <1>0, LineThere
  <2> QED
    BY <1>0, <2>1
<1>2. Len(G[N]) \in Nat
  BY DEF LinesTo, Strings
<1> HIDE DEF p, q, l
<1>3. CASE q > Len(u)
  <2>1. ~l.found
    BY <1>1, <1>3 DEF Nothing
  <2>2. HeaderLines(u, p + 1) = Nothing /\ HeaderTexts(u, p + 1) = {}
    BY <1>1, <2>1, HeaderCases DEF l
  <2>3. Len(u) # Len(G[N])
    BY <1>0, <1>1, <1>2, <1>3
  <2> QED
    BY <2>2, <2>3 DEF BatchReads, p
<1>4. CASE q <= Len(u) /\ n + 1 = N
  <2>1. l.found /\ l.text = <<>>
    BY <1>0, <1>1, <1>4
  <2>2. HeaderLines(u, p + 1) = NoHeaders /\ HeaderTexts(u, p + 1) = {}
    BY <1>1, <2>1, HeaderCases DEF l
  <2>3. ~(Len(u) < Len(G[N]))
    BY <1>0, <1>1, <1>2, <1>4 DEF q
  <2>4. BatchFinds(NoHeaders, K, a, n + 1, N - 1)
    <3>1. IsTableOf(NoArguments) /\ DOMAIN NoArguments = {}
      BY DEF IsTableOf, NoArguments
    <3>2. NoColons(NoArguments)
      BY <3>1 DEF NoColons
    <3>3. NoArguments = Entries(K, a, n + 1, N - 1)
      <4>1. n + 1..N - 1 = {}
        BY <1>0, <1>4
      <4>2. {K[i] : i \in n + 1..N - 1} = {}
        BY <4>1
      <4> QED
        BY <4>2 DEF Entries, NoArguments
    <3> QED
      BY <3>1, <3>2, <3>3 DEF BatchFinds, NoHeaders
  <2> QED
    BY <2>2, <2>3, <2>4 DEF BatchReads, p
<1>5. CASE q <= Len(u) /\ n + 1 # N
  <2> DEFINE m == n + 1
             t == HeaderOf(K[m], a[K[m]])
  <2>1. m \in 2..N - 1 /\ m \in Nat /\ N - 1 \in Nat /\ m <= N - 1 /\ m < N /\ Len(G[m]) <= Len(u)
    BY <1>0, <1>5 DEF q
  <2>2. K[m] \in Strings /\ a[K[m]] \in Strings /\ L[m] = t
    BY <2>1 DEF HeadersOf
  <2>3. BatchReads(u, G, K, a, N, m)
    BY <2>1
  <2>4. t # <<>> /\ Within(t)
    <3> HIDE DEF t
    <3>1. t \in Strings /\ t # <<>> /\ Find(t, CO, 1) \in 1..Len(t) - 1
      BY <2>2, HeaderSplit DEF t
    <3> QED
      BY <3>1 DEF Within, Strings
  <2> HIDE DEF t
  <2>5. l.found /\ l.text = t /\ l.next = q + 1
    BY <1>1, <1>5, <2>2
  <2>6. /\ HeaderLines(u, p + 1) = HeaderBefore(t, HeaderLines(u, q + 1))
        /\ HeaderTexts(u, p + 1) = {t} \cup HeaderTexts(u, q + 1)
    BY <1>1, <2>4, <2>5, HeaderCases DEF l
  <2>7. \A x \in HeaderTexts(u, p + 1) : Within(x)
    BY <2>3, <2>4, <2>6 DEF BatchReads, q
  <2>8. ASSUME Len(u) < Len(G[N]) PROVE HeaderLines(u, p + 1) = Nothing
    <3>1. HeaderLines(u, q + 1) = Nothing
      BY <2>3, <2>8 DEF BatchReads, q
    <3> QED
      BY <2>6, <3>1 DEF HeaderBefore, Nothing
  <2>9. ASSUME Len(u) = Len(G[N]) PROVE BatchFinds(HeaderLines(u, p + 1), K, a, m, N - 1)
    <3>1. BatchFinds(HeaderLines(u, q + 1), K, a, m + 1, N - 1)
      BY <2>3, <2>9 DEF BatchReads, q
    <3> HIDE DEF m
    <3> QED
      BY <2>1, <2>2, <2>6, <3>1, BatchBefore DEF t
  <2> QED
    BY <2>7, <2>8, <2>9 DEF BatchReads, p
<1> QED
  BY <1>0, <1>1, <1>3, <1>4, <1>5

(* parse_request reads them all, from wherever it starts.                  *)
LEMMA BatchReadsAll ==
  ASSUME NEW G, NEW L, NEW N, LinesTo(G, L, N), NEW K, NEW a, HeadersOf(L, K, a, N),
         NEW u \in Strings, Begins(u, G[N]), NEW n \in 1..N - 1, Len(G[n]) <= Len(u)
  PROVE  BatchReads(u, G, K, a, N, n)
<1> DEFINE T == {k \in Nat : k \in 1..N - 1 /\ Len(G[k]) <= Len(u) => BatchReads(u, G, K, a, N, k)}
<1>0. N \in Nat /\ n \in Nat /\ n \in 0..N
  BY DEF LinesTo
<1>1. N \in T
  BY <1>0
<1>2. ASSUME NEW j \in T, j # 0, j <= N PROVE j - 1 \in T
  <2>0. j \in Nat /\ j - 1 \in Nat /\ (j - 1) + 1 = j
    BY <1>2
  <2>1. ASSUME j - 1 \in 1..N - 1, Len(G[j - 1]) <= Len(u) PROVE BatchReads(u, G, K, a, N, j - 1)
    <3>1. j < N /\ Len(G[j]) <= Len(u) => BatchReads(u, G, K, a, N, j)
      BY <1>0, <2>0
    <3> DEFINE i == j - 1
    <3>2. i \in 1..N - 1 /\ Len(G[i]) <= Len(u) /\ i + 1 = j
      BY <2>0, <2>1
    <3> HIDE DEF i, T
    <3>3. BatchReads(u, G, K, a, N, i)
      BY <3>1, <3>2, BatchStep
    <3> QED
      BY <3>3 DEF i
  <2> QED
    BY <2>0, <2>1
<1>3. T \in SUBSET Nat
  OBVIOUS
<1> HIDE DEF T
<1>4. \A j \in 0..N : j \in T
  BY <1>0, <1>1, <1>2, <1>3, BackwardInduction
<1> QED
  BY <1>0, <1>4 DEF T

(* What request_parser_sink reads of it: the request with a part of the    *)
(* arguments, and nothing is handed out yet.                               *)
SinkHas(A, K, a, n) ==
  IsTableOf(A) /\ NoColons(A) /\ (Separated(K, 2, n) => A = Entries(K, a, 2, n))

(* The parser is at the beginning of a header line or of the empty one.    *)
SinkReads(s, p, r, K, a, n) ==
  /\ \E A : /\ SinkHas(A, K, a, n)
            /\ Receiver!Readings(s)[p]
                 = Parser("key", Requested(r.method, r.path, r.http_version, A), <<>>, <<>>, <<>>)
  /\ ~CutOff(s, p)
  /\ \A i \in 0..p : Receiver!Readings(s)[i].output = <<>>

(* The words that parse_request or the sink find in the first line t. *)
SplitLine(t) ==
  LET x == Find(t, SP, 1)
      y == Find(t, SP, x + 1)
  IN  Requested(SubSeq(t, 1, x - 1), SubSeq(t, x + 1, y - 1), SubSeq(t, y + 1, Len(t)), NoArguments)

(* The first line, *)
LEMMA SinkReadsLine ==
  ASSUME NEW s \in Strings, NEW w \in Strings, NEW x \in Strings, NEW y \in Strings,
         NEW q, LineAt(s, 0, q, LineOf(w, x, y)), NEW K, NEW a
  PROVE  SinkReads(s, q, SplitLine(LineOf(w, x, y)), K, a, 1)
<1> DEFINE t == LineOf(w, x, y)
           c == Find(t, SP, 1)
           d == Find(t, SP, c + 1)
           e == q - 1
           M == SubSeq(t, 1, c - 1)
           P == SubSeq(t, c + 1, d - 1)
           H == SubSeq(t, d + 1, Len(t))
           none == <<>>
<1>1. /\ t \in Strings /\ c \in 1..Len(t) /\ d \in c + 1..Len(t)
      /\ t[c] = SP /\ t[d] = SP
      /\ \A j \in 1..c - 1 : t[j] # SP
      /\ \A j \in c + 1..d - 1 : t[j] # SP
  <2> HIDE DEF t, c, d
  <2> QED
    BY LineSplit DEF t, c, d, LineIsSplit
<1>2. SplitLine(t) = Requested(M, P, H, NoArguments)
  BY DEF SplitLine
<1>3. LineAt(s, 0, q, t)
  OBVIOUS
<1> HIDE DEF t, c, d
<1>4. /\ Len(t) \in Nat /\ q = Len(t) + 2 /\ e = Len(t) + 1 /\ e \in 1..Len(s) /\ e + 1 <= Len(s)
      /\ e + 1 = q /\ e \in Nat
  <2>1. Len(t) \in Nat /\ Len(s) \in Nat
    BY <1>1 DEF Strings
  <2>2. q = 0 + Len(t) + 2 /\ q <= Len(s)
    BY <1>3 DEF LineAt
  <2> QED
    BY <2>1, <2>2
<1>5. s[e] = CR /\ s[e + 1] = LF /\ \A j \in 1..e - 1 : s[j] # CR /\ s[j] = t[j]
  <2>1. /\ s[q - 1] = CR /\ s[q] = LF /\ (\A j \in 0 + 1..q - 2 : s[j] # CR)
        /\ \A j \in 1..Len(t) : s[0 + j] = t[j]
    BY <1>3 DEF LineAt
  <2>2. e - 1 = q - 2 /\ e - 1 = Len(t)
    BY <1>4
  <2> QED
    BY <1>4, <2>1, <2>2
<1>6. /\ c \in 1..e - 1 /\ d \in c + 1..e - 1 /\ s[c] = SP /\ s[d] = SP
      /\ \A j \in 1..c - 1 : s[j] # SP
      /\ \A j \in c + 1..d - 1 : s[j] # SP
  <2>1. /\ c \in 1..e - 1 /\ d \in c + 1..e - 1 /\ d \in 1..e - 1
        /\ (\A j \in 1..c - 1 : j \in 1..e - 1) /\ (\A j \in c + 1..d - 1 : j \in 1..e - 1)
    BY <1>1, <1>4
  <2> QED
    BY <1>1, <1>5, <2>1
<1>7. /\ M = SubSeq(s, 1, c - 1) /\ P = SubSeq(s, c + 1, d - 1) /\ H = SubSeq(s, d + 1, e - 1)
  <2>1. \A i \in Nat \ {0}, j \in Nat : j <= Len(t) => SubSeq(t, i, j) = SubSeq(s, i, j)
    <3> SUFFICES ASSUME NEW i \in Nat \ {0}, NEW j \in Nat, j <= Len(t)
                 PROVE  SubSeq(t, i, j) = SubSeq(s, i, j)
      OBVIOUS
    <3>1. 1 + j - 1 = j /\ 1 + i - 1 = i /\ 1 + j - 1 <= e - 1 /\ e - 1 <= Len(s) /\ 1 <= (e - 1) + 1
      BY <1>4
    <3>2. SubSeq(SubSeq(s, 1, e - 1), i, j) = SubSeq(s, 1 + i - 1, 1 + j - 1)
      BY <1>4, <3>1, PartOfPart
    <3>3. SubSeq(s, 1, e - 1) = t
      <4>1. SubSeq(s, 0 + 1, q - 2) = t
        BY <1>3 DEF LineAt
      <4>2. 0 + 1 = 1 /\ q - 2 = e - 1
        BY <1>4
      <4> QED
        BY <4>1, <4>2
    <3> QED
      BY <3>1, <3>2, <3>3
  <2>2. /\ c - 1 \in Nat /\ c + 1 \in Nat \ {0} /\ d - 1 \in Nat /\ d + 1 \in Nat \ {0}
        /\ c - 1 <= Len(t) /\ d - 1 <= Len(t) /\ e - 1 = Len(t)
    BY <1>1, <1>4
  <2>3. SubSeq(t, 1, c - 1) = SubSeq(s, 1, c - 1)
    BY <2>1, <2>2, SMTT(20)
  <2>4. SubSeq(t, c + 1, d - 1) = SubSeq(s, c + 1, d - 1)
    BY <2>1, <2>2
  <2>5. SubSeq(t, d + 1, Len(t)) = SubSeq(s, d + 1, Len(t))
    <3>1. d + 1 \in Nat \ {0} /\ Len(t) \in Nat /\ Len(t) <= Len(t)
      BY <1>4, <2>2
    <3> QED
      BY <2>1, <3>1
  <2> HIDE DEF e
  <2> QED
    BY <2>2, <2>3, <2>4, <2>5
<1> HIDE DEF M, P, H
<1> DEFINE M1 == SubSeq(s, 1, c - 1)
           P1 == SubSeq(s, c + 1, d - 1)
           H1 == SubSeq(s, d + 1, e - 1)
<1>8. /\ Receiver!Readings(s)[e + 1]
           = Parser("key", Requested(M1, P1, H1, NoArguments), none, none, none)
      /\ ~CutOff(s, e + 1)
      /\ \A i \in 0..e + 1 : Receiver!Readings(s)[i].output = none
  <2> HIDE DEF e
  <2>1. \A j \in 1..e - 1 : s[j] # CR
    BY <1>5
  <2> QED
    BY <1>4, <1>5, <1>6, <2>1, RequestLineRead
<1>9. SinkHas(NoArguments, K, a, 1)
  <2>1. IsTableOf(NoArguments) /\ DOMAIN NoArguments = {}
    BY DEF IsTableOf, NoArguments
  <2>2. Entries(K, a, 2, 1) = NoArguments
    <3>1. 2..1 = {}
      OBVIOUS
    <3>2. {K[i] : i \in 2..1} = {}
      BY <3>1
    <3> QED
      BY <3>2 DEF Entries, NoArguments
  <2> QED
    BY <2>1, <2>2 DEF SinkHas, NoColons
<1>10. /\ SplitLine(t).method = M /\ SplitLine(t).path = P /\ SplitLine(t).http_version = H
  BY <1>2 DEF Requested
<1>11. SinkReads(s, q, SplitLine(t), K, a, 1)
  BY <1>4, <1>7, <1>8, <1>9, <1>10 DEF SinkReads
<1> QED
  BY <1>11 DEF t

(* The words have no spaces, and are those of the line if these have none. *)
LEMMA SplitLineIs ==
  ASSUME NEW w \in Strings, NEW x \in Strings, NEW y \in Strings
  PROVE  LET r == SplitLine(LineOf(w, x, y))
         IN  /\ IsRequested(r)
             /\ \A j \in 1..Len(r.method) : r.method[j] # SP
             /\ \A j \in 1..Len(r.path) : r.path[j] # SP
             /\ (\A j \in 1..Len(w) : w[j] # SP) =>
                  /\ r.method = w
                  /\ (\A j \in 1..Len(x) : x[j] # SP) => r.path = x /\ r.http_version = y
<1> DEFINE t == LineOf(w, x, y)
           c == Find(t, SP, 1)
           d == Find(t, SP, c + 1)
           M == SubSeq(t, 1, c - 1)
           P == SubSeq(t, c + 1, d - 1)
           H == SubSeq(t, d + 1, Len(t))
           r == SplitLine(t)
<1>1. /\ t \in Strings /\ c \in 1..Len(t) /\ d \in c + 1..Len(t)
      /\ \A j \in 1..c - 1 : t[j] # SP
      /\ \A j \in c + 1..d - 1 : t[j] # SP
      /\ (\A j \in 1..Len(w) : w[j] # SP) =>
           /\ M = w
           /\ (\A j \in 1..Len(x) : x[j] # SP) => P = x /\ H = y
  <2>1. LineIsSplit(w, x, y)
    BY LineSplit
  <2> HIDE DEF t, c, d
  <2> QED
    BY <2>1 DEF LineIsSplit, t, c, d
<1>2. r = Requested(M, P, H, NoArguments)
  BY DEF SplitLine
<1> HIDE DEF t, c, d, r
<1>3. /\ M \in Strings /\ P \in Strings /\ H \in Strings
      /\ \A j \in 1..Len(M) : M[j] # SP
      /\ \A j \in 1..Len(P) : P[j] # SP
  <2>1. \A i, j \in Nat : i # 0 /\ i <= j + 1 /\ j <= Len(t) =>
           LET v == SubSeq(t, i, j)
           IN  v \in Strings /\ Len(v) = j - i + 1 /\ \A h \in 1..j - i + 1 : v[h] = t[h + i - 1]
    BY <1>1 DEF Strings
  <2>2. /\ c - 1 \in Nat /\ 1 <= (c - 1) + 1 /\ c - 1 <= Len(t)
        /\ c + 1 \in Nat /\ c + 1 # 0 /\ d - 1 \in Nat /\ c + 1 <= (d - 1) + 1 /\ d - 1 <= Len(t)
        /\ d + 1 \in Nat /\ d + 1 # 0 /\ Len(t) \in Nat /\ d + 1 <= Len(t) + 1
    BY <1>1 DEF Strings
  <2>3. M \in Strings /\ Len(M) = c - 1 /\ \A h \in 1..c - 1 : M[h] = t[h]
    <3>1. /\ M \in Strings /\ Len(M) = (c - 1) - 1 + 1
          /\ \A h \in 1..(c - 1) - 1 + 1 : M[h] = t[h + 1 - 1]
      BY <2>1, <2>2
    <3> QED
      BY <2>2, <3>1
  <2>4. /\ P \in Strings /\ Len(P) = (d - 1) - (c + 1) + 1
        /\ \A h \in 1..(d - 1) - (c + 1) + 1 : P[h] = t[h + (c + 1) - 1]
    BY <2>1, <2>2
  <2>5. H \in Strings
    BY <2>1, <2>2
  <2>6. ASSUME NEW j \in 1..Len(P) PROVE P[j] # SP
    <3> HIDE DEF P
    <3>1. j + (c + 1) - 1 \in c + 1..d - 1
      BY <2>2, <2>4
    <3> QED
      BY <1>1, <2>4, <3>1
  <2>7. \A j \in 1..Len(M) : M[j] # SP
    <3> HIDE DEF M
    <3> QED
      BY <1>1, <2>3
  <2> QED
    BY <2>3, <2>4, <2>5, <2>6, <2>7
<1> HIDE DEF M, P, H
<1>4. IsRequested(r)
  BY <1>2, <1>3, IsRequestedOf
<1>5. r.method = M /\ r.path = P /\ r.http_version = H
  BY <1>2 DEF Requested
<1> QED
  BY <1>1, <1>3, <1>4, <1>5 DEF r, t

(* a header line,                                                          *)
LEMMA SinkReadsHeader ==
  ASSUME NEW s \in Strings, NEW r, IsRequested(r), NEW K, NEW a, NEW n \in Nat, n >= 1,
         K[n + 1] \in Strings, a[K[n + 1]] \in Strings,
         NEW p, NEW q, LineAt(s, p, q, HeaderOf(K[n + 1], a[K[n + 1]])),
         SinkReads(s, p, r, K, a, n)
  PROVE  SinkReads(s, q, r, K, a, n + 1)
<1> DEFINE k == K[n + 1]
           t == HeaderOf(k, a[k])
           c == Find(t, CO, 1)
           e == q - 1
           d == p + c
           v == SplitValueLine(t)
           R(A) == Requested(r.method, r.path, r.http_version, A)
           none == <<>>
<1>1. /\ t \in Strings /\ c \in 1..Len(t) - 1 /\ t[c] = CO
      /\ \A j \in 1..c - 1 : t[j] # CO
      /\ \A j \in 1..Len(v.key) : v.key[j] # CO
      /\ (\A j \in 1..Len(k) : k[j] # CO) => v.key = k /\ v.value = a[k]
  <2> HIDE DEF t, c, v
  <2> QED
    BY HeaderSplit DEF t, c, v
<1> HIDE DEF t, c
<1>2. /\ p \in Nat /\ e \in Nat /\ Len(t) \in Nat /\ e = p + Len(t) + 1 /\ e + 1 = q /\ e + 1 <= Len(s)
      /\ s[e] = CR /\ s[e + 1] = LF
      /\ \A j \in p + 1..e - 1 : s[j] # CR
      /\ \A j \in 1..Len(t) : s[p + j] = t[j]
      /\ SubSeq(s, p + 1, e - 1) = t
  <2>1. LineAt(s, p, q, t)
    BY DEF t
  <2>2. /\ p \in Nat /\ q \in Nat /\ q = p + Len(t) + 2 /\ q <= Len(s) /\ Len(t) \in Nat
    BY <1>1, <2>1 DEF LineAt, Strings
  <2>3. e - 1 = q - 2 /\ e + 1 = q /\ e \in Nat /\ e = p + Len(t) + 1
    BY <2>2
  <2> HIDE DEF e
  <2> QED
    BY <2>1, <2>2, <2>3 DEF LineAt, e
<1> HIDE DEF e
<1>3. HeaderAt(s, p, d, e)
  <2>1. d \in p + 1..e - 1 /\ d = p + c
    BY <1>1, <1>2
  <2>2. s[d] = CO
    <3>1. c \in 1..Len(t)
      BY <1>1, <1>2
    <3> QED
      BY <1>1, <1>2, <3>1
  <2>3. ASSUME NEW j \in p + 1..d - 1 PROVE s[j] # CO
    <3>1. j - p \in 1..c - 1 /\ p + (j - p) = j /\ j - p \in 1..Len(t)
      BY <1>1, <1>2, <2>3
    <3> QED
      BY <1>1, <1>2, <3>1
  <2> HIDE DEF d
  <2> QED
    BY <1>2, <2>1, <2>2, <2>3 DEF HeaderAt
<1> HIDE DEF d
<1>4. PICK A : /\ SinkHas(A, K, a, n)
               /\ Receiver!Readings(s)[p] = Parser("key", R(A), <<>>, <<>>, none)
  BY DEF SinkReads
<1>5. ~CutOff(s, p) /\ \A i \in 0..p : Receiver!Readings(s)[i].output = none
  BY DEF SinkReads
<1> DEFINE B == Inserted(A, v.key, v.value)
<1>6. IsRequested(R(A)) /\ WithArgument(R(A), v.key, v.value) = R(B)
  <2>1. r.method \in Strings /\ r.path \in Strings /\ r.http_version \in Strings
    BY DEF IsRequested
  <2>2. IsRequested(R(A))
    BY <2>1, IsRequestedOf
  <2> HIDE DEF v
  <2>3. \A m, g, h, x, y : [Requested(m, g, h, x) EXCEPT !.arguments = y] = Requested(m, g, h, y)
    BY DEF Requested
  <2>4. R(A).arguments = A
    BY DEF Requested
  <2>5. WithArgument(R(A), v.key, v.value) = [R(A) EXCEPT !.arguments = B]
    <3> HIDE DEF R
    <3> QED
      BY <2>4, Zenon DEF WithArgument
  <2>6. WithArgument(R(A), v.key, v.value) = R(B)
    <3> HIDE DEF B
    <3> QED
      BY <2>3, <2>5
  <2> QED
    BY <2>2, <2>6
<1> HIDE DEF none
<1>7. HeaderIsRead(s, p, d, e, R(A), none)
  <2> HIDE DEF R
  <2> QED
    BY <1>2, <1>3, <1>4, <1>5, <1>6, HeaderRead
<1> USE DEF none
<1>8. /\ Receiver!Readings(s)[e + 1] = Parser("key", R(B), <<>>, <<>>, none) /\ ~CutOff(s, e + 1)
      /\ \A i \in p + 1..e + 1 : Receiver!Readings(s)[i].output = none
  <2> HIDE DEF R, none
  <2> QED
    BY <1>2, <1>6, <1>7 DEF HeaderIsRead
<1> HIDE DEF v
<1>9. SinkHas(B, K, a, n + 1)
  <2>1. IsTableOf(A) /\ NoColons(A) /\ (Separated(K, 2, n) => A = Entries(K, a, 2, n))
    BY <1>4 DEF SinkHas
  <2>2. IsTableOf(B) /\ DOMAIN B = DOMAIN A \cup {v.key}
    BY DEF Inserted, IsTableOf
  <2>3. NoColons(B)
    BY <1>1, <2>1, <2>2 DEF NoColons
  <2>4. ASSUME Separated(K, 2, n + 1) PROVE B = Entries(K, a, 2, n + 1)
    <3>0. n + 1 \in 2..n + 1 /\ \A i : i \in 2..n + 1 <=> i = n + 1 \/ i \in 2..n
      OBVIOUS
    <3>1. Separated(K, 2, n) /\ \A j \in 1..Len(k) : k[j] # CO
      BY <2>4, <3>0 DEF Separated
    <3>2. v.key = k /\ v.value = a[k] /\ A = Entries(K, a, 2, n)
      BY <1>1, <2>1, <3>1
    <3>3. {K[i] : i \in 2..n + 1} = {K[i] : i \in 2..n} \cup {k}
      BY <3>0
    <3>4. DOMAIN A = {K[i] : i \in 2..n} /\ \A x \in DOMAIN A : A[x] = a[x]
      BY <3>2 DEF Entries
    <3>5. B = [x \in DOMAIN A \cup {k} |-> a[x]]
      BY <3>2, <3>4 DEF Inserted
    <3> QED
      BY <3>3, <3>4, <3>5 DEF Entries
  <2> QED
    BY <2>2, <2>3, <2>4 DEF SinkHas
<1>10. \A i \in 0..q : Receiver!Readings(s)[i].output = none
  <2>1. \A i \in 0..q : i \in 0..p \/ i \in p + 1..e + 1
    BY <1>2
  <2> QED
    BY <1>5, <1>8, <2>1
<1> QED
  BY <1>2, <1>8, <1>9, <1>10 DEF SinkReads

(* The whole text as one that begins like itself. *)
LEMMA WholeText ==
  ASSUME NEW G, NEW L, NEW N, LinesTo(G, L, N), NEW n \in 1..N
  PROVE  /\ G[N] \in Strings /\ Begins(G[N], G[N]) /\ Len(G[n]) <= Len(G[N])
         /\ LineAt(G[N], Len(G[n - 1]), Len(G[n]), L[n])
<1>1. G[N] \in Strings
  BY DEF LinesTo
<1>2. Begins(G[N], G[N])
  BY <1>1 DEF Begins, Strings
<1>3. Len(G[n]) <= Len(G[N])
  BY LinesGrow DEF Begins
<1> QED
  BY <1>1, <1>2, <1>3, LineIsAt

(* line by line,                                                           *)
LEMMA SinkReadsAll ==
  ASSUME NEW G, NEW L, NEW N, LinesTo(G, L, N), NEW K, NEW a, HeadersOf(L, K, a, N),
         NEW w \in Strings, NEW x \in Strings, NEW y \in Strings, L[1] = LineOf(w, x, y),
         NEW n \in 1..N - 1
  PROVE  SinkReads(G[N], Len(G[n]), SplitLine(L[1]), K, a, n)
<1> DEFINE s == G[N]
           r == SplitLine(L[1])
           ReadTo(k) == SinkReads(s, Len(G[k]), r, K, a, k)
           T == {k \in Nat : k + 1 <= N - 1 => ReadTo(k + 1)}
<1>0. N \in Nat /\ 1 \in 1..N /\ s \in Strings /\ IsRequested(r)
  BY SplitLineIs DEF LinesTo
<1>1. 0 \in T
  <2>1. LineAt(s, Len(G[1 - 1]), Len(G[1]), L[1])
    BY <1>0, WholeText
  <2>2. 1 - 1 = 0 /\ Len(G[0]) = 0
    BY DEF LinesTo
  <2>3. LineAt(s, 0, Len(G[1]), LineOf(w, x, y))
    BY <2>1, <2>2
  <2>4. ReadTo(1)
    BY <1>0, <2>3, SinkReadsLine
  <2> QED
    BY <2>4
<1>2. ASSUME NEW k \in T PROVE k + 1 \in T
  <2>0. k \in Nat /\ (k + 1 <= N - 1 => ReadTo(k + 1))
    OBVIOUS
  <2> HIDE DEF T, ReadTo
  <2> SUFFICES ASSUME (k + 1) + 1 <= N - 1 PROVE ReadTo((k + 1) + 1)
    BY <2>0 DEF T
  <2> DEFINE m == k + 1
             h == m + 1
  <2>1. /\ m \in Nat /\ m >= 1 /\ h \in 2..N - 1 /\ h \in 1..N /\ h - 1 = m /\ m <= N - 1
    BY <1>0, <2>0
  <2>2. ReadTo(m)
    BY <2>0, <2>1
  <2> HIDE DEF m
  <2>3. LineAt(s, Len(G[m]), Len(G[h]), L[h])
    <3> HIDE DEF h
    <3>1. LineAt(s, Len(G[h - 1]), Len(G[h]), L[h])
      BY <2>1, WholeText
    <3> QED
      BY <2>1, <3>1
  <2>4. K[h] \in Strings /\ a[K[h]] \in Strings /\ L[h] = HeaderOf(K[h], a[K[h]])
    <3> HIDE DEF h
    <3> QED
      BY <2>1 DEF HeadersOf
  <2>5. LineAt(s, Len(G[m]), Len(G[h]), HeaderOf(K[m + 1], a[K[m + 1]]))
    BY <2>3, <2>4
  <2>6. SinkReads(s, Len(G[m]), r, K, a, m)
    BY <2>2 DEF ReadTo
  <2> HIDE DEF s, r
  <2>7. SinkReads(s, Len(G[h]), r, K, a, m + 1)
    BY <1>0, <2>1, <2>4, <2>5, <2>6, SinkReadsHeader
  <2> QED
    BY <2>7 DEF ReadTo, m
<1> HIDE DEF T
<1>3. T \in SUBSET Nat
  BY DEF T
<1>4. T = Nat
  BY <1>1, <1>2, <1>3, SetInduction
<1>5. n - 1 \in T /\ (n - 1) + 1 = n /\ n <= N - 1
  BY <1>0, <1>4
<1> QED
  BY <1>5 DEF T, ReadTo

(* and at last the empty line.                                             *)
SinkHandsOut(s, r, K, a, n) ==
  /\ ~CutOff(s, Len(s))
  /\ \E A : /\ SinkHas(A, K, a, n)
            /\ Receiver!Readings(s)[Len(s)].output
                 = <<Requested(r.method, r.path, r.http_version, A)>>

(* The request is handed out at the empty line.                            *)
LEMMA SinkReadsMessage ==
  ASSUME NEW G, NEW L, NEW N, LinesTo(G, L, N), NEW K, NEW a, HeadersOf(L, K, a, N),
         NEW w \in Strings, NEW x \in Strings, NEW y \in Strings, L[1] = LineOf(w, x, y)
  PROVE  SinkHandsOut(G[N], SplitLine(L[1]), K, a, N - 1)
<1> DEFINE s == G[N]
           r == SplitLine(L[1])
           p == Len(G[N - 1])
           R(A) == Requested(r.method, r.path, r.http_version, A)
           none == <<>>
<1>0. N \in Nat /\ N \in 1..N /\ N - 1 \in 1..N - 1 /\ L[N] = <<>>
  BY DEF LinesTo
<1>1. SinkReads(s, p, r, K, a, N - 1)
  BY <1>0, SinkReadsAll
<1>2. s \in Strings /\ LineAt(s, p, Len(s), <<>>)
  BY <1>0, WholeText
<1>3. IsRequested(r)
  BY SplitLineIs
<1> HIDE DEF p, s, r
<1>4. /\ p \in Nat /\ p + 2 = Len(s) /\ p + 2 <= Len(s) /\ p + 1 <= Len(s)
      /\ s[p + 1] = CR /\ s[p + 2] = LF
  <2>1. Len(<<>>) = 0
    OBVIOUS
  <2>2. p \in Nat /\ Len(s) \in Nat /\ Len(s) = p + 0 + 2 /\ s[Len(s) - 1] = CR /\ s[Len(s)] = LF
    BY <1>2, <2>1 DEF LineAt
  <2>3. p + 2 = Len(s) /\ Len(s) - 1 = p + 1
    BY <2>2
  <2> QED
    BY <2>2, <2>3
<1>5. PICK A : /\ SinkHas(A, K, a, N - 1)
               /\ Receiver!Readings(s)[p] = Parser("key", R(A), <<>>, <<>>, none)
  BY <1>1 DEF SinkReads
<1>6. ~CutOff(s, p)
  BY <1>1 DEF SinkReads
<1>7. IsRequested(R(A))
  BY <1>3, IsRequestedOf DEF IsRequested
<1> HIDE DEF R
<1> DEFINE O == Append(none, R(A))
<1>8. O = <<R(A)>>
  OBVIOUS
<1> HIDE DEF none
<1>9. /\ IsParser(Receiver!Readings(s)[p + 1])
      /\ Receiver!Readings(s)[p + 2] = Parser("method", Receiver!EmptyRequest, <<>>, <<>>, O)
  <2> HIDE DEF O
  <2> QED
    BY <1>2, <1>4, <1>5, <1>6, <1>7, EmptyLineRead DEF O
<1> HIDE DEF O
<1>10. Receiver!Readings(s)[Len(s)].output = <<R(A)>>
  BY <1>4, <1>8, <1>9 DEF Parser
<1>11. ~CutOff(s, Len(s))
  <2>1. Receiver!Readings(s)[p].key = <<>>
    BY <1>5 DEF Parser
  <2>2. ~CutOff(s, p + 1)
    BY <1>4, <1>6, <2>1, NotCutOffThere
  <2> DEFINE m == p + 1
  <2>3. m \in Nat /\ s[m + 1] # CR /\ m + 1 = Len(s)
    <3>1. m + 1 = p + 2
      BY <1>4
    <3> QED
      BY <1>4, <3>1, SameDelimiters DEF CR, LF
  <2>4. ~CutOff(s, m + 1)
    <3> HIDE DEF m
    <3> QED
      BY <2>2, <2>3, NotCutOffThere DEF m
  <2> QED
    BY <2>3, <2>4
<1> QED
  BY <1>5, <1>10, <1>11 DEF SinkHandsOut, R, s, r

-----------------------------------------------------------------------------
(* A generated header as a whole.                                          *)

(* The text t is the header with the words w, x, y and the arguments a.    *)
Spells(t, w, x, y, a) ==
  \E G, L, N, K : /\ LinesTo(G, L, N) /\ HeadersOf(L, K, a, N)
                  /\ L[1] = LineOf(w, x, y)
                  /\ {K[i] : i \in 2..N - 1} = DOMAIN a
                  /\ G[N] = t

(* The arguments A that a parser has found in a header with those of a.    *)
HasRead(A, a) == IsTableOf(A) /\ NoColons(A) /\ (NoColons(a) => A = a)

(* What parse_request and parse_response look at of a text u that begins   *)
(* like the header t with the first line l and the arguments a.            *)
BatchSees(u, t, l, a) ==
  LET first == Line(u, 1)
      headers == HeaderLines(u, first.next)
  IN  /\ ReadsWithin(u)
      /\ ~first.found => Len(u) < Len(t)
      /\ first.found => /\ first.text = l
                        /\ Len(u) < Len(t) => headers = Nothing
                        /\ Len(u) = Len(t) =>
                             \E A : HasRead(A, a) /\ headers = [found |-> TRUE, arguments |-> A]

(* All its arguments are read. *)
LEMMA EntriesAreAll ==
  ASSUME NEW K, NEW a, IsTable(a), NEW n, {K[i] : i \in 2..n} = DOMAIN a
  PROVE  NoColons(a) => Separated(K, 2, n) /\ Entries(K, a, 2, n) = a
<1>1. a = [k \in DOMAIN a |-> a[k]]
  BY DEF IsTable
<1>2. Entries(K, a, 2, n) = a
  BY <1>1 DEF Entries
<1>3. NoColons(a) => Separated(K, 2, n)
  BY DEF NoColons, Separated
<1> QED
  BY <1>2, <1>3

(* A text that begins like a header is read line by line.                  *)
LEMMA HeaderSeen ==
  ASSUME NEW t, NEW w \in Strings, NEW x \in Strings, NEW y \in Strings, NEW a, IsTable(a),
         Spells(t, w, x, y, a), NEW u \in Strings, Begins(u, t)
  PROVE  BatchSees(u, t, LineOf(w, x, y), a)
<1>1. PICK G, L, N, K : /\ LinesTo(G, L, N) /\ HeadersOf(L, K, a, N)
                        /\ L[1] = LineOf(w, x, y)
                        /\ {K[i] : i \in 2..N - 1} = DOMAIN a
                        /\ G[N] = t
  BY DEF Spells
<1> DEFINE q == Len(G[1])
           l == Line(u, 1)
           headers == HeaderLines(u, l.next)
<1>2. /\ N \in Nat /\ N >= 2 /\ 1 \in 1..N /\ 1 \in 1..N - 1 /\ 1 - 1 = 0 /\ Len(G[0]) = 0 /\ 0 + 1 = 1
      /\ Len(u) \in Nat /\ 0 <= Len(u) /\ Len(t) \in Nat
  BY <1>1 DEF LinesTo, Strings
<1>3. /\ q \in Nat /\ q <= Len(t)
      /\ q > Len(u) => l = Nothing
      /\ q <= Len(u) => l = [found |-> TRUE, text |-> L[1], next |-> q + 1]
  <2>1. ASSUME NEW n, n = 1
        PROVE  LET p == Len(G[n - 1])
                   m == Len(G[n])
               IN  /\ p \in Nat /\ m \in Nat /\ m <= Len(G[N]) /\ p + 1 \in 1..Len(u) + 1
                   /\ m > Len(u) => Line(u, p + 1) = Nothing
                   /\ m <= Len(u) => Line(u, p + 1) = [found |-> TRUE, text |-> L[n], next |-> m + 1]
    <3>1. n \in 1..N /\ Len(G[n - 1]) <= Len(u)
      BY <1>2, <2>1
    <3> QED
      BY <1>1, <3>1, LineThere
  <2> QED
    BY <1>1, <1>2, <2>1
<1>4. CASE q > Len(u)
  <2>1. ~l.found /\ Len(u) < Len(t)
    BY <1>2, <1>3, <1>4 DEF Nothing
  <2> QED
    BY <2>1 DEF BatchSees, ReadsWithin
<1>5. CASE q <= Len(u)
  <2>1. BatchReads(u, G, K, a, N, 1)
    BY <1>1, <1>2, <1>5, BatchReadsAll
  <2>2. l.found /\ l.text = LineOf(w, x, y) /\ l.next = q + 1
    BY <1>1, <1>3, <1>5
  <2> HIDE DEF l
  <2>3. /\ \A z \in HeaderTexts(u, l.next) : Within(z)
        /\ Len(u) < Len(t) => headers = Nothing
        /\ Len(u) = Len(t) => BatchFinds(headers, K, a, 2, N - 1)
    <3>1. 1 + 1 = 2
      OBVIOUS
    <3> QED
      BY <1>1, <2>1, <2>2, <3>1 DEF BatchReads
  <2>4. ReadsWithin(u)
    BY <2>3 DEF ReadsWithin, Within, l
  <2>5. ASSUME Len(u) = Len(t)
        PROVE  \E A : HasRead(A, a) /\ headers = [found |-> TRUE, arguments |-> A]
    <3>1. PICK A : /\ headers = [found |-> TRUE, arguments |-> A]
                   /\ IsTableOf(A) /\ NoColons(A)
                   /\ Separated(K, 2, N - 1) => A = Entries(K, a, 2, N - 1)
      BY <2>3, <2>5 DEF BatchFinds
    <3>2. NoColons(a) => A = a
      BY <1>1, <3>1, EntriesAreAll
    <3> QED
      BY <3>1, <3>2 DEF HasRead
  <2> HIDE DEF headers
  <2> QED
    BY <2>2, <2>3, <2>4, <2>5 DEF BatchSees, l, headers
<1> QED
  BY <1>2, <1>3, <1>4, <1>5

(* What the sink has when such a header has gone through it,               *)
LEMMA SinkGetsHeader ==
  ASSUME NEW t, NEW w \in Strings, NEW x \in Strings, NEW y \in Strings, NEW a, IsTable(a),
         Spells(t, w, x, y, a)
  PROVE  /\ t \in Strings /\ Len(t) - 2 \in Nat
         /\ ~CutOff(t, Len(t))
         /\ \A i \in 0..Len(t) - 2 : Receiver!Readings(t)[i].output = <<>>
         /\ \E A : /\ HasRead(A, a)
                   /\ LET r == SplitLine(LineOf(w, x, y))
                      IN  Receiver!Readings(t)[Len(t)].output
                            = <<Requested(r.method, r.path, r.http_version, A)>>
<1>1. PICK G, L, N, K : /\ LinesTo(G, L, N) /\ HeadersOf(L, K, a, N)
                        /\ L[1] = LineOf(w, x, y)
                        /\ {K[i] : i \in 2..N - 1} = DOMAIN a
                        /\ G[N] = t
  BY DEF Spells
<1> DEFINE r == SplitLine(LineOf(w, x, y))
<1>2. SinkHandsOut(t, r, K, a, N - 1)
  BY <1>1, SinkReadsMessage
<1>3. N \in Nat /\ N - 1 \in 1..N - 1 /\ N \in 1..N /\ t \in Strings /\ L[N] = <<>> /\ Len(<<>>) = 0
  BY <1>1 DEF LinesTo
<1>4. Len(G[N - 1]) = Len(t) - 2 /\ Len(t) - 2 \in Nat
  <2>1. LineAt(t, Len(G[N - 1]), Len(t), <<>>)
    BY <1>1, <1>3, WholeText
  <2>2. Len(G[N - 1]) \in Nat /\ Len(t) \in Nat /\ Len(t) = Len(G[N - 1]) + 0 + 2
    BY <1>3, <2>1 DEF LineAt
  <2> QED
    BY <2>2
<1>5. SinkReads(t, Len(G[N - 1]), r, K, a, N - 1)
  BY <1>1, <1>3, SinkReadsAll
<1>6. \A i \in 0..Len(t) - 2 : Receiver!Readings(t)[i].output = <<>>
  BY <1>4, <1>5 DEF SinkReads
<1> HIDE DEF r
<1>7. PICK A : /\ SinkHas(A, K, a, N - 1)
               /\ Receiver!Readings(t)[Len(t)].output
                    = <<Requested(r.method, r.path, r.http_version, A)>>
  BY <1>2 DEF SinkHandsOut
<1>8. HasRead(A, a)
  <2>1. NoColons(a) => A = a
    BY <1>1, <1>7, EntriesAreAll DEF SinkHas
  <2> QED
    BY <1>7, <2>1 DEF SinkHas, HasRead
<1>9. ~CutOff(t, Len(t))
  BY <1>2 DEF SinkHandsOut
<1> QED
  BY <1>3, <1>4, <1>6, <1>7, <1>8, <1>9 DEF r

(* The sender's definitions are those here, too. *)
LEMMA SendersTexts ==
  /\ Sender!SP = SP /\ Sender!CO = CO /\ Sender!CR = CR /\ Sender!LF = LF
  /\ Sender!Nothing = Nothing
  /\ \A t, c, i : Sender!Find(t, c, i) = Find(t, c, i)
  /\ \A t, i : Sender!Line(t, i) = Line(t, i)
  /\ \A t, i : Sender!HeaderLines(t, i) = HeaderLines(t, i)
<1>1. Sender!SP = SP /\ Sender!CO = CO /\ Sender!CR = CR /\ Sender!LF = LF /\ Sender!Nothing = Nothing
  BY DEF Sender!SP, Sender!CO, Sender!CR, Sender!LF, SP, CO, CR, LF, Sender!Nothing, Nothing
<1>2. \A t, c, i : Sender!Find(t, c, i) = Find(t, c, i)
  BY DEF Find, Sender!Find
<1>3. \A t, i : Sender!Line(t, i) = Line(t, i)
  BY <1>1 DEF Line, Sender!Line, Nothing, Sender!Nothing
<1>4. \A t, i : Sender!HeaderLines(t, i) = HeaderLines(t, i)
  BY <1>1 DEF HeaderLines, Sender!HeaderLines, Line, Sender!Line, Nothing, Sender!Nothing,
     SplitValueLine, Sender!SplitValueLine, Find, Sender!Find, Inserted, Sender!Inserted,
     NoArguments, Sender!NoArguments
<1> QED
  BY <1>1, <1>2, <1>3, <1>4

(* parse_request of the sender is the one here.                            *)
LEMMA SendersParser ==
  ASSUME NEW s
  PROVE  Sender!ParseRequest(s) = ParseRequest(s)
BY SendersTexts DEF ParseRequest, Sender!ParseRequest

(* parse_request on a text that begins like a header.                      *)
LEMMA RequestParsed ==
  ASSUME NEW t, NEW w \in Strings, NEW x \in Strings, NEW y \in Strings, NEW a, NEW u,
         BatchSees(u, t, LineOf(w, x, y), a)
  PROVE  /\ Len(u) < Len(t) => ~ParseRequest(u).found
         /\ Len(u) = Len(t) =>
              \E A : /\ HasRead(A, a)
                     /\ LET r == SplitLine(LineOf(w, x, y))
                        IN  ParseRequest(u) = [found |-> TRUE, method |-> r.method, path |-> r.path,
                                               http_version |-> r.http_version, arguments |-> A]
<1> DEFINE first == Line(u, 1)
           l == first.text
           headers == HeaderLines(u, first.next)
           b == Find(l, SP, 1)
           e == Find(l, SP, b + 1)
           incomplete == b > Len(l) \/ e > Len(l) \/ ~headers.found
           request == [found |-> TRUE,
                       method |-> SubSeq(l, 1, b - 1), path |-> SubSeq(l, b + 1, e - 1),
                       http_version |-> SubSeq(l, e + 1, Len(l)),
                       arguments |-> headers.arguments]
<1>1. ParseRequest(u) = IF ~first.found THEN Nothing ELSE IF incomplete THEN Nothing ELSE request
  BY DEF ParseRequest
<1>2. /\ ~first.found => Len(u) < Len(t)
      /\ first.found => /\ l = LineOf(w, x, y)
                        /\ Len(u) < Len(t) => headers = Nothing
                        /\ Len(u) = Len(t) =>
                             \E A : HasRead(A, a) /\ headers = [found |-> TRUE, arguments |-> A]
  BY DEF BatchSees
<1>3. Nothing.found = FALSE
  BY DEF Nothing
<1>4. ASSUME Len(u) < Len(t) PROVE ~ParseRequest(u).found
  <2>1. first.found => incomplete
    <3> HIDE DEF headers, l, b, e
    <3> QED
      BY <1>2, <1>3, <1>4
  <2> HIDE DEF incomplete, request, first
  <2> QED
    BY <1>1, <1>3, <2>1
<1>5. ASSUME Len(u) = Len(t), first.found
      PROVE  \E A : /\ HasRead(A, a)
                    /\ LET r == SplitLine(LineOf(w, x, y))
                       IN  ParseRequest(u) = [found |-> TRUE, method |-> r.method, path |-> r.path,
                                              http_version |-> r.http_version, arguments |-> A]
  <2> DEFINE r == SplitLine(l)
  <2>1. l = LineOf(w, x, y)
    BY <1>2, <1>5
  <2>2. PICK A : HasRead(A, a) /\ headers = [found |-> TRUE, arguments |-> A]
    BY <1>2, <1>5
  <2>3. b \in 1..Len(l) /\ e \in b + 1..Len(l)
    <3>1. LineIsSplit(w, x, y)
      BY LineSplit
    <3> QED
      BY <2>1, <3>1 DEF LineIsSplit
  <2>4. /\ r.method = SubSeq(l, 1, b - 1) /\ r.path = SubSeq(l, b + 1, e - 1)
        /\ r.http_version = SubSeq(l, e + 1, Len(l))
    BY DEF SplitLine, Requested
  <2> HIDE DEF first, l, headers, b, e, r
  <2>5. ~incomplete
    <3>1. l \in Strings
      BY <2>1, LineOfIs
    <3>2. ~(b > Len(l)) /\ ~(e > Len(l))
      BY <2>3, <3>1 DEF Strings
    <3> QED
      BY <2>2, <3>2
  <2>6. ParseRequest(u) = request
    <3> HIDE DEF incomplete, request
    <3> QED
      BY <1>1, <1>5, <2>5
  <2>7. ParseRequest(u) = [found |-> TRUE, method |-> r.method, path |-> r.path,
                           http_version |-> r.http_version, arguments |-> A]
    BY <2>2, <2>4, <2>6
  <2> QED
    BY <2>1, <2>2, <2>7 DEF r
<1>6. Len(u) = Len(t) => first.found \/ Len(u) < Len(t)
  BY <1>2
<1> QED
  BY <1>2, <1>4, <1>5, <1>6

(* parse_response on one.                                                  *)
LEMMA ResponseParsed ==
  ASSUME NEW t, NEW w \in Strings, NEW x \in Strings, NEW y \in Strings, NEW a, NEW u,
         BatchSees(u, t, LineOf(w, x, y), a)
  PROVE  /\ Len(u) < Len(t) => ~Sender!ParseResponse(u).found
         /\ Len(u) = Len(t) =>
              \E A : /\ HasRead(A, a)
                     /\ LET r == SplitLine(LineOf(w, x, y))
                        IN  Sender!ParseResponse(u) =
                              IF r.path \in DOMAIN Numerals
                                THEN [found |-> TRUE, http_version |-> r.method,
                                      status |-> Numerals[r.path], status_text |-> r.http_version,
                                      arguments |-> A]
                                ELSE Nothing
<1> DEFINE first == Line(u, 1)
           l == first.text
           headers == HeaderLines(u, first.next)
           b == Find(l, SP, 1)
           e == Find(l, SP, b + 1)
           status == SubSeq(l, b + 1, e - 1)
           incomplete == b > Len(l) \/ e > Len(l) \/ status \notin DOMAIN Numerals \/ ~headers.found
           response == [found |-> TRUE,
                        http_version |-> SubSeq(l, 1, b - 1), status |-> Numerals[status],
                        status_text |-> SubSeq(l, e + 1, Len(l)),
                        arguments |-> headers.arguments]
<1>1. Sender!ParseResponse(u) = IF ~first.found THEN Nothing
                                ELSE IF incomplete THEN Nothing ELSE response
  BY SendersTexts DEF Sender!ParseResponse
<1>2. /\ ~first.found => Len(u) < Len(t)
      /\ first.found => /\ l = LineOf(w, x, y)
                        /\ Len(u) < Len(t) => headers = Nothing
                        /\ Len(u) = Len(t) =>
                             \E A : HasRead(A, a) /\ headers = [found |-> TRUE, arguments |-> A]
  BY DEF BatchSees
<1>3. Nothing.found = FALSE
  BY DEF Nothing
<1>4. ASSUME Len(u) < Len(t) PROVE ~Sender!ParseResponse(u).found
  <2>1. first.found => incomplete
    <3> HIDE DEF headers, l, b, e, status
    <3> QED
      BY <1>2, <1>3, <1>4
  <2> HIDE DEF incomplete, response, first
  <2> QED
    BY <1>1, <1>3, <2>1
<1>5. ASSUME Len(u) = Len(t), first.found
      PROVE  \E A : /\ HasRead(A, a)
                    /\ LET r == SplitLine(LineOf(w, x, y))
                       IN  Sender!ParseResponse(u) =
                             IF r.path \in DOMAIN Numerals
                               THEN [found |-> TRUE, http_version |-> r.method,
                                     status |-> Numerals[r.path], status_text |-> r.http_version,
                                     arguments |-> A]
                               ELSE Nothing
  <2> DEFINE r == SplitLine(l)
  <2>1. l = LineOf(w, x, y)
    BY <1>2, <1>5
  <2>2. PICK A : HasRead(A, a) /\ headers = [found |-> TRUE, arguments |-> A]
    BY <1>2, <1>5
  <2>3. b \in 1..Len(l) /\ e \in b + 1..Len(l)
    <3>1. LineIsSplit(w, x, y)
      BY LineSplit
    <3> QED
      BY <2>1, <3>1 DEF LineIsSplit
  <2>4. /\ r.method = SubSeq(l, 1, b - 1) /\ r.path = status
        /\ r.http_version = SubSeq(l, e + 1, Len(l))
    BY DEF SplitLine, Requested
  <2> HIDE DEF first, l, headers, b, e, r, status
  <2>5. incomplete <=> status \notin DOMAIN Numerals
    <3>1. l \in Strings
      BY <2>1, LineOfIs
    <3>2. ~(b > Len(l)) /\ ~(e > Len(l))
      BY <2>3, <3>1 DEF Strings
    <3> QED
      BY <2>2, <3>2
  <2>6. response = [found |-> TRUE, http_version |-> r.method,
                    status |-> Numerals[r.path], status_text |-> r.http_version,
                    arguments |-> A]
    BY <2>2, <2>4
  <2>7. Sender!ParseResponse(u) = IF r.path \in DOMAIN Numerals THEN response ELSE Nothing
    <3> HIDE DEF incomplete, response
    <3> QED
      BY <1>1, <1>5, <2>4, <2>5
  <2> HIDE DEF response
  <2> QED
    BY <2>1, <2>2, <2>6, <2>7 DEF r
<1>6. Len(u) = Len(t) => first.found \/ Len(u) < Len(t)
  BY <1>2
<1> QED
  BY <1>2, <1>4, <1>5, <1>6

-----------------------------------------------------------------------------
(* What the generators append.                                             *)

(* The sequence r is s with t behind it. *)
Joins(s, t, r) ==
  /\ Len(r) = Len(s) + Len(t)
  /\ \A h \in 1..Len(s) : r[h] = s[h]
  /\ \A h \in 1..Len(t) : r[Len(s) + h] = t[h]

(* So is their concatenation.                                              *)
LEMMA ConcatJoins ==
  ASSUME NEW S, NEW s \in Seq(S), NEW t \in Seq(S)
  PROVE  Joins(s, t, s \o t)
BY DEF Joins

(* One sequence of four behind the other. *)
LEMMA FoursFlattened ==
  ASSUME NEW S, NEW lines \in Seq(Seq(S)), \A i \in 1..Len(lines) : Len(lines[i]) = 4
  PROVE  /\ FlattenSeq(lines) \in Seq(S) /\ Len(FlattenSeq(lines)) = 4 * Len(lines)
         /\ \A i \in 1..Len(lines), j \in 1..4 :
              FlattenSeq(lines)[4 * (i - 1) + j] = lines[i][j]
<1> DEFINE N == Len(lines)
<1>0. N \in Nat /\ N \in 0..N
  OBVIOUS
<1>1. PICK g : Concatenations(g, S, lines, N) /\ FlattenSeq(lines) = g[N]
  BY FlattenSeqIs
<1> DEFINE Holds(k) == /\ Len(g[k]) = 4 * k
                       /\ \A i \in 1..k, j \in 1..4 : g[k][4 * (i - 1) + j] = lines[i][j]
           T == {k \in Nat : k <= N => Holds(k)}
<1>2. 0 \in T
  <2>1. g[0] = <<>>
    BY <1>1 DEF Concatenations
  <2> QED
    BY <2>1
<1>3. ASSUME NEW k \in T PROVE k + 1 \in T
  <2>1. k \in Nat /\ (k <= N => Holds(k))
    OBVIOUS
  <2> HIDE DEF T
  <2> SUFFICES ASSUME k + 1 <= N PROVE Holds(k + 1)
    BY <2>1 DEF T
  <2> DEFINE m == k + 1
  <2>2. m \in 1..N /\ m \in 0..N /\ k \in 0..N /\ m - 1 = k /\ k <= N
    BY <1>0, <2>1
  <2> HIDE DEF m
  <2>3. g[m] = g[k] \o lines[m] /\ g[k] \in Seq(S) /\ lines[m] \in Seq(S) /\ Len(lines[m]) = 4
    <3>1. g[m] = g[m-1] \o lines[m] /\ g[k] \in Seq(S)
      BY <1>1, <2>2 DEF Concatenations
    <3>2. lines[m] \in Seq(S) /\ Len(lines[m]) = 4
      BY <2>2
    <3> QED
      BY <2>2, <3>1, <3>2
  <2>4. /\ Len(g[m]) = Len(g[k]) + 4
        /\ \A h \in 1..Len(g[k]) : g[m][h] = g[k][h]
        /\ \A h \in 1..4 : g[m][Len(g[k]) + h] = lines[m][h]
    <3>1. g[m] = g[k] \o lines[m] /\ g[k] \in Seq(S) /\ lines[m] \in Seq(S)
      BY <2>3
    <3>2. Joins(g[k], lines[m], g[m])
      BY <3>1, ConcatJoins
    <3> QED
      BY <2>3, <3>2 DEF Joins
  <2>5. Len(g[k]) = 4 * k /\ \A i \in 1..k, j \in 1..4 : g[k][4 * (i - 1) + j] = lines[i][j]
    BY <2>1, <2>2
  <2>6. Len(g[m]) = 4 * m
    <3>1. Len(g[m]) = 4 * k + 4 /\ k \in Int /\ m = k + 1
      BY <2>1, <2>3, <2>4, <2>5 DEF m
    <3> QED
      BY <3>1
  <2>7. ASSUME NEW i \in 1..m, NEW j \in 1..4
        PROVE  g[m][4 * (i - 1) + j] = lines[i][j]
    <3>1. CASE i = m
      <4>1. 4 * (i - 1) + j = Len(g[k]) + j
        BY <2>2, <2>5, <3>1
      <4> QED
        BY <2>3, <2>4, <3>1, <4>1
    <3>2. CASE i # m
      <4>1. i \in 1..k
        BY <2>1, <2>2, <3>2
      <4>2. 4 * (i - 1) + j \in 1..Len(g[k])
        BY <2>1, <2>5, <4>1, SMTT(20)
      <4> QED
        BY <2>3, <2>4, <2>5, <4>1, <4>2
    <3> QED
      BY <3>1, <3>2
  <2>8. Holds(m)
    BY <2>6, <2>7
  <2> QED
    BY <2>8 DEF m
<1> HIDE DEF T
<1>4. T \in SUBSET Nat
  BY DEF T
<1>5. T = Nat
  BY <1>2, <1>3, <1>4, SetInduction
<1>6. Holds(N)
  BY <1>0, <1>5 DEF T
<1>7. g[N] \in Seq(S)
  BY <1>0, <1>1 DEF Concatenations
<1> QED
  BY <1>1, <1>6, <1>7

(* A finite set is enumerated without a gap. *)
LEMMA SetToSeqHasAll ==
  ASSUME NEW S, IsFiniteSet(S)
  PROVE  LET keys == Sender!SetToSeq(S)
         IN  keys \in Seq(S) /\ {keys[i] : i \in 1..Len(keys)} = S
<1> DEFINE n == Cardinality(S)
           Lists(f) == Sender!IsInjective(f)
           keys == Sender!SetToSeq(S)
<1>1. n \in Nat /\ \E f : f \in Bijection(1..n, S)
  BY FS_CardinalityType DEF ExistsBijection
<1>2. PICK f : f \in Bijection(1..n, S)
  BY <1>1
<1>3. f \in [1..n -> S] /\ Lists(f)
  BY <1>2 DEF Bijection, Injection, IsInjective, Sender!IsInjective
<1>4. Sender!Cardinality(S) = n
  BY DEF Sender!Cardinality, Cardinality
<1>5. keys = CHOOSE g \in [1..n -> S] : Lists(g)
  <2> HIDE DEF n, Lists
  <2> QED
    BY <1>4 DEF Sender!SetToSeq, Lists
<1> HIDE DEF Lists, n, keys
<1>6. keys \in [1..n -> S] /\ Lists(keys)
  BY <1>3, <1>5, Zenon
<1>7. IsFiniteSet(1..n) /\ Cardinality(1..n) = n
  <2>1. 1 \in Int /\ n \in Int
    BY <1>1
  <2>2. IsFiniteSet(1..n) /\ Cardinality(1..n) = IF 1 > n THEN 0 ELSE n - 1 + 1
    BY <2>1, FS_Interval
  <2> QED
    BY <1>1, <2>2
<1>8. keys \in Injection(1..n, S)
  BY <1>6 DEF Lists, Sender!IsInjective, Injection, IsInjective
<1>9. keys \in Surjection(1..n, S)
  <2>1. Cardinality(1..n) = Cardinality(S)
    BY <1>7 DEF n
  <2> QED
    BY <1>7, <1>8, <2>1, FS_Injection
<1>10. keys \in Seq(S) /\ Len(keys) = n
  BY <1>1, <1>6
<1>11. {keys[i] : i \in 1..n} = S
  BY <1>9 DEF Surjection
<1> QED
  BY <1>10, <1>11 DEF keys

(* The pieces M of the header lines of a, in the order of the keys. *)
MapPieces(M, keys, a) ==
  /\ M \in Seq(Strings) /\ Len(M) = 4 * Len(keys) /\ Len(keys) \in Nat
  /\ {keys[i] : i \in 1..Len(keys)} = DOMAIN a
  /\ \A i \in 1..Len(keys) :
       /\ keys[i] \in Strings /\ a[keys[i]] \in Strings
       /\ M[4 * (i - 1) + 1] = keys[i]
       /\ M[4 * (i - 1) + 2] = <<CO, SP>>
       /\ M[4 * (i - 1) + 3] = a[keys[i]]
       /\ M[4 * (i - 1) + 4] = LineEnd

(* generate_header_map() makes four pieces of every argument.              *)
LEMMA MapIsPieces ==
  ASSUME NEW a, IsTable(a)
  PROVE  MapPieces(Sender!GenerateHeaderMap(a), Sender!SetToSeq(DOMAIN a), a)
<1> DEFINE keys == Sender!SetToSeq(DOMAIN a)
           line(i) == Sender!GenerateHeader(keys[i], a[keys[i]])
           lines == [i \in 1..Len(keys) |-> line(i)]
           M == Sender!GenerateHeaderMap(a)
<1>1. keys \in Seq(DOMAIN a) /\ {keys[i] : i \in 1..Len(keys)} = DOMAIN a
  BY SetToSeqHasAll DEF IsTable
<1>2. M = FlattenSeq(lines)
  <2>1. Sender!FlattenSeq(lines) = FlattenSeq(lines)
    BY DEF Sender!FlattenSeq, FlattenSeq
  <2>2. M = Sender!FlattenSeq(lines)
    BY DEF Sender!GenerateHeaderMap
  <2> QED
    BY <2>1, <2>2
<1> HIDE DEF keys, M
<1>3. ASSUME NEW i \in 1..Len(keys)
      PROVE  /\ keys[i] \in Strings /\ a[keys[i]] \in Strings
             /\ line(i) \in Seq(Strings) /\ Len(line(i)) = 4
             /\ line(i)[1] = keys[i] /\ line(i)[2] = <<CO, SP>>
             /\ line(i)[3] = a[keys[i]] /\ line(i)[4] = LineEnd
  <2>1. keys[i] \in Strings /\ a[keys[i]] \in Strings
    BY <1>1 DEF IsTable
  <2>2. <<CO, SP>> \in Strings /\ LineEnd \in Strings
    BY DEF LineEnd, Strings, Characters, Delimiters
  <2>3. line(i) = <<keys[i], <<CO, SP>>, a[keys[i]], LineEnd>>
    BY SendersTexts DEF Sender!GenerateHeader, LineEnd
  <2>4. \A b, c, d, e \in Strings :
           /\ <<b, c, d, e>> \in Seq(Strings) /\ Len(<<b, c, d, e>>) = 4
           /\ <<b, c, d, e>>[1] = b /\ <<b, c, d, e>>[2] = c
           /\ <<b, c, d, e>>[3] = d /\ <<b, c, d, e>>[4] = e
    OBVIOUS
  <2> HIDE DEF line
  <2> QED
    BY <2>1, <2>2, <2>3, <2>4
<1> HIDE DEF line
<1>4. /\ lines \in Seq(Seq(Strings)) /\ Len(lines) = Len(keys) /\ Len(keys) \in Nat
      /\ \A i \in 1..Len(keys) : lines[i] = line(i)
  <2>1. Len(keys) \in Nat
    BY <1>1
  <2> QED
    BY <1>3, <2>1
<1> HIDE DEF lines
<1>5. /\ M \in Seq(Strings) /\ Len(M) = 4 * Len(keys)
      /\ \A i \in 1..Len(keys), j \in 1..4 : M[4 * (i - 1) + j] = lines[i][j]
  <2>1. \A i \in 1..Len(lines) : Len(lines[i]) = 4
    BY <1>3, <1>4
  <2>2. /\ FlattenSeq(lines) \in Seq(Strings) /\ Len(FlattenSeq(lines)) = 4 * Len(lines)
        /\ \A i \in 1..Len(lines), j \in 1..4 :
             FlattenSeq(lines)[4 * (i - 1) + j] = lines[i][j]
    BY <1>4, <2>1, FoursFlattened
  <2> QED
    BY <1>2, <1>4, <2>2
<1>6. ASSUME NEW i \in 1..Len(keys)
      PROVE  /\ M[4 * (i - 1) + 1] = keys[i] /\ M[4 * (i - 1) + 2] = <<CO, SP>>
             /\ M[4 * (i - 1) + 3] = a[keys[i]] /\ M[4 * (i - 1) + 4] = LineEnd
  <2>1. 1 \in 1..4 /\ 2 \in 1..4 /\ 3 \in 1..4 /\ 4 \in 1..4
    OBVIOUS
  <2>2. \A j \in 1..4 : M[4 * (i - 1) + j] = line(i)[j]
    BY <1>4, <1>5
  <2> QED
    BY <1>3, <2>1, <2>2
<1>7. MapPieces(M, keys, a)
  BY <1>1, <1>3, <1>4, <1>5, <1>6 DEF MapPieces
<1> QED
  BY <1>7 DEF M, keys

(* All the pieces of a header. *)
HeaderPieces(w, x, y, a) ==
  Sender!GenerateLine(w, x, y) \o Sender!GenerateHeaderMap(a) \o <<<<Sender!CR, Sender!LF>>>>

(* The first line in six pieces, those of the arguments, and a line break. *)
ArePieces(P, w, x, y, M) ==
  /\ P \in Seq(Strings) /\ Len(P) = Len(M) + 7 /\ Len(M) \in Nat
  /\ P[1] = w /\ P[2] = <<SP>> /\ P[3] = x /\ P[4] = <<SP>> /\ P[5] = y /\ P[6] = LineEnd
  /\ \A h \in 1..Len(M) : P[6 + h] = M[h]
  /\ P[Len(M) + 7] = LineEnd

(* These are the pieces of a header.                                       *)
LEMMA PiecesAre ==
  ASSUME NEW w \in Strings, NEW x \in Strings, NEW y \in Strings, NEW a,
         Sender!GenerateHeaderMap(a) \in Seq(Strings)
  PROVE  ArePieces(HeaderPieces(w, x, y, a), w, x, y, Sender!GenerateHeaderMap(a))
<1> DEFINE M == Sender!GenerateHeaderMap(a)
           H == Sender!GenerateLine(w, x, y)
           E == <<LineEnd>>
           I == H \o M
           P == I \o E
<1>1. LineEnd \in Strings /\ <<SP>> \in Strings /\ <<CO, SP>> \in Strings
  BY DEF LineEnd, Strings, Characters, Delimiters
<1>2. H = <<w, <<SP>>, x, <<SP>>, y, LineEnd>> /\ E = <<<<Sender!CR, Sender!LF>>>>
  BY SendersTexts DEF Sender!GenerateLine, LineEnd
<1>3. P = HeaderPieces(w, x, y, a)
  BY <1>2 DEF HeaderPieces
<1>4. /\ H \in Seq(Strings) /\ Len(H) = 6
      /\ H[1] = w /\ H[2] = <<SP>> /\ H[3] = x /\ H[4] = <<SP>> /\ H[5] = y /\ H[6] = LineEnd
  <2>1. \A b, c, d, e, f, g \in Strings :
          LET t == <<b, c, d, e, f, g>>
          IN  /\ t \in Seq(Strings) /\ Len(t) = 6
              /\ t[1] = b /\ t[2] = c /\ t[3] = d /\ t[4] = e /\ t[5] = f /\ t[6] = g
    OBVIOUS
  <2> HIDE DEF H
  <2> QED
    BY <1>1, <1>2, <2>1
<1>5. E \in Seq(Strings) /\ Len(E) = 1 /\ E[1] = LineEnd
  BY <1>1
<1>6. M \in Seq(Strings) /\ Len(M) \in Nat
  OBVIOUS
<1> HIDE DEF H, M, E
<1>7. I \in Seq(Strings) /\ Joins(H, M, I)
  BY <1>4, <1>6, ConcatJoins
<1> HIDE DEF I
<1>8. P \in Seq(Strings) /\ Joins(I, E, P)
  BY <1>5, <1>7, ConcatJoins
<1> HIDE DEF P
<1>9. Len(I) = 6 + Len(M) /\ Len(P) = Len(M) + 7
  <2>1. Len(I) = Len(H) + Len(M) /\ Len(P) = Len(I) + Len(E)
    BY <1>7, <1>8 DEF Joins
  <2> QED
    BY <1>4, <1>5, <1>6, <2>1
<1>10. \A h \in 1..6 : P[h] = H[h]
  <2>1. \A h \in 1..6 : h \in 1..Len(H) /\ h \in 1..Len(I)
    BY <1>4, <1>6, <1>9
  <2> QED
    BY <1>7, <1>8, <2>1 DEF Joins
<1>11. \A h \in 1..Len(M) : P[6 + h] = M[h]
  <2>1. \A h \in 1..Len(M) : 6 + h \in 1..Len(I)
    BY <1>6, <1>9
  <2> QED
    BY <1>4, <1>7, <1>8, <2>1 DEF Joins
<1>12. P[Len(M) + 7] = LineEnd
  <2>1. Len(M) + 7 = Len(I) + 1 /\ 1 \in 1..Len(E)
    BY <1>5, <1>6, <1>9
  <2> QED
    BY <1>5, <1>8, <2>1 DEF Joins
<1>13. ArePieces(P, w, x, y, M)
  <2>1. P[1] = w /\ P[2] = <<SP>> /\ P[3] = x /\ P[4] = <<SP>> /\ P[5] = y /\ P[6] = LineEnd
    BY <1>4, <1>10
  <2> QED
    BY <1>6, <1>8, <1>9, <1>11, <1>12, <2>1 DEF ArePieces
<1> QED
  BY <1>3, <1>13 DEF M

(* There is no line break in s, nor a part of one.                         *)
Unbroken(s) == \A j \in 1..Len(s) : s[j] # CR /\ s[j] # LF

(* Lines of unbroken parts are unbroken: the first one,                    *)
LEMMA LineOfUnbroken ==
  ASSUME NEW w \in Strings, NEW x \in Strings, NEW y \in Strings,
         Unbroken(w), Unbroken(x), Unbroken(y)
  PROVE  LineOf(w, x, y) \in Strings /\ Unbroken(LineOf(w, x, y))
<1> DEFINE t == LineOf(w, x, y)
<1>1. /\ t \in Strings /\ Len(t) = Len(w) + Len(x) + Len(y) + 2
      /\ Len(w) \in Nat /\ Len(x) \in Nat /\ Len(y) \in Nat
      /\ \A j \in 1..Len(w) : t[j] = w[j]
      /\ t[Len(w) + 1] = SP
      /\ \A j \in 1..Len(x) : t[Len(w) + 1 + j] = x[j]
      /\ t[Len(w) + Len(x) + 2] = SP
      /\ \A j \in 1..Len(y) : t[Len(w) + Len(x) + 2 + j] = y[j]
  BY LineOfIs
<1> HIDE DEF t
<1>2. SP # CR /\ SP # LF
  BY DEF SP, CR, LF
<1>3. ASSUME NEW j \in 1..Len(t) PROVE t[j] # CR /\ t[j] # LF
  <2>1. CASE j <= Len(w)
    <3>1. j \in 1..Len(w)
      BY <1>1, <2>1
    <3> QED
      BY <1>1, <3>1 DEF Unbroken
  <2>2. CASE j = Len(w) + 1 \/ j = Len(w) + Len(x) + 2
    BY <1>1, <1>2, <2>2
  <2>3. CASE j > Len(w) + 1 /\ j < Len(w) + Len(x) + 2
    <3> DEFINE h == j - (Len(w) + 1)
    <3>1. h \in 1..Len(x) /\ Len(w) + 1 + h = j
      BY <1>1, <2>3
    <3> HIDE DEF h
    <3> QED
      BY <1>1, <3>1 DEF Unbroken
  <2>4. CASE j > Len(w) + Len(x) + 2
    <3> DEFINE h == j - (Len(w) + Len(x) + 2)
    <3>1. h \in 1..Len(y) /\ Len(w) + Len(x) + 2 + h = j
      BY <1>1, <2>4
    <3> HIDE DEF h
    <3> QED
      BY <1>1, <3>1 DEF Unbroken
  <2>5. j \in Int /\ Len(w) \in Int /\ Len(x) \in Int
    BY <1>1
  <2>6. \/ j <= Len(w)
        \/ j = Len(w) + 1 \/ j = Len(w) + Len(x) + 2
        \/ j > Len(w) + 1 /\ j < Len(w) + Len(x) + 2
        \/ j > Len(w) + Len(x) + 2
    BY <2>5
  <2> QED
    BY <2>1, <2>2, <2>3, <2>4, <2>6
<1> QED
  BY <1>1, <1>3 DEF t, Unbroken

(* one part behind the other,                                              *)
LEMMA JoinedUnbroken ==
  ASSUME NEW s \in Strings, NEW t \in Strings, Unbroken(s), Unbroken(t)
  PROVE  s \o t \in Strings /\ Unbroken(s \o t)
<1> DEFINE r == s \o t
<1>1. /\ r \in Strings /\ Len(r) = Len(s) + Len(t)
      /\ Len(s) \in Nat /\ Len(t) \in Nat
      /\ \A j \in 1..Len(s) : r[j] = s[j]
      /\ \A j \in 1..Len(t) : r[Len(s) + j] = t[j]
  BY TextJoined
<1> HIDE DEF r
<1>2. ASSUME NEW j \in 1..Len(r) PROVE r[j] # CR /\ r[j] # LF
  <2>1. CASE j <= Len(s)
    <3>1. j \in 1..Len(s)
      BY <1>1, <2>1
    <3> QED
      BY <1>1, <3>1 DEF Unbroken
  <2>2. CASE j > Len(s)
    <3> DEFINE h == j - Len(s)
    <3>1. h \in 1..Len(t) /\ Len(s) + h = j
      BY <1>1, <2>2
    <3> HIDE DEF h
    <3> QED
      BY <1>1, <3>1 DEF Unbroken
  <2> QED
    BY <1>1, <2>1, <2>2
<1> QED
  BY <1>1, <1>2 DEF r, Unbroken

(* and a line with an argument.                                            *)
LEMMA HeaderOfUnbroken ==
  ASSUME NEW k \in Strings, NEW v \in Strings, Unbroken(k), Unbroken(v)
  PROVE  HeaderOf(k, v) \in Strings /\ Unbroken(HeaderOf(k, v))
<1> DEFINE e == <<CO, SP>>
           h == k \o e
<1>1. e \in Strings /\ Unbroken(e)
  <2>1. e \in Strings
    BY DEF Strings, Characters, Delimiters
  <2>2. Len(e) = 2 /\ e[1] = CO /\ e[2] = SP
    OBVIOUS
  <2>3. CO # CR /\ CO # LF /\ SP # CR /\ SP # LF
    BY DEF SP, CO, CR, LF
  <2> HIDE DEF e
  <2>4. \A j \in 1..2 : j = 1 \/ j = 2
    OBVIOUS
  <2> QED
    BY <2>1, <2>2, <2>3, <2>4 DEF Unbroken
<1> HIDE DEF e
<1>2. h \in Strings /\ Unbroken(h)
  BY <1>1, JoinedUnbroken
<1> HIDE DEF h
<1>3. h \o v \in Strings /\ Unbroken(h \o v)
  BY <1>2, JoinedUnbroken
<1> QED
  BY <1>3 DEF HeaderOf, h, e

(* The texts up to the i-th and the j-th piece differ by a line.           *)
LineBetween(f, i, j, l) == f[j] = (f[i] \o l) \o LineEnd

(* The pieces of the first line,                                           *)
LineFirst(P, w, x, y) ==
  P[1] = w /\ P[2] = <<SP>> /\ P[3] = x /\ P[4] = <<SP>> /\ P[5] = y /\ P[6] = LineEnd

(* and of an argument behind the m-th piece.                               *)
HeaderBehind(P, m, k, v) ==
  P[m + 1] = k /\ P[m + 2] = <<CO, SP>> /\ P[m + 3] = v /\ P[m + 4] = LineEnd

(* Pieces one behind the other are lines.                                  *)
LEMMA FirstLineJoined ==
  ASSUME NEW f, NEW P, NEW n, Concatenations(f, Characters, P, n), n \in Nat, n >= 6,
         NEW w \in Strings, NEW x \in Strings, NEW y \in Strings, LineFirst(P, w, x, y)
  PROVE  LineBetween(f, 0, 6, LineOf(w, x, y))
<1>1. /\ f[0] = <<>> /\ f[1] = f[0] \o w /\ f[2] = f[1] \o <<SP>> /\ f[3] = f[2] \o x
      /\ f[4] = f[3] \o <<SP>> /\ f[5] = f[4] \o y /\ f[6] = f[5] \o LineEnd
  <2>1. \A i \in 1..n : f[i] = f[i-1] \o P[i]
    BY DEF Concatenations
  <2>2. 1 \in 1..n /\ 2 \in 1..n /\ 3 \in 1..n /\ 4 \in 1..n /\ 5 \in 1..n /\ 6 \in 1..n
    OBVIOUS
  <2>3. f[0] = <<>>
    BY DEF Concatenations
  <2>4. f[1] = f[1-1] \o P[1] /\ f[2] = f[2-1] \o P[2] /\ f[3] = f[3-1] \o P[3]
        /\ f[4] = f[4-1] \o P[4] /\ f[5] = f[5-1] \o P[5] /\ f[6] = f[6-1] \o P[6]
    BY <2>1, <2>2, Zenon
  <2>5. 1-1 = 0 /\ 2-1 = 1 /\ 3-1 = 2 /\ 4-1 = 3 /\ 5-1 = 4 /\ 6-1 = 5
    OBVIOUS
  <2>6. P[1] = w /\ P[2] = <<SP>> /\ P[3] = x /\ P[4] = <<SP>> /\ P[5] = y /\ P[6] = LineEnd
    BY DEF LineFirst
  <2> QED
    BY <2>3, <2>4, <2>5, <2>6, Zenon
<1>2. f[1] = w
  BY <1>1, ConcatEmptySeq DEF Strings
<1>3. f[5] = LineOf(w, x, y)
  BY <1>1, <1>2, Zenon DEF LineOf
<1>4. <<>> \o LineOf(w, x, y) = LineOf(w, x, y)
  <2> DEFINE t == LineOf(w, x, y)
  <2>1. t \in Strings
    BY LineOfIs
  <2> HIDE DEF t
  <2>2. <<>> \o t = t
    BY <2>1, ConcatEmptySeq DEF Strings
  <2> QED
    BY <2>2 DEF t
<1> QED
  BY <1>1, <1>3, <1>4 DEF LineBetween

(* And those of an argument.                                               *)
LEMMA HeaderJoined ==
  ASSUME NEW f, NEW P, NEW n \in Nat, Concatenations(f, Characters, P, n),
         NEW m \in Nat, m + 4 <= n, NEW k \in Strings, NEW v \in Strings,
         HeaderBehind(P, m, k, v)
  PROVE  LineBetween(f, m, m + 4, HeaderOf(k, v))
<1> DEFINE e == <<CO, SP>>
<1>1. /\ f[m + 1] = f[m] \o k /\ f[m + 2] = f[m + 1] \o e /\ f[m + 3] = f[m + 2] \o v
      /\ f[m + 4] = f[m + 3] \o LineEnd /\ f[m] \in Strings
  <2>1. \A i \in 1..n : f[i] = f[i-1] \o P[i]
    BY DEF Concatenations
  <2>2. m + 1 \in 1..n /\ m + 2 \in 1..n /\ m + 3 \in 1..n /\ m + 4 \in 1..n /\ m \in 0..n
    OBVIOUS
  <2>3. (m+1)-1 = m /\ (m+2)-1 = m+1 /\ (m+3)-1 = m+2 /\ (m+4)-1 = m+3
    OBVIOUS
  <2>4. f[m + 1] = f[(m+1)-1] \o P[m+1] /\ f[m + 2] = f[(m+2)-1] \o P[m+2]
        /\ f[m + 3] = f[(m+3)-1] \o P[m+3] /\ f[m + 4] = f[(m+4)-1] \o P[m+4]
    BY <2>1, <2>2, Zenon
  <2>5. f[m] \in Strings
    BY <2>2 DEF Concatenations, Strings
  <2>6. P[m + 1] = k /\ P[m + 2] = e /\ P[m + 3] = v /\ P[m + 4] = LineEnd
    BY DEF HeaderBehind
  <2> QED
    BY <2>3, <2>4, <2>5, <2>6, Zenon
<1>2. e \in Strings
  BY DEF Strings, Characters, Delimiters
<1> DEFINE s == f[m]
<1> HIDE DEF e, s
<1>3. ((s \o k) \o e) \o v = s \o ((k \o e) \o v)
  <2>0. s \in Strings
    BY <1>1 DEF s
  <2>1. \A b, c, d \in Strings : (b \o c) \o d = b \o (c \o d) /\ b \o c \in Strings
    <3> SUFFICES ASSUME NEW b \in Strings, NEW c \in Strings, NEW d \in Strings
                 PROVE  (b \o c) \o d = b \o (c \o d) /\ b \o c \in Strings
      OBVIOUS
    <3>1. b \o c \in Strings
      BY TextJoined
    <3>2. (b \o c) \o d = b \o (c \o d)
      BY DEF Strings
    <3> QED
      BY <3>1, <3>2
  <2>2. k \o e \in Strings /\ s \o k \in Strings
    BY <1>2, <2>0, <2>1
  <2>3. (s \o k) \o e = s \o (k \o e)
    BY <1>2, <2>0, <2>1
  <2>4. (s \o (k \o e)) \o v = s \o ((k \o e) \o v)
    BY <2>0, <2>1, <2>2
  <2> QED
    BY <2>3, <2>4
<1>4. f[m + 3] = s \o HeaderOf(k, v)
  BY <1>1, <1>3, Zenon DEF HeaderOf, s, e
<1> QED
  BY <1>1, <1>4, Zenon DEF s, LineBetween

(* The words and arguments of a header without line breaks. *)
Parts(w, x, y, a) ==
  /\ w \in Strings /\ x \in Strings /\ y \in Strings /\ IsTable(a)
  /\ Unbroken(w) /\ Unbroken(x) /\ Unbroken(y)
  /\ \A k \in DOMAIN a : Unbroken(k) /\ Unbroken(a[k])

(* What is appended of it is its text. *)
LEMMA PiecesSpell ==
  ASSUME NEW w, NEW x, NEW y, NEW a, Parts(w, x, y, a), NEW P, P = HeaderPieces(w, x, y, a),
         NEW f, Concatenations(f, Characters, P, Len(P))
  PROVE  /\ P \in Seq(Strings) /\ Len(P) \in Nat /\ Len(P) >= 1
         /\ P[Len(P)] = LineEnd
         /\ Spells(f[Len(P)], w, x, y, a)
<1>0. w \in Strings /\ x \in Strings /\ y \in Strings /\ IsTable(a)
  BY DEF Parts
<1> DEFINE M == Sender!GenerateHeaderMap(a)
           keys == Sender!SetToSeq(DOMAIN a)
<1>1. MapPieces(M, keys, a)
  BY <1>0, MapIsPieces
<1>2. ArePieces(P, w, x, y, M)
  BY <1>0, <1>1, PiecesAre DEF MapPieces
<1> HIDE DEF M, keys
<1> DEFINE m == Len(keys)
           N == m + 2
<1>3. /\ m \in Nat /\ N \in Nat /\ N >= 2 /\ Len(P) = 4 * m + 7 /\ Len(M) = 4 * m
      /\ P \in Seq(Strings) /\ P[Len(P)] = LineEnd
      /\ P[1] = w /\ P[2] = <<SP>> /\ P[3] = x /\ P[4] = <<SP>> /\ P[5] = y /\ P[6] = LineEnd
  BY <1>1, <1>2 DEF MapPieces, ArePieces
<1>4. ASSUME NEW i \in 1..m
      PROVE  /\ keys[i] \in Strings /\ a[keys[i]] \in Strings /\ keys[i] \in DOMAIN a
             /\ LET h == 4 * i + 2
                IN  /\ h \in Nat /\ h + 4 <= Len(P)
                    /\ P[h + 1] = keys[i] /\ P[h + 2] = <<CO, SP>>
                    /\ P[h + 3] = a[keys[i]] /\ P[h + 4] = LineEnd
  <2> DEFINE c == 4 * (i - 1)
             h == 4 * i + 2
  <2>1. /\ M[c + 1] = keys[i] /\ M[c + 2] = <<CO, SP>> /\ M[c + 3] = a[keys[i]] /\ M[c + 4] = LineEnd
        /\ keys[i] \in Strings /\ a[keys[i]] \in Strings /\ keys[i] \in DOMAIN a
    BY <1>1, <1>4 DEF MapPieces
  <2>2. c \in Nat /\ c + 4 <= Len(M) /\ h = c + 6 /\ h \in Nat /\ h + 4 <= Len(P)
    BY <1>3
  <2> HIDE DEF c, h
  <2>3. \A d \in 1..4 : c + d \in 1..Len(M) /\ 6 + (c + d) = h + d
    BY <1>3, <2>2
  <2>4. \A d \in 1..4 : P[h + d] = M[c + d]
    BY <1>2, <2>3 DEF ArePieces
  <2>5. 1 \in 1..4 /\ 2 \in 1..4 /\ 3 \in 1..4 /\ 4 \in 1..4
    OBVIOUS
  <2>6. P[h + 1] = M[c + 1] /\ P[h + 2] = M[c + 2] /\ P[h + 3] = M[c + 3] /\ P[h + 4] = M[c + 4]
    BY <2>4, <2>5
  <2>7. P[h + 1] = keys[i] /\ P[h + 2] = <<CO, SP>> /\ P[h + 3] = a[keys[i]] /\ P[h + 4] = LineEnd
    BY <2>1, <2>6
  <2> QED
    BY <2>1, <2>2, <2>7 DEF h
<1> HIDE DEF m, N
<1> DEFINE G == [n \in 0..N |-> IF n = 0 THEN <<>> ELSE IF n = N THEN f[Len(P)] ELSE f[4 * n + 2]]
           header(i) == HeaderOf(keys[i], a[keys[i]])
           L == [n \in 1..N |-> IF n = 1 THEN LineOf(w, x, y)
                                ELSE IF n = N THEN <<>> ELSE header(n - 1)]
           K == [n \in 2..N - 1 |-> keys[n - 1]]
<1>5. N = m + 2
  BY DEF N
<1>6. \A n \in 1..N : (n = 1) \/ (n = N /\ n # 1) \/ (n \in 2..N - 1 /\ n # 1 /\ n # N /\ n - 1 \in 1..m)
  BY <1>3, <1>5
<1>7. /\ G[0] = <<>> /\ G[N] = f[Len(P)]
      /\ \A n \in 1..N - 1 : G[n] = f[4 * n + 2]
      /\ L[1] = LineOf(w, x, y) /\ L[N] = <<>>
      /\ \A n \in 2..N - 1 : L[n] = header(n - 1) /\ K[n] = keys[n - 1]
  <2>1. 0 \in 0..N /\ N \in 0..N /\ N # 0 /\ 1 \in 1..N /\ N \in 1..N /\ N # 1
    BY <1>3
  <2>2. \A n \in 1..N - 1 : n \in 0..N /\ n # 0 /\ n # N
    BY <1>3
  <2>3. \A n \in 2..N - 1 : n \in 1..N /\ n # 1 /\ n # N
    BY <1>3
  <2> HIDE DEF header
  <2> QED
    BY <2>1, <2>2, <2>3
<1> HIDE DEF G, L, K, header
<1>8. \A n \in 0..N : G[n] \in Strings
  <2> SUFFICES ASSUME NEW n \in 0..N PROVE G[n] \in Strings
    OBVIOUS
  <2>1. \A i \in 0..Len(P) : f[i] \in Strings
    BY DEF Concatenations, Strings
  <2>2. n = 0 \/ n = N \/ n \in 1..N - 1
    BY <1>3
  <2>3. n \in 1..N - 1 => 4 * n + 2 \in 0..Len(P)
    BY <1>3, <1>5
  <2>4. Len(P) \in 0..Len(P)
    BY <1>3
  <2>5. CASE n = 0
    <3>1. <<>> \in Strings
      BY DEF Strings
    <3>2. G[n] = <<>>
      BY <1>7, <2>5
    <3> QED
      BY <3>1, <3>2
  <2>6. CASE n = N
    BY <1>7, <2>1, <2>4, <2>6
  <2>7. CASE n \in 1..N - 1
    BY <1>7, <2>1, <2>3, <2>7
  <2> QED
    BY <2>2, <2>5, <2>6, <2>7
<1>9. ASSUME NEW n \in 2..N - 1
      PROVE  /\ K[n] \in Strings /\ a[K[n]] \in Strings /\ L[n] = HeaderOf(K[n], a[K[n]])
             /\ L[n] \in Strings /\ Unbroken(L[n])
             /\ G[n] = (G[n - 1] \o L[n]) \o LineEnd
  <2> DEFINE i == n - 1
             h == 4 * i + 2
  <2>1. i \in 1..m /\ i \in 1..N - 1 /\ n \in 1..N - 1
    BY <1>3, <1>5
  <2>2. /\ keys[i] \in Strings /\ a[keys[i]] \in Strings /\ keys[i] \in DOMAIN a
        /\ h \in Nat /\ h + 4 <= Len(P)
        /\ P[h + 1] = keys[i] /\ P[h + 2] = <<CO, SP>>
        /\ P[h + 3] = a[keys[i]] /\ P[h + 4] = LineEnd
    BY <1>4, <2>1
  <2>3. 4 * n + 2 = h + 4
    BY <2>1
  <2>4. G[n] = f[h + 4] /\ G[n - 1] = f[h] /\ L[n] = header(i) /\ K[n] = keys[i]
    BY <1>7, <2>1, <2>3
  <2> HIDE DEF h, i
  <2>5. f[h + 4] = (f[h] \o header(i)) \o LineEnd
    <3>1. HeaderBehind(P, h, keys[i], a[keys[i]])
      BY <2>2 DEF HeaderBehind
    <3>2. LineBetween(f, h, h + 4, HeaderOf(keys[i], a[keys[i]]))
      BY <1>3, <2>2, <3>1, HeaderJoined
    <3> QED
      BY <3>2 DEF LineBetween, header
  <2>6. header(i) \in Strings /\ Unbroken(header(i))
    <3>1. Unbroken(keys[i]) /\ Unbroken(a[keys[i]])
      BY <2>2 DEF Parts
    <3> QED
      BY <2>2, <3>1, HeaderOfUnbroken DEF header
  <2> QED
    BY <2>2, <2>4, <2>5, <2>6 DEF header
<1>10. /\ L[1] \in Strings /\ Unbroken(L[1])
       /\ G[1] = (G[1 - 1] \o L[1]) \o LineEnd
  <2>1. LineOf(w, x, y) \in Strings /\ Unbroken(LineOf(w, x, y))
    BY LineOfUnbroken DEF Parts
  <2>2. f[6] = (<<>> \o LineOf(w, x, y)) \o LineEnd
    <3>1. LineFirst(P, w, x, y) /\ Len(P) \in Nat /\ Len(P) >= 6
      BY <1>3 DEF LineFirst
    <3>2. LineBetween(f, 0, 6, LineOf(w, x, y))
      BY <1>0, <3>1, FirstLineJoined
    <3>3. f[0] = <<>>
      BY DEF Concatenations
    <3> QED
      BY <3>2, <3>3 DEF LineBetween
  <2>3. 1 - 1 = 0 /\ 1 \in 1..N - 1 /\ 4 * 1 + 2 = 6
    BY <1>3
  <2>4. G[1] = f[6]
    BY <1>7, <2>3
  <2> QED
    BY <1>7, <2>1, <2>2, <2>3, <2>4, Zenon
<1>11. /\ L[N] \in Strings /\ Unbroken(L[N])
       /\ G[N] = (G[N - 1] \o L[N]) \o LineEnd
  <2>1. <<>> \in Strings /\ Unbroken(<<>>)
    BY DEF Strings, Unbroken
  <2>2. f[Len(P)] = f[Len(P) - 1] \o P[Len(P)]
    <3>1. Len(P) \in 1..Len(P)
      BY <1>3
    <3> QED
      BY <3>1 DEF Concatenations
  <2>3. G[N - 1] = f[Len(P) - 1]
    <3>1. N - 1 \in 1..N - 1 /\ 4 * (N - 1) + 2 = Len(P) - 1
      BY <1>3, <1>5
    <3> QED
      BY <1>7, <3>1
  <2>4. G[N - 1] \in Strings
    <3>1. N - 1 \in 0..N
      BY <1>3
    <3> QED
      BY <1>8, <3>1
  <2>5. G[N - 1] \o <<>> = G[N - 1]
    BY <2>4, ConcatEmptySeq DEF Strings
  <2> QED
    BY <1>3, <1>7, <2>1, <2>2, <2>3, <2>5
<1>12. LinesTo(G, L, N)
  <2>1. ASSUME NEW n \in 1..N
        PROVE  L[n] \in Strings /\ Unbroken(L[n]) /\ G[n] = (G[n - 1] \o L[n]) \o LineEnd
    <3>1. n = 1 \/ n = N \/ n \in 2..N - 1
      BY <1>6
    <3> QED
      BY <1>9, <1>10, <1>11, <3>1
  <2> QED
    BY <1>3, <1>7, <1>8, <2>1 DEF LinesTo, Unbroken
<1>13. HeadersOf(L, K, a, N)
  BY <1>9 DEF HeadersOf
<1>14. {K[i] : i \in 2..N - 1} = DOMAIN a
  <2>1. {keys[i] : i \in 1..m} = DOMAIN a
    BY <1>1 DEF MapPieces, m
  <2>2. \A i \in 2..N - 1 : i - 1 \in 1..m
    BY <1>3, <1>5
  <2>3. \A i \in 1..m : i + 1 \in 2..N - 1 /\ (i + 1) - 1 = i
    BY <1>3, <1>5
  <2>4. \A i \in 2..N - 1 : K[i] \in DOMAIN a
    BY <1>7, <2>1, <2>2
  <2>5. \A k \in DOMAIN a : \E i \in 2..N - 1 : K[i] = k
    <3> SUFFICES ASSUME NEW k \in DOMAIN a PROVE \E i \in 2..N - 1 : K[i] = k
      OBVIOUS
    <3>1. PICK i \in 1..m : keys[i] = k
      BY <2>1
    <3>2. i + 1 \in 2..N - 1 /\ K[i + 1] = k
      BY <1>7, <2>3, <3>1
    <3> QED
      BY <3>2
  <2> QED
    BY <2>4, <2>5
<1>15. Spells(f[Len(P)], w, x, y, a)
  BY <1>7, <1>12, <1>13, <1>14 DEF Spells
<1>16. Len(P) \in Nat /\ Len(P) >= 1
  BY <1>3
<1> QED
  BY <1>3, <1>15, <1>16

-----------------------------------------------------------------------------
(* What is said about a message.                                           *)

(* Messages by their parts.                                                *)
AsRequest(m) == [method |-> m.method, path |-> m.path, http_version |-> m.http_version,
                 arguments |-> m.arguments]

AsResponse(m) == [http_version |-> m.http_version, status |-> m.status,
                  status_text |-> m.status_text, arguments |-> m.arguments]

(* What the model assumes of requests,                                     *)
LEMMA RequestIs ==
  ASSUME NEW m \in Requests
  PROVE  /\ m = AsRequest(m) /\ DOMAIN m = {"method", "path", "http_version", "arguments"}
         /\ Sender!IsRequest(m) /\ ~Sender!IsResponse(m)
         /\ m.method \in Strings /\ m.path \in Strings /\ m.http_version \in Strings
         /\ IsTable(m.arguments)
<1>1. /\ m = AsRequest(m)
      /\ m.method \in Strings /\ m.path \in Strings /\ m.http_version \in Strings
      /\ IsTable(m.arguments)
  BY MessagesAssumption DEF AsRequest
<1>2. DOMAIN m = {"method", "path", "http_version", "arguments"}
  BY <1>1 DEF AsRequest
<1> QED
  BY <1>1, <1>2 DEF Sender!IsRequest, Sender!IsResponse

(* of responses, whose status has a numeral without delimiters,            *)
LEMMA ResponseIs ==
  ASSUME NEW m \in Responses
  PROVE  /\ m = AsResponse(m) /\ DOMAIN m = {"http_version", "status", "status_text", "arguments"}
         /\ ~Sender!IsRequest(m) /\ Sender!IsResponse(m)
         /\ m.http_version \in Strings /\ m.status_text \in Strings
         /\ IsTable(m.arguments)
         /\ LET x == Sender!Numeral(m.status)
            IN  /\ x \in DOMAIN Numerals /\ Numerals[x] = m.status
                /\ x \in Strings /\ Unbroken(x) /\ \A j \in 1..Len(x) : x[j] # SP
<1>1. /\ m = AsResponse(m)
      /\ m.http_version \in Strings /\ m.status_text \in Strings
      /\ \E s \in DOMAIN Numerals : Numerals[s] = m.status
      /\ IsTable(m.arguments)
  BY MessagesAssumption DEF AsResponse
<1>2. DOMAIN m = {"http_version", "status", "status_text", "arguments"}
  BY <1>1 DEF AsResponse
<1> DEFINE x == Sender!Numeral(m.status)
<1>3. x \in DOMAIN Numerals /\ Numerals[x] = m.status
  BY <1>1 DEF Sender!Numeral
<1> HIDE DEF x
<1>4. x \in Seq(Characters \ Delimiters)
  BY <1>3, MessagesAssumption
<1>5. x \in Strings /\ \A j \in 1..Len(x) : x[j] \notin Delimiters
  BY <1>4 DEF Strings
<1>6. Unbroken(x) /\ \A j \in 1..Len(x) : x[j] # SP
  BY <1>5 DEF Unbroken, Delimiters
<1> QED
  BY <1>1, <1>2, <1>3, <1>5, <1>6 DEF Sender!IsRequest, Sender!IsResponse, x

(* and of texts of other clients.                                          *)
LEMMA OtherIs ==
  ASSUME NEW m \in [text : Texts]
  PROVE  ~Sender!IsRequest(m) /\ ~Sender!IsResponse(m)
<1>1. DOMAIN m = {"text"}
  OBVIOUS
<1> QED
  BY <1>1 DEF Sender!IsRequest, Sender!IsResponse

(* Which strings have no delimiters of a kind. *)
LEMMA WithoutIs ==
  ASSUME NEW s
  PROVE  /\ Sender!Without({Sender!CR, Sender!LF}, s) <=> Unbroken(s)
         /\ Sender!Without({Sender!SP}, s) <=> \A j \in 1..Len(s) : s[j] # SP
         /\ Sender!Without({Sender!CO}, s) <=> \A j \in 1..Len(s) : s[j] # CO
BY SendersTexts DEF Sender!Without, Unbroken

(* The parts of a header without line breaks are unbroken.                 *)
LEMMA RequestHasParts ==
  ASSUME NEW m \in Requests, Sender!NoLineBreaks(m)
  PROVE  Parts(m.method, m.path, m.http_version, m.arguments)
<1>1. /\ Sender!Words(m) = {m.method, m.path}
      /\ Sender!Rests(m) = {m.http_version} \cup {m.arguments[k] : k \in DOMAIN m.arguments}
  BY RequestIs DEF Sender!Words, Sender!Rests
<1>2. \A s \in Sender!Words(m) \cup Sender!Rests(m) \cup DOMAIN m.arguments : Unbroken(s)
  BY WithoutIs DEF Sender!NoLineBreaks
<1> QED
  BY <1>1, <1>2, RequestIs DEF Parts

(* The same for a response.                                                *)
LEMMA ResponseHasParts ==
  ASSUME NEW m \in Responses, Sender!NoLineBreaks(m)
  PROVE  Parts(m.http_version, Sender!Numeral(m.status), m.status_text, m.arguments)
<1>1. /\ Sender!Words(m) = {m.http_version}
      /\ Sender!Rests(m) = {m.status_text} \cup {m.arguments[k] : k \in DOMAIN m.arguments}
  BY ResponseIs DEF Sender!Words, Sender!Rests
<1>2. \A s \in Sender!Words(m) \cup Sender!Rests(m) \cup DOMAIN m.arguments : Unbroken(s)
  BY WithoutIs DEF Sender!NoLineBreaks
<1> QED
  BY <1>1, <1>2, ResponseIs DEF Parts

(* The words of the first line of a message. *)
First1(m) == IF Sender!IsRequest(m) THEN m.method ELSE m.http_version
First2(m) == IF Sender!IsRequest(m) THEN m.path ELSE Sender!Numeral(m.status)
First3(m) == IF Sender!IsRequest(m) THEN m.http_version ELSE m.status_text

(* What a parser has found, a first line and arguments, is the message. *)
Matches(r, A, m) ==
  /\ r.method = First1(m) /\ r.path = First2(m) /\ r.http_version = First3(m)
  /\ A = m.arguments

(* All that is sent.                                                       *)
Messages == Requests \cup Responses \cup [text : Texts]

(* The first line and the arguments of any header are unbroken.            *)
LEMMA HeaderHasParts ==
  ASSUME NEW m \in Messages, Sender!NoLineBreaks(m)
  PROVE  Parts(First1(m), First2(m), First3(m), m.arguments)
<1>1. CASE m \in Requests
  BY <1>1, RequestHasParts, RequestIs DEF First1, First2, First3
<1>2. CASE m \in Responses
  BY <1>2, ResponseHasParts, ResponseIs DEF First1, First2, First3
<1>3. CASE m \in [text : Texts]
  BY <1>3, OtherIs DEF Sender!NoLineBreaks
<1> QED
  BY <1>1, <1>2, <1>3 DEF Messages

(* It is exactly when no word has a space and no key a colon.              *)
LEMMA SeparableMatches ==
  ASSUME NEW m \in Messages, Sender!NoLineBreaks(m), NEW A, HasRead(A, m.arguments)
  PROVE  Sender!Separable(m)
           <=> Matches(SplitLine(LineOf(First1(m), First2(m), First3(m))), A, m)
<1> DEFINE w == First1(m)
           x == First2(m)
           y == First3(m)
           r == SplitLine(LineOf(w, x, y))
           Spaceless(s) == \A j \in 1..Len(s) : s[j] # SP
<1>1. w \in Strings /\ x \in Strings /\ y \in Strings
  BY HeaderHasParts DEF Parts
<1>2. Sender!Separable(m) <=> Spaceless(w) /\ Spaceless(x) /\ NoColons(m.arguments)
  <2>1. (\A s \in Sender!Words(m) : Sender!Without({Sender!SP}, s)) <=> Spaceless(w) /\ Spaceless(x)
    <3>1. CASE m \in Requests
      <4>1. Sender!Words(m) = {m.method, m.path} /\ w = m.method /\ x = m.path
        BY <3>1, RequestIs DEF Sender!Words, First1, First2
      <4> QED
        BY <4>1, WithoutIs
    <3>2. CASE m \in Responses
      <4>1. Sender!Words(m) = {m.http_version} /\ w = m.http_version /\ x = Sender!Numeral(m.status)
        BY <3>2, ResponseIs DEF Sender!Words, First1, First2
      <4>2. Spaceless(Sender!Numeral(m.status))
        BY <3>2, ResponseIs
      <4> QED
        BY <4>1, <4>2, WithoutIs
    <3>3. CASE m \in [text : Texts]
      BY <3>3, OtherIs DEF Sender!NoLineBreaks
    <3> QED
      BY <3>1, <3>2, <3>3 DEF Messages
  <2>2. (\A k \in DOMAIN m.arguments : Sender!Without({Sender!CO}, k)) <=> NoColons(m.arguments)
    BY WithoutIs DEF NoColons
  <2> QED
    BY <2>1, <2>2 DEF Sender!Separable
<1>3. /\ Spaceless(r.method) /\ Spaceless(r.path)
      /\ Spaceless(w) => r.method = w /\ (Spaceless(x) => r.path = x /\ r.http_version = y)
  <2> HIDE DEF w, x, y, r
  <2> QED
    BY <1>1, SplitLineIs DEF r
<1>4. NoColons(A) /\ (NoColons(m.arguments) => A = m.arguments)
  BY DEF HasRead
<1> HIDE DEF w, x, y, r, Spaceless
<1>5. Spaceless(w) /\ Spaceless(x) /\ NoColons(m.arguments)
        <=> r.method = w /\ r.path = x /\ r.http_version = y /\ A = m.arguments
  BY <1>3, <1>4
<1> QED
  BY <1>2, <1>5 DEF Matches, w, x, y, r

-----------------------------------------------------------------------------
(* How much of a message has been sent.                                    *)

(* The pieces a message is sent in.                                        *)
AllPieces(m) ==
  IF Sender!IsRequest(m) THEN Sender!GenerateRequest(m)
  ELSE IF Sender!IsResponse(m) THEN Sender!GenerateResponse(m)
  ELSE <<m.text>>

(* The first n pieces of the message have been appended. *)
HasSent(f, n) ==
  LET P == AllPieces(message)
  IN  /\ P \in Seq(Strings)
      /\ Concatenations(f, Characters, P, Len(P))
      /\ n \in 0..Len(P)
      /\ stream = f[n]
      /\ pieces = SubSeq(P, n + 1, Len(P))

(* A response is not read by the sink, and while a header without line     *)
(* breaks is not complete, m_output has not been asked.                    *)
SentInv ==
  /\ message \in Messages
  /\ \E f, n : HasSent(f, n)
  /\ Sender!IsResponse(message) => data = <<>> /\ output = <<>>
  /\ Sender!IsRequest(message) /\ Sender!NoLineBreaks(message) /\ pieces # <<>> => ~failed

(* Of a header they are those of its lines.                                *)
LEMMA GeneratedIs ==
  ASSUME NEW m \in Messages, Sender!NoLineBreaks(m)
  PROVE  AllPieces(m) = HeaderPieces(First1(m), First2(m), First3(m), m.arguments)
<1>1. Sender!IsRequest(m) \/ Sender!IsResponse(m)
  BY DEF Sender!NoLineBreaks
<1> QED
  BY <1>1 DEF AllPieces, HeaderPieces, First1, First2, First3,
              Sender!GenerateRequest, Sender!GenerateResponse

(* What has been sent of a header t is its beginning, without its last     *)
(* line break while there are pieces left.                                 *)
SentOf(t) ==
  /\ Spells(t, First1(message), First2(message), First3(message), message.arguments)
  /\ t \in Strings /\ Begins(stream, t)
  /\ pieces = <<>> => stream = t
  /\ pieces # <<>> => Len(stream) <= Len(t) - 2

(* There is such a header for what is being sent.                          *)
LEMMA HeaderIsSent ==
  ASSUME SentInv, Sender!NoLineBreaks(message)
  PROVE  \E t : SentOf(t)
<1> DEFINE w == First1(message)
           x == First2(message)
           y == First3(message)
           a == message.arguments
           P == AllPieces(message)
           N == Len(P)
<1>1. PICK f, n : HasSent(f, n)
  BY DEF SentInv
<1>2. P = HeaderPieces(w, x, y, a) /\ Parts(w, x, y, a)
  BY GeneratedIs, HeaderHasParts DEF SentInv
<1>3. /\ P \in Seq(Strings) /\ Concatenations(f, Characters, P, N) /\ n \in 0..N
      /\ stream = f[n] /\ pieces = SubSeq(P, n + 1, N)
  BY <1>1 DEF HasSent
<1> HIDE DEF w, x, y, a, P
<1>4. N \in Nat /\ N >= 1 /\ P[N] = LineEnd /\ Spells(f[N], w, x, y, a)
  BY <1>2, <1>3, PiecesSpell
<1> HIDE DEF N
<1> DEFINE t == f[N]
<1>5. /\ \A i \in 0..N : f[i] \in Strings
      /\ \A i \in 1..N : f[i] = f[i - 1] \o P[i]
  BY <1>3 DEF Concatenations, Strings
<1>6. \A i \in 1..N : Begins(f[i - 1], f[i])
  <2> SUFFICES ASSUME NEW i \in 1..N PROVE Begins(f[i - 1], f[i])
    OBVIOUS
  <2> DEFINE b == f[i - 1]
             c == P[i]
  <2>1. b \in Strings /\ c \in Strings /\ f[i] = b \o c
    <3>1. i - 1 \in 0..N /\ i \in 1..Len(P)
      BY <1>4 DEF N
    <3>2. c \in Strings
      BY <1>3, <3>1
    <3>3. b \in Strings /\ f[i] = b \o c
      <4> HIDE DEF N
      <4> QED
        BY <1>5, <3>1
    <3> QED
      BY <3>2, <3>3
  <2> HIDE DEF b, c
  <2>2. Begins(b, b \o c)
    BY <2>1, TextJoined
  <2> QED
    BY <2>1, <2>2 DEF b
<1>7. \A i, j \in 0..N : i <= j => Begins(f[i], f[j])
  BY <1>4, <1>5, <1>6, GrowingTexts
<1>8. N \in 0..N /\ n \in 0..N /\ n <= N /\ N - 1 \in 0..N /\ N \in 1..N
  BY <1>3, <1>4 DEF N
<1>9. t \in Strings /\ Begins(stream, t)
  BY <1>3, <1>5, <1>7, <1>8
<1>10. Len(t) = Len(f[N - 1]) + 2 /\ Len(f[N - 1]) \in Nat
  <2> DEFINE b == f[N - 1]
  <2>1. t = b \o LineEnd /\ b \in Strings
    BY <1>4, <1>5, <1>8
  <2>2. LineEnd \in Strings /\ Len(LineEnd) = 2
    BY DEF LineEnd, Strings, Characters, Delimiters
  <2> HIDE DEF b, t
  <2>3. Len(b \o LineEnd) = Len(b) + Len(LineEnd) /\ Len(b) \in Nat
    BY <2>1, <2>2, TextJoined
  <2> QED
    BY <2>1, <2>2, <2>3 DEF b
<1>11. pieces = <<>> => n = N
  <2> SUFFICES ASSUME n # N PROVE pieces # <<>>
    OBVIOUS
  <2>1. n + 1 \in 1..Len(P) /\ N = Len(P) /\ n \in Nat /\ n + 1 <= N
    BY <1>3, <1>4 DEF N
  <2>2. Len(SubSeq(P, n + 1, N)) = N - n
    BY <1>3, <2>1
  <2>3. Len(pieces) # 0
    BY <1>3, <2>1, <2>2
  <2> QED
    BY <2>3
<1>12. pieces # <<>> => n <= N - 1
  <2> SUFFICES ASSUME n = N PROVE pieces = <<>>
    BY <1>4, <1>8
  <2> QED
    BY <1>3, <1>4 DEF N
<1>13. ASSUME pieces # <<>> PROVE Len(stream) <= Len(t) - 2
  <2>1. Begins(f[n], f[N - 1])
    BY <1>7, <1>8, <1>12, <1>13
  <2>2. Len(f[n]) \in Nat /\ Len(f[n]) <= Len(f[N - 1])
    BY <1>5, <1>8, <2>1 DEF Begins, Strings
  <2> HIDE DEF t
  <2> QED
    BY <1>3, <1>10, <2>2
<1>14. pieces = <<>> => stream = t
  BY <1>3, <1>11
<1> QED
  BY <1>4, <1>9, <1>13, <1>14 DEF SentOf, w, x, y, a

(* A line without a colon stays one in a longer text.                      *)
LEMMA CutOffBefore ==
  ASSUME NEW u \in Strings, NEW t \in Strings, Begins(u, t), NEW n \in Nat, n <= Len(u),
         ~CutOff(t, Len(t))
  PROVE  /\ ~CutOff(u, n)
         /\ \A i \in 0..n : Receiver!Readings(u)[i] = Receiver!Readings(t)[i]
<1>1. /\ Len(u) \in Nat /\ Len(t) \in Nat /\ n <= Len(t)
      /\ \A i \in 1..n : i \in 1..Len(u) /\ u[i] = t[i]
  BY DEF Begins, Strings
<1>2. \A i \in 0..n : Receiver!Readings(u)[i] = Receiver!Readings(t)[i]
  BY <1>1, ReadingsOfPrefix DEF Strings
<1>3. ~CutOff(t, n)
  BY <1>1, StaysCutOff
<1>4. ~CutOff(u, n)
  <2> SUFFICES ASSUME NEW i \in 1..n, u[i] = CR, Receiver!Readings(u)[i-1].state = "key",
                      Receiver!Readings(u)[i-1].key # <<>>
               PROVE  FALSE
    BY DEF CutOff
  <2>1. i - 1 \in 0..n
    OBVIOUS
  <2> QED
    BY <1>1, <1>2, <1>3, <2>1 DEF CutOff
<1> QED
  BY <1>2, <1>4

(* As long as a header is not complete, the sink has handed out nothing,   *)
(* and does not with its next round.                                       *)
LEMMA NothingYet ==
  ASSUME SinkInv, ~failed, NEW t, NEW w \in Strings, NEW x \in Strings, NEW y \in Strings, NEW a,
         IsTable(a), Spells(t, w, x, y, a), Begins(stream, t), Len(stream) <= Len(t) - 2
  PROVE  output = <<>> /\ ~Receiver!EndOfHeaders
<1> DEFINE i == fed - Len(data)
<1>1. Following /\ fed \in Nat
  BY DEF SinkInv
<1>2. Follows(stream, i, data, Now)
  BY <1>1 DEF Following
<1>3. i \in Nat /\ stream \in Strings /\ data \in Strings /\ i + Len(data) <= Len(stream)
      /\ Len(data) \in Nat /\ Len(stream) \in Nat
  BY <1>2 DEF Follows, Strings
<1>4. /\ t \in Strings /\ Len(t) - 2 \in Nat /\ ~CutOff(t, Len(t))
      /\ \A j \in 0..Len(t) - 2 : Receiver!Readings(t)[j].output = <<>>
  BY SinkGetsHeader
<1> HIDE DEF i
<1>5. \A n \in Nat : n <= Len(stream) =>
         ~CutOff(stream, n) /\ Receiver!Readings(stream)[n].output = <<>>
  <2> SUFFICES ASSUME NEW n \in Nat, n <= Len(stream)
               PROVE  ~CutOff(stream, n) /\ Receiver!Readings(stream)[n].output = <<>>
    OBVIOUS
  <2>1. /\ ~CutOff(stream, n)
        /\ \A j \in 0..n : Receiver!Readings(stream)[j] = Receiver!Readings(t)[j]
    BY <1>3, <1>4, CutOffBefore
  <2>2. n \in 0..n /\ n \in 0..Len(t) - 2
    BY <1>3, <1>4
  <2> QED
    BY <1>4, <2>1, <2>2
<1>6. i <= Len(stream) /\ ~CutOff(stream, i) /\ Receiver!Readings(stream)[i].output = <<>>
  BY <1>3, <1>5
<1>7. output = <<>>
  <2>1. Agrees(stream, i, data, Now)
    BY <1>2, <1>6 DEF Follows
  <2>2. Receiver!Readings(stream)[i].output = Now.output
    <3> DEFINE p == Now
    <3>1. Agrees(stream, i, data, p)
      BY <2>1
    <3> HIDE DEF p
    <3>2. \A s, r, k, v, o : Parser(s, r, k, v, o).output = o
      BY DEF Parser
    <3>3. Receiver!Readings(stream)[i].output = p.output
      BY <3>1, <3>2 DEF Agrees
    <3> QED
      BY <3>3 DEF p
  <2> QED
    BY <1>1, <1>6, <2>2, NowIs
<1>8. ASSUME Receiver!EndOfHeaders PROVE FALSE
  <2> DEFINE next == Parser("end_of_headers_lf", Receiver!EmptyRequest, key, value,
                            Append(output, result))
  <2>1. data # <<>> /\ state = "key" /\ Head(data) = CR
    BY <1>8, SameDelimiters DEF Receiver!EndOfHeaders
  <2>2. Receiver!ReadChar(Now, CR) = next
    BY <1>1, <2>1, NowIs, ReadsDelimiter
  <2>3. next.output = Append(output, result)
    BY DEF Parser
  <2> HIDE DEF next
  <2>4. Now.state \in Reads /\ data[1] = CR /\ Len(data) # 0
    BY <1>1, <1>3, <2>1, NowIs DEF Reads, Strings
  <2>5. Receiver!Readings(stream)[i + 1] = next
    BY <1>2, <1>6, <2>1, <2>2, <2>4, NextCharacter
  <2>6. i + 1 \in Nat /\ i + 1 <= Len(stream)
    BY <1>3, <2>4
  <2>7. Append(output, result) = <<>>
    BY <1>5, <2>3, <2>5, <2>6
  <2> QED
    BY <1>7, <2>7
<1> QED
  BY <1>7, <1>8

(* Nothing is sent at first,                                               *)
LEMMA SentStarts == Init => SentInv
<1> SUFFICES ASSUME Init PROVE SentInv
  OBVIOUS
<1> DEFINE P == AllPieces(message)
           N == Len(P)
<1>1. message \in Messages /\ pieces = P /\ stream = <<>>
  BY DEF Init, Sender!Init, Messages, AllPieces
<1>2. data = <<>> /\ output = <<>> /\ failed = FALSE
  BY DEF Init, Receiver!Init
<1>3. P \in Seq(Strings)
  BY <1>1, MessageIsGenerated DEF Init
<1> HIDE DEF P
<1>4. N \in Nat /\ P = SubSeq(P, 0 + 1, N) /\ P \in Seq(Seq(Characters))
  BY <1>3 DEF Strings
<1>5. PICK f : Concatenations(f, Characters, P, N)
  BY <1>4, ConcatenationsExist
<1>6. f[0] = <<>> /\ 0 \in 0..N
  BY <1>4, <1>5 DEF Concatenations
<1>7. HasSent(f, 0)
  BY <1>1, <1>3, <1>4, <1>5, <1>6 DEF HasSent, P
<1> QED
  BY <1>1, <1>2, <1>7 DEF SentInv

(* then one piece after the other.                                         *)
LEMMA SendsOn ==
  ASSUME NEW f, NEW n, HasSent(f, n), Sender!AppendPiece
  PROVE  HasSent(f, n + 1)'
<1> DEFINE P == AllPieces(message)
           N == Len(P)
<1>1. /\ P \in Seq(Strings) /\ Concatenations(f, Characters, P, N) /\ n \in 0..N
      /\ stream = f[n] /\ pieces = SubSeq(P, n + 1, N)
  BY DEF HasSent
<1>2. /\ pieces # <<>> /\ stream' = stream \o Head(pieces) /\ pieces' = Tail(pieces)
      /\ message' = message
  BY DEF Sender!AppendPiece
<1>3. P' = P
  BY <1>2 DEF AllPieces, Sender!IsRequest, Sender!IsResponse, Sender!GenerateRequest,
              Sender!GenerateResponse, Sender!GenerateLine, Sender!GenerateHeaderMap, Sender!GenerateHeader,
              Sender!Numeral
<1> HIDE DEF P
<1>4. N \in Nat /\ n \in Nat /\ n + 1 \in 1..N /\ n + 1 \in 0..N /\ (n + 1) - 1 = n
  <2>1. N \in Nat /\ n \in Nat /\ n <= N
    BY <1>1
  <2>2. n # N
    <3> SUFFICES ASSUME n = N PROVE FALSE
      OBVIOUS
    <3>1. pieces = <<>>
      BY <1>1, <2>1
    <3> QED
      BY <1>2, <3>1
  <2> QED
    BY <2>1, <2>2
<1>5. Head(pieces) = P[n + 1] /\ Tail(pieces) = SubSeq(P, (n + 1) + 1, N)
  <2> DEFINE q == SubSeq(P, n + 1, N)
             r == SubSeq(P, (n + 1) + 1, N)
  <2>1. /\ q \in Seq(Strings) /\ Len(q) = N - n /\ \A j \in 1..N - n : q[j] = P[n + j]
    BY <1>1, <1>4
  <2>2. /\ r \in Seq(Strings) /\ Len(r) = N - (n + 1)
        /\ \A j \in 1..N - (n + 1) : r[j] = P[(n + 1) + j]
    BY <1>1, <1>4
  <2> HIDE DEF q, r
  <2>3. Head(q) = P[n + 1]
    <3>1. Head(q) = q[1] /\ 1 \in 1..N - n
      BY <1>4, <2>1
    <3> QED
      BY <2>1, <3>1
  <2>4. Tail(q) = r
    <3>1. /\ Tail(q) \in Seq(Strings) /\ Len(Tail(q)) = Len(q) - 1
          /\ \A j \in 1..Len(q) - 1 : Tail(q)[j] = q[j + 1]
      <4>1. q # <<>>
        BY <1>4, <2>1
      <4> QED
        BY <2>1, <4>1
    <3>2. Len(Tail(q)) = Len(r)
      BY <1>4, <2>1, <2>2, <3>1
    <3>3. ASSUME NEW j \in 1..Len(r) PROVE Tail(q)[j] = r[j]
      <4>1. j \in 1..Len(q) - 1 /\ j + 1 \in 1..N - n /\ n + (j + 1) = (n + 1) + j /\ j \in 1..N - (n + 1)
        BY <1>4, <2>1, <2>2
      <4> QED
        BY <2>1, <2>2, <3>1, <4>1
    <3> QED
      BY <2>2, <3>1, <3>2, <3>3, SeqEqual
  <2> QED
    BY <1>1, <2>3, <2>4 DEF q, r
<1>6. f[n + 1] = f[n] \o P[n + 1]
  BY <1>1, <1>4 DEF Concatenations
<1>7. stream' = f[n + 1] /\ pieces' = SubSeq(P, (n + 1) + 1, N)
  BY <1>1, <1>2, <1>5, <1>6
<1> QED
  BY <1>1, <1>3, <1>4, <1>7 DEF HasSent, P

(* What the sink reads is no response, and before a header is complete     *)
(* m_output is not asked.                                                  *)
LEMMA SentParses ==
  ASSUME SentInv, ConnectionInv, Parse
  PROVE  SentInv'
<1>1. /\ Receiver!Round /\ message' = message /\ pieces' = pieces
      /\ stream' = stream /\ data # <<>>
  BY DEF Parse, Receiver!Round, Receiver!MethodOrPath, Receiver!Version, Receiver!SkipOptional,
         Receiver!EndOfHeaders, Receiver!Key, Receiver!Value
<1>2. /\ message \in Messages /\ ~Sender!IsResponse(message)
      /\ Sender!IsRequest(message) /\ Sender!NoLineBreaks(message) /\ pieces # <<>> => ~failed
  BY <1>1 DEF SentInv
<1>3. \E f, n : HasSent(f, n)'
  <2>1. PICK f, n : HasSent(f, n)
    BY DEF SentInv
  <2>2. AllPieces(message)' = AllPieces(message)
    BY <1>1 DEF AllPieces, Sender!IsRequest, Sender!IsResponse, Sender!GenerateRequest,
                Sender!GenerateResponse, Sender!GenerateLine, Sender!GenerateHeaderMap,
                Sender!GenerateHeader, Sender!Numeral
  <2>3. HasSent(f, n)'
    BY <1>1, <2>1, <2>2 DEF HasSent
  <2> QED
    BY <2>3
<1>4. ASSUME Sender!IsRequest(message), Sender!NoLineBreaks(message), pieces # <<>>
      PROVE  ~failed'
  <2>1. ~failed /\ SinkInv
    BY <1>2, <1>4 DEF ConnectionInv
  <2>2. PICK t : SentOf(t)
    BY <1>4, HeaderIsSent
  <2> DEFINE w == First1(message)
             x == First2(message)
             y == First3(message)
             a == message.arguments
  <2>3. Parts(w, x, y, a)
    BY <1>2, <1>4, HeaderHasParts
  <2>4. Spells(t, w, x, y, a) /\ Begins(stream, t) /\ Len(stream) <= Len(t) - 2
    BY <1>4, <2>2 DEF SentOf
  <2> HIDE DEF w, x, y, a
  <2>5. ~Receiver!EndOfHeaders
    BY <2>1, <2>3, <2>4, NothingYet DEF Parts
  <2> QED
    BY <1>1, <2>1, <2>5
       DEF Receiver!Round, Receiver!MethodOrPath, Receiver!Version, Receiver!SkipOptional,
           Receiver!Key, Receiver!Value
<1>5. /\ message' \in Messages
      /\ ~Sender!IsResponse(message)'
      /\ (Sender!IsRequest(message) /\ Sender!NoLineBreaks(message) /\ pieces # <<>> => ~failed)'
  BY <1>1, <1>2, <1>4
     DEF Sender!IsRequest, Sender!IsResponse, Sender!NoLineBreaks, Sender!Words, Sender!Rests, Sender!Without
<1> QED
  BY <1>3, <1>5 DEF SentInv

(* Every step keeps it.                                                    *)
LEMMA SentGoesOn ==
  ASSUME SentInv, ConnectionInv, [Next]_vars
  PROVE  SentInv'
<1>1. PICK f, n : HasSent(f, n)
  BY DEF SentInv
<1>2. ASSUME message' = message
      PROVE  /\ AllPieces(message)' = AllPieces(message)
             /\ Sender!IsRequest(message)' = Sender!IsRequest(message)
             /\ Sender!IsResponse(message)' = Sender!IsResponse(message)
             /\ Sender!NoLineBreaks(message)' = Sender!NoLineBreaks(message)
  BY <1>2 DEF AllPieces, Sender!IsRequest, Sender!IsResponse, Sender!GenerateRequest,
              Sender!GenerateResponse, Sender!GenerateLine, Sender!GenerateHeaderMap,
              Sender!GenerateHeader, Sender!Numeral,
              Sender!NoLineBreaks, Sender!Words, Sender!Rests, Sender!Without
<1>3. CASE Send
  <2>1. /\ Sender!AppendPiece /\ message' = message /\ pieces # <<>>
        /\ data' = data /\ output' = output /\ failed' = failed
    BY <1>3 DEF Send, Sender!AppendPiece
  <2>2. HasSent(f, n + 1)'
    BY <1>1, <2>1, SendsOn
  <2> QED
    BY <1>2, <2>1, <2>2 DEF SentInv
<1>4. ASSUME NEW c \in 1..Len(stream), Receive(c) PROVE SentInv'
  <2>1. /\ ~Sender!IsResponse(message) /\ message' = message /\ pieces' = pieces
        /\ stream' = stream /\ output' = output /\ failed' = failed
    BY <1>4 DEF Receive, Receiver!Feed
  <2>2. HasSent(f, n)'
    BY <1>1, <1>2, <2>1 DEF HasSent
  <2> QED
    BY <1>2, <2>1, <2>2 DEF SentInv
<1>5. CASE Parse
  BY <1>5, SentParses
<1>6. CASE UNCHANGED vars
  <2>1. UNCHANGED <<message, pieces, stream, data, output, failed>>
    BY <1>6 DEF vars
  <2>2. HasSent(f, n)'
    BY <1>1, <1>2, <2>1 DEF HasSent
  <2> QED
    BY <1>2, <2>1, <2>2 DEF SentInv
<1> QED
  BY <1>3, <1>4, <1>5, <1>6 DEF Next

-----------------------------------------------------------------------------
(* What is read of a message.                                              *)

(* The parser for the message reads a complete header,                     *)
LEMMA HeaderIsParsed ==
  ASSUME message \in Messages, Sender!NoLineBreaks(message), stream \in Strings,
         NEW t, SentOf(t)
  PROVE  /\ ReadsWithin(stream)
         /\ pieces # <<>> => ~Sender!Parse(stream).found
         /\ pieces = <<>> =>
              (Sender!Separable(message) <=> Sender!Is(Sender!Parse(stream), message))
<1> DEFINE w == First1(message)
           x == First2(message)
           y == First3(message)
           a == message.arguments
           l == LineOf(w, x, y)
           r == SplitLine(l)
<1>1. Parts(w, x, y, a) /\ w \in Strings /\ x \in Strings /\ y \in Strings /\ IsTable(a)
  BY HeaderHasParts DEF Parts
<1>2. /\ Spells(t, w, x, y, a) /\ Begins(stream, t) /\ t \in Strings
      /\ pieces = <<>> => stream = t
      /\ pieces # <<>> => Len(stream) <= Len(t) - 2
  BY DEF SentOf
<1>3. BatchSees(stream, t, l, a)
  <2> HIDE DEF w, x, y, a
  <2> QED
    BY <1>1, <1>2, HeaderSeen
<1>4. ReadsWithin(stream)
  BY <1>3 DEF BatchSees
<1>5. pieces # <<>> => Len(stream) < Len(t)
  BY <1>2 DEF Strings
<1>6. Sender!IsRequest(message) \/ Sender!IsResponse(message)
  BY DEF Sender!NoLineBreaks
<1>7. CASE message \in Requests
  <2>1. /\ DOMAIN message = {"method", "path", "http_version", "arguments"}
        /\ Sender!Parse(stream) = ParseRequest(stream)
        /\ w = message.method /\ x = message.path /\ y = message.http_version
    BY <1>7, RequestIs, SendersParser DEF Sender!Parse, First1, First2, First3
  <2>2. /\ Len(stream) < Len(t) => ~ParseRequest(stream).found
        /\ Len(stream) = Len(t) =>
             \E A : /\ HasRead(A, a)
                    /\ ParseRequest(stream) = [found |-> TRUE, method |-> r.method, path |-> r.path,
                                               http_version |-> r.http_version, arguments |-> A]
    <3> HIDE DEF w, x, y, a
    <3> QED
      BY <1>1, <1>3, RequestParsed
  <2>3. ASSUME pieces = <<>>
        PROVE  Sender!Separable(message) <=> Sender!Is(Sender!Parse(stream), message)
    <3>1. PICK A : /\ HasRead(A, a)
                   /\ ParseRequest(stream) = [found |-> TRUE, method |-> r.method, path |-> r.path,
                                              http_version |-> r.http_version, arguments |-> A]
      BY <1>2, <2>2, <2>3
    <3>2. Sender!Separable(message) <=> Matches(r, A, message)
      BY <3>1, SeparableMatches
    <3> HIDE DEF r
    <3>3. Sender!Is(Sender!Parse(stream), message)
            <=> /\ r.method = message.method /\ r.path = message.path
                /\ r.http_version = message.http_version /\ A = message.arguments
      BY <2>1, <3>1 DEF Sender!Is
    <3> QED
      BY <2>1, <3>2, <3>3 DEF Matches
  <2> QED
    BY <1>4, <1>5, <2>1, <2>2, <2>3
<1>8. CASE message \in Responses
  <2>1. /\ DOMAIN message = {"http_version", "status", "status_text", "arguments"}
        /\ Sender!Parse(stream) = Sender!ParseResponse(stream)
        /\ w = message.http_version /\ y = message.status_text
        /\ x = Sender!Numeral(message.status) /\ x \in DOMAIN Numerals /\ Numerals[x] = message.status
    BY <1>8, ResponseIs DEF Sender!Parse, First1, First2, First3
  <2>2. /\ Len(stream) < Len(t) => ~Sender!ParseResponse(stream).found
        /\ Len(stream) = Len(t) =>
             \E A : /\ HasRead(A, a)
                    /\ Sender!ParseResponse(stream) =
                         IF r.path \in DOMAIN Numerals
                           THEN [found |-> TRUE, http_version |-> r.method,
                                 status |-> Numerals[r.path], status_text |-> r.http_version,
                                 arguments |-> A]
                           ELSE Nothing
    <3> HIDE DEF w, x, y, a
    <3> QED
      BY <1>1, <1>3, ResponseParsed
  <2>3. ASSUME pieces = <<>>
        PROVE  Sender!Separable(message) <=> Sender!Is(Sender!Parse(stream), message)
    <3>1. PICK A : /\ HasRead(A, a)
                   /\ Sender!ParseResponse(stream) =
                        IF r.path \in DOMAIN Numerals
                          THEN [found |-> TRUE, http_version |-> r.method,
                                status |-> Numerals[r.path], status_text |-> r.http_version,
                                arguments |-> A]
                          ELSE Nothing
      BY <1>2, <2>2, <2>3
    <3>2. Sender!Separable(message) <=> Matches(r, A, message)
      BY <3>1, SeparableMatches
    <3> HIDE DEF r
    <3>3. Matches(r, A, message) <=>
            r.method = message.http_version /\ r.path = x
              /\ r.http_version = message.status_text /\ A = message.arguments
      BY <2>1 DEF Matches
    <3>4. Matches(r, A, message) => Sender!Is(Sender!Parse(stream), message)
      BY <2>1, <3>1, <3>3 DEF Sender!Is
    <3>5. ASSUME Sender!Is(Sender!Parse(stream), message) PROVE Matches(r, A, message)
      <4>1. r.path \in DOMAIN Numerals
        BY <2>1, <3>1, <3>5 DEF Sender!Is, Nothing
      <4>2. r.method = w /\ r.http_version = y /\ A = message.arguments
        BY <2>1, <3>1, <3>5, <4>1 DEF Sender!Is
      <4>3. r.path = x
        <5>1. \A j \in 1..Len(x) : x[j] # SP
          BY <1>8, <2>1, ResponseIs
        <5>2. /\ \A j \in 1..Len(r.method) : r.method[j] # SP
              /\ (\A j \in 1..Len(w) : w[j] # SP) /\ (\A j \in 1..Len(x) : x[j] # SP) => r.path = x
          <6> HIDE DEF w, x, y, l
          <6> QED
            BY <1>1, SplitLineIs DEF r, l
        <5> HIDE DEF w, x
        <5> QED
          BY <4>2, <5>1, <5>2
      <4> QED
        BY <2>1, <3>3, <4>2, <4>3
    <3> QED
      BY <3>2, <3>4, <3>5
  <2> QED
    BY <1>4, <1>5, <2>1, <2>2, <2>3
<1>9. message \notin [text : Texts]
  BY <1>6, OtherIs
<1> QED
  BY <1>7, <1>8, <1>9 DEF Messages

(* and so does the sink, however the header is cut.                        *)
LEMMA SinkHasMessage ==
  ASSUME SentInv, ConnectionInv, Sender!NoLineBreaks(message), Sender!IsRequest(message), AllParsed
  PROVE  Sender!Separable(message) <=> output = <<message>>
<1> DEFINE w == First1(message)
           x == First2(message)
           y == First3(message)
           a == message.arguments
           r == SplitLine(LineOf(w, x, y))
           o == Receiver!Readings(stream)[Len(stream)].output
<1>1. message \in Messages /\ pieces = <<>> /\ fed = Len(stream) /\ data = <<>> /\ ~failed
  BY DEF SentInv, AllParsed
<1>2. message \in Requests
  BY <1>1, ResponseIs, OtherIs DEF Messages
<1>3. Parts(w, x, y, a) /\ w \in Strings /\ x \in Strings /\ y \in Strings /\ IsTable(a)
  BY <1>1, HeaderHasParts DEF Parts
<1>4. PICK t : SentOf(t)
  BY HeaderIsSent
<1>5. Spells(stream, w, x, y, a)
  BY <1>1, <1>4 DEF SentOf
<1> HIDE DEF w, x, y, a, o
<1>6. PICK A : /\ HasRead(A, a)
               /\ ~CutOff(stream, Len(stream)) /\ stream \in Strings
               /\ o = <<Requested(r.method, r.path, r.http_version, A)>>
  BY <1>3, <1>5, SinkGetsHeader DEF o
<1> HIDE DEF r
<1>7. output = o
  <2>1. SubSeq(stream, 1, fed) = stream
    BY <1>1, <1>6 DEF Strings
  <2>2. ~Receiver!KeyCutOff(SubSeq(stream, 1, fed))
    BY <1>6, <2>1, SameDelimiters DEF CutOff, Receiver!KeyCutOff
  <2>3. PiecesDoNotMatter
    BY BetweenPieces DEF ConnectionInv
  <2> QED
    BY <1>1, <2>2, <2>3 DEF PiecesDoNotMatter, Receiver!PiecesDoNotMatter, o
<1>8. Sender!Separable(message) <=> Matches(r, A, message)
  BY <1>1, <1>6, SeparableMatches DEF r, w, x, y, a
<1>9. /\ message = Requested(message.method, message.path, message.http_version, message.arguments)
      /\ First1(message) = message.method /\ First2(message) = message.path
      /\ First3(message) = message.http_version
  BY <1>2, RequestIs DEF AsRequest, Requested, First1, First2, First3
<1> DEFINE q == Requested(r.method, r.path, r.http_version, A)
<1>10. output = <<message>> <=> q = message
  BY <1>6, <1>7
<1>11. q = message <=> Matches(r, A, message)
  <2>1. q.method = r.method /\ q.path = r.path /\ q.http_version = r.http_version /\ q.arguments = A
    BY DEF Requested
  <2>2. q = message => Matches(r, A, message)
    BY <1>9, <2>1 DEF Matches
  <2>3. Matches(r, A, message) => q = message
    BY <1>9 DEF Matches
  <2> QED
    BY <2>2, <2>3
<1> QED
  BY <1>8, <1>10, <1>11

(* So a message is read back,                                              *)
LEMMA SentReadBack == SentInv /\ ConnectionInv => ReadBack
<1> SUFFICES ASSUME SentInv, ConnectionInv, Sender!NoLineBreaks(message)
             PROVE  /\ ReadsWithin(stream)
                    /\ pieces = <<>> =>
                         (Sender!Separable(message) <=> Sender!Is(Sender!Parse(stream), message))
                    /\ AllParsed /\ Sender!IsRequest(message) =>
                         (Sender!Separable(message) <=> output = <<message>>)
  BY DEF ReadBack
<1>1. message \in Messages /\ stream \in Strings
  BY DEF SentInv, ConnectionInv
<1>2. PICK t : SentOf(t)
  BY HeaderIsSent
<1>3. /\ ReadsWithin(stream)
      /\ pieces = <<>> =>
           (Sender!Separable(message) <=> Sender!Is(Sender!Parse(stream), message))
  BY <1>1, <1>2, HeaderIsParsed
<1>4. ASSUME AllParsed, Sender!IsRequest(message)
      PROVE  Sender!Separable(message) <=> output = <<message>>
  BY <1>4, SinkHasMessage
<1> QED
  BY <1>3, <1>4

(* and not before its end.                                                 *)
LEMMA SentNotEnded == SentInv /\ ConnectionInv => NoEarlyEnd
<1> SUFFICES ASSUME SentInv, ConnectionInv, pieces # <<>>, Sender!NoLineBreaks(message)
             PROVE  ~Sender!Parse(stream).found /\ output = <<>>
  BY DEF NoEarlyEnd
<1> DEFINE w == First1(message)
           x == First2(message)
           y == First3(message)
           a == message.arguments
<1>1. message \in Messages /\ stream \in Strings
  BY DEF SentInv, ConnectionInv
<1>2. PICK t : SentOf(t)
  BY HeaderIsSent
<1>3. ~Sender!Parse(stream).found
  BY <1>1, <1>2, HeaderIsParsed
<1>4. CASE Sender!IsResponse(message)
  BY <1>3, <1>4 DEF SentInv
<1>5. CASE Sender!IsRequest(message)
  <2>1. ~failed /\ SinkInv
    BY <1>5 DEF SentInv, ConnectionInv
  <2>2. Parts(w, x, y, a) /\ w \in Strings /\ x \in Strings /\ y \in Strings /\ IsTable(a)
    BY <1>1, HeaderHasParts DEF Parts
  <2>3. Spells(t, w, x, y, a) /\ Begins(stream, t) /\ Len(stream) <= Len(t) - 2
    BY <1>2 DEF SentOf
  <2> HIDE DEF w, x, y, a
  <2>4. output = <<>>
    BY <2>1, <2>2, <2>3, NothingYet
  <2> QED
    BY <1>3, <2>4
<1> QED
  BY <1>4, <1>5 DEF Sender!NoLineBreaks

(***************************************************************************)
(* Every header this library generates, append by append and cut in every  *)
(* way, is read back by parse_request, parse_response and                  *)
(* request_parser_sink exactly when no word has a space and no key a       *)
(* colon, as long as nothing in it is a line break; and split_value_line   *)
(* never looks behind the end of a line of it.                             *)
(***************************************************************************)
THEOREM ReadBackCorrect == Spec => []ReadBack
<1> DEFINE IInv == SentInv /\ ConnectionInv
<1>1. Init => IInv
  BY SentStarts, ConnectionStarts
<1>2. IInv /\ [Next]_vars => IInv'
  BY SentGoesOn, ConnectionGoesOn
<1>3. IInv => ReadBack
  BY SentReadBack
<1> HIDE DEF IInv
<1> QED
  BY <1>1, <1>2, <1>3, PTL DEF Spec

(***************************************************************************)
(* As long as a piece of a header is missing, none of the parsers takes    *)
(* what has arrived of it for a whole one.                                 *)
(***************************************************************************)
THEOREM NoEarlyEndCorrect == Spec => []NoEarlyEnd
<1> DEFINE IInv == SentInv /\ ConnectionInv
<1>1. Init => IInv
  BY SentStarts, ConnectionStarts
<1>2. IInv /\ [Next]_vars => IInv'
  BY SentGoesOn, ConnectionGoesOn
<1>3. IInv => NoEarlyEnd
  BY SentNotEnded
<1> HIDE DEF IInv
<1> QED
  BY <1>1, <1>2, <1>3, PTL DEF Spec

-----------------------------------------------------------------------------
(* Html: the lengths of sequences of sequences.                            *)

(* Together they are one sequence.                                         *)
LEMMA FlattenSeqType ==
  ASSUME NEW S, NEW seqs \in Seq(Seq(S))
  PROVE  FlattenSeq(seqs) \in Seq(S)
<1>1. PICK f : Concatenations(f, S, seqs, Len(seqs)) /\ FlattenSeq(seqs) = f[Len(seqs)]
  BY FlattenSeqIs
<1>2. Len(seqs) \in 0..Len(seqs)
  OBVIOUS
<1> QED
  BY <1>1, <1>2 DEF Concatenations

(* The length of what a prefix of the sequences are together. *)
LengthsOf(n, S, seqs) ==
  /\ n[0] = 0
  /\ \A i \in 0..Len(seqs) : n[i] \in Nat
  /\ \A i \in 1..Len(seqs) : n[i] = n[i-1] + Len(seqs[i])
  /\ Len(FlattenSeq(seqs)) = n[Len(seqs)]

(* Its length is the sum of theirs.                                        *)
LEMMA FlattenSeqLengths ==
  ASSUME NEW S, NEW seqs \in Seq(Seq(S))
  PROVE  \E n : LengthsOf(n, S, seqs)
<1>1. PICK f : Concatenations(f, S, seqs, Len(seqs)) /\ FlattenSeq(seqs) = f[Len(seqs)]
  BY FlattenSeqIs
<1> DEFINE L == Len(seqs)
           n == [i \in 0..L |-> Len(f[i])]
<1>2. L \in Nat
  OBVIOUS
<1>3. /\ \A i \in 0..L : f[i] \in Seq(S)
      /\ f[0] = <<>>
      /\ \A i \in 1..L : f[i] = f[i-1] \o seqs[i]
      /\ FlattenSeq(seqs) = f[L]
  BY <1>1 DEF Concatenations
<1>4. \A i \in 1..L : seqs[i] \in Seq(S)
  OBVIOUS
<1> HIDE DEF L
<1>5. \A i \in 0..L : n[i] \in Nat /\ n[i] = Len(f[i])
  BY <1>3
<1>6. n[0] = 0 /\ Len(FlattenSeq(seqs)) = n[L]
  BY <1>2, <1>3, <1>5
<1>7. ASSUME NEW i \in 1..L PROVE n[i] = n[i-1] + Len(seqs[i])
  <2>1. i \in 0..L /\ i - 1 \in 0..L
    BY <1>2
  <2>2. f[i] = f[i-1] \o seqs[i] /\ f[i-1] \in Seq(S) /\ seqs[i] \in Seq(S)
    BY <1>3, <1>4, <2>1
  <2>3. Len(f[i]) = Len(f[i-1]) + Len(seqs[i])
    BY <2>2
  <2> QED
    BY <1>5, <2>1, <2>3
<1> HIDE DEF n
<1>8. LengthsOf(n, S, seqs)
  BY <1>5, <1>6, <1>7 DEF LengthsOf, L
<1> QED
  BY <1>8

(* If no sequence of s is shorter than that of t, all of s are not, and    *)
(* the same for equally long ones.                                         *)
LEMMA FlattenSeqLonger ==
  ASSUME NEW S, NEW s \in Seq(Seq(S)), NEW t \in Seq(Seq(S)), Len(s) = Len(t),
         \A i \in 1..Len(s) : Len(s[i]) >= Len(t[i])
  PROVE  /\ Len(FlattenSeq(s)) \in Nat /\ Len(FlattenSeq(t)) \in Nat
         /\ Len(FlattenSeq(s)) >= Len(FlattenSeq(t))
<1>1. PICK m : LengthsOf(m, S, s)
  BY FlattenSeqLengths
<1>2. PICK n : LengthsOf(n, S, t)
  BY FlattenSeqLengths
<1> DEFINE T == {k \in Nat : k <= Len(s) => m[k] >= n[k]}
<1>3. 0 \in T
  BY <1>1, <1>2 DEF LengthsOf
<1>4. ASSUME NEW k \in T PROVE k + 1 \in T
  <2>1. k \in Nat /\ (k <= Len(s) => m[k] >= n[k])
    OBVIOUS
  <2> HIDE DEF T
  <2> SUFFICES ASSUME k + 1 <= Len(s) PROVE m[k + 1] >= n[k + 1]
    BY <2>1 DEF T
  <2>2. k + 1 \in 1..Len(s) /\ (k + 1) - 1 = k /\ k <= Len(s) /\ k \in 0..Len(s)
    BY <2>1
  <2>3. m[k + 1] = m[k] + Len(s[k + 1]) /\ n[k + 1] = n[k] + Len(t[k + 1])
    BY <1>1, <1>2, <2>2 DEF LengthsOf
  <2>4. m[k] \in Nat /\ n[k] \in Nat
    BY <1>1, <1>2, <2>2 DEF LengthsOf
  <2>5. Len(s[k + 1]) \in Nat /\ Len(t[k + 1]) \in Nat /\ Len(s[k + 1]) >= Len(t[k + 1])
    BY <2>2
  <2> QED
    BY <2>1, <2>2, <2>3, <2>4, <2>5
<1> HIDE DEF T
<1>5. T \in SUBSET Nat
  BY DEF T
<1>6. T = Nat
  BY <1>3, <1>4, <1>5, SetInduction
<1>7. Len(s) \in T /\ Len(s) \in 0..Len(s)
  BY <1>6
<1>8. m[Len(s)] >= n[Len(s)]
  BY <1>7 DEF T
<1> QED
  BY <1>1, <1>2, <1>7, <1>8 DEF LengthsOf

(* Equally long sequences are equally long together.                       *)
LEMMA FlattenSeqAsLong ==
  ASSUME NEW S, NEW s \in Seq(Seq(S)), NEW t \in Seq(Seq(S)), Len(s) = Len(t),
         \A i \in 1..Len(s) : Len(s[i]) = Len(t[i])
  PROVE  Len(FlattenSeq(s)) = Len(FlattenSeq(t))
<1>1. \A i \in 1..Len(s) : Len(s[i]) \in Nat /\ Len(s[i]) >= Len(t[i]) /\ Len(t[i]) >= Len(s[i])
  OBVIOUS
<1>2. Len(FlattenSeq(s)) >= Len(FlattenSeq(t)) /\ Len(FlattenSeq(s)) \in Nat
  BY <1>1, FlattenSeqLonger
<1>3. Len(FlattenSeq(t)) >= Len(FlattenSeq(s)) /\ Len(FlattenSeq(t)) \in Nat
  BY <1>1, FlattenSeqLonger
<1> QED
  BY <1>2, <1>3

(* The sequences of s, and behind them those of t. *)
LEMMA FlattenSeqSum ==
  ASSUME NEW S, NEW s \in Seq(Seq(S)), NEW t \in Seq(Seq(S))
  PROVE  Len(FlattenSeq(s \o t)) = Len(FlattenSeq(s)) + Len(FlattenSeq(t))
<1> DEFINE u == s \o t
           L == Len(s)
           M == Len(t)
<1>1. /\ u \in Seq(Seq(S)) /\ L \in Nat /\ M \in Nat /\ Len(u) = L + M
      /\ \A i \in 1..L : u[i] = s[i]
      /\ \A i \in 1..M : u[L + i] = t[i]
  OBVIOUS
<1>2. PICK m : LengthsOf(m, S, s)
  BY FlattenSeqLengths
<1>3. PICK n : LengthsOf(n, S, t)
  BY FlattenSeqLengths
<1>4. PICK o : LengthsOf(o, S, u)
  BY <1>1, FlattenSeqLengths
<1> HIDE DEF u, L, M
<1>5. /\ m[0] = 0 /\ n[0] = 0 /\ o[0] = 0
      /\ \A i \in 0..L : m[i] \in Nat
      /\ \A i \in 0..M : n[i] \in Nat
      /\ \A i \in 0..L + M : o[i] \in Nat
      /\ Len(FlattenSeq(s)) = m[L] /\ Len(FlattenSeq(t)) = n[M]
      /\ Len(FlattenSeq(u)) = o[L + M]
  BY <1>1, <1>2, <1>3, <1>4 DEF LengthsOf, L, M
<1>6. /\ \A i \in 1..L : m[i] = m[i-1] + Len(s[i])
      /\ \A i \in 1..M : n[i] = n[i-1] + Len(t[i])
      /\ \A i \in 1..L + M : o[i] = o[i-1] + Len(u[i])
  BY <1>1, <1>2, <1>3, <1>4 DEF LengthsOf, L, M
<1> DEFINE T == {k \in Nat : k <= L => o[k] = m[k]}
           U == {k \in Nat : k <= M => o[L + k] = m[L] + n[k]}
<1>7. T = Nat
  <2>1. 0 \in T
    BY <1>5
  <2>2. ASSUME NEW k \in T PROVE k + 1 \in T
    <3>1. k \in Nat /\ (k <= L => o[k] = m[k])
      OBVIOUS
    <3> HIDE DEF T
    <3> SUFFICES ASSUME k + 1 <= L PROVE o[k + 1] = m[k + 1]
      BY <3>1 DEF T
    <3>2. k + 1 \in 1..L /\ k + 1 \in 1..L + M /\ (k + 1) - 1 = k /\ k <= L
      BY <1>1, <3>1
    <3> QED
      BY <1>1, <1>6, <3>1, <3>2
  <2> HIDE DEF T
  <2>3. T \in SUBSET Nat
    BY DEF T
  <2> QED
    BY <2>1, <2>2, <2>3, SetInduction
<1>8. o[L] = m[L]
  <2>1. L <= L
    BY <1>1
  <2> HIDE DEF T
  <2>2. L \in T
    BY <1>1, <1>7
  <2>3. L <= L => o[L] = m[L]
    BY <2>2 DEF T
  <2> QED
    BY <2>1, <2>3
<1> HIDE DEF T
<1>9. U = Nat
  <2>1. 0 \in U
    <3>1. L + 0 = L /\ m[L] + 0 = m[L]
      BY <1>1, <1>5
    <3> QED
      BY <1>5, <1>8, <3>1
  <2>2. ASSUME NEW k \in U PROVE k + 1 \in U
    <3>1. k \in Nat /\ (k <= M => o[L + k] = m[L] + n[k])
      OBVIOUS
    <3> HIDE DEF U
    <3> SUFFICES ASSUME k + 1 <= M PROVE o[L + (k + 1)] = m[L] + n[k + 1]
      BY <3>1 DEF U
    <3>2. /\ k + 1 \in 1..M /\ L + (k + 1) \in 1..L + M /\ (k + 1) - 1 = k
          /\ (L + (k + 1)) - 1 = L + k /\ k <= M /\ k \in 0..M /\ L \in 0..L
      BY <1>1, <3>1
    <3>3. o[L + (k + 1)] = o[L + k] + Len(t[k + 1]) /\ n[k + 1] = n[k] + Len(t[k + 1])
      BY <1>1, <1>6, <3>2
    <3>4. Len(t[k + 1]) \in Nat
      BY <3>2 DEF M
    <3>5. m[L] \in Nat /\ n[k] \in Nat
      BY <1>5, <3>2
    <3> QED
      BY <3>1, <3>2, <3>3, <3>4, <3>5
  <2> HIDE DEF U
  <2>3. U \in SUBSET Nat
    BY DEF U
  <2> QED
    BY <2>1, <2>2, <2>3, SetInduction
<1>10. o[L + M] = m[L] + n[M]
  <2>1. M <= M
    BY <1>1
  <2> HIDE DEF U
  <2>2. M \in U
    BY <1>1, <1>9
  <2>3. M <= M => o[L + M] = m[L] + n[M]
    BY <2>2 DEF U
  <2> QED
    BY <2>1, <2>3
<1> QED
  BY <1>5, <1>10 DEF u

(* Of one sequence it is that one's.                                       *)
LEMMA FlattenSeqOfOne ==
  ASSUME NEW S, NEW x \in Seq(S)
  PROVE  Len(FlattenSeq(<<x>>)) = Len(x)
<1>1. <<x>> \in Seq(Seq(S)) /\ Len(<<x>>) = 1 /\ <<x>>[1] = x
  OBVIOUS
<1>2. PICK n : LengthsOf(n, S, <<x>>)
  BY <1>1, FlattenSeqLengths
<1>3. 1 \in 1..1 /\ 1 - 1 = 0 /\ Len(x) \in Nat
  OBVIOUS
<1> QED
  BY <1>1, <1>2, <1>3 DEF LengthsOf

(* As many elements as there are sequences of one element. *)
LEMMA FlattenSeqOfOnes ==
  ASSUME NEW S, NEW seqs \in Seq(Seq(S)), \A i \in 1..Len(seqs) : Len(seqs[i]) = 1
  PROVE  Len(FlattenSeq(seqs)) = Len(seqs)
<1> DEFINE L == Len(seqs)
<1>1. PICK n : LengthsOf(n, S, seqs)
  BY FlattenSeqLengths
<1>2. L \in Nat /\ L \in 0..L /\ L <= L
  OBVIOUS
<1>3. /\ n[0] = 0 /\ Len(FlattenSeq(seqs)) = n[L]
      /\ \A i \in 1..L : n[i] = n[i-1] + 1
  BY <1>1 DEF LengthsOf
<1> HIDE DEF L
<1> DEFINE T == {k \in Nat : k <= L => n[k] = k}
<1>4. T = Nat
  <2>1. 0 \in T
    BY <1>3
  <2>2. ASSUME NEW k \in T PROVE k + 1 \in T
    <3>1. k \in Nat /\ (k <= L => n[k] = k)
      OBVIOUS
    <3> HIDE DEF T
    <3> SUFFICES ASSUME k + 1 <= L PROVE n[k + 1] = k + 1
      BY <3>1 DEF T
    <3>2. k + 1 \in 1..L /\ (k + 1) - 1 = k /\ k <= L
      BY <1>2, <3>1
    <3> QED
      BY <1>3, <3>1, <3>2
  <2> HIDE DEF T
  <2>3. T \in SUBSET Nat
    BY DEF T
  <2> QED
    BY <2>1, <2>2, <2>3, SetInduction
<1>5. n[L] = L
  <2> HIDE DEF T
  <2>1. L \in T
    BY <1>2, <1>4
  <2> QED
    BY <1>2, <2>1 DEF T
<1> QED
  BY <1>3, <1>5 DEF L

-----------------------------------------------------------------------------
(* Lengths of texts.                                                       *)

(* The characters in what is generated. *)
Written == Alphabet \cup {"&", "<", ">", "\"", ";", "/", " ", "="} \cup DOMAIN Letters

(* write_char(): one character, or an entity.                              *)
LEMMA WrittenChar ==
  ASSUME NEW c \in Alphabet
  PROVE  /\ WriteChar(c) \in Seq(Written)
         /\ Len(WriteChar(c)) >= 1
         /\ c \notin Special => Len(WriteChar(c)) = 1
<1>1. CASE c \in Special
  <2>1. PICK m : m = CHOOSE l \in DOMAIN Letters : Letters[l] = c
    OBVIOUS
  <2>2. m \in DOMAIN Letters
    BY <1>1, <2>1 DEF Special
  <2>3. WriteChar(c) = <<"&", m, ";">>
    BY <1>1, <2>1 DEF WriteChar
  <2>4. "&" \in Written /\ m \in Written /\ ";" \in Written
    BY <2>2 DEF Written
  <2>5. \A x, y, z \in Written : <<x, y, z>> \in Seq(Written)
    OBVIOUS
  <2>6. \A x, y, z : Len(<<x, y, z>>) = 3
    OBVIOUS
  <2>7. WriteChar(c) \in Seq(Written)
    BY <2>3, <2>4, <2>5
  <2>8. Len(WriteChar(c)) = 3
    BY <2>3, <2>6
  <2> QED
    BY <1>1, <2>7, <2>8
<1>2. CASE c \notin Special
  <2>1. WriteChar(c) = <<c>> /\ c \in Written
    BY <1>2 DEF WriteChar, Written
  <2>2. \A x \in Written : <<x>> \in Seq(Written) /\ Len(<<x>>) = 1
    OBVIOUS
  <2> QED
    BY <2>1, <2>2
<1> QED
  BY <1>1, <1>2

(* write_string(): not shorter than the text, and as long as one without   *)
(* special characters.                                                     *)
LEMMA WrittenString ==
  ASSUME NEW t \in Seq(Alphabet)
  PROVE  /\ WriteString(t) \in Seq(Written)
         /\ Len(WriteString(t)) \in Nat /\ Len(t) \in Nat
         /\ Len(WriteString(t)) >= Len(t)
         /\ (\A i \in DOMAIN t : t[i] \notin Special) => Len(WriteString(t)) = Len(t)
<1> DEFINE u == [i \in DOMAIN t |-> WriteChar(t[i])]
           v == [i \in DOMAIN t |-> <<t[i]>>]
<1>1. Len(t) \in Nat /\ DOMAIN t = 1..Len(t) /\ \A i \in 1..Len(t) : t[i] \in Alphabet
  OBVIOUS
<1>2. \A i \in 1..Len(t) : t[i] \in Written
  BY <1>1 DEF Written
<1>3. /\ u \in Seq(Seq(Written)) /\ Len(u) = Len(t)
      /\ \A i \in 1..Len(t) : u[i] = WriteChar(t[i])
  <2>1. \A i \in 1..Len(t) : WriteChar(t[i]) \in Seq(Written)
    BY <1>1, WrittenChar
  <2> HIDE DEF v
  <2> QED
    BY <1>1, <2>1
<1>4. /\ v \in Seq(Seq(Written)) /\ Len(v) = Len(t)
      /\ \A i \in 1..Len(t) : Len(v[i]) = 1
  <2>1. \A i \in 1..Len(t) : <<t[i]>> \in Seq(Written) /\ Len(<<t[i]>>) = 1
    BY <1>2
  <2> HIDE DEF u
  <2> QED
    BY <1>1, <2>1
<1>5. WriteString(t) = FlattenSeq(u)
  BY DEF WriteString
<1> HIDE DEF u, v
<1>6. FlattenSeq(u) \in Seq(Written)
  BY <1>3, FlattenSeqType
<1>7. Len(FlattenSeq(v)) = Len(t)
  BY <1>4, FlattenSeqOfOnes
<1>8. \A i \in 1..Len(u) : Len(u[i]) >= Len(v[i])
  BY <1>1, <1>3, <1>4, WrittenChar
<1>9. Len(FlattenSeq(u)) >= Len(FlattenSeq(v)) /\ Len(FlattenSeq(u)) \in Nat
  BY <1>3, <1>4, <1>8, FlattenSeqLonger
<1>10. ASSUME \A i \in DOMAIN t : t[i] \notin Special
       PROVE  Len(FlattenSeq(u)) = Len(FlattenSeq(v))
  <2>1. \A i \in 1..Len(u) : Len(u[i]) = Len(v[i])
    BY <1>1, <1>3, <1>4, <1>10, WrittenChar
  <2> QED
    BY <1>3, <1>4, <2>1, FlattenSeqAsLong
<1> QED
  BY <1>1, <1>5, <1>6, <1>7, <1>9, <1>10

-----------------------------------------------------------------------------
(* Elements.                                                               *)

(* A part of what an element appends.                                      *)
Piece == [kind : {"fixed", "owned"}, text : Seq(Written)]

(* What is left of pieces at least, when strings that were owned are moved. *)
Left(p) ==
  [i \in 1..Len(p) |-> IF p[i].kind = "owned" THEN <<>> ELSE p[i].text]

(* Its length is what an element has at least.                             *)
Weight(p) == Len(FlattenSeq(Left(p)))

(* The empty text,                                                         *)
LEMMA EmptyWritten == <<>> \in Seq(Written)
OBVIOUS

(* texts of the program,                                                   *)
LEMMA TextIsWritten ==
  ASSUME NEW t \in Seq(Alphabet)
  PROVE  t \in Seq(Written)
<1>1. t \in [1..Len(t) -> Alphabet] /\ Len(t) \in Nat
  OBVIOUS
<1>2. Alphabet \subseteq Written
  BY DEF Written
<1>3. t \in [1..Len(t) -> Written]
  BY <1>1, <1>2
<1> QED
  BY <1>1, <1>3

(* and the texts in pieces.                                                *)
LEMMA PieceIs ==
  ASSUME NEW p \in Seq(Piece)
  PROVE  /\ Len(p) \in Nat /\ DOMAIN p = 1..Len(p)
         /\ \A i \in 1..Len(p) : p[i].text \in Seq(Written)
<1>1. \A x \in Piece : x.text \in Seq(Written)
  BY DEF Piece
<1>2. \A i \in 1..Len(p) : p[i] \in Piece
  OBVIOUS
<1> QED
  BY <1>1, <1>2

(* Two sequences, one behind the other.                                    *)
LEMMA Together ==
  ASSUME NEW S, NEW s \in Seq(S), NEW t \in Seq(S)
  PROVE  s \o t \in Seq(S) /\ Len(s \o t) = Len(s) + Len(t) /\ Len(s) \in Nat /\ Len(t) \in Nat
OBVIOUS

(* What is left is texts again.                                            *)
LEMMA LeftType ==
  ASSUME NEW p \in Seq(Piece)
  PROVE  /\ Left(p) \in Seq(Seq(Written)) /\ Len(Left(p)) = Len(p)
         /\ Weight(p) \in Nat
<1>1. \A i \in 1..Len(p) : p[i].text \in Seq(Written)
  BY PieceIs
<1>2. <<>> \in Seq(Written) /\ Len(p) \in Nat
  OBVIOUS
<1>3. Left(p) \in Seq(Seq(Written)) /\ Len(Left(p)) = Len(p)
  BY <1>1, <1>2 DEF Left
<1>4. FlattenSeq(Left(p)) \in Seq(Written)
  BY <1>3, FlattenSeqType
<1>5. Weight(p) \in Nat
  BY <1>4 DEF Weight
<1> QED
  BY <1>3, <1>5

(* Pieces weigh together what they weigh alone.                            *)
LEMMA WeightOfBoth ==
  ASSUME NEW p \in Seq(Piece), NEW q \in Seq(Piece)
  PROVE  /\ p \o q \in Seq(Piece)
         /\ Weight(p \o q) = Weight(p) + Weight(q)
<1>1. /\ p \o q \in Seq(Piece) /\ Len(p \o q) = Len(p) + Len(q)
      /\ Len(p) \in Nat /\ Len(q) \in Nat
      /\ \A i \in 1..Len(p) : (p \o q)[i] = p[i]
      /\ \A i \in 1..Len(q) : (p \o q)[Len(p) + i] = q[i]
  OBVIOUS
<1> DEFINE r == p \o q
           a == Left(p)
           b == Left(q)
           c == Left(r)
<1>2. /\ a \in Seq(Seq(Written)) /\ Len(a) = Len(p)
      /\ b \in Seq(Seq(Written)) /\ Len(b) = Len(q)
      /\ c \in Seq(Seq(Written)) /\ Len(c) = Len(p) + Len(q)
  BY <1>1, LeftType
<1>3. ASSUME NEW i \in 1..Len(p) PROVE c[i] = a[i]
  <2>1. i \in 1..Len(r) /\ r[i] = p[i]
    BY <1>1
  <2> HIDE DEF r
  <2> QED
    BY <2>1 DEF Left
<1>4. ASSUME NEW i \in 1..Len(q) PROVE c[Len(p) + i] = b[i]
  <2>1. Len(p) + i \in 1..Len(r) /\ r[Len(p) + i] = q[i]
    BY <1>1
  <2> HIDE DEF r
  <2> QED
    BY <2>1 DEF Left
<1> HIDE DEF a, b, c
<1>5. c = a \o b
  <2>1. PICK T : a \in Seq(T) /\ b \in Seq(T) /\ c \in Seq(T)
    BY <1>2
  <2>2. a \o b \in Seq(T) /\ Len(a \o b) = Len(a) + Len(b)
    BY <2>1, Together
  <2>3. /\ \A i \in 1..Len(a) : (a \o b)[i] = a[i]
        /\ \A i \in 1..Len(b) : (a \o b)[Len(a) + i] = b[i]
    BY <2>1
  <2>4. c \in Seq(T) /\ Len(c) = Len(a \o b) /\ Len(c) = Len(p) + Len(q)
    BY <1>2, <2>1, <2>2
  <2>5. ASSUME NEW i \in 1..Len(p) + Len(q) PROVE c[i] = (a \o b)[i]
    <3>1. CASE i <= Len(p)
      <4>1. i \in 1..Len(p) /\ i \in 1..Len(a)
        BY <1>1, <1>2, <3>1
      <4> QED
        BY <1>3, <2>3, <4>1
    <3>2. CASE i > Len(p)
      <4>1. PICK j \in 1..Len(q) : i = Len(p) + j
        <5>1. i - Len(p) \in 1..Len(q) /\ i = Len(p) + (i - Len(p))
          BY <1>1, <3>2
        <5> QED
          BY <5>1
      <4>2. (a \o b)[Len(a) + j] = b[j]
        BY <1>2, <2>3
      <4>3. c[Len(p) + j] = b[j] /\ Len(a) = Len(p)
        BY <1>2, <1>4
      <4> QED
        BY <4>1, <4>2, <4>3
    <3>3. i <= Len(p) \/ i > Len(p)
      BY <1>1
    <3> QED
      BY <3>1, <3>2, <3>3
  <2> QED
    BY <2>2, <2>4, <2>5, SeqEqual
<1>6. Len(FlattenSeq(c)) = Len(FlattenSeq(a)) + Len(FlattenSeq(b))
  BY <1>2, <1>5, FlattenSeqSum
<1> QED
  BY <1>1, <1>6 DEF Weight, a, b, c, r

(* One piece, and none. *)
LEMMA WeightOfOne ==
  ASSUME NEW t \in Seq(Written)
  PROVE  /\ <<Fixed(t)>> \in Seq(Piece) /\ Weight(<<Fixed(t)>>) = Len(t)
         /\ <<Owned(t)>> \in Seq(Piece) /\ Weight(<<Owned(t)>>) = 0
<1>1. Fixed(t) \in Piece /\ Owned(t) \in Piece
  BY DEF Fixed, Owned, Piece
<1>2. \A x \in Piece : <<x>> \in Seq(Piece) /\ Len(<<x>>) = 1 /\ <<x>>[1] = x
  OBVIOUS
<1>3. Left(<<Fixed(t)>>) = <<t>>
  <2>1. Fixed(t).kind # "owned" /\ Fixed(t).text = t
    BY DEF Fixed
  <2> QED
    BY <1>1, <1>2, <2>1 DEF Left
<1>4. Left(<<Owned(t)>>) = <<<<>>>>
  <2>1. Owned(t).kind = "owned"
    BY DEF Owned
  <2> QED
    BY <1>1, <1>2, <2>1 DEF Left
<1>5. PICK e \in Seq(Written) : e = <<>>
  BY EmptyWritten
<1>7. Len(e) = 0
  BY <1>5
<1>6. Len(FlattenSeq(<<t>>)) = Len(t) /\ Len(FlattenSeq(<<e>>)) = Len(e)
  BY FlattenSeqOfOne
<1> QED
  BY <1>1, <1>2, <1>3, <1>4, <1>5, <1>6, <1>7 DEF Weight

(* No pieces weigh nothing.                                                *)
LEMMA WeightOfNone == <<>> \in Seq(Piece) /\ Weight(<<>>) = 0
<1>1. <<>> \in Seq(Piece)
  OBVIOUS
<1>2. PICK p \in Seq(Piece) : p = <<>>
  BY <1>1
<1>3. p \o p = p
  BY <1>2
<1>4. Weight(p \o p) = Weight(p) + Weight(p) /\ Weight(p) \in Nat
  BY WeightOfBoth, LeftType
<1> QED
  BY <1>2, <1>3, <1>4

(* None of the pieces is owned.                                            *)
Whole(p) == \A i \in DOMAIN p : p[i].kind # "owned"

(* l is not more than what p appends, whatever else is moved. *)
AtLeast(p, l) ==
  /\ p \in Seq(Piece) /\ l \in Nat
  /\ Weight(p) >= l

(* And it is not less. *)
Exactly(p, l, words) ==
  /\ Whole(p)
  /\ Plain(words) => Weight(p) = l

(* Lower bounds of their lengths add up,                                   *)
LEMMA AtLeastBoth ==
  ASSUME NEW p, NEW l, AtLeast(p, l), NEW q, NEW m, AtLeast(q, m)
  PROVE  AtLeast(p \o q, l + m)
<1>1. /\ p \in Seq(Piece) /\ l \in Nat /\ q \in Seq(Piece) /\ m \in Nat
      /\ Weight(p) >= l
      /\ Weight(q) >= m
  BY DEF AtLeast
<1>2. /\ p \o q \in Seq(Piece) /\ Weight(p \o q) = Weight(p) + Weight(q)
      /\ Weight(p) \in Nat /\ Weight(q) \in Nat /\ l + m \in Nat
  BY <1>1, WeightOfBoth, LeftType
<1>3. Weight(p \o q) >= l + m
  BY <1>1, <1>2
<1> QED
  BY <1>1, <1>2, <1>3 DEF AtLeast

(* and so do exact lengths.                                                *)
LEMMA ExactlyBoth ==
  ASSUME NEW p, NEW l, AtLeast(p, l), NEW v, Exactly(p, l, v),
         NEW q, NEW m, AtLeast(q, m), NEW w, Exactly(q, m, w)
  PROVE  Exactly(p \o q, l + m, v \cup w)
<1>1. /\ p \in Seq(Piece) /\ l \in Nat /\ q \in Seq(Piece) /\ m \in Nat
      /\ Whole(p) /\ Whole(q)
      /\ Plain(v) => Weight(p) = l
      /\ Plain(w) => Weight(q) = m
  BY DEF AtLeast, Exactly
<1>2. Weight(p \o q) = Weight(p) + Weight(q)
  BY <1>1, WeightOfBoth
<1>3. /\ DOMAIN p = 1..Len(p) /\ DOMAIN q = 1..Len(q)
      /\ DOMAIN (p \o q) = 1..(Len(p) + Len(q))
      /\ Len(p) \in Nat /\ Len(q) \in Nat
      /\ \A i \in 1..Len(p) : (p \o q)[i] = p[i]
      /\ \A i \in 1..Len(q) : (p \o q)[Len(p) + i] = q[i]
  BY <1>1
<1>4. Whole(p \o q)
  <2> SUFFICES ASSUME NEW i \in 1..(Len(p) + Len(q)) PROVE (p \o q)[i].kind # "owned"
    BY <1>3 DEF Whole
  <2>1. CASE i <= Len(p)
    <3>1. i \in 1..Len(p)
      BY <1>3, <2>1
    <3> QED
      BY <1>1, <1>3, <3>1 DEF Whole
  <2>2. CASE i > Len(p)
    <3>1. i - Len(p) \in 1..Len(q) /\ Len(p) + (i - Len(p)) = i
      BY <1>3, <2>2
    <3>2. (p \o q)[Len(p) + (i - Len(p))] = q[i - Len(p)]
      BY <1>3, <3>1
    <3> QED
      BY <1>1, <1>3, <3>1, <3>2 DEF Whole
  <2> QED
    BY <1>3, <2>1, <2>2
<1>5. Plain(v \cup w) => Plain(v) /\ Plain(w)
  BY DEF Plain
<1>6. Weight(p) = l /\ Weight(q) = m => Weight(p \o q) = l + m
  BY <1>2
<1> QED
  BY <1>1, <1>4, <1>5, <1>6 DEF Exactly

(* One piece that stays, or that may be moved. *)
LEMMA FixedPiece ==
  ASSUME NEW t \in Seq(Written)
  PROVE  /\ \A l \in Nat : Len(t) >= l => AtLeast(<<Fixed(t)>>, l)
         /\ \A l \in Nat : \A words :
              (Plain(words) => Len(t) = l) => Exactly(<<Fixed(t)>>, l, words)
<1>1. <<Fixed(t)>> \in Seq(Piece) /\ Weight(<<Fixed(t)>>) = Len(t)
  BY WeightOfOne
<1>2. DOMAIN <<Fixed(t)>> = {1} /\ <<Fixed(t)>>[1].kind # "owned"
  BY DEF Fixed
<1>3. Whole(<<Fixed(t)>>)
  BY <1>2 DEF Whole
<1> QED
  BY <1>1, <1>3 DEF AtLeast, Exactly

(* As its length, to begin with.                                           *)
LEMMA FixedAsLong ==
  ASSUME NEW t \in Seq(Written), NEW l \in Nat, Len(t) = l
  PROVE  AtLeast(<<Fixed(t)>>, l) /\ \A words : Exactly(<<Fixed(t)>>, l, words)
<1>1. Len(t) >= l
  OBVIOUS
<1> QED
  BY <1>1, FixedPiece

(* An owned piece may weigh nothing.                                       *)
LEMMA OwnedPiece ==
  ASSUME NEW t \in Seq(Written)
  PROVE  AtLeast(<<Owned(t)>>, 0)
<1>1. <<Owned(t)>> \in Seq(Piece) /\ Weight(<<Owned(t)>>) = 0
  BY WeightOfOne
<1>2. 0 \in Nat /\ 0 >= 0
  OBVIOUS
<1> QED
  BY <1>1, <1>2 DEF AtLeast

(* No pieces weigh nothing exactly.                                        *)
LEMMA NoPieces ==
  /\ AtLeast(<<>>, 0)
  /\ \A words : Exactly(<<>>, 0, words)
<1>1. <<>> \in Seq(Piece) /\ Weight(<<>>) = 0
  BY WeightOfNone
<1>2. DOMAIN <<>> = {}
  OBVIOUS
<1>3. Whole(<<>>)
  BY <1>2 DEF Whole
<1> QED
  BY <1>1, <1>3 DEF AtLeast, Exactly

(***************************************************************************)
(* What is true of every element, in whatever it is used.                  *)
(***************************************************************************)
Sound(e) ==
  /\ e = Element(e.sort, e.exact, e.length, e.pieces, e.means)
  /\ AtLeast(e.pieces, e.length)
  /\ e.exact => Exactly(e.pieces, e.length, e.means.words)

(* The parts of tags and attributes. *)
LEMMA PartsWritten ==
  ASSUME NEW n \in Seq(Alphabet)
  PROVE  /\ OpenAttributedElement(n) \in Seq(Written)
         /\ Len(OpenAttributedElement(n)) = 1 + Len(WriteString(n))
         /\ CloseElement(n) \in Seq(Written)
         /\ Len(CloseElement(n)) = 3 + Len(n)
         /\ AddBareAttribute(n) \in Seq(Written)
         /\ Len(AddBareAttribute(n)) = 1 + Len(n)
         /\ n \in Seq(Written)
<1>1. n \in Seq(Written)
  BY TextIsWritten
<1>2. WriteString(n) \in Seq(Written)
  BY WrittenString
<1>3. "<" \in Written /\ "/" \in Written /\ ">" \in Written /\ " " \in Written
  BY DEF Written
<1>4. \A c \in Written, s \in Seq(Written) :
        <<c>> \o s \in Seq(Written) /\ Len(<<c>> \o s) = 1 + Len(s)
  OBVIOUS
<1>5. ASSUME NEW c \in Written, NEW d \in Written, NEW f \in Written
      PROVE  (<<c, d>> \o n) \o <<f>> \in Seq(Written) /\ Len((<<c, d>> \o n) \o <<f>>) = 3 + Len(n)
  <2>1. <<c, d>> \in Seq(Written) /\ Len(<<c, d>>) = 2 /\ <<f>> \in Seq(Written) /\ Len(<<f>>) = 1
    OBVIOUS
  <2>2. <<c, d>> \o n \in Seq(Written) /\ Len(<<c, d>> \o n) = 2 + Len(n) /\ Len(n) \in Nat
    BY <1>1, <2>1, Together
  <2>3. /\ (<<c, d>> \o n) \o <<f>> \in Seq(Written)
        /\ Len((<<c, d>> \o n) \o <<f>>) = Len(<<c, d>> \o n) + 1
    BY <2>1, <2>2, Together
  <2> QED
    BY <2>2, <2>3
<1>6. OpenAttributedElement(n) = <<"<">> \o WriteString(n)
  BY DEF OpenAttributedElement
<1>7. CloseElement(n) = (<<"<", "/">> \o n) \o <<">">>
  BY DEF CloseElement
<1>8. AddBareAttribute(n) = <<" ">> \o n
  BY DEF AddBareAttribute
<1>9. /\ OpenAttributedElement(n) \in Seq(Written)
      /\ Len(OpenAttributedElement(n)) = 1 + Len(WriteString(n))
  BY <1>2, <1>3, <1>4, <1>6
<1>10. CloseElement(n) \in Seq(Written) /\ Len(CloseElement(n)) = 3 + Len(n)
  BY <1>3, <1>5, <1>7
<1>11. AddBareAttribute(n) \in Seq(Written) /\ Len(AddBareAttribute(n)) = 1 + Len(n)
  BY <1>1, <1>3, <1>4, <1>8
<1> QED
  BY <1>1, <1>9, <1>10, <1>11

(* And the texts that are always the same.                                 *)
LEMMA EndsWritten ==
  /\ FinishAttributes \in Seq(Written) /\ Len(FinishAttributes) = 1
  /\ FinishAttributesOfUnpairedTag \in Seq(Written) /\ Len(FinishAttributesOfUnpairedTag) = 2
  /\ <<"\"">> \in Seq(Written) /\ Len(<<"\"">>) = 1
  /\ <<"=", "\"">> \in Seq(Written) /\ Len(<<"=", "\"">>) = 2
<1>1. "/" \in Written /\ ">" \in Written /\ "=" \in Written /\ "\"" \in Written
  BY DEF Written
<1>2. \A c \in Written : <<c>> \in Seq(Written)
  OBVIOUS
<1>3. \A c, d \in Written : <<c, d>> \in Seq(Written)
  OBVIOUS
<1>4. \A c, d : Len(<<c>>) = 1 /\ Len(<<c, d>>) = 2
  OBVIOUS
<1>5. FinishAttributes = <<">">> /\ FinishAttributesOfUnpairedTag = <<"/", ">">>
  BY DEF FinishAttributes, FinishAttributesOfUnpairedTag
<1> QED
  BY <1>1, <1>2, <1>3, <1>4, <1>5

-----------------------------------------------------------------------------
(* The functions of html/tree.hpp make sound elements.                     *)

(* text(), of a literal or of a std::string,                               *)
LEMMA TextIsSound ==
  ASSUME NEW t \in EscapedTexts
  PROVE  Sound(Text(t)) /\ Sound(DynamicText(t))
<1>1. t \in Seq(Alphabet)
  BY AlphabetAssumption
<1>2. /\ WriteString(t) \in Seq(Written) /\ Len(t) \in Nat
      /\ Len(WriteString(t)) >= Len(t)
  BY <1>1, WrittenString
<1>3. AtLeast(<<Fixed(WriteString(t))>>, Len(t)) /\ AtLeast(<<Owned(WriteString(t))>>, 0)
  BY <1>2, FixedPiece, OwnedPiece
<1> DEFINE e == Text(t)
           d == DynamicText(t)
<1>4. /\ e = Element(e.sort, e.exact, e.length, e.pieces, e.means)
      /\ e.exact = FALSE /\ e.length = Len(t) /\ e.pieces = <<Fixed(WriteString(t))>>
  BY DEF Text, Element
<1>5. /\ d = Element(d.sort, d.exact, d.length, d.pieces, d.means)
      /\ d.exact = FALSE /\ d.length = 0 /\ d.pieces = <<Owned(WriteString(t))>>
  BY DEF DynamicText, Element
<1> HIDE DEF e, d
<1>6. Sound(e) /\ Sound(d)
  BY <1>3, <1>4, <1>5 DEF Sound
<1> QED
  BY <1>6 DEF e, d

(* raw(),                                                                  *)
LEMMA RawIsSound ==
  ASSUME NEW t \in Raws
  PROVE  Sound(Raw(t))
<1>1. t \in Seq(Alphabet)
  BY AlphabetAssumption
<1>2. t \in Seq(Written) /\ Len(t) \in Nat
  BY <1>1, TextIsWritten
<1>3. AtLeast(<<Fixed(t)>>, Len(t)) /\ \A words : Exactly(<<Fixed(t)>>, Len(t), words)
  BY <1>2, FixedAsLong
<1> DEFINE e == Raw(t)
<1>4. /\ e = Element(e.sort, e.exact, e.length, e.pieces, e.means)
      /\ e.length = Len(t) /\ e.pieces = <<Fixed(t)>>
  BY DEF Raw, Element
<1> HIDE DEF e
<1>5. Sound(e)
  BY <1>3, <1>4 DEF Sound
<1> QED
  BY <1>5 DEF e

(* Three pieces are one, another one, and a third.                         *)
LEMMA ThreeOf ==
  ASSUME NEW x, NEW y, NEW z
  PROVE  (<<x>> \o <<y>>) \o <<z>> = <<x, y, z>>
<1>1. PICK S : x \in S /\ y \in S /\ z \in S
  <2>1. x \in {x, y, z} /\ y \in {x, y, z} /\ z \in {x, y, z}
    OBVIOUS
  <2> QED
    BY <2>1
<1>2. PICK a, c : a = <<x>> \o <<y>> /\ c = <<z>>
  OBVIOUS
<1>3. /\ a \in Seq(S) /\ Len(a) = 2 /\ a[1] = x /\ a[2] = y
      /\ c \in Seq(S) /\ Len(c) = 1 /\ c[1] = z
  BY <1>1, <1>2
<1>4. PICK b : b = a \o c
  OBVIOUS
<1>5. a \in Seq(S) /\ c \in Seq(S)
  BY <1>3
<1>6. /\ b \in Seq(S) /\ Len(b) = Len(a) + Len(c)
      /\ \A i \in 1..Len(a) : b[i] = a[i]
      /\ \A i \in 1..Len(c) : b[Len(a) + i] = c[i]
  BY <1>4, <1>5
<1>10. 1 \in 1..2 /\ 2 \in 1..2 /\ 1 \in 1..1 /\ 2 + 1 = 3
  OBVIOUS
<1>11. Len(b) = 3 /\ b[1] = x /\ b[2] = y /\ b[3] = z
  BY <1>3, <1>6, <1>10
<1>7. PICK d : d = <<x, y, z>>
  OBVIOUS
<1>8. d \in Seq(S) /\ Len(d) = 3 /\ d[1] = x /\ d[2] = y /\ d[3] = z
  BY <1>1, <1>7
<1>9. \A i \in 1..3 : b[i] = d[i]
  BY <1>8, <1>11
<1> QED
  BY <1>2, <1>4, <1>6, <1>7, <1>8, <1>9, <1>11, SeqEqual

(* attribute() in its three forms,                                         *)
LEMMA AttributeIsSound ==
  ASSUME NEW k \in Seq(Alphabet), NEW v \in Seq(Alphabet)
  PROVE  Sound(Attribute(k, v)) /\ Sound(DynamicAttribute(k, v)) /\ Sound(BareAttribute(k))
<1> DEFINE bare == AddBareAttribute(k)
           written == WriteString(v)
           equals == <<"=", "\"">>
           quote == <<"\"">>
<1>1. /\ bare \in Seq(Written) /\ Len(bare) = 1 + Len(k)
      /\ written \in Seq(Written) /\ Len(written) >= Len(v) /\ Len(written) \in Nat
      /\ Len(k) \in Nat /\ Len(v) \in Nat
      /\ equals \in Seq(Written) /\ Len(equals) = 2 /\ quote \in Seq(Written) /\ Len(quote) = 1
  BY PartsWritten, WrittenString, EndsWritten
<1>2. AddAttribute(k, v) = ((bare \o equals) \o written) \o quote
  BY DEF AddAttribute
<1> HIDE DEF bare, written, equals, quote
<1>3. bare \o equals \in Seq(Written) /\ Len(bare \o equals) = 3 + Len(k)
  <2>1. bare \o equals \in Seq(Written) /\ Len(bare \o equals) = Len(bare) + Len(equals)
    BY <1>1, Together
  <2> QED
    BY <1>1, <2>1
<1>4. /\ (bare \o equals) \o written \in Seq(Written)
      /\ Len((bare \o equals) \o written) = 3 + Len(k) + Len(written)
  <2>1. /\ (bare \o equals) \o written \in Seq(Written)
        /\ Len((bare \o equals) \o written) = Len(bare \o equals) + Len(written)
    BY <1>1, <1>3, Together
  <2> QED
    BY <1>1, <1>3, <2>1
<1>5. /\ AddAttribute(k, v) \in Seq(Written)
      /\ Len(AddAttribute(k, v)) = 4 + Len(k) + Len(written)
  <2>1. /\ AddAttribute(k, v) \in Seq(Written)
        /\ Len(AddAttribute(k, v)) = Len((bare \o equals) \o written) + Len(quote)
    BY <1>1, <1>2, <1>4, Together
  <2> QED
    BY <1>1, <1>4, <2>1
<1>6. AtLeast(<<Fixed(AddAttribute(k, v))>>, 1 + Len(k) + 1 + 1 + Len(v) + 1)
  BY <1>1, <1>5, FixedPiece
<1>7. AtLeast(<<Fixed(bare)>>, 1 + Len(k))
  BY <1>1, FixedPiece
<1>8. AtLeast(<<Fixed(bare \o equals), Owned(written), Fixed(quote)>>, 1 + Len(k) + 1 + 1 + 1)
  <2>1. /\ AtLeast(<<Fixed(bare \o equals)>>, 3 + Len(k)) /\ AtLeast(<<Owned(written)>>, 0)
        /\ AtLeast(<<Fixed(quote)>>, 1)
    <3>1. 3 + Len(k) \in Nat /\ 1 \in Nat
      BY <1>1
    <3>2. AtLeast(<<Fixed(bare \o equals)>>, 3 + Len(k))
      BY <1>3, <3>1, FixedAsLong
    <3>3. AtLeast(<<Fixed(quote)>>, 1)
      BY <1>1, <3>1, FixedAsLong
    <3> QED
      BY <1>1, <3>2, <3>3, OwnedPiece
  <2>2. AtLeast((<<Fixed(bare \o equals)>> \o <<Owned(written)>>) \o <<Fixed(quote)>>,
                ((3 + Len(k)) + 0) + 1)
    BY <2>1, AtLeastBoth
  <2>3. \A x, y, z : (<<x>> \o <<y>>) \o <<z>> = <<x, y, z>>
    BY ThreeOf
  <2>4. ((3 + Len(k)) + 0) + 1 = 1 + Len(k) + 1 + 1 + 1
    BY <1>1
  <2> QED
    BY <2>2, <2>3, <2>4
<1> DEFINE a == Attribute(k, v)
           d == DynamicAttribute(k, v)
           b == BareAttribute(k)
<1>9. /\ a = Element(a.sort, a.exact, a.length, a.pieces, a.means)
      /\ a.exact = FALSE /\ a.length = 1 + Len(k) + 1 + 1 + Len(v) + 1
      /\ a.pieces = <<Fixed(AddAttribute(k, v))>>
  BY DEF Attribute, Element
<1>10. /\ d = Element(d.sort, d.exact, d.length, d.pieces, d.means)
       /\ d.exact = FALSE /\ d.length = 1 + Len(k) + 1 + 1 + 1
       /\ d.pieces = <<Fixed(bare \o equals), Owned(written), Fixed(quote)>>
  BY DEF DynamicAttribute, Element, bare, equals, written, quote
<1>11. /\ b = Element(b.sort, b.exact, b.length, b.pieces, b.means)
       /\ b.exact = FALSE /\ b.length = 1 + Len(k) /\ b.pieces = <<Fixed(bare)>>
  BY DEF BareAttribute, Element, bare
<1> HIDE DEF a, d, b
<1>12. Sound(a) /\ Sound(d) /\ Sound(b)
  BY <1>6, <1>7, <1>8, <1>9, <1>10, <1>11 DEF Sound
<1> QED
  BY <1>12 DEF a, d, b

(* A tag around a content, whose name is as long as it says if it is plain. *)
LEMMA OpeningIs ==
  ASSUME NEW n \in Seq(Alphabet)
  PROVE  /\ AtLeast(<<Fixed(OpenAttributedElement(n))>>, 1 + Len(n))
         /\ Exactly(<<Fixed(OpenAttributedElement(n))>>, 1 + Len(n), {n})
<1>1. /\ OpenAttributedElement(n) \in Seq(Written)
      /\ Len(OpenAttributedElement(n)) = 1 + Len(WriteString(n))
      /\ Len(WriteString(n)) \in Nat /\ Len(n) \in Nat /\ Len(WriteString(n)) >= Len(n)
      /\ (\A i \in DOMAIN n : n[i] \notin Special) => Len(WriteString(n)) = Len(n)
  BY PartsWritten, WrittenString
<1>2. Plain({n}) => \A i \in DOMAIN n : n[i] \notin Special
  BY DEF Plain
<1>3. Plain({n}) => Len(OpenAttributedElement(n)) = 1 + Len(n)
  BY <1>1, <1>2
<1>4. Len(OpenAttributedElement(n)) >= 1 + Len(n) /\ 1 + Len(n) \in Nat
  BY <1>1
<1> QED
  BY <1>1, <1>3, <1>4, FixedPiece

(* tag() with a content,                                                   *)
LEMMA PairedTagIsSound ==
  ASSUME NEW n \in Seq(Alphabet), NEW a, Sound(a), NEW c, Sound(c)
  PROVE  Sound(PairedTag(n, a, c))
<1> DEFINE first == <<Fixed(OpenAttributedElement(n))>>
           finish == <<Fixed(FinishAttributes)>>
           last == <<Fixed(CloseElement(n))>>
           p == (((first \o a.pieces) \o finish) \o c.pieces) \o last
           l == ((((1 + Len(n)) + a.length) + 1) + c.length) + (3 + Len(n))
           words == (((({n} \cup a.means.words) \cup {}) \cup c.means.words) \cup {})
<1>1. AtLeast(first, 1 + Len(n)) /\ Exactly(first, 1 + Len(n), {n})
  BY OpeningIs
<1>2. AtLeast(finish, 1) /\ Exactly(finish, 1, {})
  <2>1. FinishAttributes \in Seq(Written) /\ Len(FinishAttributes) = 1 /\ 1 \in Nat
    BY EndsWritten
  <2> QED
    BY <2>1, FixedAsLong
<1>3. AtLeast(last, 3 + Len(n)) /\ Exactly(last, 3 + Len(n), {})
  <2>1. CloseElement(n) \in Seq(Written) /\ Len(CloseElement(n)) = 3 + Len(n) /\ Len(n) \in Nat
    BY PartsWritten
  <2>2. 3 + Len(n) \in Nat /\ 3 + Len(n) >= 3 + Len(n)
    BY <2>1
  <2> QED
    BY <2>1, <2>2, FixedPiece
<1>4. AtLeast(a.pieces, a.length) /\ AtLeast(c.pieces, c.length)
  BY DEF Sound
<1> HIDE DEF first, finish, last
<1>5. AtLeast(first \o a.pieces, (1 + Len(n)) + a.length)
  BY <1>1, <1>4, AtLeastBoth
<1>6. AtLeast((first \o a.pieces) \o finish, ((1 + Len(n)) + a.length) + 1)
  BY <1>2, <1>5, AtLeastBoth
<1>7. AtLeast(((first \o a.pieces) \o finish) \o c.pieces,
              (((1 + Len(n)) + a.length) + 1) + c.length)
  BY <1>4, <1>6, AtLeastBoth
<1>8. AtLeast(p, l)
  BY <1>3, <1>7, AtLeastBoth
<1>9. ASSUME a.exact, c.exact PROVE Exactly(p, l, words)
  <2>1. /\ Exactly(a.pieces, a.length, a.means.words)
        /\ Exactly(c.pieces, c.length, c.means.words)
    BY <1>9 DEF Sound
  <2>2. Exactly(first \o a.pieces, (1 + Len(n)) + a.length, {n} \cup a.means.words)
    BY <1>1, <1>4, <2>1, ExactlyBoth
  <2>3. Exactly((first \o a.pieces) \o finish, ((1 + Len(n)) + a.length) + 1,
                ({n} \cup a.means.words) \cup {})
    BY <1>2, <1>5, <2>2, ExactlyBoth
  <2>4. Exactly(((first \o a.pieces) \o finish) \o c.pieces,
                (((1 + Len(n)) + a.length) + 1) + c.length,
                (({n} \cup a.means.words) \cup {}) \cup c.means.words)
    BY <1>4, <1>6, <2>1, <2>3, ExactlyBoth
  <2> QED
    BY <1>3, <1>7, <2>4, ExactlyBoth
<1> DEFINE e == PairedTag(n, a, c)
<1>10. /\ e = Element(e.sort, e.exact, e.length, e.pieces, e.means)
       /\ e.exact = (a.exact /\ c.exact)
       /\ e.length = c.length + a.length + (1 + Len(n) + 1 + 2 + Len(n) + 1)
       /\ e.pieces = p /\ e.means = Around(n, a.means, c.means)
  BY DEF PairedTag, Element, first, finish, last
<1> HIDE DEF e, p, words
<1>11. e.length = l
  <2>1. a.length \in Nat /\ c.length \in Nat /\ Len(n) \in Nat
    BY <1>4 DEF AtLeast
  <2> QED
    BY <1>10, <2>1
<1>12. e.means.words = words
  BY <1>10 DEF Around, Meaning, words
<1> HIDE DEF l
<1>13. Sound(e)
  BY <1>8, <1>9, <1>10, <1>11, <1>12 DEF Sound
<1> QED
  BY <1>13 DEF e

(* without one,                                                            *)
LEMMA UnpairedTagIsSound ==
  ASSUME NEW n \in Seq(Alphabet), NEW a, Sound(a)
  PROVE  Sound(UnpairedTag(n, a))
<1> DEFINE first == <<Fixed(OpenAttributedElement(n))>>
           last == <<Fixed(FinishAttributesOfUnpairedTag)>>
           p == (first \o a.pieces) \o last
           l == ((1 + Len(n)) + a.length) + 2
<1>1. AtLeast(first, 1 + Len(n)) /\ AtLeast(last, 2) /\ AtLeast(a.pieces, a.length)
  <2>1. /\ FinishAttributesOfUnpairedTag \in Seq(Written)
        /\ Len(FinishAttributesOfUnpairedTag) = 2 /\ 2 \in Nat
    BY EndsWritten
  <2>2. AtLeast(last, 2)
    BY <2>1, FixedAsLong
  <2>3. AtLeast(a.pieces, a.length)
    BY DEF Sound
  <2> QED
    BY <2>2, <2>3, OpeningIs
<1> HIDE DEF first, last
<1>2. AtLeast(first \o a.pieces, (1 + Len(n)) + a.length)
  BY <1>1, AtLeastBoth
<1>3. AtLeast(p, l)
  BY <1>1, <1>2, AtLeastBoth
<1> DEFINE e == UnpairedTag(n, a)
<1>4. /\ e = Element(e.sort, e.exact, e.length, e.pieces, e.means)
      /\ e.exact = FALSE /\ e.length = 1 + Len(n) + 2 + a.length /\ e.pieces = p
  BY DEF UnpairedTag, Element, first, last
<1> HIDE DEF e, p
<1>5. e.length = l
  <2>1. a.length \in Nat /\ Len(n) \in Nat
    BY <1>1 DEF AtLeast
  <2> QED
    BY <1>4, <2>1
<1> HIDE DEF l
<1>6. Sound(e)
  BY <1>3, <1>4, <1>5 DEF Sound
<1> QED
  BY <1>6 DEF e

(* sequence(), and operator+,                                              *)
LEMMA SequenceIsSound ==
  ASSUME NEW h, Sound(h), NEW t, Sound(t)
  PROVE  Sound(Sequence(h, t))
<1> DEFINE e == Sequence(h, t)
<1>1. AtLeast(h.pieces, h.length) /\ AtLeast(t.pieces, t.length)
  BY DEF Sound
<1>2. AtLeast(h.pieces \o t.pieces, h.length + t.length)
  BY <1>1, AtLeastBoth
<1>3. ASSUME h.exact, t.exact
      PROVE  Exactly(h.pieces \o t.pieces, h.length + t.length, h.means.words \cup t.means.words)
  BY <1>1, <1>3, ExactlyBoth DEF Sound
<1>4. /\ e = Element(e.sort, e.exact, e.length, e.pieces, e.means)
      /\ e.exact = (h.exact /\ t.exact) /\ e.length = h.length + t.length
      /\ e.pieces = h.pieces \o t.pieces /\ e.means = Joined(h.means, t.means)
  BY DEF Sequence, Element
<1>5. e.means.words = h.means.words \cup t.means.words
  BY <1>4 DEF Joined, Meaning
<1> HIDE DEF e
<1>6. Sound(e)
  BY <1>2, <1>3, <1>4, <1>5 DEF Sound
<1> QED
  BY <1>6 DEF e

(* and the attributes of a tag that has none.                              *)
LEMMA NoAttributesIsSound == Sound(NoAttributes)
<1> DEFINE e == NoAttributes
<1>1. /\ e = Element(e.sort, e.exact, e.length, e.pieces, e.means)
      /\ e.length = 0 /\ e.pieces = <<>>
  BY DEF NoAttributes, Element
<1> HIDE DEF e
<1>2. Sound(e)
  BY <1>1, NoPieces DEF Sound
<1> QED
  BY <1>2 DEF e

(* What a move leaves behind is sound, too. *)
LEMMA MovedIsSound ==
  ASSUME NEW e, Sound(e), build \in {"closures", "copies"}
  PROVE  Sound(MovedFrom(e))
<1>1. /\ e = Element(e.sort, e.exact, e.length, e.pieces, e.means)
      /\ e.pieces \in Seq(Piece) /\ e.length \in Nat
      /\ Weight(e.pieces) >= e.length
  BY DEF Sound, AtLeast
<1>2. CASE build = "copies"
  <2>1. MovedFrom(e) = e
    BY <1>2 DEF MovedFrom
  <2> QED
    BY <2>1
<1>3. CASE build = "closures"
  <2> DEFINE p == e.pieces
             q == [i \in DOMAIN p |-> IF p[i].kind = "owned" THEN Owned(<<>>) ELSE p[i]]
  <2>1. MovedFrom(e) = [e EXCEPT !.pieces = q]
    BY <1>3 DEF MovedFrom
  <2> HIDE DEF q
  <2>2. MovedFrom(e) = Element(e.sort, e.exact, e.length, q, e.means)
    BY <1>1, <2>1 DEF Element
  <2> DEFINE m == Element(e.sort, e.exact, e.length, q, e.means)
  <2>3. /\ m = Element(m.sort, m.exact, m.length, m.pieces, m.means)
        /\ m.exact = e.exact /\ m.length = e.length /\ m.pieces = q /\ m.means = e.means
    BY DEF Element
  <2> HIDE DEF m
  <2>4. PICK o : o = Owned(<<>>) /\ o \in Piece /\ o.kind = "owned" /\ o.text = <<>>
    <3>1. PICK s \in Seq(Written) : s = <<>>
      BY EmptyWritten
    <3>2. /\ Owned(<<>>) \in Piece /\ Owned(<<>>).kind = "owned"
          /\ Owned(<<>>).text = <<>>
      BY <3>1 DEF Owned, Piece
    <3> QED
      BY <3>2
  <2>5. p \in Seq(Piece) /\ DOMAIN p = 1..Len(p) /\ Len(p) \in Nat
    BY <1>1
  <2> HIDE DEF p
  <2>6. q = [i \in 1..Len(p) |-> IF p[i].kind = "owned" THEN o ELSE p[i]]
    BY <2>4, <2>5 DEF q
  <2>7. /\ q \in Seq(Piece) /\ Len(q) = Len(p) /\ DOMAIN q = 1..Len(p)
        /\ \A i \in 1..Len(p) : q[i] = IF p[i].kind = "owned" THEN o ELSE p[i]
    <3>1. \A i \in 1..Len(p) : (IF p[i].kind = "owned" THEN o ELSE p[i]) \in Piece
      BY <2>4, <2>5
    <3> QED
      BY <2>5, <2>6, <3>1
  <2>8. \A i \in 1..Len(p) : q[i].kind = p[i].kind
    BY <2>4, <2>7
  <2>9. Left(q) = Left(p)
    <3>1. \A i \in 1..Len(p) :
            (IF q[i].kind = "owned" THEN <<>> ELSE q[i].text)
              = (IF p[i].kind = "owned" THEN <<>> ELSE p[i].text)
      BY <2>7, <2>8
    <3> QED
      BY <2>7, <3>1 DEF Left
  <2>10. Weight(q) = Weight(p)
    BY <2>9 DEF Weight
  <2>11. Whole(p) <=> Whole(q)
    BY <2>5, <2>7, <2>8 DEF Whole
  <2>12. AtLeast(q, e.length)
    BY <1>1, <2>7, <2>10, <2>11 DEF AtLeast, p
  <2>13. e.exact => Exactly(q, e.length, e.means.words)
    <3>1. e.exact => Exactly(p, e.length, e.means.words)
      BY DEF Sound, p
    <3> QED
      BY <2>10, <2>11, <3>1 DEF Exactly
  <2>14. Sound(m)
    BY <2>3, <2>12, <2>13 DEF Sound
  <2> QED
    BY <2>2, <2>14 DEF m
<1> QED
  BY <1>2, <1>3

-----------------------------------------------------------------------------
(* The tree.                                                               *)

IsTree(s) ==
  \E n \in Nat : s = [i \in 1..n |-> s[i]] /\ \A i \in 1..n : Sound(s[i])

(* A tree is a sequence of sound elements,                                 *)
LEMMA TreeIs ==
  ASSUME NEW s, IsTree(s)
  PROVE  /\ Len(s) \in Nat /\ DOMAIN s = 1..Len(s)
         /\ s = [i \in 1..Len(s) |-> s[i]]
         /\ \A i \in 1..Len(s) : Sound(s[i])
<1>1. PICK n \in Nat : s = [i \in 1..n |-> s[i]] /\ \A i \in 1..n : Sound(s[i])
  BY DEF IsTree
<1> DEFINE S == {s[i] : i \in 1..n}
<1>2. s \in [1..n -> S]
  BY <1>1
<1>3. s \in Seq(S) /\ Len(s) = n
  BY <1>2
<1> QED
  BY <1>1, <1>3

(* and remains one with another sound element,                             *)
LEMMA TreeGrows ==
  ASSUME NEW s, IsTree(s), NEW e, Sound(e)
  PROVE  IsTree(Append(s, e))
<1>1. PICK n \in Nat : s = [i \in 1..n |-> s[i]] /\ \A i \in 1..n : Sound(s[i])
  BY DEF IsTree
<1> DEFINE S == {s[i] : i \in 1..n} \cup {e}
           r == Append(s, e)
<1>2. s \in [1..n -> S]
  BY <1>1
<1>3. s \in Seq(S) /\ Len(s) = n /\ e \in S
  BY <1>2
<1> HIDE DEF S
<1>4. /\ r \in Seq(S) /\ Len(r) = n + 1 /\ r[n + 1] = e
      /\ \A i \in 1..n : r[i] = s[i]
  BY <1>1, <1>3
<1> HIDE DEF r
<1>5. r = [i \in 1..n + 1 |-> r[i]] /\ n + 1 \in Nat
  BY <1>1, <1>4
<1>6. ASSUME NEW i \in 1..n + 1 PROVE Sound(r[i])
  <2>1. CASE i = n + 1
    BY <1>4, <2>1
  <2>2. CASE i # n + 1
    <3>1. i \in 1..n
      BY <1>1, <2>2
    <3> QED
      BY <1>1, <1>4, <3>1
  <2> QED
    BY <2>1, <2>2
<1>7. IsTree(r)
  BY <1>5, <1>6 DEF IsTree
<1> QED
  BY <1>7 DEF r

(* The inductive invariant of the tree.                                    *)
TreeInv == build \in {"closures", "copies"} /\ IsTree(elements)

(* also when parts of that are moved.                                      *)
LEMMA ComposedKeeps ==
  ASSUME TreeInv, NEW e, Sound(e), NEW given, NEW empty, Composed(e, given, empty)
  PROVE  TreeInv'
<1> DEFINE s == [i \in DOMAIN elements |->
                   IF i \in given THEN MovedFrom(elements[i]) ELSE elements[i]]
<1>1. elements' = Append(s, e) /\ build' = build
  BY DEF Composed
<1>2. /\ Len(elements) \in Nat /\ DOMAIN elements = 1..Len(elements)
      /\ \A i \in 1..Len(elements) : Sound(elements[i])
  BY TreeIs DEF TreeInv
<1>3. /\ s = [i \in 1..Len(elements) |-> s[i]]
      /\ \A i \in 1..Len(elements) :
           s[i] = IF i \in given THEN MovedFrom(elements[i]) ELSE elements[i]
  BY <1>2
<1> HIDE DEF s
<1>4. \A i \in 1..Len(elements) : Sound(s[i])
  BY <1>2, <1>3, MovedIsSound DEF TreeInv
<1>5. IsTree(s)
  BY <1>2, <1>3, <1>4 DEF IsTree
<1>6. IsTree(elements')
  BY <1>1, <1>5, TreeGrows
<1> QED
  BY <1>1, <1>6 DEF TreeInv

(* Every action keeps the elements of a tree sound: new leaves,            *)
LEMMA LeafKeeps ==
  ASSUME TreeInv, NEW e, Sound(e), Leaf(e)
  PROVE  TreeInv'
<1>1. elements' = Append(elements, e) /\ build' = build
  BY DEF Leaf
<1>2. IsTree(elements')
  BY <1>1, TreeGrows DEF TreeInv
<1> QED
  BY <1>1, <1>2 DEF TreeInv

(* whatever they are,                                                      *)
LEMMA MakeLeafKeeps ==
  ASSUME TreeInv, MakeLeaf
  PROVE  TreeInv'
<1>1. ASSUME NEW t \in EscapedTexts, Leaf(Text(t)) \/ Leaf(DynamicText(t)) PROVE TreeInv'
  BY <1>1, TextIsSound, LeafKeeps
<1>2. ASSUME NEW t \in Raws, Leaf(Raw(t)) PROVE TreeInv'
  BY <1>2, RawIsSound, LeafKeeps
<1>3. ASSUME NEW a \in Attributes,
             \/ Leaf(Attribute(a[1], a[2])) \/ Leaf(DynamicAttribute(a[1], a[2]))
             \/ Leaf(BareAttribute(a[1]))
      PROVE  TreeInv'
  <2>1. a[1] \in Seq(Alphabet) /\ a[2] \in Seq(Alphabet)
    BY AlphabetAssumption
  <2>2. /\ Sound(Attribute(a[1], a[2])) /\ Sound(DynamicAttribute(a[1], a[2]))
        /\ Sound(BareAttribute(a[1]))
    BY <2>1, AttributeIsSound
  <2> QED
    BY <1>3, <2>2, LeafKeeps
<1> QED
  BY <1>1, <1>2, <1>3 DEF MakeLeaf

(* tags and sequences,                                                     *)
LEMMA MakeElementKeeps ==
  ASSUME TreeInv, MakeElement
  PROVE  TreeInv'
<1>1. CASE MakeLeaf
  BY <1>1, MakeLeafKeeps
<1>2. \A i \in DOMAIN elements : Sound(elements[i])
  BY TreeIs DEF TreeInv
<1>3. CASE Tag
  <2>1. PICK n \in Names, c \in Of("content") :
          \/ Composed(PairedTag(n, NoAttributes, elements[c]), {c}, moved \cap {c})
          \/ \E a \in Of("attributes") :
               Composed(PairedTag(n, elements[a], elements[c]), {c}, moved \cap {a, c})
    BY <1>3 DEF Tag
  <2>2. n \in Seq(Alphabet) /\ Sound(elements[c])
    BY <1>2, AlphabetAssumption DEF Of
  <2>3. CASE Composed(PairedTag(n, NoAttributes, elements[c]), {c}, moved \cap {c})
    <3>1. Sound(PairedTag(n, NoAttributes, elements[c]))
      BY <2>2, NoAttributesIsSound, PairedTagIsSound
    <3> QED
      BY <2>3, <3>1, ComposedKeeps
  <2>4. ASSUME NEW a \in Of("attributes"),
               Composed(PairedTag(n, elements[a], elements[c]), {c}, moved \cap {a, c})
        PROVE  TreeInv'
    <3>1. Sound(elements[a])
      BY <1>2 DEF Of
    <3>2. Sound(PairedTag(n, elements[a], elements[c]))
      BY <2>2, <3>1, PairedTagIsSound
    <3> QED
      BY <2>4, <3>2, ComposedKeeps
  <2> QED
    BY <2>1, <2>3, <2>4
<1>4. CASE EmptyTag
  <2>1. PICK n \in Names :
          \/ Leaf(UnpairedTag(n, NoAttributes))
          \/ \E a \in Of("attributes") :
               Composed(UnpairedTag(n, elements[a]), {}, moved \cap {a})
    BY <1>4 DEF EmptyTag
  <2>2. n \in Seq(Alphabet)
    BY AlphabetAssumption
  <2>3. CASE Leaf(UnpairedTag(n, NoAttributes))
    <3>1. Sound(UnpairedTag(n, NoAttributes))
      BY <2>2, NoAttributesIsSound, UnpairedTagIsSound
    <3> QED
      BY <2>3, <3>1, LeafKeeps
  <2>4. ASSUME NEW a \in Of("attributes"),
               Composed(UnpairedTag(n, elements[a]), {}, moved \cap {a})
        PROVE  TreeInv'
    <3>1. Sound(elements[a])
      BY <1>2 DEF Of
    <3>2. Sound(UnpairedTag(n, elements[a]))
      BY <2>2, <3>1, UnpairedTagIsSound
    <3> QED
      BY <2>4, <3>2, ComposedKeeps
  <2> QED
    BY <2>1, <2>3, <2>4
<1>5. CASE MakeSequence
  <2>1. PICK h \in DOMAIN elements, t \in DOMAIN elements :
          Composed(Sequence(IF h = t THEN MovedFrom(elements[h]) ELSE elements[h], elements[t]),
                   {h, t}, IF h = t THEN {h} ELSE moved \cap {h, t})
    BY <1>5 DEF MakeSequence
  <2>2. Sound(elements[h]) /\ Sound(elements[t])
    BY <1>2
  <2>3. PICK head : head = IF h = t THEN MovedFrom(elements[h]) ELSE elements[h]
    OBVIOUS
  <2>4. Sound(head)
    BY <2>2, <2>3, MovedIsSound DEF TreeInv
  <2>5. Sound(Sequence(head, elements[t]))
    BY <2>2, <2>4, SequenceIsSound
  <2> QED
    BY <2>1, <2>3, <2>5, ComposedKeeps
<1> QED
  BY <1>1, <1>3, <1>4, <1>5 DEF MakeElement

(* and generators, which do not touch it.                                  *)
LEMMA GenerateKeeps ==
  ASSUME TreeInv, Generate
  PROVE  TreeInv'
<1>1. build' = build /\ elements' = elements
  BY DEF Generate, Write, BeginElement, AddAttributes, EndAttributes, EndContent, Throw, Appends,
         tree
<1> QED
  BY <1>1 DEF TreeInv

(* Of sound elements the lengths hold.                                     *)
LEMMA TreeHolds ==
  ASSUME TreeInv
  PROVE  LengthsHold
<1>1. /\ DOMAIN elements = 1..Len(elements)
      /\ \A i \in 1..Len(elements) : Sound(elements[i])
  BY TreeIs DEF TreeInv
<1> SUFFICES ASSUME NEW e, Sound(e)
             PROVE  /\ Len(Generated(e)) >= e.length
                    /\ e.exact /\ Plain(e.means.words) => Len(Generated(e)) = e.length
  BY <1>1 DEF LengthsHold
<1> DEFINE p == e.pieces
           g == [i \in DOMAIN p |-> p[i].text]
           a == Left(p)
<1>2. p \in Seq(Piece) /\ e.length \in Nat /\ Weight(p) >= e.length
  BY DEF Sound, AtLeast
<1>3. Weight(p) >= e.length /\ Weight(p) \in Nat
  BY <1>2, LeftType
<1>4. Generated(e) = FlattenSeq(g) /\ Weight(p) = Len(FlattenSeq(a))
  BY DEF Generated, Weight
<1>5. a \in Seq(Seq(Written)) /\ Len(a) = Len(p) /\ DOMAIN p = 1..Len(p) /\ Len(p) \in Nat
  BY <1>2, LeftType
<1>6. \A i \in 1..Len(p) : p[i].text \in Seq(Written)
  BY <1>2, PieceIs
<1> HIDE DEF p
<1>7. g \in Seq(Seq(Written)) /\ Len(g) = Len(p) /\ \A i \in 1..Len(p) : g[i] = p[i].text
  BY <1>5, <1>6
<1>8. \A i \in 1..Len(p) : a[i] = IF p[i].kind = "owned" THEN <<>> ELSE p[i].text
  BY <1>5 DEF Left
<1>9. \A i \in 1..Len(p) : Len(g[i]) >= Len(a[i])
  <2>1. \A s \in Seq(Written) : Len(s) >= Len(<<>>) /\ Len(s) >= Len(s)
    OBVIOUS
  <2> QED
    BY <1>6, <1>7, <1>8, <2>1
<1> HIDE DEF g, a
<1>10. Len(FlattenSeq(g)) >= Len(FlattenSeq(a)) /\ Len(FlattenSeq(g)) \in Nat
  BY <1>5, <1>7, <1>9, FlattenSeqLonger
<1>11. Len(Generated(e)) >= e.length
  BY <1>2, <1>3, <1>4, <1>10
<1>12. ASSUME e.exact, Plain(e.means.words) PROVE Len(Generated(e)) = e.length
  <2>1. Exactly(p, e.length, e.means.words)
    BY <1>12 DEF Sound, p
  <2>2. Whole(p) /\ Weight(p) = e.length
    BY <1>12, <2>1 DEF Exactly
  <2>3. \A i \in 1..Len(p) : g[i] = a[i]
    BY <1>5, <1>7, <1>8, <2>2 DEF Whole
  <2>4. g = a
    BY <1>5, <1>7, <2>3, SeqEqual
  <2> QED
    BY <1>4, <2>2, <2>4
<1> QED
  BY <1>11, <1>12

(***************************************************************************)
(* For all names, attributes and texts and trees of any size, the length   *)
(* that the compiler computes for an element (tree.hpp) is not more than   *)
(* that of its text, and exactly that where it is said to be exact and no  *)
(* name has special characters, also when parts were moved away.           *)
(***************************************************************************)
THEOREM LengthsCorrect == HtmlSpec => []LengthsHold
<1>1. HtmlInit => TreeInv
  <2> SUFFICES ASSUME HtmlInit PROVE TreeInv
    OBVIOUS
  <2>1. elements = <<>> /\ build \in {"closures", "copies"}
    BY DEF HtmlInit
  <2>2. elements = [i \in 1..0 |-> elements[i]] /\ \A i \in 1..0 : Sound(elements[i])
    BY <2>1
  <2> QED
    BY <2>1, <2>2 DEF TreeInv, IsTree
<1>2. TreeInv /\ [HtmlNext]_htmlVars => TreeInv'
  <2> SUFFICES ASSUME TreeInv, [HtmlNext]_htmlVars PROVE TreeInv'
    OBVIOUS
  <2>1. CASE UNCHANGED htmlVars
    BY <2>1 DEF htmlVars, tree, TreeInv
  <2> QED
    BY <2>1, MakeElementKeeps, GenerateKeeps DEF HtmlNext
<1>3. TreeInv => LengthsHold
  BY TreeHolds
<1> QED
  BY <1>1, <1>2, <1>3, PTL DEF HtmlSpec

===============================================================================
