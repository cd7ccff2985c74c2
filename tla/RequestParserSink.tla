-------------------------- MODULE RequestParserSink --------------------------
(***************************************************************************)
(* Si::http::request_parser_sink (http/request_parser_sink.hpp): a sink    *)
(* that is fed the bytes of a connection in whatever pieces they arrive    *)
(* and hands complete requests to m_output.  One step is one round of the  *)
(* loop in append(); between two pieces data is empty.                     *)
(***************************************************************************)
EXTENDS HttpText, FiniteSets

CONSTANTS
  OutputFails    \* may m_output.append() report an error?

VARIABLES
  stream,   \* the text that has arrived on this connection
  fed,      \* how much of it append() has been called with
  data,     \* the rest of the piece append() is working on
  state,    \* m_state
  result,   \* m_result
  key,      \* m_key
  value,    \* m_value
  output,   \* the requests m_output has taken
  failed    \* append() has returned an error

vars == <<stream, fed, data, state, result, key, value, output, failed>>

EmptyRequest ==
  [method |-> <<>>, path |-> <<>>, http_version |-> <<>>, arguments |-> NoArguments]

Init ==
  /\ stream = <<>>
  /\ fed = 0
  /\ data = <<>>
  /\ state = "method"
  /\ result = EmptyRequest
  /\ key = <<>>
  /\ value = <<>>
  /\ output = <<>>
  /\ failed = FALSE

(* A piece arrives: append() is called with the next n characters. *)
Feed(n) ==
  /\ data = <<>>
  /\ fed + n <= Len(stream)
  /\ data' = SubSeq(stream, fed + 1, fed + n)
  /\ fed' = fed + n
  /\ UNCHANGED <<stream, state, result, key, value, output, failed>>

(***************************************************************************)
(* How a round looks for delimiter c: `before` are the characters in front *)
(* of it, `after` what remains of the piece behind it.                     *)
(***************************************************************************)
At(c) == Find(data, c, 1)
Seen(c) == At(c) <= Len(data)
Before(c) == SubSeq(data, 1, At(c) - 1)
After(c) == SubSeq(data, At(c) + 1, Len(data))

Buffer == IF state = "method" THEN "method" ELSE "path"

(* Seeded bug: the character after a space is dropped as well. *)
MethodOrPathGreedy ==
  /\ data # <<>>
  /\ state \in {"method", "path"}
  /\ result' = [result EXCEPT ![Buffer] = @ \o Before(SP)]
  /\ data' = SubSeq(data, At(SP) + 2, Len(data))
  /\ state' = IF ~Seen(SP) THEN state
              ELSE IF state = "method" THEN "path" ELSE "version"
  /\ UNCHANGED <<stream, fed, key, value, output, failed>>

(* case state::method, state::path *)
MethodOrPath ==
  /\ data # <<>>
  /\ state \in {"method", "path"}
  /\ result' = [result EXCEPT ![Buffer] = @ \o Before(SP)]
  /\ data' = After(SP)
  /\ state' = IF ~Seen(SP) THEN state
              ELSE IF state = "method" THEN "path" ELSE "version"
  /\ UNCHANGED <<stream, fed, key, value, output, failed>>

(* case state::version *)
Version ==
  /\ data # <<>>
  /\ state = "version"
  /\ result' = [result EXCEPT !.http_version = @ \o Before(CR)]
  /\ data' = After(CR)
  /\ state' = IF Seen(CR) THEN "version_lf" ELSE state
  /\ UNCHANGED <<stream, fed, key, value, output, failed>>

(* The states in which one optional character is skipped. *)
Skips == [version_lf |-> [char |-> LF, next |-> "key"],
          value_lf |-> [char |-> LF, next |-> "key"],
          end_of_headers_lf |-> [char |-> LF, next |-> "method"],
          value_space |-> [char |-> SP, next |-> "value"]]

(* Seeded bug: waits for the optional character. *)
SkipMandatory ==
  /\ data # <<>>
  /\ state \in DOMAIN Skips
  /\ Head(data) = Skips[state].char
  /\ data' = Tail(data)
  /\ state' = Skips[state].next
  /\ UNCHANGED <<stream, fed, result, key, value, output, failed>>

(* case state::version_lf, value_lf, end_of_headers_lf, value_space *)
SkipOptional ==
  /\ data # <<>>
  /\ state \in DOMAIN Skips
  /\ data' = IF Head(data) = Skips[state].char THEN Tail(data) ELSE data
  /\ state' = Skips[state].next
  /\ UNCHANGED <<stream, fed, result, key, value, output, failed>>

(***************************************************************************)
(* case state::key, at the empty line: the request goes to m_output.  An   *)
(* error leaves append() at once, the rest of the piece is not parsed.     *)
(***************************************************************************)
EndOfHeaders ==
  /\ data # <<>>
  /\ state = "key"
  /\ Head(data) = CR
  /\ state' = "end_of_headers_lf"
  /\ result' = EmptyRequest
  /\ \/ /\ output' = Append(output, result)
        /\ data' = Tail(data)
        /\ UNCHANGED failed
     \/ /\ OutputFails
        /\ failed' = TRUE
        /\ data' = <<>>
        /\ UNCHANGED output
  /\ UNCHANGED <<stream, fed, key, value>>

(* Seeded bug: a piece that begins within a key replaces its beginning. *)
KeyReplaced ==
  /\ data # <<>>
  /\ state = "key"
  /\ Head(data) # CR
  /\ key' = Before(CO)
  /\ data' = After(CO)
  /\ state' = IF Seen(CO) THEN "value_space" ELSE state
  /\ UNCHANGED <<stream, fed, result, value, output, failed>>

(* case state::key, otherwise *)
Key ==
  /\ data # <<>>
  /\ state = "key"
  /\ Head(data) # CR
  /\ key' = key \o Before(CO)
  /\ data' = After(CO)
  /\ state' = IF Seen(CO) THEN "value_space" ELSE state
  /\ UNCHANGED <<stream, fed, result, value, output, failed>>

(* case state::value; map::insert keeps the first value of a repeated key. *)
Value ==
  /\ data # <<>>
  /\ state = "value"
  /\ data' = After(CR)
  /\ LET whole == value \o Before(CR)
     IN  IF Seen(CR)
           THEN /\ result' = [result EXCEPT !.arguments = Inserted(@, key, whole)]
                /\ key' = <<>>
                /\ value' = <<>>
                /\ state' = "value_lf"
           ELSE /\ value' = whole
                /\ UNCHANGED <<result, key, state>>
  /\ UNCHANGED <<stream, fed, output, failed>>

Round ==
  MethodOrPath \/ Version \/ SkipOptional \/ EndOfHeaders \/ Key \/ Value

-----------------------------------------------------------------------------
(***************************************************************************)
(* The reference: the same grammar read one character at a time.  A        *)
(* character that an optional one is not is read in the state behind it.   *)
(***************************************************************************)
Fresh ==
  [state |-> "method", result |-> EmptyRequest, key |-> <<>>, value |-> <<>>,
   output |-> <<>>]

ReadIn(p, c) ==
  CASE p.state \in {"method", "path"} ->
         IF c = SP
           THEN [p EXCEPT !.state = IF @ = "method" THEN "path" ELSE "version"]
           ELSE [p EXCEPT !.result[p.state] = Append(@, c)]
    [] p.state = "version" ->
         IF c = CR THEN [p EXCEPT !.state = "version_lf"]
                   ELSE [p EXCEPT !.result.http_version = Append(@, c)]
    [] p.state = "key" ->
         IF c = CR THEN [p EXCEPT !.state = "end_of_headers_lf",
                                  !.output = Append(@, p.result),
                                  !.result = EmptyRequest]
         ELSE IF c = CO THEN [p EXCEPT !.state = "value_space"]
         ELSE [p EXCEPT !.key = Append(@, c)]
    [] p.state = "value" ->
         IF c = CR THEN [p EXCEPT !.state = "value_lf",
                                  !.result.arguments = Inserted(@, p.key, p.value),
                                  !.key = <<>>,
                                  !.value = <<>>]
                   ELSE [p EXCEPT !.value = Append(@, c)]

ReadChar(p, c) ==
  IF p.state \notin DOMAIN Skips THEN ReadIn(p, c)
  ELSE LET after == [p EXCEPT !.state = Skips[p.state].next]
       IN  IF c = Skips[p.state].char THEN after ELSE ReadIn(after, c)

(* The reference after each prefix of s. *)
Readings(s) ==
  LET r[n \in 0..Len(s)] == IF n = 0 THEN Fresh ELSE ReadChar(r[n-1], s[n])
  IN  r

(* A header line of s ends before it has a colon. *)
KeyCutOff(s) ==
  LET r == Readings(s)
  IN  \E n \in 1..Len(s) : /\ s[n] = CR
                           /\ r[n-1].state = "key"
                           /\ r[n-1].key # <<>>

-----------------------------------------------------------------------------

(***************************************************************************)
(* What the parser has made of a connection depends on the characters      *)
(* alone and not on the pieces they came in: between two pieces it is      *)
(* where the character-wise reference is, with the same half-read parts    *)
(* and the same finished requests.  Holds until a header line that lacks a *)
(* colon, or an error of m_output, which drops the rest of a piece.        *)
(***************************************************************************)
PiecesDoNotMatter ==
  data = <<>> /\ ~failed /\ ~KeyCutOff(SubSeq(stream, 1, fed)) =>
    LET r == Readings(stream)[fed]
    IN  /\ state = r.state
        /\ result = r.result
        /\ key = r.key
        /\ value = r.value
        /\ output = r.output

(* Every line of s ends in CR LF, and CR and LF occur nowhere else. *)
LinesEndInCrLf(s) ==
  /\ \A i \in 1..Len(s) : s[i] = CR => i < Len(s) /\ s[i+1] = LF
  /\ \A i \in 1..Len(s) : s[i] = LF => i > 1 /\ s[i-1] = CR

(* How many header lines the first request of s has. *)
HeadersOfFirst(s) ==
  LET r == Readings(s)
  IN  Cardinality({n \in 1..Len(s) : r[n].state = "value_space" /\ r[n].output = <<>>
                                     /\ r[n-1].state # "value_space"})

(***************************************************************************)
(* The two parsers of the library agree: what parse_request makes of a     *)
(* text is the first request the sink produces from it, however the text   *)
(* is cut.  Holds for lines that end in CR LF and for keys that are not    *)
(* repeated: for a repeated key the sink keeps the first value             *)
(* (map::insert) and parse_request the last (map::operator[]).             *)
(***************************************************************************)
ParsersAgree ==
  fed = Len(stream) /\ data = <<>> /\ ~failed
    /\ LinesEndInCrLf(stream) /\ ~KeyCutOff(stream) =>
      LET batch == ParseRequest(stream)
      IN  batch.found /\ Cardinality(DOMAIN batch.arguments) = HeadersOfFirst(stream) =>
            /\ output # <<>>
            /\ \A field \in DOMAIN EmptyRequest : output[1][field] = batch[field]

(***************************************************************************)
(* append() returns: every round of its loop takes a character or moves to *)
(* a state whose round does.                                               *)
(***************************************************************************)
AppendReturns == data # <<>> ~> data = <<>>

==============================================================================
