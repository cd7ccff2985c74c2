---------------------------- MODULE HttpMessages ----------------------------
(***************************************************************************)
(* The generators of HTTP headers (http/generate_request.hpp,              *)
(* http/generate_response.hpp, http/generate_header.hpp) and what          *)
(* parse_request and parse_response make of their text.  A generator       *)
(* appends one piece after the other to a sink; a step here is one         *)
(* append().  When the connection breaks down the other side has what was  *)
(* appended so far, so that the parsers are asked about every text on the  *)
(* way.  A message of somebody else's is a text that is sent at once.      *)
(***************************************************************************)
EXTENDS HttpText, SequencesExt

CONSTANTS
  Requests,    \* records like Si::http::request
  Responses,   \* records like Si::http::response, with a map of arguments
  Texts,       \* what others may send
  Numerals     \* the texts of numbers, as a function to the numbers

VARIABLES
  message,  \* the header to generate, or [text |-> t]
  pieces,   \* what is still to be appended
  text      \* what has been appended

vars == <<message, pieces, text>>

-----------------------------------------------------------------------------
(* Generating.                                                             *)

(* Seeded bug: no space behind the colon. *)
GenerateHeaderTight(key, val) == <<key, <<CO>>, val, <<CR, LF>>>>

(* generate_header *)
GenerateHeader(key, val) == <<key, <<CO, SP>>, val, <<CR, LF>>>>

(* generate_header_map, in some order of the keys. *)
GenerateHeaderMap(arguments) ==
  LET keys == SetToSeq(DOMAIN arguments)
  IN  FlattenSeq([i \in 1..Len(keys) |-> GenerateHeader(keys[i], arguments[keys[i]])])

(* generate_request_line and generate_status_line *)
GenerateLine(a, b, c) == <<a, <<SP>>, b, <<SP>>, c, <<CR, LF>>>>

GenerateRequest(r) ==
  GenerateLine(r.method, r.path, r.http_version)
    \o GenerateHeaderMap(r.arguments) \o <<<<CR, LF>>>>

(* boost::lexical_cast<std::string> of a number. *)
Numeral(n) == CHOOSE s \in DOMAIN Numerals : Numerals[s] = n

GenerateResponse(r) ==
  GenerateLine(r.http_version, Numeral(r.status), r.status_text)
    \o GenerateHeaderMap(r.arguments) \o <<<<CR, LF>>>>

-----------------------------------------------------------------------------
(* Parsing; ParseRequest is defined in HttpText.                           *)

ParseResponse(s) ==
  LET l == Line(s, 1)
  IN  IF ~l.found THEN Nothing
      ELSE LET t == l.text
               versionEnd == Find(t, SP, 1)
               statusEnd == Find(t, SP, versionEnd + 1)
               status == SubSeq(t, versionEnd + 1, statusEnd - 1)
               headers == HeaderLines(s, l.next)
           IN  IF \/ versionEnd > Len(t) \/ statusEnd > Len(t)
                  \/ status \notin DOMAIN Numerals \/ ~headers.found
                 THEN Nothing
                 ELSE [found |-> TRUE,
                       http_version |-> SubSeq(t, 1, versionEnd - 1),
                       status |-> Numerals[status],
                       status_text |-> SubSeq(t, statusEnd + 1, Len(t)),
                       arguments |-> headers.arguments]

IsRequest(m) == "method" \in DOMAIN m
IsResponse(m) == "status" \in DOMAIN m

Parse(s) == IF IsResponse(message) THEN ParseResponse(s) ELSE ParseRequest(s)

-----------------------------------------------------------------------------

Init ==
  /\ message \in Requests \cup Responses \cup [text : Texts]
  /\ pieces = IF IsRequest(message) THEN GenerateRequest(message)
              ELSE IF IsResponse(message) THEN GenerateResponse(message)
              ELSE <<message.text>>
  /\ text = <<>>

AppendPiece ==
  /\ pieces # <<>>
  /\ text' = text \o Head(pieces)
  /\ pieces' = Tail(pieces)
  /\ UNCHANGED message

-----------------------------------------------------------------------------

Without(chars, s) == \A i \in 1..Len(s) : s[i] \notin chars

Words(m) == IF IsRequest(m) THEN {m.method, m.path} ELSE {m.http_version}

Rests(m) ==
  (IF IsRequest(m) THEN {m.http_version} ELSE {m.status_text})
    \cup {m.arguments[k] : k \in DOMAIN m.arguments}

NoLineBreaks(m) ==
  (IsRequest(m) \/ IsResponse(m)) /\ \A s \in Words(m) \cup Rests(m) \cup DOMAIN m.arguments : Without({CR, LF}, s)

(* No word has a space and no key has a colon. *)
Separable(m) ==
  /\ \A s \in Words(m) : Without({SP}, s)
  /\ \A k \in DOMAIN m.arguments : Without({CO}, k)

(* What parse_request or parse_response has found is the header m. *)
Is(parsed, m) ==
  parsed.found /\ \A field \in DOMAIN m : parsed[field] = m[field]

=============================================================================
