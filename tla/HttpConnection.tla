--------------------------- MODULE HttpConnection ---------------------------
(***************************************************************************)
(* A connection from one of the generators, or from a client that does not *)
(* use this library, to the parsers: what has been appended arrives in     *)
(* pieces of any size at a request_parser_sink, while parse_request and    *)
(* parse_response are asked about all that has arrived.  A response is     *)
(* read by parse_response only.                                            *)
(***************************************************************************)
EXTENDS HttpText, FiniteSets

CONSTANTS
  Others,     \* the characters that are no delimiters
  Requests, Responses, Texts, Numerals, OutputFails

(* What messages and maps of arguments are made of. *)
Characters == Delimiters \cup Others
Strings == Seq(Characters)

IsTable(a) ==
  /\ IsFiniteSet(DOMAIN a) /\ DOMAIN a \subseteq Strings
  /\ a = [k \in DOMAIN a |-> a[k]] /\ \A k \in DOMAIN a : a[k] \in Strings

ASSUME OutputFailsAssumption == OutputFails \in BOOLEAN

ASSUME MessagesAssumption ==
  /\ \A r \in Requests :
       /\ r = [method |-> r.method, path |-> r.path, http_version |-> r.http_version,
               arguments |-> r.arguments]
       /\ r.method \in Strings /\ r.path \in Strings /\ r.http_version \in Strings
       /\ IsTable(r.arguments)
  /\ \A r \in Responses :
       /\ r = [http_version |-> r.http_version, status |-> r.status,
               status_text |-> r.status_text, arguments |-> r.arguments]
       /\ r.http_version \in Strings /\ r.status_text \in Strings
       /\ \E s \in DOMAIN Numerals : Numerals[s] = r.status
       /\ IsTable(r.arguments)
  /\ Texts \subseteq Strings
  /\ DOMAIN Numerals \subseteq Seq(Characters \ Delimiters)

VARIABLES
  message, pieces,                                           \* the sender
  stream,                                                    \* what it has sent
  fed, data, state, result, key, value, output, failed       \* the sink

vars == <<message, pieces, stream, fed, data, state, result, key, value, output, failed>>

Sender == INSTANCE HttpMessages WITH text <- stream
Receiver == INSTANCE RequestParserSink

Init == Sender!Init /\ Receiver!Init

Send ==
  /\ Sender!AppendPiece
  /\ UNCHANGED <<fed, data, state, result, key, value, output, failed>>

(* A piece of the next n characters arrives. *)
Receive(n) ==
  /\ ~Sender!IsResponse(message)
  /\ Receiver!Feed(n)
  /\ UNCHANGED <<message, pieces>>

Parse == Receiver!Round /\ UNCHANGED <<message, pieces>>

Next ==
  \/ Send
  \/ \E n \in 1..Len(stream) : Receive(n)
  \/ Parse

(* append() runs until it returns. *)
Spec == Init /\ [][Next]_vars /\ WF_vars(Parse)

-----------------------------------------------------------------------------

(* All that was sent has gone through the sink. *)
AllParsed == pieces = <<>> /\ fed = Len(stream) /\ data = <<>> /\ ~failed

(***************************************************************************)
(* What a client of this library sends is read back, by parse_request or   *)
(* parse_response from the whole text and by request_parser_sink from any  *)
(* pieces of it, including empty parts, values that begin with a space or  *)
(* contain colons, and versions or status texts with spaces.  For a header *)
(* without line breaks that is so exactly when no word contains a space    *)
(* and no key a colon, which the generators do not look at.  And wherever  *)
(* such a text breaks off, split_value_line never looks for a value behind *)
(* the end of a line, which it does not check.                             *)
(***************************************************************************)
ReadBack ==
  Sender!NoLineBreaks(message) =>
    /\ ReadsWithin(stream)
    /\ pieces = <<>> =>
         (Sender!Separable(message) <=> Sender!Is(Sender!Parse(stream), message))
    /\ AllParsed /\ Sender!IsRequest(message) =>
         (Sender!Separable(message) <=> output = <<message>>)

(***************************************************************************)
(* A header that breaks off between two appends is never taken for a       *)
(* complete one: only the last piece lets any of the parsers find one.     *)
(***************************************************************************)
NoEarlyEnd ==
  pieces # <<>> /\ Sender!NoLineBreaks(message) /\ Sender!Separable(message) =>
    ~Sender!Parse(stream).found /\ output = <<>>

PiecesDoNotMatter == Receiver!PiecesDoNotMatter

ParsersAgree == Receiver!ParsersAgree

AppendReturns == Receiver!AppendReturns

=============================================================================
