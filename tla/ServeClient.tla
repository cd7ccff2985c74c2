---------------------------- MODULE ServeClient ----------------------------
(***************************************************************************)
(* serve_client of the example server (examples/hellohttp.cpp): a          *)
(* coroutine that reads a request through a buffering_source over a socket *)
(* and answers through a buffering_sink over the same socket.  The two     *)
(* components are composed here with the client at the other end, and with *)
(* the coroutine in main() that accepts clients.                           *)
(*                                                                         *)
(* Characters are numbers: the request is 1, 2, ..., and its header ends   *)
(* with its last character.  The network (external): what the client sent  *)
(* arrives in pieces of any size; once the client has gone, reads throw    *)
(* sooner or later, and when a write has failed all later ones do.         *)
(***************************************************************************)
EXTENDS Integers, Sequences, SequencesExt

CONSTANTS
  RingSize,       \* the size given to make_buffer
  ArraySize,      \* the size of the buffering_sink
  Requests,       \* the possible numbers of characters of the request header
  FirstLine,      \* where its first line ends
  Pieces,         \* what generate_response and append give to the sink
  StatusPieces    \* how many of them are the status line

ASSUME PiecesAssumption == Pieces \in Seq(Seq(Nat \ {0})) /\ StatusPieces \in 1..Len(Pieces)
ASSUME ArrayAssumption == ArraySize \in Nat
ASSUME RequestsAssumption == \A n \in Requests : n \in Nat /\ FirstLine \in 1..n

VARIABLES
  \* the buffering_source
  ring, first, control, call, wanted, got, arrived, taken, ended, throws, received,
  \* the buffering_sink
  buffer, used, destination, lent, accepted, torn,
  \* the coroutine and the connection
  phase,      \* "parsing", "answering", "over" or "undefined"
  request,    \* characters of the client's request
  malformed,  \* the first line of the request has no two spaces
  piece,      \* pieces of the answer given to the sink
  connected,  \* the client is there
  broken,     \* a write has failed
  running     \* main() is in io.run()

source == <<ring, first, control, call, wanted, got, arrived, taken, ended, throws, received>>
sink == <<buffer, used, destination, lent, accepted, torn>>
vars == <<source, sink, phase, request, malformed, piece, connected, broken, running>>

Receiver == INSTANCE BufferingSource
  WITH Capacity <- RingSize, StreamLength <- Max(Requests), MaxSize <- 1, MaxThrows <- 1

Response == FlattenSeq(Pieces)

Sender == INSTANCE BufferingSink
  WITH Elements <- 0..Len(Response), Zero <- 0, Capacity <- ArraySize,
       Inputs <- ToSet(Pieces), MaxTraffic <- 2 * Len(Response),
       Partial <- TRUE, Overwriting <- FALSE

-----------------------------------------------------------------------------

Init ==
  /\ Receiver!Init
  /\ Sender!Init
  /\ phase = "parsing"
  /\ request \in Requests
  /\ malformed \in BOOLEAN
  /\ piece = 0
  /\ connected = TRUE
  /\ broken = FALSE
  /\ running = TRUE

(* The client sends the next character of its request. *)
Send ==
  /\ connected
  /\ arrived < request
  /\ Receiver!Arrive
  /\ UNCHANGED <<sink, phase, request, malformed, piece, connected, broken, running>>

Disconnect ==
  /\ connected
  /\ connected' = FALSE
  /\ UNCHANGED <<source, sink, phase, request, malformed, piece, broken, running>>

(***************************************************************************)
(* Accepting another client throws.  The exception leaves the coroutine in *)
(* main(), io.run() and main() itself, and with it end all coroutines.     *)
(***************************************************************************)
AcceptThrows ==
  /\ running
  /\ running' = FALSE
  /\ UNCHANGED <<source, sink, phase, request, malformed, piece, connected, broken>>

-----------------------------------------------------------------------------
(* parse_request: get() by get().                                          *)

(* Seeded bug: the parser wants to see what comes behind the header. *)
ParsedTooLate == Len(received) > request

(* The line source has seen all the lines that parse_request asks it for. *)
Parsed == Len(received) = (IF malformed THEN FirstLine ELSE request)

(* get(): one character is copied out of the buffering_source. *)
Get ==
  /\ phase = "parsing"
  /\ ~Parsed
  /\ Receiver!CopyNext(1)
  /\ UNCHANGED <<sink, phase, request, malformed, piece, connected, broken, running>>

(* A read of the socket returns. *)
Read ==
  /\ Receiver!ReadOne \/ Receiver!ReadTwo \/ Receiver!ReadRest
  /\ UNCHANGED <<sink, phase, request, malformed, piece, connected, broken, running>>

(* A read of the socket throws: "ignore disconnect". *)
ReadThrows ==
  /\ ~connected
  /\ Receiver!Throw
  /\ phase' = "over"
  /\ UNCHANGED <<sink, request, malformed, piece, connected, broken, running>>

(* parse_request returns. *)
StartAnswer ==
  /\ phase = "parsing"
  /\ control = "idle"
  /\ Parsed
  /\ phase' = "answering"
  /\ UNCHANGED <<source, sink, request, malformed, piece, connected, broken, running>>

(* client->remote_endpoint() throws: "ignore disconnect". *)
EndpointThrows ==
  /\ phase = "parsing"
  /\ control = "idle"
  /\ Parsed
  /\ ~malformed
  /\ ~connected
  /\ phase' = "over"
  /\ UNCHANGED <<source, sink, request, malformed, piece, connected, broken, running>>

-----------------------------------------------------------------------------
(* The answer.                                                             *)

(* What a call of the sink that failed, or did not, says about the socket. *)
Writes(failed) ==
  /\ failed => ~connected
  /\ broken => destination' = destination
  /\ broken' = (broken \/ failed)

(* append() of the sink. *)
AppendPiece(data) ==
  \/ Sender!AppendBuffered(data) /\ UNCHANGED broken
  \/ Sender!AppendFlushFails(data) /\ Writes(TRUE)
  \/ Sender!AppendDirect(data) /\ Writes(accepted' = accepted)

(* Seeded bug: the content is given to the socket past the buffering_sink. *)
AnswerUnbuffered ==
  /\ phase = "answering"
  /\ piece < Len(Pieces)
  /\ ~(malformed /\ piece = StatusPieces)
  /\ piece' = piece + 1
  /\ IF piece' = Len(Pieces)
       THEN /\ destination' = destination \o (IF broken THEN <<>> ELSE Pieces[piece'])
            /\ UNCHANGED <<buffer, used, lent, accepted, torn, broken>>
       ELSE AppendPiece(Pieces[piece'])
  /\ UNCHANGED <<source, phase, request, malformed, connected, running>>

(* generate_response and append: nobody looks at the result of append(). *)
Answer ==
  /\ phase = "answering"
  /\ piece < Len(Pieces)
  /\ ~(malformed /\ piece = StatusPieces)
  /\ piece' = piece + 1
  /\ AppendPiece(Pieces[piece'])
  /\ UNCHANGED <<source, phase, request, malformed, connected, running>>

(***************************************************************************)
(* The answer to a malformed request has no map of header lines, but       *)
(* generate_response dereferences the pointer to it: undefined.            *)
(***************************************************************************)
AnswerBadRequest ==
  /\ phase = "answering"
  /\ malformed /\ piece = StatusPieces
  /\ phase' = "undefined"
  /\ UNCHANGED <<source, sink, request, malformed, piece, connected, broken, running>>

(* Seeded bug: flush() is repeated until it succeeds. *)
FinishRetries ==
  /\ phase = "answering"
  /\ piece = Len(Pieces)
  /\ Sender!Flush
  /\ Writes(used' # 0)
  /\ phase' = IF used' = 0 THEN "over" ELSE phase
  /\ UNCHANGED <<source, request, malformed, piece, connected, running>>

(* buffered_sender.flush(), and the coroutine is over. *)
Finish ==
  /\ phase = "answering"
  /\ piece = Len(Pieces)
  /\ Sender!Flush
  /\ Writes(used' # 0)
  /\ phase' = "over"
  /\ UNCHANGED <<source, request, malformed, piece, connected, running>>

Serve ==
  /\ running
  /\ \/ Get \/ Read \/ ReadThrows
     \/ StartAnswer \/ EndpointThrows
     \/ Answer \/ AnswerBadRequest \/ Finish

Next == Send \/ Disconnect \/ AcceptThrows \/ Serve

(* The client sends its request; the coroutine goes on when it can. *)
Spec == Init /\ [][Next]_vars /\ WF_vars(Send) /\ WF_vars(Serve)

-----------------------------------------------------------------------------

(***************************************************************************)
(* Although no result of append() is looked at, what the socket has taken  *)
(* is the beginning of the answer, without a hole: it is the network that  *)
(* has to make sure that a failed write is the last one.  The coroutine    *)
(* ends with the whole answer sent, unless the client has gone and a write *)
(* has failed or the answer was not begun.                                 *)
(***************************************************************************)
Abstract == INSTANCE Reply
  WITH delivered <- destination,
       state <- IF broken THEN "cut"
                ELSE IF phase = "over" /\ piece > 0 THEN "complete"
                ELSE IF phase = "over" \/ ~running THEN "cut" ELSE "open",
       excused <- ~connected \/ ~running

ImplementsReply == Abstract!Spec

(***************************************************************************)
(* pull() has filled the first part of the ring and waits for characters   *)
(* for the second, without handing out those it has.                       *)
(***************************************************************************)
HoldsBack == control = "two" /\ got > 0 /\ taken = arrived

(***************************************************************************)
(* A client that has sent its whole request and stays gets the whole       *)
(* answer as long as main() runs, except in two cases.  The request is     *)
(* malformed: its answer is begun, but generate_response has no map of     *)
(* header lines then.  Or its length is a multiple of the ring's: then its *)
(* last character can fill the first part of the ring exactly, and the     *)
(* server waits for the client and the client for the server.              *)
(***************************************************************************)
ClientIsAnswered ==
  arrived = request ~>
    \/ destination = Response
    \/ ~connected \/ ~running
    \/ malformed /\ phase = "undefined" /\ piece = StatusPieces
    \/ HoldsBack /\ request % RingSize = 0

(* When the client has gone, the coroutine does not wait for it forever. *)
ServerLetsGo == ~connected ~> phase \in {"over", "undefined"} \/ ~running

=============================================================================
