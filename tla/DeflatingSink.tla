--------------------------- MODULE DeflatingSink ---------------------------
(***************************************************************************)
(* Si::zlib_deflating_sink (zlib/deflating_sink.hpp) in front of a         *)
(* buffering_sink or of a container_buffer: append() takes ranges of       *)
(* characters and flushes, asks the next sink for append space, lets zlib  *)
(* write into it, and sends it on.  zlib (external) takes in as much as it *)
(* likes before it writes; a character becomes one unit of compressed data *)
(* here, which is its number in the whole input, and a complete flush ends *)
(* with the unit Mark.                                                     *)
(*                                                                         *)
(* A zlib_deflate_stream moves by swapping, which copies the z_stream that *)
(* deflateInit() has seen to another place, at least once on its way into  *)
(* the sink.  Whether zlib goes on with the copy is up to its version.     *)
(*                                                                         *)
(* Assertions are compiled out, as with NDEBUG; AssertionHolds says when   *)
(* one would fail.                                                         *)
(***************************************************************************)
EXTENDS Integers, SequencesExt, FiniteSetsExt

CONSTANTS
  ArraySize,    \* the size of the buffering_sink
  MinSpace,     \* the 4096 in append()
  Calls,        \* what callers append: sequences of lengths and FlushElement
  FlushElement, \* the element of type Si::flush
  MaxInput,     \* bound: characters in all
  MaxCalls,     \* bound: calls of append()
  MaxFailures   \* bound: failures of the destination

ASSUME SizesAssumption == ArraySize \in Nat \ {0} /\ MinSpace \in Nat \ {0}
ASSUME CallsAssumption == Calls \subseteq Seq(Nat \cup {FlushElement})

VARIABLES
  \* the buffering_sink
  buffer, used, destination, lent, accepted, torn,
  \* the container_buffer
  container, committed,
  next,       \* which of them m_next is: "array" or "container"
  \* the z_stream
  version,    \* does this zlib accept one that was copied ("lenient") or not ("strict")
  window,     \* characters that were taken in and are not encoded yet
  encoded,    \* encoded units there was no space for
  lastFlush,  \* what the last call was asked to flush; "cut" if space ran out
  status,     \* what the last call returned
  \* append()
  pc,         \* "outside", "lend", "deflate", "trim" or "send"
  todo,       \* the pieces that are left, beginning with the one in work
  rest,       \* how many characters of that piece begin at next_in
  read,       \* how many of them the last deflate() has taken
  written,    \* how many units it has written
  \* history
  calls,      \* calls of append()
  input,      \* characters zlib has taken in
  failures    \* flush_append_space() calls that returned an error

array == <<buffer, used, destination, lent, accepted, torn>>
vector == <<container, committed>>
zlib == <<version, window, encoded, lastFlush, status, input>>
vars == <<array, vector, next, zlib, pc, todo, rest, read, written, calls, failures>>

(* No character has this number. *)
Mark == -1

(* At most two flushes are in a call, and what fails may be sent in part.  *)
Array == INSTANCE BufferingSink
  WITH Elements <- Int, Zero <- 0, Capacity <- ArraySize, Inputs <- {},
       MaxTraffic <- MaxInput + 2 * MaxCalls + ArraySize * MaxFailures,
       Partial <- TRUE, Overwriting <- FALSE

Vector == INSTANCE ContainerBuffer WITH Zero <- 0

Init ==
  /\ Array!Init
  /\ Vector!Init
  /\ next \in {"array", "container"}
  /\ version \in {"lenient", "strict"}
  /\ window = <<>> /\ encoded = <<>> /\ lastFlush = "never" /\ status = "Z_OK"
  /\ pc = "outside" /\ todo = <<>> /\ rest = 0 /\ read = 0 /\ written = 0
  /\ calls = 0 /\ input = 0 /\ failures = 0

-----------------------------------------------------------------------------
(* The calls of the next sink.                                             *)

(* The size of the range that make_append_space() has returned. *)
Space == IF next = "array" THEN used ELSE Vector!Space

MakeAppendSpace(size) ==
  \/ next = "array" /\ Array!MakeAppendSpace(size) /\ UNCHANGED vector
  \/ next = "container" /\ Vector!MakeAppendSpace(size) /\ UNCHANGED array

WriteSpace(data) ==
  \/ next = "array" /\ Array!WriteSpace(data) /\ UNCHANGED vector
  \/ next = "container" /\ Vector!WriteSpace(data) /\ UNCHANGED array

(* A buffering_sink still lends the space when its destination has failed. *)
FlushAppendSpace ==
  \/ /\ next = "array" /\ Array!FlushAppendSpace /\ UNCHANGED vector
     /\ failures' = failures + (IF lent' THEN 1 ELSE 0)
     /\ failures' <= MaxFailures
  \/ /\ next = "container" /\ Vector!FlushAppendSpace
     /\ UNCHANGED <<array, failures>>

-----------------------------------------------------------------------------
(* deflate() of zlib as a set of results: how many characters it takes,    *)
(* how its stream looks then, and all units there are to write.            *)

UpTo(s, n) == SubSeq(s, 1, Min({n, Len(s)}))
From(s, n) == SubSeq(s, n + 1, Len(s))

Result(n, w, units) == [takes |-> n, window |-> w, units |-> units]

(* Z_NO_FLUSH: it encodes as much as it likes of what it has, and takes    *)
(* less than it is given only when there is no space left.                 *)
Collect(size, space) ==
  LET Given(n) == window \o [i \in 1..n |-> input + i]
      Results(n) == {Result(n, From(Given(n), m), encoded \o UpTo(Given(n), m)) :
                       m \in 0..Len(Given(n))}
  IN  {r \in UNION {Results(n) : n \in 0..size} : r.takes = size \/ Len(r.units) >= space}

(* Z_FULL_FLUSH: it encodes all it has; the mark is only set when there is *)
(* space left then.                                                        *)
FlushAll(space) ==
  LET all == encoded \o window
  IN  {Result(0, <<>>, IF Len(all) < space THEN Append(all, Mark) ELSE all)}

(* What was left from the last time comes first, and may be all that fits. *)
Work(size, space, flush) ==
  IF encoded # <<>> /\ Len(encoded) >= space THEN {Result(0, window, encoded)}
  ELSE IF flush THEN FlushAll(space) ELSE Collect(size, space)

(* Neither input nor anything to flush that the last call has not flushed. *)
NoProgress(size, flush) ==
  /\ encoded = <<>> /\ size = 0
  /\ lastFlush \in (IF flush THEN {"full"} ELSE {"none", "full"})

-----------------------------------------------------------------------------
(* append()                                                                *)

Size(piece) == IF piece = FlushElement THEN 0 ELSE piece

Total(data) == FoldSeq(LAMBDA piece, n : Size(piece) + n, 0, data)

Call(data) ==
  /\ pc = "outside" /\ data # <<>>
  /\ calls < MaxCalls /\ input + Total(data) <= MaxInput
  /\ calls' = calls + 1
  /\ todo' = data /\ rest' = Size(Head(data))
  /\ pc' = "lend"
  /\ UNCHANGED <<array, vector, next, zlib, read, written, failures>>

(* m_next.make_append_space(max(rest.size(), 4096)) *)
Lend ==
  /\ pc = "lend" /\ pc' = "deflate"
  /\ MakeAppendSpace(Max({rest, MinSpace}))
  /\ UNCHANGED <<next, zlib, todo, rest, read, written, calls, failures>>

(* Seeded bug: nothing is ever flushed. *)
DeflateNeverFlushes ==
  /\ pc = "deflate" /\ pc' = "trim"
  /\ \E r \in Work(rest, Space, FALSE) :
       /\ WriteSpace(UpTo(r.units, Space))
       /\ window' = r.window /\ encoded' = From(r.units, Space)
       /\ lastFlush' = IF Len(r.units) >= Space THEN "cut" ELSE "none"
       /\ read' = r.takes /\ input' = input + r.takes
       /\ written' = Min({Len(r.units), Space})
  /\ status' = "Z_OK"
  /\ UNCHANGED <<version, next, todo, rest, calls, failures>>

(* zlib_deflate_stream::deflate *)
Deflate ==
  LET flush == Head(todo) = FlushElement
  IN  /\ pc = "deflate" /\ pc' = "trim"
      /\ \/ /\ version = "strict"
            /\ status' = "Z_STREAM_ERROR"
            /\ read' = 0 /\ written' = 0
            /\ UNCHANGED <<array, vector, window, encoded, lastFlush, input>>
         \/ /\ version = "lenient" /\ NoProgress(rest, flush)
            /\ status' = "Z_BUF_ERROR"
            /\ lastFlush' = IF flush THEN "full" ELSE "none"
            /\ read' = 0 /\ written' = 0
            /\ UNCHANGED <<array, vector, window, encoded, input>>
         \/ /\ version = "lenient" /\ ~NoProgress(rest, flush)
            /\ status' = "Z_OK"
            /\ \E r \in Work(rest, Space, flush) :
                 /\ WriteSpace(UpTo(r.units, Space))
                 /\ window' = r.window /\ encoded' = From(r.units, Space)
                 /\ lastFlush' = IF Len(r.units) >= Space THEN "cut"
                                 ELSE IF flush THEN "full" ELSE "none"
                 /\ read' = r.takes /\ input' = input + r.takes
                 /\ written' = Min({Len(r.units), Space})
      /\ UNCHANGED <<version, next, todo, rest, calls, failures>>

(* Seeded bug: the whole space is sent, as far as it was written or not. *)
TrimNothing ==
  /\ pc = "trim" /\ pc' = "send"
  /\ MakeAppendSpace(Space)
  /\ UNCHANGED <<next, zlib, todo, rest, read, written, calls, failures>>

(* m_next.make_append_space(written) *)
Trim ==
  /\ pc = "trim" /\ pc' = "send"
  /\ MakeAppendSpace(written)
  /\ UNCHANGED <<next, zlib, todo, rest, read, written, calls, failures>>

(* Seeded bug: the round is repeated until zlib has written something. *)
SendUntilWritten ==
  /\ pc = "send"
  /\ FlushAppendSpace
  /\ \/ /\ read < rest \/ written = 0
        /\ rest' = rest - read
        /\ pc' = "lend" /\ UNCHANGED todo
     \/ /\ read = rest /\ written > 0
        /\ todo' = Tail(todo)
        /\ rest' = IF todo' = <<>> THEN 0 ELSE Size(Head(todo'))
        /\ pc' = IF todo' = <<>> THEN "outside" ELSE "lend"
  /\ UNCHANGED <<next, zlib, read, written, calls>>

(* flush_append_space(), with its error ignored; next_in moves on; and the *)
(* next round, the next piece, or the end of append(), which returns       *)
(* success.                                                                *)
Send ==
  /\ pc = "send"
  /\ FlushAppendSpace
  /\ \/ /\ read < rest
        /\ rest' = rest - read
        /\ pc' = "lend" /\ UNCHANGED todo
     \/ /\ read = rest
        /\ todo' = Tail(todo)
        /\ rest' = IF todo' = <<>> THEN 0 ELSE Size(Head(todo'))
        /\ pc' = IF todo' = <<>> THEN "outside" ELSE "lend"
  /\ UNCHANGED <<next, zlib, read, written, calls>>

Step == Lend \/ Deflate \/ Trim \/ Send

Next == Step \/ \E data \in Calls : Call(data)

(* append() waits for nobody. *)
Spec == Init /\ [][Next]_vars /\ WF_vars(Step)

-----------------------------------------------------------------------------

(* What the next sink was given, and what was written for it. *)
Sent ==
  IF next = "array" THEN destination ELSE Vector!Committed

Written ==
  IF next = "array" THEN UpTo(buffer, written)
  ELSE SubSeq(container, committed + 1, committed + written)

(* All units from the destination back to what zlib has just taken in. *)
OnTheWay ==
  Sent \o (IF pc \in {"trim", "send"} THEN Written ELSE <<>>) \o encoded \o window

(* The characters among the units are in the order of the input, none twice. *)
Ordered(units) ==
  \A i, j \in 1..Len(units) :
    i < j /\ units[i] # Mark /\ units[j] # Mark => units[i] < units[j]

(***************************************************************************)
(* What arrives is what was appended, in order and each unit once, however *)
(* zlib cuts it and whatever space it is given; and as long as no          *)
(* flush_append_space() fails there is no hole in it.  (After a failure,   *)
(* which append() does not report, the space is overwritten.)  Between     *)
(* calls a container holds nothing else, although it grows by much more    *)
(* than zlib writes.                                                       *)
(***************************************************************************)
DeflatedInOrder ==
  LET units == OnTheWay
  IN  /\ Ordered(units)
      /\ \A i \in 1..Len(units) : units[i] # Mark => units[i] \in 1..input
      /\ failures = 0 =>
           \A n \in 1..input : \E i \in 1..Len(units) : units[i] = n
      /\ pc = "outside" => container = Vector!Committed

(***************************************************************************)
(* A flush leaves nothing in zlib, except when its output fills the space, *)
(* of at most MinSpace units, to the last one: append() does not look at   *)
(* what is left, as the loop is about the input and there is none.         *)
(***************************************************************************)
FlushIsComplete ==
  pc = "send" /\ Head(todo) = FlushElement =>
    \/ window = <<>> /\ encoded = <<>>
    \/ written = (IF next = "array" THEN Min({MinSpace, ArraySize}) ELSE MinSpace)

(* The loop in append() ends: every round that does not finish the piece   *)
(* fills the space, so that zlib gets rid of something.  With a zlib that  *)
(* does not accept the moved stream there is no progress, and append() of  *)
(* any character goes on forever.                                          *)
AppendReturns == pc # "outside" ~> pc = "outside" \/ (version = "strict" /\ rest > 0)

(* "assert(rc != Z_BUF_ERROR)" in deflate(). *)
AssertionHolds == status # "Z_BUF_ERROR"

=============================================================================
