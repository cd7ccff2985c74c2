# silicium in TLA+

silicium is a C++ library of sources, sinks, value holders and thin layers over
asio, zlib, HTTP and the operating system. It is almost entirely headers under
`silicium/`; `examples/hellohttp.cpp` puts several of them together into a
server. This directory holds TLA+ modules of its components, the TLC
configurations that check them on small instances, and proofs of some of their
properties for all instances. Paths below are relative to the repository.

- [1. The system](#1-the-system)
- [2. The modules and the code](#2-the-modules-and-the-code)
- [3. The runs](#3-the-runs)
- [4. Fairness](#4-fairness)
- [5. The proofs](#5-the-proofs)
- [6. What the checks say about the code](#6-what-the-checks-say-about-the-code)
- [7. What is not modelled](#7-what-is-not-modelled)
- [8. The plan](#8-the-plan)

## 1. The system

| Component | State it keeps | Operations | Hard behaviour | What makes it correct |
|---|---|---|---|---|
| `buffering_sink` (`sink/buffering_sink.hpp`) | an array and how much of it is used, the next sink | `append`, `flush`, `make_append_space`, `flush_append_space` | the next sink fails, perhaps after taking a prefix; the same array is used in two ways | what was accepted reaches the next sink once and in order |
| `buffering_source` (`source/buffering_source.hpp`) | a ring, the next source | `map_next`, `map_next_mutable`, `copy_next`, `skip` | short reads, reads that wait, reads that throw in the middle of `pull()` | every element comes out once and in order; nothing is made up; calls return |
| `request_parser_sink` (`http/request_parser_sink.hpp`) | the parser's state, the request in work, half-read keys and values | `append` | the text is cut anywhere; the output fails | the result depends on the characters, not on the cuts |
| `parse_request`, `line_source` (`http/parse_request.hpp`, `detail/line_source.hpp`) | none beyond the text that was read | one call | the text ends anywhere | agrees with the incremental parser |
| `generate_request`, `generate_response`, `parse_response` | none | one call, a sequence of appends | parts with delimiters; the connection breaks down between two appends | what is written is read back; a part is not taken for the whole |
| `async`, `block_thread` (`asio/async.hpp`, `asio/block_thread.hpp`) | the queues of two dispatchers, promises | `async` and the functions it posts | nested and blocking calls on the dispatchers' own threads, exceptions | nobody waits for what cannot come; order; every call ends |
| `serve_client` (`examples/hellohttp.cpp`) | one ring, one array and a coroutine per client | a request and its answer | disconnects at any time, ignored results of `append` | an answer without holes; a patient client is answered |
| `optional`, `error_or`, `expected`, `variant` | raw storage and a tag | constructors, destructor, assignments, `emplace` | the operations of the held type throw between two steps | the tag tells what is alive, every object is destroyed once, failures have no effect |
| sources (`source/*.hpp`) | a position, what they have buffered, an error that was seen | `map_next`, `copy_next`, `skip` | two meanings of `map_next`; errors and empty ranges among the elements; exceptions | reads lose, repeat and invent nothing; an empty read means the end |
| sinks (`sink/*.hpp`) and `copy` | where they write | `append`; element by element from a source to a sink | one of several children fails, streams that go bad | what is lost was reported |
| `zlib_deflating_sink` (`zlib/deflating_sink.hpp`) | a `z_stream`, the next sink | `append` of ranges and flushes, moves | zlib holds data back, the space is too small, the next sink fails, the `z_stream` is somewhere else than it was | the compressed stream is in order and complete; `append` returns |
| `container_buffer` (`sink/container_buffer.hpp`) | a container and how much of it is committed | `make_append_space`, `flush_append_space` | the container grows in front of what is written | only what was written is in the container |
| `async_source`, `accepting_source`, `connecting_source` (`asio/`) | a source, or a socket object | one asynchronous operation per element | who uses the source when | as for sources and `async` |
| files and pipes (`file_handle.hpp`, `pipe.hpp`, `read.hpp`, `write.hpp`, `sink/file_sink.hpp`) | descriptors, of which the system gives the numbers out again; how much of an append is written | make, move, close, release, read, write | moves that swap, numbers kept by those who do not own them, partial writes | every byte is written or the caller knows; every descriptor has one owner; a reader sees the end |
| `html` (`html/generator.hpp`, `html/tree.hpp`) | a sink; functions that own their parts | nested elements with callbacks; elements made of elements | escaping, callbacks that throw, parts that were moved away | what is generated means what it was made from; computed lengths hold |
| `bounded_int`, `overflow_or`, `add` | a number, and bounds in its type | creation, conversion, arithmetic | bounds of results that the compiler computes, signed and unsigned operands, the width | no wrong result without an error |
| the rest (ranges, traits, functions, dynamic libraries, strings, clocks, small utilities) | little or none | forwarding | none | - |

How they interact: everything is a synchronous call. A sink calls the `append`
of the next sink and looks at its error code, or does not; a source calls the
`map_next` or `copy_next` of the next source, which may throw. The only
concurrency is in `asio/`: dispatchers with threads of their own, promises, and
in `hellohttp` one coroutine per client that is suspended inside a read of the
buffering source or a write of the buffering sink. Nothing is persistent, so
there is no recovery; what corresponds to a crash is an exception or a
connection that breaks down between two steps.

`PROJECT.json` lists each component with its status, and under `hazards` the
places in the code that are hard to test, each with the properties that cover
it.

## 2. The modules and the code

An action has the name of the function, or of the case of a function, that it
models. A call that does not wait for anything is one step. A call that can be
suspended, throw halfway or run a loop is several, with a variable for where it
is. Elements are numbers or strings without a structure; what a library outside
of the repository does is nondeterministic. The definitions called "Seeded bug"
are mistakes that could be made in the operation below them. They are in no
next-state relation; each is there to show that a property would be violated.

| Module | Uses | Models |
|---|---|---|
| `WriteBehind` | - | abstract: what a buffering sink promises |
| `BufferingSink` | `WriteBehind` | `buffering_sink` |
| `BufferingSource` | - | `buffering_source` |
| `HttpText` | - | `line_source`, `split_value_line`, `parse_request` |
| `RequestParserSink` | `HttpText` | `request_parser_sink` |
| `HttpMessages` | `HttpText` | the generators, `parse_response` |
| `HttpConnection` | `HttpMessages`, `RequestParserSink` | a sender and the parsers at the two ends of one stream |
| `AsyncCalls` | - | `async`, `block_thread` |
| `AsyncSource` | `AsyncCalls` | `async_source` between other calls of `async` |
| `Reply` | - | abstract: what a client may expect of a server |
| `ServeClient` | `BufferingSource`, `BufferingSink`, `Reply` | `serve_client`, and the coroutine that accepts |
| `FileHandles` | - | `file_handle`, `pipe` over the system's table of files |
| `PipeTransfer` | `FileHandles` | `write` under a `file_sink`, `read` |
| `BoundedInts` | - | `bounded_int` |
| `CheckedSums` | `BoundedInts` | `overflow_or`, `checked_add` |
| `Lifetime` | - | what steps on raw storage do, and what exceptions do to them |
| `Optional`, `ErrorOr`, `Expected`, `Variant` | `Lifetime` | the operations as sequences of steps |
| `Holders` | these | programs that use the holders |
| `Sources`, `Sinks` | - | the classes as operators on records |
| `Streams` | these | programs that read; `async_get`; `copy` |
| `ContainerBuffer` | - | `container_buffer` |
| `DeflatingSink` | `BufferingSink`, `ContainerBuffer` | `zlib_deflate_stream`, `zlib_deflating_sink` over either |
| `HtmlText` | - | the functions of `html/generator.hpp`, and a reader |
| `Html` | `HtmlText` | programs that use `html::generator` or make trees |

**BufferingSink.** `buffer`, `used` are `m_fallback_buffer`, `m_buffer_used`.
`destination` is what the next sink has taken, `accepted` what callers were told
is accepted, `lent` that the caller has asked for append space. `append` is
three actions, for what fits, for what does not fit behind a flush that fails,
and for what does not fit otherwise. The next sink reports success, or an error
after it has taken nothing or, with `Partial`, a prefix. `Overwriting` says
whether callers ask for append space while elements are pending. Either tears
the history: `torn` remembers that it has happened, because from then on
nobody can say what will have arrived.

**BufferingSource.** The ring with the slot its beginning is in, since the slots
decide how a read is divided: `pull()` makes the ring as large as it gets and
reads into its two contiguous parts. `control` is `one`, `two` or `rest` while a
call waits for the first or second of these reads or, in `copy_next`, for what
the ring did not have. `Arrive` and `End` belong to the other end of the stream.
A read returns as soon as it can return anything; it may return less than there
is. The default-constructed elements of `resize` are `Blank`.

**HttpText, RequestParserSink.** A text is a sequence of letters and of the four
delimiters the parsers look for. `parse_request` and `line_source` are
functions of the text. `request_parser_sink` is a state machine with one action
per `case`, where one step is one round of the loop in `append`; `Feed` calls
`append` with the next piece, of any length. Its reference is an operator that
reads one character at a time (`ReadChar`).

**HttpMessages.** The generators are the sequences of their appends; a step
appends one piece, so that the text exists in every state of its transmission.

**HttpConnection.** `HttpMessages` as `Sender` and `RequestParserSink` as
`Receiver` have the variable `stream` in common, which is both what was appended
and where `Feed` takes its pieces from; `parse_request` and `parse_response` are
asked about it in every state. A sender may also be somebody else, whose text is
there from the beginning. A character is a delimiter or one of `Others`.

**AsyncCalls.** A call of `async` moves from the queue of the background
dispatcher to one of its threads, to the queue of the foreground dispatcher and
to one of its threads; `status` says where it is, `running` what a thread is
executing. Calls come from threads outside of the dispatchers or from work and
handlers. `awaits` is `future::get()`. An exception from work or from a handler
leaves `run()`: that thread is in `left`, and a promise in a function that dies
is broken. `parallel` remembers that two background threads were at work at a
time, from when on results come in any order.

**AsyncSource.** Some of these calls are made by `async_get()`, and their work
reads an element of the source: `position` is how many it has given away, `read`
which of them each call got. `place` says where it is, in the memory of the source
or in the buffer of the caller, and `memory` what is in these now; a result is a
reference to one of them. `using` is the result that a handler looks at, until
it returns or calls `async_get()` again. `overlapped` and `raced` are history: a
get was called before the last result was used up, and two threads have used the
source at a time, which is a data race, so that nothing is said of what is read
from then on.

**ServeClient.** An instance of the source and one of the sink, and the
coroutine between them in three phases. `parse_request` is modelled by the
characters it asks for: one `get` at a time until the header is complete, or up
to the end of a first line that is malformed. The client sends at its own pace
and may disconnect at any time; from then on reads may throw and writes may
fail, and after a failed write all later ones do. The answer to a malformed
request dereferences a null pointer (`generate_response.hpp:31`), which is a
phase of its own, "undefined", that nothing leads out of. The coroutines of other
clients have a ring, an array and a socket of their own. What they have in common
is `main()`: an accept that fails throws out of `io.run()` (`AcceptThrows`), and
with it ends every coroutine (`running`). `Reply` knows nothing of this. What the
client gets grows to the whole response, or is cut off when there is an excuse;
the mapping takes `destination` for what it got and puts the state together from
`phase`, `piece`, `broken` and `running`.

**FileHandles.** `table` is the system's: the file behind every number. A number
is free again once it is closed, and the lowest free one is taken next, so that
old numbers soon mean other files. `handle` is what the variables really hold,
`meant` what a caller thinks who takes a move for a move; the classes swap
instead, so that an overwritten descriptor goes into the variable that was moved
from, and stays open there. `loose` are numbers behind a `release()`.

**PipeTransfer.** A `file_sink` and a reader have raw numbers, while the owners of
the files are moved and closed by the actions of `FileHandles`. One step is one
call of `::write` or `::read`; the loop of `write()` is between `StartAppend` and
`Succeed` or `WriteFails`. `landed` is the history of all bytes written with the
pipe they went to, `stale` and `lost` say that the file behind a raw number was
closed, `short` that a success was reported for less than was asked for.

**BoundedInts, CheckedSums.** A type is its bounds and whether it is signed; `Cast`
is a conversion to the width. The program has one number, its type, and as a
history what the same computation yields without a width (`exact`) and whether
the result is still promised to be that (`trust`): no longer once a bound has
wrapped, a conversion has changed an operand of a comparison, or something
undefined was used. `CheckedSums` adds such numbers up in variables of type
`overflow_or`, against `total`.

**Lifetime, Optional, ErrorOr, Expected, Variant, Holders.** A holder is its tag
and the object that is really alive in its storage. An operation is the sequence
of steps the code takes - destroy, construct, assign, set the tag - and may be
cut off at each step that can throw. `Outcomes` is what it can come to, with
what was leaked and whether something undefined happened on the way. `Holders`
lets any operations follow each other, with one slot as the operand of another:
constructions, assignments between holders of the same class, of values and from
other variants, `emplace`, swaps and visits.
It stops when a tag lies, since the next operation would be undefined.

**Sources, Sinks, Streams.** A source is a record with its class and what is left
in it; `MapNext` and `CopyNext` give the source behind the call, what was
returned and whether it threw. A source over another one has it in `input`. `None`
stands for a generator's function that has nothing now, `Failed` for an error
among the elements. `append` of a sink is a set of outcomes; `MultiAppend` and
`ThrowingAppend` combine them. `Streams` reads in any order and of any size and
then copies what is left, one element per step.

**DeflatingSink.** One step each for asking the next sink for space, `deflate`,
cutting the space down to what was written, and sending it. zlib is external: it
takes what it is given, encodes as much of what it has as it likes, keeps what
there is no space for, and leaves input behind only when there is no space left.
A full flush encodes everything and ends with a mark, when there is space for it.
It has nothing to do, and says so, when it is given no input and either the last
call was the same flush, or this one flushes nothing. `next` is the sink
behind, one of two classes with the same two calls. A sink gets its `z_stream`
by a move, which copies it behind `deflateInit()`: a zlib whose state points
back to where it was (as of version 1.2.11) refuses the copy, and `version` says
which kind this one is.

**HtmlText, Html.** The functions that append are operators on sequences of
characters. `Read` is the reference: it reads a text character by character and
knows nothing of how it was made. A document of the generator is written by one
step per call that appends; `open` has the elements whose callbacks are running,
and `Throw` leaves any number of them. An element of a tree is the sequence of
pieces it appends, with the length the compiler computes for it. What making a
new element does to its parts depends on `config.hpp` and the compiler
(`build`): with captured expressions they are moved, which empties the strings
of a lambda; without, they are copied.

## 3. The runs

`tlc -config X.cfg M` checks a run. All of them finish without an error, except
for `deflating_assert`, which finds the violation described in section 6.

| Run | Module | Properties | States | What it shows |
|---|---|---|---|---|
| `sink` | `MCBufferingSink` with `MCBufferingSink.cfg` | `AcceptedIsDeliveredOrOwed`, `OnlyMakeAppendSpaceDiscards`, `ImplementsWriteBehind` | 76,264 | Over a destination that may fail after taking a prefix, and with callers that ask for append space at any time: until one of the two has torn the history, buffering_sink delivers what it accepted once and in order and implements the write-behind specification, and after that only make_append_space over pending elements can lose or reorder accepted elements. |
| `source_throwing` | `MCBufferingSource` with `MCBufferingSource_throwing.cfg` | `EveryElementOnceInOrder`, `NothingMadeUp`, `EmptyMeansEnd`, `CallsReturn` | 39,565 | buffering_source over a source with short and throwing reads: every element comes out once and in order, nothing is made up, an empty map_next means the end, and every call returns while the stream goes on or ends. |
| `http` | `MCHttpConnection` with `MCHttpConnection.cfg` | `PiecesDoNotMatter`, `ParsersAgree`, `ReadBack`, `NoEarlyEnd`, `AppendReturns` | 501,717 | Every header that is built from a set of awkward parts, generated append by append, and texts of other clients, cut in every way on their way to request_parser_sink while the batch parsers read what has arrived: the pieces do not matter, the parsers agree on well-formed requests, a header is read back exactly when its words have no spaces and its keys no colons, never before it is complete, and append() returns. |
| `async_calls` | `MCAsyncSource` with `MCAsyncSource.cfg` | `WaitsExactlyForAnswers`, `HandledInOrder`, `ElementsArrive`, `EveryCallEnds` | 95,192 | async(), block_thread and async_source between two background threads, two foreground threads and a caller, with nested and blocking calls and with work and handlers that throw: nobody waits for a call that cannot be answered, handlers run in order as long as one background thread works at a time, the elements of a source arrive in order and stay intact for a program that asks for one at a time, and every call ends unless all threads of a dispatcher are held. |
| `files` | `MCPipeTransfer` with `MCPipeTransfer.cfg` | `OneOwner`, `AppendedHasLanded`, `FilesStay`, `ReaderSeesEnd` | 304,469 | Two variables of type pipe that are moved, closed, released and made anew in every order over numbers that the system gives out again, while a file_sink writes to a pipe and a reader reads from it with raw numbers: every open descriptor has one owner, no operation closes or replaces a file that the caller has elsewhere, what append() reports as a success is in the pipe unless the descriptor was closed behind the sink's back or the pipe does not make writers wait, and the reader sees the end unless a move assignment has left a writer in a variable that looks empty. |
| `holders` | `Holders` with `Holders.cfg` | `TagsTellTheTruth`, `EveryObjectIsDestroyed`, `FailuresHaveNoEffect`, `CopiesAndMovesTransfer` | 42,634 | Three holders of each class that are created, copied, moved, assigned, swapped, emplaced and destroyed in every order, while the operations of the held types throw: which operations keep tag and storage together, destroy every object, have no effect when they throw and transfer values, and exactly which do not. |
| `html` | `MCHtml` with `MCHtml.cfg` | `LengthsHold`, `PartsStayUsable`, `GeneratedIsReadBack` | 749,056 | Every tree of up to four elements, each used as often as the program likes, in both builds, and every document of up to five events of a generator whose callbacks may throw: computed lengths hold, which elements can be used again, and what is written is read back exactly when names and keys are plain and nothing was thrown. |
| `numbers` | `MCCheckedSums` with `MCCheckedSums.cfg` | `ResultsAreExact`, `SumsAreExact` | 104,580 | Computations with bounded_int over signed and unsigned integers of three bits, whose results are added up in two overflow_or variables: a number is exact and refused only for its exact value as long as no bound has wrapped and no negative bound or mixed comparison was involved, and a sum is an overflow exactly when the exact total does not fit, unless an overflow was added from the right. |
| `serve_client` | `MCServeClient` with `MCServeClient.cfg` | `ImplementsReply`, `ClientIsAnswered`, `ServerLetsGo` | 4,506 | The server coroutine of hellohttp.cpp over buffering_source and buffering_sink, with a client that sends requests of several lengths in pieces of any size and may disconnect at any time, until accepting another client fails: it implements Reply, so that the answer has no holes and is whole unless the connection or the server broke down, and a patient client gets it unless the request's length is a multiple of the ring's size or the request is malformed, whose answer breaks off behind the status line, where the code is undefined. |
| `streams` | `MCStreams` with `MCStreams.cfg` | `LossesAreReported`, `ThrowingSinkLeavesNoHoles`, `ReadsAreExact`, `EmptyMeansEnd` | 669,462 | Every source class over every short content, with ends, errors and empty ranges in the middle, read by map_next, copy_next and async_get in any order, and copied into pairs of sinks that fail: which reads lose or repeat elements, what an empty read means, and where losses are reported. |
| `deflating` | `MCDeflatingSink` with `MCDeflatingSink.cfg` | `DeflatedInOrder`, `FlushIsComplete`, `AppendReturns` | 500,020 | zlib_deflating_sink over a container_buffer, and over a buffering_sink smaller than what zlib holds back, with a destination that fails: the compressed stream is in order and has no holes until a failure, a flush is complete unless its output fills the space, and append() returns if zlib accepts the moved stream. |
| `deflating_assert` | `MCDeflatingSink` with `MCDeflatingSink_assert.cfg` | `AssertionHolds` | stops at the violation | The assertions about the status of deflate() fail when append() is given an element that leaves zlib nothing to do: a second flush in a row, or an empty range. |

Why these bounds:

- *Sink*: with `Capacity` 2 there is data that is empty, smaller than the array,
  as large, and larger, behind each possible content of the array. `MaxTraffic` 5
  allows for two full arrays and a large range, with failures between them.
  Two different elements make every exchange visible. `Partial` and
  `Overwriting` are the worst case; what is lost by them is in the properties.
- *Source*: a ring of 3 with 5 elements in the stream wraps around in every
  position, `MaxSize` 4 asks for more than the ring has, and two throwing reads
  let one call fail on what another one left behind.
- *Http*: every request and response of five parts - nothing, a letter, a space
  or a return in front, a colon behind - in all places, and about 110 texts of
  other clients: one or two requests with all pairs of header lines that have no
  space, no value, no colon, no line feed, or a repeated key. All are cut into
  pieces in every way. A loop that reads text needs no more: the states only
  pass on what is between two delimiters.
- *Async*: three calls, one of them blocking and two gets with the same buffer,
  and two threads on each dispatcher: enough for handlers that overtake each
  other, for a handler that calls again and for each dispatcher to be starved.
  Of the two gets both may be given the memory of the source, or the buffer, and
  each may come before, during or behind everything else.
- *Server*: a ring of 3 and requests of 2, 4, 5, 6 and 7 characters cover every
  remainder, and a request that fits at once. The array of 2 is smaller than one
  piece and larger than another.
- *Holders*: three slots give each operation an operand and a bystander. Two
  values tell a copy from what was there. `MovesThrow` is the worst case.
- *Files*: two variables are what a swap needs, two pipes what a number needs to
  mean something else later; four numbers are all that can be open at a time. A
  capacity of 1 makes every second byte wait, and appends of 0, 1 and 2 bytes are
  empty, whole and partial.
- *Numbers*: three bits and five types of operands: all values of the signed and of
  the unsigned type, a part of each, and a single value. Totals up to 10 are beyond
  the width. The two sums are interchangeable.
- *Streams*: contents of up to three elements and requests of up to two, so that
  a request is met, exceeded and not met; two children for a `multi_sink`, of
  every pair of classes.
- *Deflating*: a space of 2 in an array of 3, smaller than one range (5), which
  takes several rounds, and than what zlib may hold back; two failures.
- *Html*: a name, a key and a value with and without special characters each;
  four elements are enough for two that share a part that was moved before, five
  events for an attribute and content in nested elements.

Where a configuration says `CHECK_DEADLOCK FALSE` the system stops in the
normal course of things: all text was fed, all calls were answered, the client
was served, a copy has returned, the pipes are closed, or a bound is reached (in
`Html`, always). In `Holders` it stops at a tag that lies as well. The runs of the
sink, the source and the numbers check for deadlock.

## 4. Fairness

- `AsyncCalls`: weak fairness of each thread's `StartWork`, `FinishWork`,
  `StartHandler`, `FinishHandler`: a thread in `run()` takes tasks while there
  are any, and what the user posted returns or throws. Nobody has to call
  `async`, and which thread is faster is left open. The same in `AsyncSource`,
  where these are `Start`, `Finish`, `Handle`, `Handled`.
- `BufferingSource`: the stream goes on or ends (`Arrive \/ End`), and a read that
  can return does.
- `HttpConnection` (`Parse`), `DeflatingSink` (`Step`): a call of `append` runs, as
  it is a loop on one thread that waits for nobody. Nothing has to be sent.
- `PipeTransfer`: the reader reads on (`Read`), and `append` goes on when the pipe
  has space (`Write`): each is a loop on a thread of its own that waits for
  nothing but the system. Nobody has to close or move anything.
- `ServeClient`: the client sends what it has to send (`Send`) and the
  coroutine, which asio resumes when its operation is complete, goes on
  (`Serve`). Nothing makes a client disconnect.

The other modules have safety properties only and no fairness.

## 5. The proofs

All are checked by the TLA+ proof system. They hold for all values of the
constants that satisfy the assumptions named in the modules (`CapacityAssumption`,
`ThreadsAssumption` and so on), which only say what the types in the code
say, so neither sizes nor the bounds of the runs matter.

**BufferingSink_proof.** `TypeCorrect`: `used` never exceeds the array; this is
inductive as it is. `DeliveryCorrect`: accepted = delivered, followed by what is
pending, until the history is torn. It is inductive together with the types, as
`torn` only ever grows. `CopyAppends` is the lemma that connects the copy into the
array with concatenation. `Implementation`: the sink is a `WriteBehind` whose lag
is the capacity. Every action extends the histories (`HistoriesGrow`),
`DeliveryCorrect` bounds the difference by `used`, and what has torn stays torn
(`TornStays`). Neither theorem has a premise about the destination or the caller.
`DiscardsCorrect`: only the loan of an array with pending elements makes accepted
elements disappear or change places. The property compares histories by a greedy
match, a recursive function; `MatchingExists` and `MatchedIs` compute it, and
`MatchIsSound` and `MatchIsComplete` show that it finds the accepted elements
exactly when they are there in their order (`Within`). The steps are about
`Within`, which does not depend on how a match is found: `SomethingBetween` is a
prefix that is delivered twice, `SomethingBehind` what is new.

Then `Streams`, the sinks that do not buffer, whose specification goes by the name
of `StreamSpec` to stand in one module with that of the buffer: `LossesCorrect` and
`ThrowingCorrect` for any number of children of any of the classes and every
source, by `CopyInv`: the types, both properties, and that the children are as
they were made until `Si::copy` runs. `ChildAsked`, `ChildrenAsked` and
`SinkAsked` say what one `append` does to a child, to all of them and behind a
`throwing_sink`: it has the element or is as it was, and a success means that all
have it, or drop it. `SelectsNew` and `SelectsOld` keep the positions of what a
child has. Which source it is does not matter.

**BufferingSource_proof.** `InvariantHolds` for `IInv`, which is `TypeOK` with
`Shape` and `Order`. `Shape` says which call waits where, that `pull()` works on
a ring of full size, and that it reads the second part behind a filled first
one; `Order` that as long as no read has thrown, what was received is the
beginning of the stream and the ring continues it, up to what was read so far.
The properties do not imply either: that the ring has no default-constructed
elements when `pull()` returns depends on where its reads have put theirs. From it follow `TypeCorrect`, `NothingMadeUpCorrect` and
`EmptyMeansEndCorrect`, an action property: `pull()` with an empty result has
made a read that found the end. `EveryElementOnceInOrderCorrect` holds whatever
throws, and needs `Delivered`: what was received and what is in the ring, without
the space that a read under way fills (`Kept`), is `Complete`, and that space
is blank (`SpaceIsBlank`), so that a read that throws adds only blanks.

**AsyncSource_proof.** First about `AsyncCalls`, under which `AsyncSource` puts
elements. `InvariantHolds` for `IInv`, which is `TypeOK`,
`WaitsExactlyForAnswers` and `OnePlace`: a call is in the one place its status
names, once - in a queue, or with one thread. Without it a handler could be
posted twice, and a second answer would release a thread that waits for
something else. `TypeCorrect` and `WaitsCorrect` follow: a thread is in
`future::get()` exactly while its call is under way. `OrderCorrect`, for every
number of threads, needs more: as long as no two of them have been at work at a
time, `InLine` puts all calls under way into one line -
those that were handled, the foreground queue, the one in work, the background
queue - which is the order of the calls. `IssuedLast` says that a new call goes to
its end; `OneWorker`, a part of `InLine`, that no second one is in work.

Then about `AsyncSource`. Every step of `AsyncSource` is a step of `AsyncCalls`
(`IsAsyncStep`), so that `IInv` and `InLine` hold here as well (`DispatchCorrect`),
and `OnePlace` says where each get is. `ArrivalCorrect` adds what the gets carry
with them: `ReadsWhenDone`, a get that has not returned has read nothing;
`HandledIsOver`, one that was handled does not come back; while nothing has raced,
`InStream`, which is the order through the foreground queue and into the handlers,
with every element somewhere; and while nobody asks too early, `OneAtATime`: one
get is under way and nobody looks at anything then, so that the memory it writes
to is free. `ElementsArrive` alone is not inductive, as it says nothing of
results in the queue.

**DeflatingSink_proof.** `IInv` is `Types`, `Rounds`, `Flushed` and `Stream`.
`Stream` is about the four sequences that the units on their way are, one behind
the other (`Stack`): what was sent, what was written for it, what is encoded and
what was taken in. Asking for space, cutting it down and sending move units
forward, which changes nothing as a whole (`StackIs`); `deflate` adds the next
characters or a mark at the end (`WorkIs`, `Restacked`, `Grows`, `Marked`); a
failure takes some out of the middle and leaves the rest in order (`Shortened`).
It needs `Rounds`: the space that is given back is exactly what was written, and
while a container is not in use all of it is committed. From it follow
`DeflatedCorrect` and, with `Flushed`, which also says that zlib holds nothing
back behind a complete flush, `FlushCorrect`. The sizes, what is appended and how
zlib cuts its work are arbitrary. `SpaceMade`, `SpaceWritten` and `SpaceSent` say
what either next sink does with the space, so that the steps of `append` do not
distinguish the two.

**PipeTransfer_proof.** First about `FileHandles`. `Owned` is `TypeOK`, `OneOwner` and `MeantIsHeld`: what a
caller thinks a variable has, it has. None of them is inductive alone: that a
swap keeps owners apart needs `OneOwner`, that the released number is an open one
needs `MeantIsHeld`. `OwnersCorrect`, and `OwnersCorrectInTransfer` for the
composition, as every step of it is a step of `FileHandles` or leaves the files
alone (`TransferStep`). `FilesStayCorrect` is an action property: what is closed by
an operation has no other owner (`OnlyTheOwner`), and numbers the caller relies on
are open (`KnownIsOpen`).

Then about `PipeTransfer`. `AppendedCorrect` by `TransferInv`, which is `Owned` with
the types, `Writing` (an append under way has a rest), `SinkIsFresh` (while its
file was not closed, the number of the sink is still an end of the pipe it was
made for) and `BytesHaveLanded`, the property with the bytes of an append that is
under way. `SinkIsFresh` needs that numbers are only given out when they are
closed, which is where the two modules meet.

**ValueTypes_proof.** First `BoundedInts` and `CheckedSums`, for integers of every
width: `ResultsCorrect` for `BoundedInts`, with one lemma per operation, on
`CastValues` and `MixedComparison` (when a comparison between signed and unsigned
operands is one of the numbers) and `ProductsGrow`; `SumsCorrect` from it, on
`CheckedAddExact`: a sum that wraps is smaller than its left operand, and one that
does not is not. The two specifications go by names of their own (`SumsSpec`), so
that they can stand in one module with that of `Holders`.

Then `Holders`, for all slots, values and error codes, and moves that throw or do
not: `TagsCorrect`, `DestroyedCorrect`, and the action properties
`FailuresCorrect` and `TransfersCorrect`. All four follow from `HoldersInv`, which
adds to the first two what a holder can be while all tags tell the truth
(`Proper`): an object of one of its types with the tag of that type, or empty,
where the class can be. `TagsTellTheTruth` alone is not inductive: for a
variant with the tag of a type it does not have, no operation is defined. The
argument has three layers. `OutcomesRun` and `Step1` to `Step7` turn the
recursive `Outcomes` into one step of an operation after the other, and `TagStep`,
`DestroyStep`, `ConstructStep`, `AssignStep`, `UnwindStep` and so on say what one
step does. On these rest lemmas about the sequences of steps the four
classes are made of, such as `DestroyedMadeTagged` or `AbandonedReplaced`, which
list all ends of a sequence for any objects. Then there is a lemma for every
operation of every class (`OptionalEmplace`, `ErrorOrAssignCopy`,
`ExpectedAssignMove`, `VariantAssignFrom` and 34 more): each of its ends is
`Fine`, which is what the four properties ask of one step. `OperationIsFine` puts
that into the slots, of which all others stay as they are.

**HttpConnection_proof.** `PiecesCorrect`: for every text of any characters and
every way to cut it, `request_parser_sink` is between two pieces where `Readings`,
the reference that reads one character at a time, is. The property alone says
nothing while a piece is half read; the invariant `Following` does: `Agrees`
relates the parser in front of the rest of a piece to the reference, which has
not skipped an optional character yet that the parser knows to be missing, and
`CutOff` is a header line without a colon, from which on nothing is claimed.
`ReadsPart` reads a run of characters without a delimiter in one go, which is what
a round of the loop in `append` does (`RoundReadsPart`), and there is a lemma for
the round of each state (`KeyFollows` and so on). `ReadingsAre` and `FindIs` compute
the recursive functions. That a message is generated as a sequence of texts
(`MessageIsGenerated`), in whatever order its headers are, rests on
`MessagesAssumption`: messages are made of characters, and their maps are finite.

`ParsersCorrect`: what `parse_request` finds in all that has arrived is the first
request that the sink has handed out. The sink reads forwards, a character at a
time, and keeps the first value of a key; `parse_request` is defined from the end
of the text backwards, a line at a time, and keeps the last one. So the proof goes
backwards over the text (`BackwardInduction`): `HeadersAgree(s, i)` says that from
the line feed at `i` on, whatever the sink has read before, the request it hands out
has the arguments `G` inserted, and `parse_request` finds the arguments `A`, with the
same keys and, unless one is repeated, the same values. `EmptyLineAgrees` is the
empty line, `HeaderAgrees` one more header in front, and `PartRead` is used for each
part of a line: the run of characters up to a delimiter. `KeysCounted` relates the number of keys, by
which the property says that none is repeated, to the places of the colons.
`FirstRequestsAgree` puts the request line in front, and `SinkInv` carries it over
to the sink and its pieces.

`ReadBackCorrect` and `NoEarlyEndCorrect`: of a header that is generated,
`PiecesAre`, `MapIsPieces` and `PiecesSpell` say which text its pieces make, whatever order
the map has: `Spells`, lines without line breaks with an empty one behind them
(`LinesTo`), the first of three words and one for every key. From that description
alone `BatchReadsAll` computes what the line parsers find in it, and
`SinkReadsMessage` where the sink is behind it. What they find (`HasRead`) is the
request line cut at its first two spaces and each header cut at its first colon.
`SeparableMatches` is why that is the message exactly if no word has a space and no key
a colon: the cut pieces cannot contain the delimiter they end at. That a status may have
several numerals does not matter, since the one that is written is read as that
status; numerals need only be made of characters that are no delimiters. A header
that breaks off is the beginning of one that is complete: `SentInv` says that
`stream` is what the pieces sent so far make and `pieces` are the others; that the
sink has not read a response; and that `m_output` has not been asked before the header is complete, without which
`failed` would void all that `SinkInv` says. The inductive invariant is `SentInv` with
`ConnectionInv`. No bound on words, keys, values or the number of headers is left.

Then `Html` (`HtmlSpec`), which needs the same facts about `FlattenSeq`, the
recursive function that puts pieces together. `LengthsCorrect`: the lengths the
compiler computes hold in trees of any size. Of its text alone an element's length
says nothing about what it becomes part of, as a string that it owns may be moved
away later and is empty then. The invariant, `Sound` of every element,
therefore counts owned pieces as empty (`Weight`), asks for that much, and for an
element with an exact length that it owns none.
`AtLeastBoth` and `ExactlyBoth` add these up, so that each function of
`html/tree.hpp` needs a few lines (`PairedTagIsSound` and so on), and
`MovedIsSound` is about what the two builds leave behind. `WrittenString` is why
names with special characters are excepted: they become longer.

**ServeClient_proof.** `ReplyCorrect`: `ServeClient` implements `Reply` for every
request, every ring and array, and an answer in any number of pieces. `ServerInv`
is what the refinement needs of the state: until a write fails, what the socket
got and what waits in the array are together the pieces that were given to the
sink so far (`Whole`); what the socket got always begins the response (`Begins`);
nobody writes while the request is read. `GivenIs` computes the response from
its pieces. `BufferedSends`, `DirectSends`, `FlushSends` and `FlushFailsSends` are
the sink's actions with the socket behind them, `Allowed` the step of `Reply` that
each of them, or a stutter, is.

Types are stated only as the part of an inductive invariant that they are; no run
checks a type invariant alone.

Only model-checked: everything about liveness (`EveryCallEnds`, `CallsReturn`,
`AppendReturns`, `ClientIsAnswered`, `ServerLetsGo`, `ReaderSeesEnd`), which is
out of the prover's reach. The library's induction theorems are as well, since they
take an operator as a parameter; where a recursive function has to be computed the
proofs use `SetInduction`, induction for a set of numbers, which follows from the
order of the numbers being well-founded. `SelectSeq` is opaque to the prover, so
that what is defined by it, as most of `Sources` is, is only model-checked:
`ReadsAreExact` and `EmptyMeansEnd` of `Streams`. And what `Html` says about the
reader of documents (`PartsStayUsable`, `GeneratedIsReadBack`). These are about the
alphabets of `MCHtml`: with others they need not hold as they are stated. A name
with a space is a plain name and an attribute to the reader, and a raw text that is
an unfinished tag takes part of the text behind it; a theorem would have to assume
of names and raw texts what the code does not ask of them. Then it would be an
induction over the text along with the elements that are open in it.

## 6. What the checks say about the code

One run shows a disagreement between the code and what it says itself:

- `deflating_assert`: `deflate()` asserts `rc != Z_BUF_ERROR` and `rc == Z_OK`
  (`silicium/zlib/deflating_sink.hpp:73`). A flush behind a flush, or an empty
  range behind anything, is a legal argument of `append` and leaves zlib nothing
  to do, which it reports by that code. A build with assertions aborts; with
  `NDEBUG` nothing happens.

The others show that properties hold, and the exceptions that had to be written
into them are the places where the code does less than one might think:

- `make_append_space` over pending elements discards or reorders them
  (`OnlyMakeAppendSpaceDiscards`): flush before it.
- A failed flush over a sink that took a prefix is retried from the beginning,
  so that elements arrive twice.
- After an exception in `pull()` the ring keeps default-constructed elements,
  which later calls hand out (`NothingMadeUp` is about streams without one).
- `pull()` may fill its first part exactly and then wait although it has
  elements. In `hellohttp` this makes client and server wait for each other when
  the request's length is a multiple of the ring's (`ClientIsAnswered`).
- Of a repeated header key `request_parser_sink` keeps the first value,
  `parse_request` the last; a header line without a colon makes the former
  depend on how the text was cut.
- The generators do not look at what they write: a space in a method or a colon
  in a key is read back as something else (`ReadBack`).
- A blocking call from a handler can starve the foreground dispatcher
  (`EveryCallEnds`, `Starved`).
- A failed accept ends the server for everybody, in the middle of any answer
  (`ImplementsReply`, `running`).
- Nothing in `async_source` protects the source, or the memory that its results
  refer to: with two gets at a time threads race, or overwrite what a handler looks
  at. A program that asks again only when it is done with the last result is
  safe, also with several threads and in the middle of a handler
  (`ElementsArrive`).
- The answer of `hellohttp` to a malformed request dereferences a null pointer
  behind the status line, which is all that client gets (`ClientIsAnswered`).
- `split_value_line` does not check for the end of its line. In what the
  generators write it reads within it (`ReadBack`); a line without a colon, or
  with nothing behind one, is read past its end.
- Move assignment of a `file_handle` or a `pipe` keeps the overwritten descriptor
  open in the variable that was moved from: a reader does not see the end of its
  pipe until that one is closed as well (`ReaderSeesEnd`, `LeftWriter`).
- A `file_sink` whose file was closed writes to whatever has its number next, and
  reports success (`AppendedHasLanded` is about sinks that are not `stale`).
- `write` that takes nothing is a success of `file_sink` with bytes missing
  (`short`), and a retry behind an error writes what was written again.
- The bounds of a product with a negative factor are wrong, those of unsigned
  results wrap, and a signed number is compared with an unsigned one after a
  conversion (`ResultsAreExact`, `trust`). A sum outside of such bounds is
  dereferenced without a value when assertions are off.
- `x += y` leaves x alone when y is an overflow, `y += x` is one (`SumsAreExact`,
  `strays`).
- With a zlib that refuses a moved stream, `append` of a character never ends with
  `NDEBUG` and fails an assertion without (`AppendReturns`).
- `TagsTellTheTruth` lists when a tag lies: an `error_or` made from the code 0,
  `emplace` over the exception in an `expected`, several assignments in which
  a constructor throws, and a `variant` that is valueless. `EveryObjectIsDestroyed`
  lists two copies of variants that leak. `FailuresHaveNoEffect` lists, among
  others, a swap of optionals that throws and loses the object, and
  `CopiesAndMovesTransfer` a swap whose other optional is empty, which constructs
  the object there from the optional itself (the other way round the object is
  moved), and the assignment from an rvalue of another variant, which copies.
- `map_next` gives its elements away in some sources and keeps them in others
  (`ReadsAreExact`); `async_get` over the latter never gets further.
- An empty range in an `enumerating_source` and an error in a
  `received_from_socket_source` look like the end (`EmptyMeansEnd`).
- `copy` and `zlib_deflating_sink` ignore errors (`LossesAreReported`,
  `DeflatedInOrder`), and a flush whose output fills its space exactly, or would
  exceed it, is incomplete (`FlushIsComplete`).
- The names in closing and empty tags and the keys of attributes are not
  escaped, those in opening tags are (`GeneratedIsReadBack`).
- `tag` moves its content out of a variable and `sequence` all of its parts, but
  `tag` leaves its attributes alone; with clang nothing is moved
  (`PartsStayUsable`). `sequence(e, e)` appends a string of `e` once.

## 7. What is not modelled

- Real characters, numbers as texts, sizes of 4096 and the like: constants stand
  for them.
- Compile-time selection (which constructor exists, `noexcept`): the classes are
  modelled for types whose operations may throw.
- Observers that change nothing: access, iteration, hashing, and comparison except
  for that of a valueless variant, which is undefined.
- Sources over sources over sources: a chain here has one link.
- What a `std::ostream` loses when it flushes later than `append` returned.
- Elements of a program's own with a declared length (`fixed_length`): nobody
  checks it, and a test declares 0 for five characters (`test/html_tree.cpp:15`).
- The constructors of `overflow_or` that make an overflow: an overflow here comes
  from a sum.
- A client of `ServeClient` that closes one direction and goes on reading.
- Whether assigning a value to a `variant` copies or moves it: the value is in no
  holder, so only what may throw would differ.
- What two `async_get` read that use the source at the same time: it is a data
  race, and may be anything.
- `accepting_source` and `connecting_source`: one asynchronous operation of the
  network library per element; what a program sees of them is a
  `generator_source`. What becomes of the program when an accept fails is in
  `ServeClient`.
- `zlib_inflate_stream`: one call of zlib with assertions, without a loop.
- The bounded buffer in `test/async_pipe.cpp`: an experiment of that test, which
  nothing in the library uses.
- Everything in `dependencies/`, the build, ranges, traits, dynamic libraries,
  strings, clocks: third-party code, or nothing that has a behaviour. Of about
  180,000 lines in the repository 170,000 are the sqlite amalgamation.

## 8. The plan

The order is that of importance: what everything else is built on first.

1. Done: `BufferingSink` with `WriteBehind`, `BufferingSource`, `AsyncCalls`,
   `FileHandles` with `PipeTransfer`, `BoundedInts` with `CheckedSums`, each with
   proofs; `HttpConnection`, which composes the generators and the parsers over
   `HttpText`, with proofs; `AsyncSource` over `AsyncCalls`; `ServeClient`, which composes source
   and sink and implements `Reply`; the holders;
   `Sources`, `Sinks`, `Streams`; `DeflatingSink` over `BufferingSink` and
   `ContainerBuffer`, and `Html` over `HtmlText`, both with proofs.
2. Done: `parse_request` and `request_parser_sink` agree, and what is generated is
   read back (`ParsersAgree`, `ReadBack`, `NoEarlyEnd` of `HttpConnection`), with
   proofs for all texts and messages. Left: a reader of documents for which what
   `Html` writes is read back with any names (`GeneratedIsReadBack`).
3. Abstract specifications: values without storage, which the holders implement
   as long as nothing throws. What one operation does to them is proved
   (`TransfersCorrect`).
