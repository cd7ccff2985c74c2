---------------------------- MODULE PipeTransfer ----------------------------
(***************************************************************************)
(* Si::write (write.hpp) under a file_sink (sink/file_sink.hpp), and       *)
(* Si::read (read.hpp), over the pipes of FileHandles: one thread appends, *)
(* another reads until the end of the same pipe, and the variables that    *)
(* own the descriptors are moved and closed meanwhile.  The sink and the   *)
(* reader have raw numbers.  One step is one call of ::write or ::read; a  *)
(* call that would block has not begun.                                    *)
(*                                                                         *)
(* Bytes are numbered in the order in which the caller wants them in the   *)
(* pipe.  When append() fails, the caller appends the same bytes again.    *)
(***************************************************************************)
EXTENDS FileHandles, Sequences

CONSTANTS
  Capacity,     \* bytes that a pipe holds
  Sizes,        \* how many bytes a caller appends at once
  MaxBytes,     \* bound: bytes appended successfully
  MaxFailures   \* bound: failures of append()

ASSUME CapacityAssumption == Capacity \in Nat \ {0}
ASSUME SizesAssumption == Sizes \subseteq Nat

VARIABLES
  content,   \* how many bytes every pipe holds
  file,      \* m_file of the file_sink
  target,    \* history: the pipe the sink was made for, 0 without a sink
  writing,   \* append() is running
  size,      \* data.size()
  total,     \* total_written
  appended,  \* history: the bytes append() has reported as a success
  landed,    \* history: every byte that ::write took, with its pipe
  short,     \* history: append() has returned success for less than it got
  failures,  \* history: calls of append() that returned an error
  stale,     \* history: the file behind m_file has been closed since
  source,    \* the number the reader reads from
  reads,     \* history: the pipe it was made for, 0 without a reader
  reader,    \* "none", "reading", "ended" or "failed"
  lost       \* history: the file behind `source` has been closed since

sink == <<file, target, writing, size, total, appended, landed, short, failures, stale>>
reading == <<source, reads, reader, lost>>
vars == <<files, content, sink, reading>>

TransferInit ==
  /\ Init
  /\ content = [p \in 1..MaxPipes |-> 0]
  /\ file = no_file_handle /\ target = 0
  /\ writing = FALSE /\ size = 0 /\ total = 0
  /\ appended = 0 /\ landed = <<>> /\ short = FALSE /\ failures = 0 /\ stale = FALSE
  /\ source = no_file_handle /\ reads = 0 /\ reader = "none" /\ lost = FALSE

(* The file behind a number, for the calls of the system. *)
FileOf(n) == IF n \in Numbers THEN table[n] ELSE Closed

Open(p, side) == \E n \in Numbers : table[n] = <<p, side>>

-----------------------------------------------------------------------------
(* The sink.                                                               *)

(* file_sink(h.handle) *)
MakeSink(h) ==
  /\ target = 0
  /\ meant[h] # no_file_handle /\ FileOf(meant[h])[2] = "write"
  /\ reads \in {0, FileOf(meant[h])[1]}
  /\ file' = handle[h]
  /\ target' = FileOf(meant[h])[1]
  /\ UNCHANGED <<files, content, reading>>
  /\ UNCHANGED <<writing, size, total, appended, landed, short, failures, stale>>

(* append(data) *)
StartAppend(n) ==
  /\ target # 0 /\ ~writing
  /\ appended + n <= MaxBytes
  /\ writing' = TRUE /\ size' = n /\ total' = 0
  /\ UNCHANGED <<files, content, reading>>
  /\ UNCHANGED <<file, target, appended, landed, short, failures, stale>>

(* write() returns total_written, and append() no error. *)
Succeed(count) ==
  /\ appended' = appended + size
  /\ short' = (short \/ count < size)
  /\ writing' = FALSE /\ size' = 0 /\ total' = 0

(* Seeded bug: the rest is written from the beginning of the data. *)
WriteSomeAgain ==
  LET p == FileOf(file)[1]
  IN  /\ writing /\ FileOf(file)[2] = "write" /\ Open(p, "read")
      /\ \E n \in 1 .. size - total :
           /\ content[p] + n <= Capacity
           /\ content' = [content EXCEPT ![p] = @ + n]
           /\ landed' = landed \o [i \in 1..n |-> <<p, appended + i>>]
           /\ IF total + n = size THEN Succeed(size)
              ELSE total' = total + n /\ UNCHANGED <<writing, size, appended, short>>
      /\ UNCHANGED <<files, reading, file, target, failures, stale>>

(* ::write() takes some of the rest. *)
WriteSome ==
  LET p == FileOf(file)[1]
  IN  /\ writing /\ FileOf(file)[2] = "write" /\ Open(p, "read")
      /\ \E n \in 1 .. size - total :
           /\ content[p] + n <= Capacity
           /\ content' = [content EXCEPT ![p] = @ + n]
           /\ landed' = landed \o [i \in 1..n |-> <<p, appended + total + i>>]
           /\ IF total + n = size THEN Succeed(size)
              ELSE total' = total + n /\ UNCHANGED <<writing, size, appended, short>>
      /\ UNCHANGED <<files, reading, file, target, failures, stale>>

(***************************************************************************)
(* ::write() returns 0, "if (written == 0) break": for no data, or, on     *)
(* Windows, because a pipe that does not wait has no space.                *)
(***************************************************************************)
WriteNothing ==
  LET p == FileOf(file)[1]
  IN  /\ writing /\ FileOf(file)[2] = "write"
      /\ size = 0 \/ (Open(p, "read") /\ content[p] = Capacity)
      /\ Succeed(total)
      /\ UNCHANGED <<files, content, reading, file, target, landed, failures, stale>>

(***************************************************************************)
(* ::write() fails: the number is not open for writing, nobody can read    *)
(* the pipe any more, or a signal came while there was no space.           *)
(***************************************************************************)
WriteFails ==
  LET p == FileOf(file)[1]
  IN  /\ writing
      /\ \/ FileOf(file)[2] # "write"
         \/ ~Open(p, "read")
         \/ p # 0 /\ content[p] = Capacity
      /\ failures < MaxFailures
      /\ failures' = failures + 1
      /\ writing' = FALSE /\ size' = 0 /\ total' = 0
      /\ UNCHANGED <<files, content, reading>>
      /\ UNCHANGED <<file, target, appended, landed, short, stale>>

-----------------------------------------------------------------------------
(* The reader.                                                             *)

(* It begins with h.handle. *)
StartReading(h) ==
  /\ reads = 0
  /\ meant[h] # no_file_handle /\ FileOf(meant[h])[2] = "read"
  /\ target \in {0, FileOf(meant[h])[1]}
  /\ source' = handle[h]
  /\ reads' = FileOf(meant[h])[1]
  /\ reader' = "reading"
  /\ UNCHANGED <<files, content, sink, lost>>

(* read() returns some bytes. *)
ReadSome ==
  LET p == FileOf(source)[1]
  IN  /\ reader = "reading" /\ FileOf(source)[2] = "read"
      /\ \E n \in 1..content[p] : content' = [content EXCEPT ![p] = @ - n]
      /\ UNCHANGED <<files, sink, reading>>

(* read() returns 0 at the end of the pipe, or fails. *)
ReadEnd ==
  LET p == FileOf(source)[1]
  IN  /\ reader = "reading"
      /\ \/ /\ FileOf(source)[2] = "read"
            /\ content[p] = 0 /\ ~Open(p, "write")
            /\ reader' = "ended"
         \/ FileOf(source)[2] # "read" /\ reader' = "failed"
      /\ UNCHANGED <<files, content, sink, source, reads, lost>>

-----------------------------------------------------------------------------

(* Variables are moved and closed; the numbers in the sink and the reader  *)
(* stay as they are.                                                       *)
Own ==
  /\ Next
  /\ stale' = (stale \/ (file \in Numbers /\ table'[file] # table[file]))
  /\ lost' = (lost \/ (source \in Numbers /\ table'[source] # table[source]))
  /\ UNCHANGED <<content, source, reads, reader>>
  /\ UNCHANGED <<file, target, writing, size, total, appended, landed, short, failures>>

Write == WriteSome \/ WriteNothing \/ WriteFails
Read == ReadSome \/ ReadEnd

TransferNext ==
  \/ Own
  \/ \E h \in Handles : MakeSink(h) \/ StartReading(h)
  \/ \E n \in Sizes : StartAppend(n)
  \/ Write
  \/ Read

(* The reader reads on; append() goes on when it can. *)
TransferSpec ==
  TransferInit /\ [][TransferNext]_vars /\ WF_vars(Read) /\ WF_vars(Write)

-----------------------------------------------------------------------------

(***************************************************************************)
(* As long as the file behind the sink's number stays open: every byte     *)
(* goes to the pipe the sink was made for, none before those in front of   *)
(* it, and what append() has reported as a success is there; exactly once  *)
(* when no call has failed, because a caller cannot know how much of the   *)
(* failed call was written.  Nothing is reported that is not there, except *)
(* when the pipe does not make its writers wait.                           *)
(***************************************************************************)
AppendedHasLanded ==
  ~stale =>
    /\ \A i \in 1..Len(landed) :
         /\ landed[i][1] = target
         /\ short \/ \A b \in 1 .. landed[i][2] - 1 : \E j \in 1 .. i - 1 : landed[j][2] = b
    /\ short \/ \A b \in 1..appended : \E i \in 1..Len(landed) : landed[i][2] = b
    /\ failures = 0 /\ ~short => Len(landed) = appended + total

(* A writer of pipe p, as far as the caller knows, or one that is left.    *)
HasWriter(p) ==
  \E n \in Known \cap Numbers : table[n] = <<p, "write">>

LeftWriter(p) == \E n \in LeftOver : table[n] = <<p, "write">>

(***************************************************************************)
(* When the caller thinks that all handles for writing are closed, the     *)
(* reader comes to the end of the pipe, unless a move assignment has left  *)
(* such a handle in a variable that looks empty (or the descriptor of the  *)
(* reader was closed).                                                     *)
(***************************************************************************)
ReaderSeesEnd ==
  reader = "reading" /\ ~HasWriter(reads) ~>
    reader = "ended" \/ lost \/ LeftWriter(reads)

=============================================================================
