---------------------------- MODULE AsyncSource ----------------------------
(***************************************************************************)
(* Si::asio::async_source (asio/async_source.hpp): async_get() reads from  *)
(* a source in the background and hands what it got to a handler in the    *)
(* foreground, as a range in the source's own memory, or as the end of     *)
(* what was copied into a buffer of the caller.  The handler is wrapped in *)
(* a function, so that block_thread is not possible here.  The rest of the *)
(* program uses the same dispatchers for other calls of async().           *)
(*                                                                         *)
(* Nothing protects the source or the memory.  The source (external) is    *)
(* one whose map_next() gives its elements away, see Streams; elements are *)
(* numbered, and a get reads one.                                          *)
(***************************************************************************)
EXTENDS AsyncCalls

CONSTANTS
  Gets,       \* the calls that are made by async_get()
  BufferOf    \* the buffer each of them passes

ASSUME GetsAssumption == Gets \subseteq Calls \ Blocking

(* The memory of the source, where map_next() shows elements. *)
Mapped == "source"

Memories == {Mapped} \cup {BufferOf[c] : c \in Gets}

VARIABLES
  position,   \* how many elements the source has given away
  memory,     \* the element that is in each memory, 0 while it is written
  place,      \* the memory that each get has read into
  read,       \* history: the element that each get has read, 0 for none
  using,      \* the get whose result a foreground thread looks at
  raced,      \* history: two threads have used the source at a time
  overlapped  \* history: a get was called before the last one was used up

sourceVars == <<position, memory, place, read, using, raced, overlapped>>

SourceInit ==
  /\ Init
  /\ position = 0
  /\ memory = [m \in Memories |-> 0]
  /\ place = [c \in Gets |-> Mapped]
  /\ read = [c \in Gets |-> 0]
  /\ using = [t \in Foreground |-> NoCall]
  /\ raced = FALSE
  /\ overlapped = FALSE

-----------------------------------------------------------------------------

(* The handler has seen enough of what it was given. *)
Forgets(t) == [u \in Foreground |-> IF u = t THEN NoCall ELSE using[u]]

(* async_get(), or another call of async(); a source does not call the     *)
(* async_source it is in.                                                  *)
Call(c, t) ==
  /\ Async(c, t)
  /\ running[t] \notin Gets \/ t \notin Background
  /\ IF c \in Gets
       THEN /\ using' = Forgets(t)
            /\ overlapped' = (overlapped \/
                 \/ \E d \in Gets : status[d] \in {"posted", "working", "computed"}
                 \/ \E u \in Foreground \ {t} : using[u] # NoCall)
       ELSE UNCHANGED <<using, overlapped>>
  /\ UNCHANGED <<position, memory, place, read, raced>>

(* The work begins: map_next() shows something, or copy_next() is next. *)
Start(t) ==
  LET c == Head(background)
  IN  /\ StartWork(t)
      /\ IF c \in Gets
           THEN \E m \in {Mapped, BufferOf[c]} :
                  /\ place' = [place EXCEPT ![c] = m]
                  /\ memory' = [memory EXCEPT ![m] = 0]
                  /\ raced' = (raced \/ \E u \in Background : running[u] \in Gets)
           ELSE UNCHANGED <<memory, place, raced>>
      /\ UNCHANGED <<position, read, using, overlapped>>

(* The source gives the next element to c, which works on it now. *)
Reads(c, element) ==
  /\ position' = element
  /\ read' = [read EXCEPT ![c] = element]
  /\ memory' = [memory EXCEPT ![place[c]] = element]

(* Seeded bug: what was mapped is not returned. *)
FinishMapsAndCopies(t) ==
  LET c == running[t]
  IN  /\ FinishWork(t)
      /\ IF c \in Gets /\ ~raced
           THEN Reads(c, IF place[c] = Mapped THEN position + 1 ELSE position + 2)
           ELSE UNCHANGED <<position, memory, read>>
      /\ UNCHANGED <<place, using, raced, overlapped>>

(* The work returns; two of them at a time get nothing one could rely on. *)
Finish(t) ==
  LET c == running[t]
  IN  /\ FinishWork(t)
      /\ IF c \in Gets /\ ~raced
           THEN Reads(c, position + 1)
           ELSE UNCHANGED <<position, memory, read>>
      /\ UNCHANGED <<place, using, raced, overlapped>>

(* The source throws, with the next element or without. *)
Throws(t) ==
  /\ WorkThrows(t)
  /\ position' \in {position} \cup
       (IF running[t] \in Gets /\ ~raced THEN {position + 1} ELSE {})
  /\ UNCHANGED <<memory, place, read, using, raced, overlapped>>

(* The handler is given the result, and looks at it. *)
Handle(t) ==
  LET c == Head(foreground)
  IN  /\ StartHandler(t)
      /\ using' = IF c \in Gets THEN [using EXCEPT ![t] = c] ELSE using
      /\ UNCHANGED <<position, memory, place, read, raced, overlapped>>

(* The handler returns. *)
Handled(t) ==
  /\ FinishHandler(t)
  /\ using' = Forgets(t)
  /\ UNCHANGED <<position, memory, place, read, raced, overlapped>>

SourceNext ==
  \/ \E c \in Calls, t \in Threads : Call(c, t)
  \/ \E t \in Background : Start(t) \/ Finish(t) \/ Throws(t)
  \/ \E t \in Foreground : Handle(t) \/ Handled(t)

allVars == <<vars, sourceVars>>

(* As in AsyncCalls. *)
SourceFairness ==
  /\ \A t \in Background : WF_allVars(Start(t)) /\ WF_allVars(Finish(t))
  /\ \A t \in Foreground : WF_allVars(Handle(t)) /\ WF_allVars(Handled(t))

SourceSpec == SourceInit /\ [][SourceNext]_allVars /\ SourceFairness

-----------------------------------------------------------------------------

(* What a handler looks at is what its get has read. *)
Intact(t) == using[t] # NoCall => memory[place[using[t]]] = read[using[t]]

(***************************************************************************)
(* A program that calls async_get() only when it has used up the last      *)
(* result, even if that is in the middle of its handler, is safe with any  *)
(* number of threads: no two of them use the source at a time, and what a  *)
(* handler is given stays in memory until the handler is done with it.     *)
(* Any other program can do worse.  But as long as it happens not to use   *)
(* the source from two threads at a time, the results still come in the    *)
(* order of the stream, and all of them unless the source has thrown.      *)
(***************************************************************************)
ElementsArrive ==
  /\ ~overlapped => ~raced /\ \A t \in Foreground : Intact(t)
  /\ ~raced =>
       /\ \A i, j \in 1..Len(handled) :
            i < j /\ {handled[i], handled[j]} \subseteq Gets =>
              read[handled[i]] < read[handled[j]]
       /\ \A e \in 1..position :
            \E c \in Gets : read[c] = e \/ status[c] = "broken"

=============================================================================
