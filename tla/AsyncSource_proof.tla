------------------------- MODULE AsyncSource_proof -------------------------
(***************************************************************************)
(* What async() and async_get() promise, for every number of calls, gets,  *)
(* buffers and threads.                                                    *)
(*                                                                         *)
(* First async() alone: a thread waits in future::get() exactly as long as *)
(* its call is under way, and handlers start in order.  A step that        *)
(* answers or breaks a call must not touch the others, so the invariant    *)
(* says where the calls are: a call is in one place only, and its status   *)
(* tells in which.                                                         *)
(*                                                                         *)
(* Then the source.  Every step of it is one of async(), so that the       *)
(* invariant holds here as well: it says where the gets are.  What they    *)
(* have read follows them around.                                          *)
(***************************************************************************)
EXTENDS AsyncSource, TLAPS

(* The calls of a queue are different ones and have the status s. *)
Queued(queue, s) ==
  /\ \A i \in 1..Len(queue) : status[queue[i]] = s
  /\ \A i, j \in 1..Len(queue) : queue[i] = queue[j] => i = j

(* The threads ts execute different calls, all of the status s. *)
Executed(ts, s) ==
  /\ \A t \in ts : running[t] # NoCall => status[running[t]] = s
  /\ \A t, u \in ts : running[t] = running[u] /\ running[t] # NoCall => t = u

OnePlace ==
  /\ Queued(background, "posted")
  /\ Executed(Background, "working")
  /\ Queued(foreground, "computed")
  /\ Executed(Foreground, "handling")

IInv == TypeOK /\ OnePlace /\ WaitsExactlyForAnswers

USE BlockingAssumption, ThreadsAssumption, CallsAssumption DEF queues, history

-----------------------------------------------------------------------------
(* Sequences.                                                              *)

(* The elements of a sequence with c behind it. *)
LEMMA Appended ==
  ASSUME NEW S, NEW s \in Seq(S), NEW c \in S
  PROVE  /\ Append(s, c) \in Seq(S)
         /\ Len(Append(s, c)) = Len(s) + 1
         /\ \A i \in 1..Len(s) : Append(s, c)[i] = s[i]
         /\ Append(s, c)[Len(s) + 1] = c
  OBVIOUS

(* The elements of a sequence without its first. *)
LEMMA Taken ==
  ASSUME NEW S, NEW s \in Seq(S), s # <<>>
  PROVE  /\ Head(s) \in S
         /\ Head(s) = s[1]
         /\ 1 \in 1..Len(s)
         /\ Tail(s) \in Seq(S)
         /\ \A i \in 1..Len(Tail(s)) : i + 1 \in 2..Len(s) /\ Tail(s)[i] = s[i + 1]
  OBVIOUS

-----------------------------------------------------------------------------

LEMMA InitHolds == Init => IInv
<1>1. Init => TypeOK
  <2>1. Init => parallel \in BOOLEAN
    BY DEF Init
  <2> QED BY <2>1 DEF Init, TypeOK, Places, Threads, NoCall
<1>2. Init => OnePlace /\ WaitsExactlyForAnswers
  BY DEF Init, OnePlace, Queued, Executed, WaitsExactlyForAnswers, Threads, NoCall
<1> QED BY <1>1, <1>2 DEF IInv

(* async() posts a call that is nowhere yet. *)
LEMMA AsyncKeeps ==
  ASSUME IInv, NEW c \in Calls, NEW t \in Threads, Async(c, t)
  PROVE  IInv'
<1> USE DEF IInv
<1>1. TypeOK'
  BY Appended DEF TypeOK, Async, Places
<1>2. Queued(background, "posted")'
  <2>1. Queued(background, "posted") /\ background \in Seq(Calls) /\ status[c] = "new"
    BY DEF OnePlace, TypeOK, Async
  <2>2. \A i \in 1..Len(background) : background[i] \in Calls /\ background[i] # c
    BY <2>1 DEF Queued
  <2> QED BY <2>1, <2>2, Appended DEF Queued, Async, TypeOK
<1>3. Executed(Background, "working")' /\ Executed(Foreground, "handling")'
  BY DEF OnePlace, Executed, Async, TypeOK, Threads
<1>4. Queued(foreground, "computed")'
  BY DEF OnePlace, Queued, Async, TypeOK
<1>5. WaitsExactlyForAnswers'
  BY DEF WaitsExactlyForAnswers, Async, TypeOK, Executes, NoCall
<1> QED BY <1>1, <1>2, <1>3, <1>4, <1>5 DEF OnePlace

(* A background thread takes the first of the queue. *)
LEMMA StartWorkKeeps ==
  ASSUME IInv, NEW t \in Background, StartWork(t)
  PROVE  IInv'
<1> USE DEF IInv
<1> DEFINE c == Head(background)
<1>0. c \in Calls /\ c = background[1] /\ status[c] = "posted" /\ t \in Threads
  BY Taken DEF StartWork, TypeOK, OnePlace, Queued, Threads
<1>1. TypeOK'
  BY <1>0, Taken DEF TypeOK, StartWork, Places
<1>2. Queued(background, "posted")'
  <2>1. \A i \in 1..Len(background) : background[i] = c => i = 1
    BY <1>0, Taken DEF OnePlace, Queued, TypeOK, StartWork
  <2> QED BY <1>0, <2>1, Taken DEF OnePlace, Queued, StartWork, TypeOK
<1>3. Executed(Background, "working")' /\ Executed(Foreground, "handling")'
  <2>1. \A u \in Background \cup Foreground : running[u] # c
    BY <1>0 DEF OnePlace, Executed, NoCall
  <2> QED BY <1>0, <2>1 DEF OnePlace, Executed, StartWork, TypeOK, Free, Threads
<1>4. Queued(foreground, "computed")'
  BY <1>0 DEF OnePlace, Queued, StartWork, TypeOK
<1>5. WaitsExactlyForAnswers'
  BY <1>0 DEF WaitsExactlyForAnswers, StartWork, TypeOK
<1> QED BY <1>1, <1>2, <1>3, <1>4, <1>5 DEF OnePlace

(* The call a background thread works on moves to the foreground queue. *)
LEMMA FinishWorkKeeps ==
  ASSUME IInv, NEW t \in Background, FinishWork(t)
  PROVE  IInv'
<1> USE DEF IInv
<1> DEFINE c == running[t]
<1>0. c \in Calls /\ status[c] = "working" /\ t \in Threads
  BY DEF FinishWork, Executes, TypeOK, OnePlace, Executed, Threads
<1>1. TypeOK'
  BY <1>0, Appended DEF TypeOK, FinishWork, Places
<1>2. Queued(background, "posted")'
  BY <1>0 DEF OnePlace, Queued, FinishWork, TypeOK
<1>3. Executed(Background, "working")' /\ Executed(Foreground, "handling")'
  <2>1. \A u \in Background \cup Foreground : running[u] = c => u = t
    BY <1>0 DEF OnePlace, Executed, NoCall
  <2> QED BY <1>0, <2>1 DEF OnePlace, Executed, FinishWork, TypeOK, Threads
<1>4. Queued(foreground, "computed")'
  <2>1. \A i \in 1..Len(foreground) : foreground[i] \in Calls /\ foreground[i] # c
    BY <1>0 DEF OnePlace, Queued, TypeOK
  <2>2. /\ foreground \in Seq(Calls)
        /\ foreground' = Append(foreground, c)
        /\ status \in [Calls -> Places]
        /\ status' = [status EXCEPT ![c] = "computed"]
    BY DEF FinishWork, TypeOK
  <2>3. /\ Len(foreground') = Len(foreground) + 1
        /\ foreground'[Len(foreground) + 1] = c
        /\ \A i \in 1..Len(foreground) : foreground'[i] = foreground[i]
    BY <1>0, <2>2, Appended
  <2>4. \A i \in 1..Len(foreground') : i \in 1..Len(foreground) \/ i = Len(foreground) + 1
    BY <2>2, <2>3
  <2>5. Queued(foreground, "computed")
    BY DEF OnePlace
  <2> HIDE DEF c, IInv
  <2>6. \A i \in 1..Len(foreground') : status'[foreground'[i]] = "computed"
    BY <1>0, <2>1, <2>2, <2>3, <2>4, <2>5 DEF Queued
  <2>7. \A i, j \in 1..Len(foreground') : foreground'[i] = foreground'[j] => i = j
    BY <2>1, <2>3, <2>4, <2>5 DEF Queued
  <2> QED BY <2>6, <2>7 DEF Queued
<1>5. WaitsExactlyForAnswers'
  BY <1>0 DEF WaitsExactlyForAnswers, FinishWork, TypeOK
<1> QED BY <1>1, <1>2, <1>3, <1>4, <1>5 DEF OnePlace

(* The call a background thread works on is gone, and who waits for it goes on. *)
LEMMA WorkThrowsKeeps ==
  ASSUME IInv, NEW t \in Background, WorkThrows(t)
  PROVE  IInv'
<1> USE DEF IInv
<1> DEFINE c == running[t]
<1>0. c \in Calls /\ status[c] = "working" /\ t \in Threads
  BY DEF WorkThrows, Executes, TypeOK, OnePlace, Executed, Threads
<1>1. TypeOK'
  BY <1>0 DEF TypeOK, WorkThrows, Places, Released
<1>2. Queued(background, "posted")' /\ Queued(foreground, "computed")'
  BY <1>0 DEF OnePlace, Queued, WorkThrows, TypeOK
<1>3. Executed(Background, "working")' /\ Executed(Foreground, "handling")'
  <2>1. \A u \in Background \cup Foreground : running[u] = c => u = t
    BY <1>0 DEF OnePlace, Executed, NoCall
  <2> QED BY <1>0, <2>1 DEF OnePlace, Executed, WorkThrows, TypeOK, Threads
<1>4. WaitsExactlyForAnswers'
  BY <1>0 DEF WaitsExactlyForAnswers, WorkThrows, TypeOK, Released, NoCall
<1> QED BY <1>1, <1>2, <1>3, <1>4 DEF OnePlace

(* A foreground thread takes the first of the queue. *)
LEMMA StartHandlerKeeps ==
  ASSUME IInv, NEW t \in Foreground, StartHandler(t)
  PROVE  IInv'
<1> DEFINE c == Head(foreground)
<1>1. TypeOK /\ OnePlace /\ WaitsExactlyForAnswers /\ t \in Threads /\ running[t] = NoCall
  BY DEF IInv, StartHandler, Free, Threads
<1>2. c \in Calls /\ c = foreground[1] /\ status[c] = "computed"
  BY <1>1, Taken DEF StartHandler, TypeOK, OnePlace, Queued
<1>3. /\ handled' = Append(handled, c)
      /\ awaits' = Released(c)
      /\ foreground' = Tail(foreground)
      /\ UNCHANGED <<caller, background, left, issued, parallel>>
  BY DEF StartHandler
<1>4. /\ c \in Blocking => status' = [status EXCEPT ![c] = "done"] /\ running' = running
      /\ c \notin Blocking => /\ status' = [status EXCEPT ![c] = "handling"]
                              /\ running' = [running EXCEPT ![t] = c]
  BY DEF StartHandler
<1>5. /\ \A d \in Calls : d # c => status'[d] = status[d]
      /\ status'[c] = IF c \in Blocking THEN "done" ELSE "handling"
      /\ \A u \in Threads : u # t => running'[u] = running[u]
      /\ running'[t] = IF c \in Blocking THEN NoCall ELSE c
      /\ status' \in [Calls -> Places]
      /\ running' \in [Threads -> Calls \cup {NoCall}]
  <2>1. status \in [Calls -> Places] /\ running \in [Threads -> Calls \cup {NoCall}]
    BY <1>1 DEF TypeOK
  <2> QED BY <1>1, <1>2, <1>4, <2>1 DEF Places
<1>6. TypeOK'
  <2>1. handled' \in Seq(Calls) /\ foreground' \in Seq(Calls)
    BY <1>1, <1>2, <1>3, Taken, Appended DEF TypeOK, StartHandler
  <2>2. awaits' \in [Threads -> Calls \cup {NoCall}]
    BY <1>1, <1>3 DEF TypeOK, Released
  <2> QED BY <1>1, <1>3, <1>5, <2>1, <2>2 DEF TypeOK
<1>7. Queued(foreground, "computed")'
  <2>1. foreground \in Seq(Calls) /\ foreground # <<>> /\ Queued(foreground, "computed")
    BY <1>1 DEF TypeOK, StartHandler, OnePlace
  <2>2. /\ 1 \in 1..Len(foreground)
        /\ \A i \in 1..Len(foreground') :
             i + 1 \in 2..Len(foreground) /\ foreground'[i] = foreground[i + 1]
    BY <1>3, <2>1, Taken
  <2>3. \A i \in 1..Len(foreground') : foreground'[i] \in Calls /\ foreground'[i] # c
    BY <1>2, <2>1, <2>2 DEF Queued
  <2> HIDE DEF c
  <2>4. \A i \in 1..Len(foreground') : status'[foreground'[i]] = "computed"
    BY <1>5, <2>1, <2>2, <2>3 DEF Queued
  <2>5. \A i, j \in 1..Len(foreground') : foreground'[i] = foreground'[j] => i = j
    BY <2>1, <2>2 DEF Queued
  <2> QED BY <2>4, <2>5 DEF Queued
<1>8. Queued(background, "posted")'
  <2>1. \A i \in 1..Len(background) : background[i] \in Calls /\ background[i] # c
    BY <1>1, <1>2 DEF OnePlace, Queued, TypeOK
  <2> QED BY <1>1, <1>3, <1>5, <2>1 DEF OnePlace, Queued
<1>9. Executed(Background, "working")' /\ Executed(Foreground, "handling")'
  <2>1. \A u \in Background \cup Foreground : running[u] # c
    BY <1>1, <1>2 DEF OnePlace, Executed, NoCall
  <2>2. \A u \in Threads : running[u] \in Calls \cup {NoCall}
    BY <1>1 DEF TypeOK
  <2>3. Background \subseteq Threads /\ Foreground \subseteq Threads /\ t \notin Background
    BY DEF Threads
  <2>4. Executed(Background, "working") /\ Executed(Foreground, "handling")
    BY <1>1 DEF OnePlace
  <2> HIDE DEF c
  <2>5. \A u \in Background : running'[u] = running[u]
    BY <1>5, <2>3
  <2>6. Executed(Background, "working")'
    BY <1>5, <2>1, <2>2, <2>3, <2>4, <2>5 DEF Executed
  <2>7. \A u \in Foreground : running'[u] # NoCall => status'[running'[u]] = "handling"
    BY <1>5, <2>1, <2>2, <2>3, <2>4 DEF Executed
  <2>8. \A u, v \in Foreground : running'[u] = running'[v] /\ running'[u] # NoCall => u = v
    BY <1>5, <2>1, <2>3, <2>4 DEF Executed
  <2> QED BY <2>6, <2>7, <2>8 DEF Executed
<1>10. WaitsExactlyForAnswers'
  BY <1>1, <1>2, <1>3, <1>5 DEF WaitsExactlyForAnswers, TypeOK, Released, NoCall
<1> QED BY <1>6, <1>7, <1>8, <1>9, <1>10 DEF IInv, OnePlace

(* The handler a foreground thread executes is over. *)
LEMMA FinishHandlerKeeps ==
  ASSUME IInv, NEW t \in Foreground, FinishHandler(t)
  PROVE  IInv'
<1> USE DEF IInv
<1> DEFINE c == running[t]
<1>0. c \in Calls /\ status[c] = "handling" /\ t \in Threads
  BY DEF FinishHandler, Executes, TypeOK, OnePlace, Executed, Threads
<1>1. TypeOK'
  BY <1>0 DEF TypeOK, FinishHandler, Places
<1>2. Queued(background, "posted")' /\ Queued(foreground, "computed")'
  BY <1>0 DEF OnePlace, Queued, FinishHandler, TypeOK
<1>3. Executed(Background, "working")' /\ Executed(Foreground, "handling")'
  <2>1. \A u \in Background \cup Foreground : running[u] = c => u = t
    BY <1>0 DEF OnePlace, Executed, NoCall
  <2> QED BY <1>0, <2>1 DEF OnePlace, Executed, FinishHandler, TypeOK, Threads
<1>4. WaitsExactlyForAnswers'
  BY <1>0 DEF WaitsExactlyForAnswers, FinishHandler, TypeOK
<1> QED BY <1>1, <1>2, <1>3, <1>4 DEF OnePlace

-----------------------------------------------------------------------------

(* Every step keeps the invariant. *)
LEMMA StepKeeps == IInv /\ [Next]_vars => IInv'
<1> SUFFICES ASSUME IInv, [Next]_vars PROVE IInv'
  OBVIOUS
<1>1. CASE \E c \in Calls, t \in Threads : Async(c, t)
  BY <1>1, AsyncKeeps
<1>2. CASE \E t \in Background : StartWork(t) \/ FinishWork(t) \/ WorkThrows(t)
  BY <1>2, StartWorkKeeps, FinishWorkKeeps, WorkThrowsKeeps
<1>3. CASE \E t \in Foreground : StartHandler(t) \/ FinishHandler(t)
  BY <1>3, StartHandlerKeeps, FinishHandlerKeeps
<1>4. CASE UNCHANGED vars
  BY <1>4 DEF vars, threads, IInv, TypeOK, OnePlace, Queued, Executed, WaitsExactlyForAnswers
<1> QED BY <1>1, <1>2, <1>3, <1>4 DEF Next

(* A call is in one place, and is waited for exactly while it is under way. *)
THEOREM InvariantHolds == Spec => []IInv
<1> QED BY InitHolds, StepKeeps, PTL DEF Spec

(* The types of async()'s bookkeeping, for all calls and threads. *)
THEOREM TypeCorrect == Spec => []TypeOK
<1>1. IInv => TypeOK
  BY DEF IInv
<1> QED BY <1>1, InvariantHolds, PTL

(* No thread waits in future::get() for a call that cannot be answered any  *)
(* more, and none goes on before its call is answered or broken.            *)
THEOREM WaitsCorrect == Spec => []WaitsExactlyForAnswers
<1>1. IInv => WaitsExactlyForAnswers
  BY DEF IInv
<1> QED BY <1>1, InvariantHolds, PTL

-----------------------------------------------------------------------------
(***************************************************************************)
(* The order of the handlers.  While one thread works at a time, all calls *)
(* that are under way stand in one line: those that are handled, those in  *)
(* the foreground queue, the one in work, those in the background queue.   *)
(***************************************************************************)

OneWorker ==
  \A t, u \in Background : running[t] # NoCall /\ running[u] # NoCall => t = u

Issued(calls, c) == \E m \in 1..Len(calls) : calls[m] = c

(* All calls of the queue are in front of c, or behind it. *)
InFront(queue, c) == \A i \in 1..Len(queue) : Precedes(issued, queue[i], c)
Behind(queue, c) == \A i \in 1..Len(queue) : Precedes(issued, c, queue[i])

Sorted(queue) ==
  \A i, j \in 1..Len(queue) : i < j => Precedes(issued, queue[i], queue[j])

Known(queue) == \A i \in 1..Len(queue) : Issued(issued, queue[i])

Worker(t) ==
  running[t] # NoCall =>
    /\ Issued(issued, running[t])
    /\ InFront(handled, running[t])
    /\ InFront(foreground, running[t])
    /\ Behind(background, running[t])

InLine ==
  /\ OneWorker
  /\ Known(handled) /\ Known(foreground) /\ Known(background)
  /\ Sorted(handled) /\ Sorted(foreground) /\ Sorted(background)
  /\ \A i \in 1..Len(foreground) : InFront(handled, foreground[i])
  /\ \A i \in 1..Len(background) :
       InFront(handled, background[i]) /\ InFront(foreground, background[i])
  /\ \A t \in Background : Worker(t)

(* One more call is behind all others. *)
LEMMA IssuedLast ==
  ASSUME NEW s \in Seq(Calls), NEW c \in Calls
  PROVE  /\ \A x, y : Precedes(s, x, y) => Precedes(Append(s, c), x, y)
         /\ \A x : Issued(s, x) => Precedes(Append(s, c), x, c)
         /\ \A x : Issued(s, x) => Issued(Append(s, c), x)
         /\ Issued(Append(s, c), c)
<1> DEFINE more == Append(s, c)
<1>1. /\ Len(more) = Len(s) + 1 /\ Len(s) \in Nat
      /\ \A i \in 1..Len(s) : more[i] = s[i]
      /\ more[Len(s) + 1] = c
  BY Appended
<1> HIDE DEF more
<1>2. \A x, y : Precedes(s, x, y) => Precedes(more, x, y)
  BY <1>1 DEF Precedes
<1>3. \A x : Issued(s, x) => Precedes(more, x, c)
  <2> SUFFICES ASSUME NEW x, Issued(s, x) PROVE Precedes(more, x, c)
    OBVIOUS
  <2>1. PICK m \in 1..Len(s) : s[m] = x
    BY DEF Issued
  <2>2. m \in 1..Len(more) /\ Len(s) + 1 \in 1..Len(more) /\ m < Len(s) + 1
    BY <1>1
  <2> QED BY <1>1, <2>1, <2>2 DEF Precedes
<1>4. \A x : Issued(s, x) => Issued(more, x)
  BY <1>1 DEF Issued
<1>5. Issued(more, c)
  BY <1>1 DEF Issued
<1> QED BY <1>2, <1>3, <1>4, <1>5 DEF more

(* The steps that leave the histories and the queues alone. *)
LEMMA AloneInLine ==
  ASSUME InLine,
         UNCHANGED <<issued, handled, foreground, background>>,
         \A t \in Background : running'[t] \in {running[t], NoCall}
  PROVE  InLine'
<1>1. \A t \in Background : Worker(t)'
  BY DEF InLine, Worker, InFront, Behind
<1>2. OneWorker'
  BY DEF InLine, OneWorker
<1> QED BY <1>1, <1>2 DEF InLine, Known, Sorted, InFront

(* A new call is the last in line. *)
LEMMA AsyncInLine ==
  ASSUME TypeOK, InLine, NEW c \in Calls, NEW t \in Threads, Async(c, t)
  PROVE  InLine'
<1>1. /\ issued' = Append(issued, c) /\ background' = Append(background, c)
      /\ handled' = handled /\ foreground' = foreground /\ running' = running
      /\ issued \in Seq(Calls) /\ background \in Seq(Calls)
  BY DEF Async, TypeOK
<1>2. /\ \A x, y : Precedes(issued, x, y) => Precedes(issued', x, y)
      /\ \A x : Issued(issued, x) => Precedes(issued', x, c)
      /\ \A x : Issued(issued, x) => Issued(issued', x)
      /\ Issued(issued', c)
  BY <1>1, IssuedLast
<1>3. /\ Len(background') = Len(background) + 1 /\ Len(background) \in Nat
      /\ \A i \in 1..Len(background) : background'[i] = background[i]
      /\ background'[Len(background) + 1] = c
  BY <1>1, Appended
<1>4. \A i \in 1..Len(background') : i \in 1..Len(background) \/ background'[i] = c
  BY <1>3
<1>5. Known(handled)' /\ Known(foreground)' /\ Known(background)'
  BY <1>1, <1>2, <1>3, <1>4 DEF InLine, Known
<1>6. Sorted(handled)' /\ Sorted(foreground)'
  BY <1>1, <1>2 DEF InLine, Sorted
<1>7. Sorted(background)'
  <2> SUFFICES ASSUME NEW i \in 1..Len(background'), NEW j \in 1..Len(background'), i < j
               PROVE  Precedes(issued', background'[i], background'[j])
    BY DEF Sorted
  <2>1. i \in 1..Len(background)
    BY <1>3
  <2> QED BY <1>2, <1>3, <1>4, <2>1 DEF InLine, Sorted, Known
<1>8. \A i \in 1..Len(foreground') : InFront(handled, foreground[i])'
  BY <1>1, <1>2 DEF InLine, InFront
<1>9. \A i \in 1..Len(background') :
        InFront(handled, background[i])' /\ InFront(foreground, background[i])'
  BY <1>1, <1>2, <1>3, <1>4 DEF InLine, InFront, Known
<1>10. \A u \in Background : Worker(u)'
  BY <1>1, <1>2, <1>3, <1>4 DEF InLine, Worker, InFront, Behind
<1>11. OneWorker'
  BY <1>1 DEF InLine, OneWorker
<1> QED BY <1>5, <1>6, <1>7, <1>8, <1>9, <1>10, <1>11 DEF InLine

(* The first of the background queue becomes the one in work. *)
LEMMA StartWorkInLine ==
  ASSUME TypeOK, InLine, NEW t \in Background, StartWork(t), ~parallel'
  PROVE  InLine'
<1> DEFINE c == Head(background)
<1>1. /\ issued' = issued /\ handled' = handled /\ foreground' = foreground
      /\ background' = Tail(background) /\ running' = [running EXCEPT ![t] = c]
      /\ background \in Seq(Calls) /\ background # <<>>
      /\ running \in [Threads -> Calls \cup {NoCall}]
  BY DEF StartWork, TypeOK
<1>2. /\ c = background[1] /\ 1 \in 1..Len(background)
      /\ \A i \in 1..Len(background') :
           i + 1 \in 2..Len(background) /\ background'[i] = background[i + 1]
  BY <1>1, Taken
<1>3. \A u \in Background : running'[u] = IF u = t THEN c ELSE NoCall
  BY <1>1 DEF StartWork, Threads
<1> HIDE DEF c
<1>4. Known(handled)' /\ Known(foreground)' /\ Sorted(handled)' /\ Sorted(foreground)'
  BY <1>1 DEF InLine, Known, Sorted
<1>5. Known(background)'
  BY <1>1, <1>2 DEF InLine, Known
<1>6. Sorted(background)'
  BY <1>1, <1>2 DEF InLine, Sorted
<1>7. \A i \in 1..Len(foreground') : InFront(handled, foreground[i])'
  BY <1>1 DEF InLine, InFront
<1>8. \A i \in 1..Len(background') :
        InFront(handled, background[i])' /\ InFront(foreground, background[i])'
  BY <1>1, <1>2 DEF InLine, InFront
<1>9. \A i \in 1..Len(background') : Precedes(issued, c, background'[i])
  BY <1>1, <1>2 DEF InLine, Sorted
<1>10. /\ Issued(issued, c) /\ InFront(handled, c) /\ InFront(foreground, c)
  BY <1>2 DEF InLine, Known
<1>11. \A u \in Background : Worker(u)'
  BY <1>1, <1>3, <1>9, <1>10 DEF Worker, InFront, Behind
<1>12. OneWorker'
  BY <1>3 DEF OneWorker
<1> QED BY <1>4, <1>5, <1>6, <1>7, <1>8, <1>11, <1>12 DEF InLine

(* The one in work becomes the last of the foreground queue. *)
LEMMA FinishWorkInLine ==
  ASSUME TypeOK, InLine, NEW t \in Background, FinishWork(t)
  PROVE  InLine'
<1> DEFINE c == running[t]
<1>1. /\ issued' = issued /\ handled' = handled /\ background' = background
      /\ foreground' = Append(foreground, c) /\ running' = [running EXCEPT ![t] = NoCall]
      /\ foreground \in Seq(Calls) /\ c \in Calls /\ c # NoCall
      /\ running \in [Threads -> Calls \cup {NoCall}]
  BY DEF FinishWork, Executes, TypeOK, Threads
<1>2. /\ Len(foreground') = Len(foreground) + 1 /\ Len(foreground) \in Nat
      /\ \A i \in 1..Len(foreground) : foreground'[i] = foreground[i]
      /\ foreground'[Len(foreground) + 1] = c
  BY <1>1, Appended
<1>3. \A i \in 1..Len(foreground') : i \in 1..Len(foreground) \/ foreground'[i] = c
  BY <1>2
<1>4. \A u \in Background : running'[u] = NoCall
  BY <1>1 DEF InLine, OneWorker, Threads
<1>5. Issued(issued, c) /\ InFront(handled, c) /\ InFront(foreground, c) /\ Behind(background, c)
  BY <1>1 DEF InLine, Worker
<1> HIDE DEF c
<1>6. Known(handled)' /\ Known(background)' /\ Sorted(handled)' /\ Sorted(background)'
  BY <1>1 DEF InLine, Known, Sorted
<1>7. Known(foreground)'
  BY <1>1, <1>2, <1>3, <1>5 DEF InLine, Known
<1>8. Sorted(foreground)'
  <2> SUFFICES ASSUME NEW i \in 1..Len(foreground'), NEW j \in 1..Len(foreground'), i < j
               PROVE  Precedes(issued, foreground'[i], foreground'[j])
    BY <1>1 DEF Sorted
  <2>1. i \in 1..Len(foreground)
    BY <1>2
  <2> QED BY <1>2, <1>3, <1>5, <2>1 DEF InLine, Sorted, InFront
<1>9. \A i \in 1..Len(foreground') : InFront(handled, foreground[i])'
  BY <1>1, <1>2, <1>3, <1>5 DEF InLine, InFront
<1>10. \A i \in 1..Len(background') :
        InFront(handled, background[i])' /\ InFront(foreground, background[i])'
  BY <1>1, <1>2, <1>3, <1>5 DEF InLine, InFront, Behind
<1>11. \A u \in Background : Worker(u)'
  BY <1>4 DEF Worker
<1>12. OneWorker'
  BY <1>4 DEF OneWorker
<1> QED BY <1>6, <1>7, <1>8, <1>9, <1>10, <1>11, <1>12 DEF InLine

(* The first of the foreground queue is the last that is handled. *)
LEMMA StartHandlerInLine ==
  ASSUME TypeOK, InLine, NEW t \in Foreground, StartHandler(t)
  PROVE  InLine'
<1> DEFINE c == Head(foreground)
<1>1. /\ issued' = issued /\ background' = background
      /\ handled' = Append(handled, c) /\ foreground' = Tail(foreground)
      /\ handled \in Seq(Calls) /\ foreground \in Seq(Calls) /\ foreground # <<>>
  BY DEF StartHandler, TypeOK
<1>2. /\ c = foreground[1] /\ c \in Calls /\ 1 \in 1..Len(foreground)
      /\ \A i \in 1..Len(foreground') :
           i + 1 \in 2..Len(foreground) /\ foreground'[i] = foreground[i + 1]
  BY <1>1, Taken
<1>3. /\ Len(handled') = Len(handled) + 1 /\ Len(handled) \in Nat
      /\ \A i \in 1..Len(handled) : handled'[i] = handled[i]
      /\ handled'[Len(handled) + 1] = c
  BY <1>1, <1>2, Appended
<1>4. \A i \in 1..Len(handled') : i \in 1..Len(handled) \/ handled'[i] = c
  BY <1>3
<1>5. \A u \in Background : running'[u] = running[u]
  <2>1. running' = running \/ running' = [running EXCEPT ![t] = c]
    BY DEF StartHandler
  <2>2. \A u \in Background : u \in Threads /\ u # t
    BY DEF Threads
  <2>3. running \in [Threads -> Calls \cup {NoCall}]
    BY DEF TypeOK
  <2> QED BY <2>1, <2>2, <2>3
<1>6. /\ Issued(issued, c) /\ InFront(handled, c) /\ Behind(background, c)
      /\ Behind(foreground', c)
  BY <1>2 DEF InLine, Known, Behind, InFront, Sorted
<1>7. \A u \in Background : running[u] # NoCall => Precedes(issued, c, running[u])
  BY <1>2 DEF InLine, Worker, InFront
<1> HIDE DEF c
<1>8. Known(background)' /\ Sorted(background)'
  BY <1>1 DEF InLine, Known, Sorted
<1>9. Known(handled)' /\ Known(foreground)'
  BY <1>1, <1>2, <1>3, <1>4, <1>6 DEF InLine, Known
<1>10. Sorted(foreground)'
  BY <1>1, <1>2 DEF InLine, Sorted
<1>11. Sorted(handled)'
  <2> SUFFICES ASSUME NEW i \in 1..Len(handled'), NEW j \in 1..Len(handled'), i < j
               PROVE  Precedes(issued, handled'[i], handled'[j])
    BY <1>1 DEF Sorted
  <2>1. i \in 1..Len(handled)
    BY <1>3
  <2> QED BY <1>3, <1>4, <1>6, <2>1 DEF InLine, Sorted, InFront
<1>12. \A i \in 1..Len(foreground') : InFront(handled, foreground[i])'
  BY <1>1, <1>2, <1>3, <1>4, <1>6 DEF InLine, InFront, Behind
<1>13. \A i \in 1..Len(background') :
        InFront(handled, background[i])' /\ InFront(foreground, background[i])'
  BY <1>1, <1>2, <1>3, <1>4, <1>6 DEF InLine, InFront, Behind
<1>14. \A u \in Background : Worker(u)'
  BY <1>1, <1>2, <1>3, <1>4, <1>5, <1>7 DEF InLine, Worker, InFront, Behind
<1>15. OneWorker'
  BY <1>5 DEF InLine, OneWorker
<1> QED BY <1>8, <1>9, <1>10, <1>11, <1>12, <1>13, <1>14, <1>15 DEF InLine

(* Every step keeps the line, unless it lets a second thread work. *)
LEMMA StepKeepsLine ==
  IInv /\ (~parallel => InLine) /\ [Next]_vars => (~parallel => InLine)'
<1> SUFFICES ASSUME IInv, ~parallel => InLine, [Next]_vars, ~parallel' PROVE InLine'
  OBVIOUS
<1>0. TypeOK /\ InLine
  <2>1. parallel => parallel'
    BY DEF Next, Async, StartWork, FinishWork, WorkThrows, StartHandler, FinishHandler, vars
  <2> QED BY <2>1 DEF IInv
<1>1. CASE \E c \in Calls, t \in Threads : Async(c, t)
  BY <1>0, <1>1, AsyncInLine
<1>2. CASE \E t \in Background : StartWork(t) \/ FinishWork(t)
  BY <1>0, <1>2, StartWorkInLine, FinishWorkInLine
<1>3. ASSUME NEW t \in Background, WorkThrows(t) PROVE InLine'
  BY <1>0, <1>3, AloneInLine DEF WorkThrows, TypeOK, Threads
<1>4. CASE \E t \in Foreground : StartHandler(t)
  BY <1>0, <1>4, StartHandlerInLine
<1>5. ASSUME NEW t \in Foreground, FinishHandler(t) PROVE InLine'
  BY <1>0, <1>5, AloneInLine DEF FinishHandler, TypeOK, Threads
<1>6. CASE UNCHANGED vars
  BY <1>0, <1>6, AloneInLine DEF vars, threads
<1> QED BY <1>1, <1>2, <1>3, <1>4, <1>5, <1>6 DEF Next

(* Handlers start in the order of the calls as long as one thread works at *)
(* a time, for every number of calls and of threads.                       *)
THEOREM OrderCorrect == Spec => []HandledInOrder
<1>1. Init => (~parallel => InLine)
  BY DEF Init, InLine, OneWorker, Known, Sorted, InFront, Worker, Threads
<1>2. IInv /\ (~parallel => InLine) /\ [Next]_vars => (~parallel => InLine)'
  BY StepKeepsLine
<1>3. (~parallel => InLine) => HandledInOrder
  BY DEF InLine, Sorted, HandledInOrder
<1> QED BY <1>1, <1>2, <1>3, InvariantHolds, PTL DEF Spec

-----------------------------------------------------------------------------
(* The source.                                                             *)

SourceTypes ==
  /\ position \in Nat
  /\ memory \in [Memories -> Nat]
  /\ place \in [Gets -> Memories]
  /\ read \in [Gets -> Nat]
  /\ using \in [Foreground -> Gets \cup {NoCall}]

(* What was handled is nowhere else. *)
HandledIsOver == \A i \in 1..Len(handled) : status[handled[i]] \in {"handling", "done"}

(* A get that has not returned has read nothing. *)
ReadsWhenDone ==
  \A c \in Gets : status[c] \in {"new", "posted", "working"} => read[c] = 0

(* While nothing has raced, one get is in work at a time. *)
OneReader ==
  \A t, u \in Background : running[t] \in Gets /\ running[u] \in Gets => t = u

(* The gets of the sequence cs have read before those of ds. *)
ReadBefore(cs, ds) ==
  \A i \in 1..Len(cs), j \in 1..Len(ds) :
    cs[i] \in Gets /\ ds[j] \in Gets => read[cs[i]] < read[ds[j]]

InOrder(cs) ==
  \A i, j \in 1..Len(cs) :
    i < j /\ cs[i] \in Gets /\ cs[j] \in Gets => read[cs[i]] < read[cs[j]]

Complete == \A e \in 1..position : \E c \in Gets : read[c] = e \/ status[c] = "broken"

InStream ==
  /\ OneReader
  /\ \A c \in Gets : read[c] <= position
  /\ InOrder(handled) /\ InOrder(foreground) /\ ReadBefore(handled, foreground)
  /\ Complete

(* The get is on its way to its handler. *)
Under(c) == status[c] \in {"posted", "working", "computed"}

(* As long as nobody asks too early. *)
OneAtATime ==
  /\ ~raced
  /\ \A c, d \in Gets : Under(c) /\ Under(d) => c = d
  /\ \A c \in Gets, t \in Foreground : Under(c) => using[t] = NoCall
  /\ \A c \in Gets : status[c] = "computed" => memory[place[c]] = read[c]
  /\ \A t \in Foreground : Intact(t)

SInv ==
  /\ IInv /\ SourceTypes /\ HandledIsOver /\ ReadsWhenDone
  /\ ~raced => InStream
  /\ ~overlapped => OneAtATime

USE GetsAssumption

-----------------------------------------------------------------------------

LEMMA SourceInitHolds == SourceInit => SInv
<1> SUFFICES ASSUME SourceInit PROVE SInv
  OBVIOUS
<1>1. IInv
  BY InitHolds DEF SourceInit
<1>2. SourceTypes /\ HandledIsOver /\ ReadsWhenDone
  BY DEF SourceInit, Init, SourceTypes, HandledIsOver, ReadsWhenDone, Memories
<1>3. InStream
  <2>1. \A t \in Background : running[t] = NoCall
    BY DEF SourceInit, Init, Threads
  <2>2. handled = <<>> /\ foreground = <<>> /\ position = 0 /\ \A c \in Gets : read[c] = 0
    BY DEF SourceInit, Init
  <2> QED BY <2>1, <2>2 DEF InStream, OneReader, InOrder, ReadBefore, Complete
<1>4. OneAtATime
  BY DEF SourceInit, Init, OneAtATime, Under, Intact
<1> QED BY <1>1, <1>2, <1>3, <1>4 DEF SInv

(* A step of the source is one of async(). *)
LEMMA IsAsyncStep == [SourceNext]_allVars => [Next]_vars
BY DEF SourceNext, Next, allVars, Call, Start, Finish, Throws, Handle, Handled

(* What async() does to the calls. *)
LEMMA CallMoves ==
  ASSUME SInv, NEW c \in Calls, NEW t \in Threads, Async(c, t)
  PROVE  /\ status[c] = "new" /\ status'[c] = "posted"
         /\ \A d \in Calls : d # c => status'[d] = status[d]
         /\ UNCHANGED <<handled, foreground, running>>
BY DEF SInv, IInv, TypeOK, Async

(* The work of a call begins. *)
LEMMA StartMoves ==
  ASSUME SInv, NEW t \in Background, StartWork(t)
  PROVE  LET c == Head(background)
         IN  /\ c \in Calls /\ status[c] = "posted" /\ status'[c] = "working"
             /\ \A d \in Calls : d # c => status'[d] = status[d]
             /\ running'[t] = c
             /\ \A u \in Threads : u # t => running'[u] = running[u]
             /\ UNCHANGED <<handled, foreground>>
<1>1. Head(background) \in Calls /\ status[Head(background)] = "posted"
  BY Taken DEF SInv, IInv, OnePlace, Queued, TypeOK, StartWork
<1> QED BY <1>1 DEF SInv, IInv, TypeOK, StartWork, Threads

(* The work of a call returns. *)
LEMMA FinishMoves ==
  ASSUME SInv, NEW t \in Background, FinishWork(t)
  PROVE  LET c == running[t]
         IN  /\ c \in Calls /\ status[c] = "working" /\ status'[c] = "computed"
             /\ \A d \in Calls : d # c => status'[d] = status[d]
             /\ running'[t] = NoCall
             /\ \A u \in Threads : u # t => running'[u] = running[u]
             /\ foreground' = Append(foreground, c)
             /\ handled' = handled
<1>1. running[t] \in Calls /\ status[running[t]] = "working"
  BY DEF SInv, IInv, OnePlace, Executed, TypeOK, FinishWork, Executes, Threads
<1> QED BY <1>1 DEF SInv, IInv, TypeOK, FinishWork, Threads

(* The work of a call throws. *)
LEMMA ThrowMoves ==
  ASSUME SInv, NEW t \in Background, WorkThrows(t)
  PROVE  LET c == running[t]
         IN  /\ c \in Calls /\ status[c] = "working" /\ status'[c] = "broken"
             /\ \A d \in Calls : d # c => status'[d] = status[d]
             /\ running'[t] = NoCall
             /\ \A u \in Threads : u # t => running'[u] = running[u]
             /\ UNCHANGED <<handled, foreground>>
<1>1. running[t] \in Calls /\ status[running[t]] = "working"
  BY DEF SInv, IInv, OnePlace, Executed, TypeOK, WorkThrows, Executes, Threads
<1> QED BY <1>1 DEF SInv, IInv, TypeOK, WorkThrows, Threads

(* A handler begins. *)
LEMMA HandleMoves ==
  ASSUME SInv, NEW t \in Foreground, StartHandler(t)
  PROVE  LET c == Head(foreground)
         IN  /\ c \in Calls /\ status[c] = "computed" /\ status'[c] \in {"handling", "done"}
             /\ \A d \in Calls : d # c => status'[d] = status[d]
             /\ \A u \in Background : running'[u] = running[u]
             /\ foreground # <<>> /\ foreground' = Tail(foreground)
             /\ handled' = Append(handled, c)
<1>1. Head(foreground) \in Calls /\ status[Head(foreground)] = "computed"
  BY Taken DEF SInv, IInv, OnePlace, Queued, TypeOK, StartHandler
<1>2. t \notin Background
  OBVIOUS
<1> QED BY <1>1, <1>2 DEF SInv, IInv, TypeOK, StartHandler, Threads

(* A handler is over. *)
LEMMA HandledMoves ==
  ASSUME SInv, NEW t \in Foreground, FinishHandler(t)
  PROVE  LET c == running[t]
         IN  /\ c \in Calls /\ status[c] = "handling" /\ status'[c] = "done"
             /\ \A d \in Calls : d # c => status'[d] = status[d]
             /\ \A u \in Background : running'[u] = running[u]
             /\ UNCHANGED <<handled, foreground>>
<1>1. running[t] \in Calls /\ status[running[t]] = "handling"
  BY DEF SInv, IInv, OnePlace, Executed, TypeOK, FinishHandler, Executes, Threads
<1>2. t \notin Background
  OBVIOUS
<1> QED BY <1>1, <1>2 DEF SInv, IInv, TypeOK, FinishHandler, Threads

-----------------------------------------------------------------------------
(* What holds whether or not something has raced.                          *)

LEMMA SourceTypesKeep == SInv /\ SourceNext => SourceTypes'
<1> SUFFICES ASSUME SInv, SourceNext PROVE SourceTypes'
  OBVIOUS
<1> USE DEF SInv, SourceTypes
<1>1. ASSUME NEW c \in Calls, NEW t \in Threads, Call(c, t) PROVE SourceTypes'
  BY <1>1 DEF Call, Forgets
<1>2. ASSUME NEW t \in Background, Start(t) PROVE SourceTypes'
  BY <1>2 DEF Start, Memories
<1>3. ASSUME NEW t \in Background, Finish(t) PROVE SourceTypes'
  BY <1>3 DEF Finish, Reads
<1>4. ASSUME NEW t \in Background, Throws(t) PROVE SourceTypes'
  BY <1>4 DEF Throws
<1>5. ASSUME NEW t \in Foreground, Handle(t) PROVE SourceTypes'
  BY <1>5 DEF Handle
<1>6. ASSUME NEW t \in Foreground, Handled(t) PROVE SourceTypes'
  BY <1>6 DEF Handled, Forgets
<1> QED BY <1>1, <1>2, <1>3, <1>4, <1>5, <1>6 DEF SourceNext

(* A call that was handled moves no more, except for the end of its handler. *)
LEMMA HandledIsOverKeeps == SInv /\ SourceNext => HandledIsOver'
<1> SUFFICES ASSUME SInv, SourceNext PROVE HandledIsOver'
  OBVIOUS
<1>0. /\ handled \in Seq(Calls)
      /\ \A i \in 1..Len(handled) :
           handled[i] \in Calls /\ status[handled[i]] \in {"handling", "done"}
  BY DEF SInv, IInv, TypeOK, HandledIsOver
<1>1. ASSUME NEW c \in Calls, NEW t \in Threads, Call(c, t) PROVE HandledIsOver'
  BY <1>0, <1>1, CallMoves DEF Call, HandledIsOver
<1>2. ASSUME NEW t \in Background, Start(t) PROVE HandledIsOver'
  BY <1>0, <1>2, StartMoves DEF Start, HandledIsOver
<1>3. ASSUME NEW t \in Background, Finish(t) PROVE HandledIsOver'
  BY <1>0, <1>3, FinishMoves DEF Finish, HandledIsOver
<1>4. ASSUME NEW t \in Background, Throws(t) PROVE HandledIsOver'
  BY <1>0, <1>4, ThrowMoves DEF Throws, HandledIsOver
<1>5. ASSUME NEW t \in Foreground, Handle(t) PROVE HandledIsOver'
  <2>1. StartHandler(t)
    BY <1>5 DEF Handle
  <2>2. PICK c \in Calls :
          /\ status[c] = "computed" /\ status'[c] \in {"handling", "done"}
          /\ \A d \in Calls : d # c => status'[d] = status[d]
          /\ handled' = Append(handled, c)
    BY <2>1, HandleMoves
  <2> QED BY <1>0, <2>2, Appended DEF HandledIsOver
<1>6. ASSUME NEW t \in Foreground, Handled(t) PROVE HandledIsOver'
  BY <1>0, <1>6, HandledMoves DEF Handled, HandledIsOver
<1> QED BY <1>1, <1>2, <1>3, <1>4, <1>5, <1>6 DEF SourceNext

(* Only a get whose work returns has read something. *)
LEMMA ReadsWhenDoneKeeps == SInv /\ SourceNext => ReadsWhenDone'
<1> SUFFICES ASSUME SInv, SourceNext PROVE ReadsWhenDone'
  OBVIOUS
<1>0. /\ ReadsWhenDone /\ read \in [Gets -> Nat] /\ Gets \subseteq Calls
  BY DEF SInv, SourceTypes
<1>1. ASSUME NEW c \in Calls, NEW t \in Threads, Call(c, t) PROVE ReadsWhenDone'
  BY <1>0, <1>1, CallMoves DEF Call, ReadsWhenDone
<1>2. ASSUME NEW t \in Background, Start(t) PROVE ReadsWhenDone'
  BY <1>0, <1>2, StartMoves DEF Start, ReadsWhenDone
<1>3. ASSUME NEW t \in Background, Finish(t) PROVE ReadsWhenDone'
  BY <1>0, <1>3, FinishMoves DEF Finish, Reads, ReadsWhenDone
<1>4. ASSUME NEW t \in Background, Throws(t) PROVE ReadsWhenDone'
  BY <1>0, <1>4, ThrowMoves DEF Throws, ReadsWhenDone
<1>5. ASSUME NEW t \in Foreground, Handle(t) PROVE ReadsWhenDone'
  BY <1>0, <1>5, HandleMoves DEF Handle, ReadsWhenDone
<1>6. ASSUME NEW t \in Foreground, Handled(t) PROVE ReadsWhenDone'
  BY <1>0, <1>6, HandledMoves DEF Handled, ReadsWhenDone
<1> QED BY <1>1, <1>2, <1>3, <1>4, <1>5, <1>6 DEF SourceNext

-----------------------------------------------------------------------------
(* The order of the stream, while nothing has raced.                       *)

(* The steps that leave the source and the results in the foreground alone. *)
LEMMA NothingRead ==
  ASSUME SInv, InStream,
         UNCHANGED <<position, read, handled, foreground>>,
         OneReader',
         \A c \in Gets : status[c] = "broken" => status'[c] = "broken"
  PROVE  InStream'
<1>1. Complete'
  BY DEF InStream, Complete
<1> QED BY <1>1 DEF InStream, InOrder, ReadBefore

LEMMA StartInStream ==
  ASSUME SInv, InStream, NEW t \in Background, Start(t), ~raced'
  PROVE  InStream'
<1> DEFINE c == Head(background)
<1>1. /\ c \in Calls /\ status[c] = "posted"
      /\ \A d \in Calls : d # c => status'[d] = status[d]
      /\ running'[t] = c
      /\ \A u \in Threads : u # t => running'[u] = running[u]
      /\ UNCHANGED <<handled, foreground>>
  BY StartMoves DEF Start
<1>2. c \in Gets => \A u \in Background : running[u] \notin Gets
  BY DEF Start
<1>3. OneReader /\ Background \subseteq Threads
  BY DEF InStream, Threads
<1> HIDE DEF c
<1>4. OneReader'
  BY <1>1, <1>2, <1>3 DEF OneReader
<1>5. \A d \in Gets : status[d] = "broken" => status'[d] = "broken"
  BY <1>1
<1> QED BY <1>1, <1>4, <1>5, NothingRead DEF Start

(* A get returns with the next element, and goes behind the others. *)
LEMMA FinishInStream ==
  ASSUME SInv, InStream, NEW t \in Background, Finish(t), ~raced
  PROVE  InStream'
<1> DEFINE c == running[t]
<1>1. /\ c \in Calls /\ status[c] = "working" /\ status'[c] = "computed"
      /\ \A d \in Calls : d # c => status'[d] = status[d]
      /\ running'[t] = NoCall
      /\ \A u \in Threads : u # t => running'[u] = running[u]
      /\ foreground' = Append(foreground, c)
      /\ handled' = handled
  BY FinishMoves DEF Finish
<1>2. /\ c \in Gets => position' = position + 1 /\ read' = [read EXCEPT ![c] = position + 1]
      /\ c \notin Gets => UNCHANGED <<position, read>>
  BY DEF Finish, Reads
<1>3. /\ position \in Nat /\ read \in [Gets -> Nat]
      /\ \A d \in Gets : read[d] <= position
      /\ OneReader /\ InOrder(handled) /\ InOrder(foreground)
      /\ ReadBefore(handled, foreground) /\ Complete
      /\ handled \in Seq(Calls) /\ foreground \in Seq(Calls)
      /\ Background \subseteq Threads /\ NoCall \notin Gets
  BY DEF SInv, SourceTypes, InStream, IInv, TypeOK, Threads
<1>4. /\ \A i \in 1..Len(handled) : handled[i] \in Calls /\ handled[i] # c
      /\ \A i \in 1..Len(foreground) : foreground[i] \in Calls /\ foreground[i] # c
      /\ c \in Gets => read[c] = 0
  <2>1. HandledIsOver /\ Queued(foreground, "computed") /\ ReadsWhenDone
    BY DEF SInv, IInv, OnePlace
  <2>2. status[c] = "working"
    BY <1>1
  <2>3. \A i \in 1..Len(handled) : handled[i] \in Calls /\ handled[i] # c
    BY <1>3, <2>1, <2>2 DEF HandledIsOver
  <2>4. \A i \in 1..Len(foreground) : foreground[i] \in Calls /\ foreground[i] # c
    BY <1>3, <2>1, <2>2 DEF Queued
  <2>5. c \in Gets => read[c] = 0
    BY <2>1, <2>2 DEF ReadsWhenDone
  <2> QED BY <2>3, <2>4, <2>5
<1>5. /\ Len(foreground') = Len(foreground) + 1 /\ Len(foreground) \in Nat
      /\ \A i \in 1..Len(foreground) : foreground'[i] = foreground[i]
      /\ foreground'[Len(foreground) + 1] = c
  BY <1>1, <1>3, Appended
<1> HIDE DEF c
<1>6. OneReader'
  BY <1>1, <1>3 DEF OneReader
<1>7. /\ \A d \in Gets : d # c => read'[d] = read[d]
      /\ c \in Gets => read'[c] = position + 1 /\ position' = position + 1
      /\ c \notin Gets => position' = position
      /\ \A d \in Gets : read[d] \in Nat
  BY <1>2, <1>3
<1>8. \A d \in Gets : (read[d] <= position)'
  BY <1>3, <1>7
<1>9. InOrder(handled)' /\ \A i \in 1..Len(foreground') : i \in 1..Len(foreground) \/ foreground'[i] = c
  BY <1>1, <1>3, <1>4, <1>5, <1>7 DEF InOrder
<1>10. InOrder(foreground)'
  BY <1>1, <1>3, <1>4, <1>5, <1>7 DEF InOrder
<1>11. ReadBefore(handled, foreground)'
  BY <1>1, <1>3, <1>4, <1>5, <1>7 DEF ReadBefore
<1>12. Complete'
  <2> SUFFICES ASSUME NEW e \in 1..position'
               PROVE  \E d \in Gets : read'[d] = e \/ status'[d] = "broken"
    BY DEF Complete
  <2>1. CASE e \in 1..position
    <3>1. PICK d \in Gets : read[d] = e \/ status[d] = "broken"
      BY <1>3, <2>1 DEF Complete
    <3>2. d # c
      BY <1>1, <1>4, <2>1, <3>1
    <3> QED BY <1>1, <1>7, <3>1, <3>2
  <2>2. CASE e \notin 1..position
    BY <1>3, <1>7, <2>2
  <2> QED BY <2>1, <2>2
<1> QED BY <1>6, <1>8, <1>9, <1>10, <1>11, <1>12 DEF InStream

(* The element that an exception has swallowed, if any, is excused. *)
LEMMA ThrowsInStream ==
  ASSUME SInv, InStream, NEW t \in Background, Throws(t), ~raced
  PROVE  InStream'
<1> DEFINE c == running[t]
<1>1. /\ c \in Calls /\ status[c] = "working" /\ status'[c] = "broken"
      /\ \A d \in Calls : d # c => status'[d] = status[d]
      /\ running'[t] = NoCall
      /\ \A u \in Threads : u # t => running'[u] = running[u]
      /\ UNCHANGED <<handled, foreground>>
  BY ThrowMoves DEF Throws
<1>2. read' = read /\ (position' = position \/ (c \in Gets /\ position' = position + 1))
  BY DEF Throws
<1>3. /\ position \in Nat /\ read \in [Gets -> Nat]
      /\ \A d \in Gets : read[d] <= position
      /\ OneReader /\ Complete /\ Background \subseteq Threads /\ NoCall \notin Gets
  BY DEF SInv, SourceTypes, InStream, Threads
<1> HIDE DEF c
<1>4. OneReader'
  BY <1>1, <1>3 DEF OneReader
<1>5. \A d \in Gets : (read[d] <= position)'
  BY <1>2, <1>3
<1>6. Complete'
  <2>1. \A d \in Gets : status[d] = "broken" => status'[d] = "broken"
    BY <1>1
  <2> QED BY <1>1, <1>2, <1>3, <2>1 DEF Complete
<1> QED BY <1>1, <1>2, <1>4, <1>5, <1>6 DEF InStream, InOrder, ReadBefore

(* The first result in the foreground is the last one that was handled. *)
LEMMA HandleInStream ==
  ASSUME SInv, InStream, NEW t \in Foreground, Handle(t)
  PROVE  InStream'
<1> DEFINE c == Head(foreground)
<1>1. /\ c \in Calls /\ status[c] = "computed"
      /\ \A d \in Calls : d # c => status'[d] = status[d]
      /\ \A u \in Background : running'[u] = running[u]
      /\ foreground # <<>> /\ foreground' = Tail(foreground)
      /\ handled' = Append(handled, c)
  BY HandleMoves DEF Handle
<1>2. UNCHANGED <<position, read>>
  BY DEF Handle
<1>3. /\ OneReader /\ InOrder(handled) /\ InOrder(foreground)
      /\ ReadBefore(handled, foreground) /\ Complete
      /\ handled \in Seq(Calls) /\ foreground \in Seq(Calls)
  BY DEF SInv, InStream, IInv, TypeOK
<1>4. /\ c = foreground[1] /\ 1 \in 1..Len(foreground)
      /\ \A i \in 1..Len(foreground') :
           i + 1 \in 2..Len(foreground) /\ foreground'[i] = foreground[i + 1]
  BY <1>1, <1>3, Taken
<1>5. /\ Len(handled') = Len(handled) + 1 /\ Len(handled) \in Nat
      /\ \A i \in 1..Len(handled) : handled'[i] = handled[i]
      /\ handled'[Len(handled) + 1] = c
  BY <1>1, <1>3, Appended
<1> HIDE DEF c
<1>6. OneReader'
  BY <1>1, <1>3 DEF OneReader
<1>7. InOrder(handled)'
  <2>1. \A i \in 1..Len(handled) :
          handled[i] \in Gets /\ c \in Gets => read[handled[i]] < read[c]
    BY <1>3, <1>4 DEF ReadBefore
  <2> QED BY <1>2, <1>3, <1>5, <2>1 DEF InOrder
<1>8. InOrder(foreground)'
  <2>1. Len(foreground') \in Nat
    BY <1>1, <1>3, Taken
  <2>2. \A i, j \in 1..Len(foreground') : i < j => i + 1 < j + 1
    BY <2>1
  <2>3. \A i \in 1..Len(foreground') :
          i + 1 \in 1..Len(foreground) /\ foreground'[i] = foreground[i + 1]
    BY <1>4
  <2> QED BY <1>2, <1>3, <2>2, <2>3 DEF InOrder
<1>9. ReadBefore(handled, foreground)'
  <2> SUFFICES ASSUME NEW i \in 1..Len(handled'), NEW j \in 1..Len(foreground'),
                      handled'[i] \in Gets, foreground'[j] \in Gets
               PROVE  read'[handled'[i]] < read'[foreground'[j]]
    BY DEF ReadBefore
  <2>1. j + 1 \in 1..Len(foreground) /\ 1 < j + 1 /\ foreground'[j] = foreground[j + 1]
    BY <1>4
  <2>2. CASE i \in 1..Len(handled)
    BY <1>2, <1>3, <1>5, <2>1, <2>2 DEF ReadBefore
  <2>3. CASE handled'[i] = c
    BY <1>2, <1>3, <1>4, <2>1, <2>3 DEF InOrder
  <2> QED BY <1>5, <2>2, <2>3
<1>10. \A d \in Gets : status[d] = "broken" => status'[d] = "broken"
  BY <1>1
<1> QED BY <1>2, <1>3, <1>6, <1>7, <1>8, <1>9, <1>10 DEF InStream, Complete

LEMMA InStreamKeeps == SInv /\ SourceNext => (~raced => InStream)'
<1> SUFFICES ASSUME SInv, SourceNext, ~raced' PROVE InStream'
  OBVIOUS
<1>0. ~raced /\ InStream
  <2>1. raced => raced'
    BY DEF SourceNext, Call, Start, Finish, Throws, Handle, Handled
  <2> QED BY <2>1 DEF SInv
<1>1. ASSUME NEW c \in Calls, NEW t \in Threads, Call(c, t) PROVE InStream'
  <2>1. OneReader' /\ \A d \in Gets : status[d] = "broken" => status'[d] = "broken"
    BY <1>0, <1>1, CallMoves DEF Call, InStream, OneReader
  <2> QED BY <1>0, <1>1, <2>1, CallMoves, NothingRead DEF Call
<1>2. ASSUME NEW t \in Foreground, Handled(t) PROVE InStream'
  <2>1. OneReader' /\ \A d \in Gets : status[d] = "broken" => status'[d] = "broken"
    BY <1>0, <1>2, HandledMoves DEF Handled, InStream, OneReader
  <2> QED BY <1>0, <1>2, <2>1, HandledMoves, NothingRead DEF Handled
<1> QED BY <1>0, <1>1, <1>2, StartInStream, FinishInStream, ThrowsInStream, HandleInStream
           DEF SourceNext

-----------------------------------------------------------------------------
(* The memory of the results, while nobody asks too early.                 *)

(* Steps that disturb neither memory nor its users. *)
LEMMA NothingWritten ==
  ASSUME OneAtATime, UNCHANGED <<memory, place, read, raced>>,
         \A c \in Gets : Under(c)' => Under(c),
         \A c \in Gets : status'[c] = "computed" => status[c] = "computed",
         \A t \in Foreground : using'[t] \in {using[t], NoCall}
  PROVE  OneAtATime'
BY DEF OneAtATime, Intact

(* A get that is called is the only one, and nobody looks at anything. *)
LEMMA CallAlone ==
  ASSUME SInv, OneAtATime, NEW c \in Calls, NEW t \in Threads, Call(c, t), ~overlapped'
  PROVE  OneAtATime'
<1>1. /\ status[c] = "new" /\ status'[c] = "posted"
      /\ \A d \in Calls : d # c => status'[d] = status[d]
      /\ UNCHANGED <<memory, place, read, raced>>
  BY CallMoves DEF Call
<1>2. CASE c \notin Gets
  <2>1. using' = using /\ \A d \in Gets : status'[d] = status[d]
    BY <1>1, <1>2 DEF Call
  <2> QED BY <1>1, <2>1, NothingWritten DEF Under
<1>3. CASE c \in Gets
  <2>1. /\ \A d \in Gets : ~Under(d)
        /\ \A u \in Foreground : u # t => using[u] = NoCall
        /\ using' = Forgets(t)
    BY <1>3 DEF Call, Under
  <2>2. \A u \in Foreground : using'[u] = NoCall
    BY <2>1 DEF Forgets
  <2>3. \A d \in Gets : Under(d)' => d = c
    BY <1>1, <2>1 DEF Under
  <2>4. \A d \in Gets : status'[d] # "computed"
    BY <1>1, <2>1 DEF Under
  <2> QED BY <1>1, <2>2, <2>3, <2>4 DEF OneAtATime, Intact
<1> QED BY <1>2, <1>3

(* The memory that is written now is nobody's. *)
LEMMA StartAlone ==
  ASSUME SInv, OneAtATime, NEW t \in Background, Start(t)
  PROVE  OneAtATime'
<1> DEFINE c == Head(background)
<1>1. /\ c \in Calls /\ status[c] = "posted" /\ status'[c] = "working"
      /\ \A d \in Calls : d # c => status'[d] = status[d]
      /\ read' = read /\ using' = using
  BY StartMoves DEF Start
<1>2. CASE c \notin Gets
  <2>1. UNCHANGED <<memory, place, raced>> /\ \A d \in Gets : status'[d] = status[d]
    BY <1>1, <1>2 DEF Start
  <2> QED BY <1>1, <2>1, NothingWritten DEF Under
<1>3. CASE c \in Gets
  <2>1. \A d \in Gets : Under(d) => d = c
    BY <1>1, <1>3 DEF OneAtATime, Under
  <2>2. \A u \in Foreground : using[u] = NoCall
    BY <1>1, <1>3 DEF OneAtATime, Under
  <2>3. \A d \in Gets : (Under(d)' => d = c) /\ status'[d] # "computed"
    BY <1>1, <2>1 DEF Under
  <2>4. \A u \in Background : running[u] \notin Gets
    <3>1. \A u \in Background : running[u] \in Gets => status[running[u]] = "working"
      BY DEF SInv, IInv, OnePlace, Executed
    <3> QED BY <1>1, <2>1, <3>1 DEF Under
  <2>5. raced' = (raced \/ \E u \in Background : running[u] \in Gets)
    BY <1>3 DEF Start
  <2>6. ~raced'
    BY <2>4, <2>5 DEF OneAtATime
  <2> QED BY <1>1, <2>2, <2>3, <2>6 DEF OneAtATime, Intact
<1> QED BY <1>2, <1>3

(* The element is put where the get will find it. *)
LEMMA FinishAlone ==
  ASSUME SInv, OneAtATime, NEW t \in Background, Finish(t)
  PROVE  OneAtATime'
<1> DEFINE c == running[t]
<1>1. /\ c \in Calls /\ status[c] = "working" /\ status'[c] = "computed"
      /\ \A d \in Calls : d # c => status'[d] = status[d]
      /\ UNCHANGED <<place, using, raced>>
  BY FinishMoves DEF Finish
<1>2. CASE c \notin Gets
  <2>1. UNCHANGED <<memory, read>> /\ \A d \in Gets : status'[d] = status[d]
    BY <1>1, <1>2 DEF Finish
  <2> QED BY <1>1, <2>1, NothingWritten DEF Under
<1>3. CASE c \in Gets
  <2>1. \A d \in Gets : Under(d) => d = c
    BY <1>1, <1>3 DEF OneAtATime, Under
  <2>2. \A u \in Foreground : using'[u] = NoCall
    BY <1>1, <1>3 DEF OneAtATime, Under
  <2>3. \A d \in Gets : Under(d)' => d = c
    BY <1>1, <2>1 DEF Under
  <2>4. memory'[place[c]] = read'[c]
    <3>1. /\ read' = [read EXCEPT ![c] = position + 1]
          /\ memory' = [memory EXCEPT ![place[c]] = position + 1]
      BY <1>3 DEF Finish, Reads, OneAtATime
    <3>2. /\ read \in [Gets -> Nat] /\ memory \in [Memories -> Nat]
          /\ place[c] \in Memories
      BY <1>3 DEF SInv, SourceTypes
    <3> QED BY <1>3, <3>1, <3>2
  <2>5. \A d \in Gets : (status[d] = "computed" => memory[place[d]] = read[d])'
    BY <1>1, <2>3, <2>4 DEF Under
  <2> QED BY <1>1, <2>2, <2>3, <2>5 DEF OneAtATime, Intact
<1> QED BY <1>2, <1>3

(* The handler is given what its get has read. *)
LEMMA HandleAlone ==
  ASSUME SInv, OneAtATime, NEW t \in Foreground, Handle(t)
  PROVE  OneAtATime'
<1> DEFINE c == Head(foreground)
<1>1. /\ c \in Calls /\ status[c] = "computed" /\ status'[c] \in {"handling", "done"}
      /\ \A d \in Calls : d # c => status'[d] = status[d]
      /\ UNCHANGED <<memory, place, read, raced>>
  BY HandleMoves DEF Handle
<1>2. CASE c \notin Gets
  <2>1. using' = using /\ \A d \in Gets : status'[d] = status[d]
    BY <1>1, <1>2 DEF Handle
  <2> QED BY <1>1, <2>1, NothingWritten DEF Under
<1>3. CASE c \in Gets
  <2>1. \A d \in Gets : ~Under(d)'
    BY <1>1, <1>3 DEF OneAtATime, Under
  <2>2. /\ \A u \in Foreground : using[u] = NoCall
        /\ memory[place[c]] = read[c]
    BY <1>1, <1>3 DEF OneAtATime, Under
  <2>3. using' = [using EXCEPT ![t] = c] /\ using \in [Foreground -> Gets \cup {NoCall}]
    BY <1>3 DEF Handle, SInv, SourceTypes
  <2> HIDE DEF c
  <2>4. \A u \in Foreground : using'[u] = NoCall \/ using'[u] = c
    BY <2>2, <2>3
  <2>5. \A u \in Foreground : Intact(u)'
    BY <1>1, <2>2, <2>4 DEF Intact
  <2> QED BY <1>1, <2>1, <2>5 DEF OneAtATime, Under
<1> QED BY <1>2, <1>3

LEMMA OneAtATimeKeeps == SInv /\ SourceNext => (~overlapped => OneAtATime)'
<1> SUFFICES ASSUME SInv, SourceNext, ~overlapped' PROVE OneAtATime'
  OBVIOUS
<1>0. OneAtATime
  <2>1. overlapped => overlapped'
    BY DEF SourceNext, Call, Start, Finish, Throws, Handle, Handled
  <2> QED BY <2>1 DEF SInv
<1>1. ASSUME NEW t \in Background, Throws(t) PROVE OneAtATime'
  <2>1. \A c \in Gets : status'[c] \in {status[c], "broken"}
    BY <1>1, ThrowMoves DEF Throws
  <2> QED BY <1>0, <1>1, <2>1, NothingWritten DEF Throws, Under
<1>2. ASSUME NEW t \in Foreground, Handled(t) PROVE OneAtATime'
  <2>1. \A c \in Gets : status'[c] \in {status[c], "done"}
    BY <1>2, HandledMoves DEF Handled
  <2> QED BY <1>0, <1>2, <2>1, NothingWritten DEF Handled, Forgets, Under
<1> QED BY <1>0, <1>1, <1>2, CallAlone, StartAlone, FinishAlone, HandleAlone DEF SourceNext

-----------------------------------------------------------------------------

(* What a step of async() keeps, and what follows the gets around. *)
LEMMA SourceStepKeeps == SInv /\ [SourceNext]_allVars => SInv'
<1> SUFFICES ASSUME SInv, [SourceNext]_allVars PROVE SInv'
  OBVIOUS
<1>1. CASE SourceNext
  <2>1. IInv'
    BY IsAsyncStep, StepKeeps DEF SInv
  <2>2. SourceTypes' /\ HandledIsOver' /\ ReadsWhenDone'
    BY <1>1, SourceTypesKeep, HandledIsOverKeeps, ReadsWhenDoneKeeps
  <2>3. (~raced => InStream)' /\ (~overlapped => OneAtATime)'
    BY <1>1, InStreamKeeps, OneAtATimeKeeps
  <2> QED BY <2>1, <2>2, <2>3 DEF SInv
<1>2. CASE UNCHANGED allVars
  <2>1. IInv'
    BY IsAsyncStep, StepKeeps DEF SInv
  <2>2. SourceTypes' /\ HandledIsOver' /\ ReadsWhenDone'
    BY <1>2 DEF SInv, SourceTypes, HandledIsOver, ReadsWhenDone, allVars, sourceVars, vars
  <2>3. (~raced => InStream)'
    BY <1>2 DEF SInv, InStream, OneReader, InOrder, ReadBefore, Complete,
                allVars, sourceVars, vars, threads
  <2>4. (~overlapped => OneAtATime)'
    BY <1>2 DEF SInv, OneAtATime, Under, Intact, allVars, sourceVars, vars
  <2> QED BY <2>1, <2>2, <2>3, <2>4 DEF SInv
<1> QED BY <1>1, <1>2

(* A program that asks for one element at a time gets them in order, all   *)
(* of them and intact, and one that does not gets them in order and all of *)
(* them as long as nothing has raced: for every number of gets, of other   *)
(* calls and of threads, whatever buffers the gets use.                    *)
THEOREM ArrivalCorrect == SourceSpec => []ElementsArrive
<1>1. SInv => ElementsArrive
  BY DEF SInv, ElementsArrive, OneAtATime, InStream, InOrder, Complete, IInv, TypeOK
<1> QED BY <1>1, SourceInitHolds, SourceStepKeeps, PTL DEF SourceSpec

(* What is proved of async() holds with the source on its dispatchers: no  *)
(* answer is missed, and handlers start in the order of the calls as long  *)
(* as one background thread works at a time.                               *)
THEOREM DispatchCorrect == SourceSpec => [](WaitsExactlyForAnswers /\ HandledInOrder)
<1> DEFINE Dispatch == IInv /\ (~parallel => InLine)
<1>1. SourceInit => Dispatch
  BY InitHolds DEF SourceInit, Init, InLine, OneWorker, Known, Sorted, InFront, Worker, Threads
<1>2. Dispatch /\ [SourceNext]_allVars => Dispatch'
  BY IsAsyncStep, StepKeeps, StepKeepsLine
<1>3. Dispatch => WaitsExactlyForAnswers /\ HandledInOrder
  BY DEF IInv, InLine, Sorted, HandledInOrder
<1> QED BY <1>1, <1>2, <1>3, PTL DEF SourceSpec

=============================================================================
