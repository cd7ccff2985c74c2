----------------------------- MODULE AsyncCalls -----------------------------
(***************************************************************************)
(* Si::asio::async (asio/async.hpp): work is posted to a background        *)
(* dispatcher, and its result from there to a handler on the foreground    *)
(* dispatcher.  With Si::asio::block_thread (asio/block_thread.hpp) for a  *)
(* handler, the calling thread waits for the result instead.               *)
(*                                                                         *)
(* The dispatchers are external: queues that are served in order by the    *)
(* threads in run().  A call may come from a thread outside of both        *)
(* dispatchers, or from work or a handler that one of their threads is     *)
(* executing.                                                              *)
(***************************************************************************)
EXTENDS Integers, Sequences

CONSTANTS
  Calls,        \* the calls of async()
  Blocking,     \* those that pass block_thread
  Background,   \* the threads in background.run()
  Foreground,   \* the threads in foreground.run()
  Outside,      \* the other threads that call async()
  Nobody        \* the thread of a call that has not been made

ASSUME BlockingAssumption == Blocking \subseteq Calls
ASSUME ThreadsAssumption ==
  /\ Background \cap Foreground = {}
  /\ Outside \cap (Background \cup Foreground) = {}
  /\ Nobody \notin Background \cup Foreground \cup Outside

Threads == Background \cup Foreground \cup Outside

NoCall == "none"

ASSUME CallsAssumption == NoCall \notin Calls

VARIABLES
  status,      \* how far each call has come
  caller,      \* the thread that made it
  background,  \* the queue of the background dispatcher
  foreground,  \* the queue of the foreground dispatcher
  running,     \* the call whose work or handler a thread is executing
  awaits,      \* the call a thread waits for in future::get()
  left,        \* threads that an exception has taken out of run()
  issued,      \* history: the calls, as they were made
  handled,     \* history: the calls, as their handlers were started
  parallel     \* history: two background threads were at work at a time

queues == <<background, foreground>>
threads == <<running, awaits, left>>
history == <<issued, handled, parallel>>
vars == <<status, caller, queues, threads, history>>

-----------------------------------------------------------------------------

Init ==
  /\ status = [c \in Calls |-> "new"]
  /\ caller = [c \in Calls |-> Nobody]
  /\ background = <<>>
  /\ foreground = <<>>
  /\ running = [t \in Threads |-> NoCall]
  /\ awaits = [t \in Threads |-> NoCall]
  /\ left = {}
  /\ issued = <<>>
  /\ handled = <<>>
  /\ parallel = FALSE

(* Code of the user is being executed, and does not wait. *)
Executes(t) ==
  /\ awaits[t] = NoCall
  /\ t \in Outside \/ running[t] # NoCall

(* A thread in run() that is free to take the next task. *)
Free(t) == t \notin left /\ running[t] = NoCall

(* Seeded bug: new work overtakes what is already posted. *)
AsyncOvertakes(c, t) ==
  /\ status[c] = "new"
  /\ Executes(t)
  /\ status' = [status EXCEPT ![c] = "posted"]
  /\ caller' = [caller EXCEPT ![c] = t]
  /\ background' = <<c>> \o background
  /\ awaits' = IF c \in Blocking THEN [awaits EXCEPT ![t] = c] ELSE awaits
  /\ issued' = Append(issued, c)
  /\ UNCHANGED <<foreground, running, left, handled, parallel>>

(* async(): the work is posted, and with block_thread the caller waits. *)
Async(c, t) ==
  /\ status[c] = "new"
  /\ Executes(t)
  /\ status' = [status EXCEPT ![c] = "posted"]
  /\ caller' = [caller EXCEPT ![c] = t]
  /\ background' = Append(background, c)
  /\ awaits' = IF c \in Blocking THEN [awaits EXCEPT ![t] = c] ELSE awaits
  /\ issued' = Append(issued, c)
  /\ UNCHANGED <<foreground, running, left, handled, parallel>>

(* A background thread takes the next function and calls work(). *)
StartWork(t) ==
  /\ Free(t)
  /\ background # <<>>
  /\ background' = Tail(background)
  /\ running' = [running EXCEPT ![t] = Head(background)]
  /\ status' = [status EXCEPT ![Head(background)] = "working"]
  /\ parallel' = (parallel \/ \E u \in Background : running[u] # NoCall)
  /\ UNCHANGED <<caller, foreground, awaits, left, issued, handled>>

(* Seeded bug: the result is computed and forgotten. *)
FinishWorkForgets(t) ==
  /\ Executes(t)
  /\ running' = [running EXCEPT ![t] = NoCall]
  /\ status' = [status EXCEPT ![running[t]] = "computed"]
  /\ UNCHANGED <<caller, queues, awaits, left, history>>

(* work() has returned: the handler is posted with the result. *)
FinishWork(t) ==
  /\ Executes(t)
  /\ running' = [running EXCEPT ![t] = NoCall]
  /\ status' = [status EXCEPT ![running[t]] = "computed"]
  /\ foreground' = Append(foreground, running[t])
  /\ UNCHANGED <<caller, background, awaits, left, history>>

(* The thread that waits for c, if it does, goes on. *)
Released(c) == [t \in Threads |-> IF awaits[t] = c THEN NoCall ELSE awaits[t]]

(* Seeded bug: the promise outlives the function that was to fulfil it. *)
WorkThrowsSilently(t) ==
  /\ Executes(t)
  /\ running' = [running EXCEPT ![t] = NoCall]
  /\ status' = [status EXCEPT ![running[t]] = "broken"]
  /\ left' = left \cup {t}
  /\ UNCHANGED <<caller, queues, awaits, history>>

(***************************************************************************)
(* work() throws: the exception leaves run(), and the posted function dies *)
(* with its handler.  A promise in it is broken, so that get() throws.     *)
(***************************************************************************)
WorkThrows(t) ==
  /\ Executes(t)
  /\ running' = [running EXCEPT ![t] = NoCall]
  /\ status' = [status EXCEPT ![running[t]] = "broken"]
  /\ awaits' = Released(running[t])
  /\ left' = left \cup {t}
  /\ UNCHANGED <<caller, queues, history>>

(***************************************************************************)
(* A foreground thread takes the next handler.  The one of block_thread    *)
(* only sets the value the caller waits for; another one is code of the    *)
(* user, which takes its time and may call async() itself.                 *)
(***************************************************************************)
StartHandler(t) ==
  /\ Free(t)
  /\ foreground # <<>>
  /\ LET c == Head(foreground)
     IN  /\ handled' = Append(handled, c)
         /\ awaits' = Released(c)
         /\ IF c \in Blocking
              THEN /\ status' = [status EXCEPT ![c] = "done"]
                   /\ UNCHANGED running
              ELSE /\ status' = [status EXCEPT ![c] = "handling"]
                   /\ running' = [running EXCEPT ![t] = c]
  /\ foreground' = Tail(foreground)
  /\ UNCHANGED <<caller, background, left, issued, parallel>>

(* The handler returns, or throws out of run(). *)
FinishHandler(t) ==
  /\ Executes(t)
  /\ running' = [running EXCEPT ![t] = NoCall]
  /\ status' = [status EXCEPT ![running[t]] = "done"]
  /\ left' \in {left, left \cup {t}}
  /\ UNCHANGED <<caller, queues, awaits, history>>

Next ==
  \/ \E c \in Calls, t \in Threads : Async(c, t)
  \/ \E t \in Background : StartWork(t) \/ FinishWork(t) \/ WorkThrows(t)
  \/ \E t \in Foreground : StartHandler(t) \/ FinishHandler(t)

(***************************************************************************)
(* The threads stay in run() and the functions that are given to async()   *)
(* return or throw.  Nobody has to call async().                           *)
(***************************************************************************)
Fairness ==
  /\ \A t \in Background : WF_vars(StartWork(t)) /\ WF_vars(FinishWork(t))
  /\ \A t \in Foreground : WF_vars(StartHandler(t)) /\ WF_vars(FinishHandler(t))

Spec == Init /\ [][Next]_vars /\ Fairness

-----------------------------------------------------------------------------

Places == {"new", "posted", "working", "computed", "handling", "done", "broken"}

TypeOK ==
  /\ status \in [Calls -> Places]
  /\ caller \in [Calls -> Threads \cup {Nobody}]
  /\ background \in Seq(Calls)
  /\ foreground \in Seq(Calls)
  /\ running \in [Threads -> Calls \cup {NoCall}]
  /\ awaits \in [Threads -> Calls \cup {NoCall}]
  /\ left \subseteq Background \cup Foreground
  /\ issued \in Seq(Calls)
  /\ handled \in Seq(Calls)
  /\ parallel \in BOOLEAN

(***************************************************************************)
(* A thread waits in future::get() exactly as long as its call is under    *)
(* way: an answer is never missed, and neither is the end of a function    *)
(* whose work has thrown.                                                  *)
(***************************************************************************)
WaitsExactlyForAnswers ==
  \A c \in Blocking, t \in Threads :
    awaits[t] = c <=> caller[c] = t /\ status[c] \in {"posted", "working", "computed"}

(* c is in front of d. *)
Precedes(calls, c, d) ==
  \E m, n \in 1..Len(calls) : m < n /\ calls[m] = c /\ calls[n] = d

(***************************************************************************)
(* As long as no two background threads are at work at a time, handlers    *)
(* are started in the order in which async() was called, and once for each *)
(* call, whichever threads take the work and the handlers, and even if     *)
(* handlers call async() again.                                            *)
(***************************************************************************)
HandledInOrder ==
  ~parallel =>
    \A i, j \in 1..Len(handled) : i < j => Precedes(issued, handled[i], handled[j])

(* A thread that can take no task any more, or not before it gets an answer. *)
Held(t) == t \in left \/ awaits[t] # NoCall

(* Every thread of a dispatcher is held. *)
Starved == (\A t \in Background : Held(t)) \/ (\A t \in Foreground : Held(t))

(***************************************************************************)
(* Every call is answered or broken, unless all threads of a dispatcher    *)
(* are held: because their handlers or their work block in async()         *)
(* themselves, or because work or handlers have thrown.                    *)
(***************************************************************************)
EveryCallEnds ==
  \A c \in Calls : status[c] # "new" ~> status[c] \in {"done", "broken"} \/ Starved

=============================================================================
