----------------------------- MODULE FileHandles -----------------------------
(***************************************************************************)
(* Si::file_handle (file_handle.hpp), an owner of one file descriptor, and *)
(* Si::pipe (pipe.hpp), two of them.  The descriptors are numbers that the *)
(* system (external) gives out again as soon as they are closed, the       *)
(* lowest one first, so that a number says nothing about the file.         *)
(*                                                                         *)
(* `meant` is what a caller thinks a variable has, who takes a move for    *)
(* what it is elsewhere: the target drops what it had, the source is       *)
(* empty.  The classes swap instead.                                       *)
(***************************************************************************)
EXTENDS Integers

CONSTANTS
  Variables,   \* the variables of type Si::pipe
  Numbers,     \* the descriptors there are
  MaxPipes     \* bound: calls of make_pipe that succeed

ASSUME NumbersAssumption == Numbers \subseteq Nat
ASSUME MaxPipesAssumption == MaxPipes \in Nat

VARIABLES
  table,    \* the file behind every number: an end of a pipe, or Closed
  handle,   \* handle of every file_handle
  loose,    \* the numbers that the caller has taken with release()
  meant,    \* history: what the caller thinks is in every file_handle
  made      \* pipes made so far

files == <<table, handle, loose, meant, made>>

no_file_handle == -1

(* The ends of a pipe, and the members of a variable of type Si::pipe.  *)
Sides == {"write", "read"}
Handles == Variables \X Sides

Closed == <<0, "none">>
Ends == (1..MaxPipes) \X Sides

Init ==
  /\ table = [n \in Numbers |-> Closed]
  /\ handle = [h \in Handles |-> no_file_handle]
  /\ loose = {}
  /\ meant = [h \in Handles |-> no_file_handle]
  /\ made = 0

-----------------------------------------------------------------------------
(* Moving and closing.                                                     *)

(* The table when the files behind some numbers have been closed; the      *)
(* destructor leaves no_file_handle alone.                                 *)
Without(numbers) == [n \in Numbers |-> IF n \in numbers THEN Closed ELSE table[n]]

(* Seeded bug: the moved handle is copied. *)
MoveAssignCopies(h, g) ==
  /\ h # g
  /\ handle' = [handle EXCEPT ![h] = handle[g]]
  /\ meant' = [meant EXCEPT ![g] = no_file_handle, ![h] = meant[g]]
  /\ UNCHANGED <<table, loose, made>>

(* file_handle::operator=(file_handle &&) *)
MoveAssign(h, g) ==
  /\ h # g
  /\ handle' = [handle EXCEPT ![h] = handle[g], ![g] = handle[h]]
  /\ meant' = [meant EXCEPT ![g] = no_file_handle, ![h] = meant[g]]
  /\ UNCHANGED <<table, loose, made>>

(* The variable h ends, and another begins in its place with the           *)
(* constructor file_handle(file_handle &&).                                *)
MoveConstruct(h, g) ==
  /\ h # g
  /\ table' = Without({handle[h]})
  /\ handle' = [handle EXCEPT ![h] = handle[g], ![g] = no_file_handle]
  /\ meant' = [meant EXCEPT ![g] = no_file_handle, ![h] = meant[g]]
  /\ UNCHANGED <<loose, made>>

(* Seeded bug: the handle forgets its number without closing it. *)
CloseForgets(h) ==
  /\ handle' = [handle EXCEPT ![h] = no_file_handle]
  /\ meant' = [meant EXCEPT ![h] = no_file_handle]
  /\ UNCHANGED <<table, loose, made>>

(* close(), or the end of the variable. *)
Close(h) ==
  /\ table' = Without({handle[h]})
  /\ handle' = [handle EXCEPT ![h] = no_file_handle]
  /\ meant' = [meant EXCEPT ![h] = no_file_handle]
  /\ UNCHANGED <<loose, made>>

(* release(), for a handle that the caller thinks has a file. *)
Release(h) ==
  /\ meant[h] # no_file_handle
  /\ loose' = loose \cup {handle[h]}
  /\ handle' = [handle EXCEPT ![h] = no_file_handle]
  /\ meant' = [meant EXCEPT ![h] = no_file_handle]
  /\ UNCHANGED <<table, made>>

(* h = file_handle(n): the temporary takes what h had, and closes it.  *)
Wrap(h, n) ==
  /\ n \in loose
  /\ loose' = loose \ {n}
  /\ table' = Without({handle[h]})
  /\ handle' = [handle EXCEPT ![h] = n]
  /\ meant' = [meant EXCEPT ![h] = n]
  /\ UNCHANGED made

-----------------------------------------------------------------------------
(* Pipes.                                                                  *)

(***************************************************************************)
(* v = make_pipe(): the system takes two free numbers, first the lowest    *)
(* one for reading; the ends go into the variable, and what it had is      *)
(* closed with the temporary.                                              *)
(***************************************************************************)
MakePipe(v) ==
  /\ made < MaxPipes
  /\ made' = made + 1
  /\ \E r \in Numbers, w \in Numbers :
       /\ table[r] = Closed /\ table[w] = Closed /\ r < w
       /\ \A n \in Numbers : table[n] = Closed => n = r \/ w <= n
       /\ table' = [n \in Numbers |->
            IF n = r THEN <<made', "read">> ELSE IF n = w THEN <<made', "write">>
            ELSE Without({handle[<<v, "write">>], handle[<<v, "read">>]})[n]]
       /\ handle' = [handle EXCEPT ![<<v, "write">>] = w, ![<<v, "read">>] = r]
       /\ meant' = [meant EXCEPT ![<<v, "write">>] = w, ![<<v, "read">>] = r]
  /\ UNCHANGED loose

(* pipe::operator=(pipe &&), both members one after the other. *)
MoveAssignPipe(v, u) ==
  /\ v # u
  /\ handle' = [h \in Handles |->
                  IF h[1] = v THEN handle[<<u, h[2]>>]
                  ELSE IF h[1] = u THEN handle[<<v, h[2]>>] ELSE handle[h]]
  /\ meant' = [h \in Handles |->
                 IF h[1] = v THEN meant[<<u, h[2]>>]
                 ELSE IF h[1] = u THEN no_file_handle ELSE meant[h]]
  /\ UNCHANGED <<table, loose, made>>

(* pipe::close() *)
ClosePipe(v) ==
  /\ table' = Without({handle[<<v, side>>] : side \in Sides})
  /\ handle' = [h \in Handles |-> IF h[1] = v THEN no_file_handle ELSE handle[h]]
  /\ meant' = [h \in Handles |-> IF h[1] = v THEN no_file_handle ELSE meant[h]]
  /\ UNCHANGED <<loose, made>>

(* Callers keep the ends for writing and for reading apart. *)
Next ==
  \/ \E v \in Variables, side \in Sides :
       \/ \E u \in Variables :
            MoveAssign(<<v, side>>, <<u, side>>) \/ MoveConstruct(<<v, side>>, <<u, side>>)
       \/ Close(<<v, side>>)
       \/ Release(<<v, side>>)
       \/ \E n \in Numbers : table[n][2] = side /\ Wrap(<<v, side>>, n)
  \/ \E v \in Variables :
       \/ MakePipe(v)
       \/ \E u \in Variables : MoveAssignPipe(v, u)
       \/ ClosePipe(v)

Spec == Init /\ [][Next]_files

-----------------------------------------------------------------------------

TypeOK ==
  /\ table \in [Numbers -> Ends \cup {Closed}]
  /\ handle \in [Handles -> Numbers \cup {no_file_handle}]
  /\ loose \subseteq Numbers
  /\ meant \in [Handles -> Numbers \cup {no_file_handle}]
  /\ made \in 0..MaxPipes

(***************************************************************************)
(* Every open descriptor has one owner: it is in exactly one file_handle,  *)
(* or the caller has released it.  No handle has a number that is closed,  *)
(* or one that was closed and has been given out again for another file.   *)
(***************************************************************************)
OneOwner ==
  /\ \A h, g \in Handles :
       h # g /\ handle[h] = handle[g] => handle[h] = no_file_handle
  /\ \A h \in Handles : handle[h] \notin loose
  /\ \A n \in Numbers :
       table[n] # Closed <=> n \in loose \/ \E h \in Handles : handle[h] = n

(***************************************************************************)
(* A handle that a caller thinks has a file has that file; only what the   *)
(* caller thinks is empty may have something else.                         *)
(***************************************************************************)
MeantIsHeld ==
  \A h \in Handles : meant[h] # no_file_handle => handle[h] = meant[h]

(* The numbers the caller relies on. *)
Known == (loose \cup {meant[h] : h \in Handles}) \ {no_file_handle}

(***************************************************************************)
(* No operation closes a file, or lets another one take its number, that   *)
(* the caller thinks is in some handle, or holds himself, before and       *)
(* behind the operation: however often the swaps behind moves have left    *)
(* other numbers in variables that look empty, which are closed by         *)
(* whatever comes next.                                                    *)
(***************************************************************************)
FilesStay ==
  [][\A n \in Known \cap Known' : table'[n] = table[n]]_files

(* The caller has no such file any more, but a variable whose content was  *)
(* moved away has: what it was moved over.                                 *)
LeftOver ==
  {n \in Numbers : /\ \E h \in Handles : handle[h] = n
                  /\ \A h \in Handles : meant[h] # n}

=============================================================================
