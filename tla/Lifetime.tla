------------------------------ MODULE Lifetime ------------------------------
(***************************************************************************)
(* The classes that keep an object in raw storage and remember in a tag    *)
(* what it is: Si::optional, Si::error_or, Si::expected, Si::variant.  An  *)
(* operation of such a class is a sequence of the steps below, in the      *)
(* order of the code, and an exception in one of them skips those behind.  *)
(* That is what makes the order matter.                                    *)
(*                                                                         *)
(* A holder is a record of the tag and of the cell: the object that is     *)
(* really alive in the storage.  Objects of the types "dead" (none) and    *)
(* "category" (a pointer) do not have to be destroyed.                     *)
(***************************************************************************)
EXTENDS Integers, Sequences

CONSTANTS
  Values,      \* what tells objects of a type apart
  MovesThrow   \* may the move operations of the held types throw?

ASSUME MovesThrowAssumption == MovesThrow \in BOOLEAN

Moved == "moved"      \* the value of an object that was moved from
Default == "default"  \* the value of a default-constructed object

Object(type, val) == [type |-> type, value |-> val]

Dead == Object("dead", "none")

(* A holder that does not exist, and one that is under construction. *)
Gone == [tag |-> "gone", cell |-> Dead]
Raw == [tag |-> "raw", cell |-> Dead]

(* What remains after undefined behaviour. *)
Undefined == [tag |-> "undefined", cell |-> Dead]

(* The tag tells what is alive. *)
Truthful(h) == h = Gone \/ h.tag = h.cell.type

-----------------------------------------------------------------------------
(* The steps.                                                              *)

SetTag(tag) == [do |-> "tag", tag |-> tag]

(* An explicit call of the destructor of `type` on the storage. *)
Destroy(type) == [do |-> "destroy", type |-> type]

(* Placement new, and an assignment to the object in the storage. *)
Construct(object, throws, moves) ==
  [do |-> "construct", object |-> object, throws |-> throws, moves |-> moves]
Assign(object, throws, moves) ==
  [do |-> "assign", object |-> object, throws |-> throws, moves |-> moves]

(* The same for a copy of an object. *)
CopyConstruct(object) == Construct(object, TRUE, FALSE)
CopyAssign(object) == Assign(object, TRUE, FALSE)

(* A pointer is stored over whatever there is. *)
Store(object) == Construct(object, FALSE, FALSE)

(* A copy is made elsewhere, and one that is never destroyed. *)
CopyElsewhere == [do |-> "copy_elsewhere"]
Abandon == [do |-> "abandon"]

(* A table of functions is indexed with a tag. *)
Dispatch(tag) == [do |-> "dispatch", tag |-> tag]

Throw == [do |-> "throw"]

(* A handler that sets the tag and throws again. *)
OnThrow(tag) == [do |-> "on_throw", tag |-> tag]

(* The destructor of a base class, when a constructor has thrown. *)
Unwind == [do |-> "unwind"]

-----------------------------------------------------------------------------
(* What they do.                                                           *)

Owned(cell) == cell.type \notin {"dead", "category"}

Fails(s) == [s EXCEPT !.threw = TRUE]

MovedFrom(h) == [h EXCEPT !.cell.value = Moved]

Takes(s, step) ==
  [s EXCEPT !.this.cell = step.object,
            !.other = IF step.moves THEN MovedFrom(s.other) ELSE s.other]

(* One step after which nothing was thrown before. *)
Effects(s, step) ==
  CASE step.do = "tag" -> {[s EXCEPT !.this.tag = step.tag]}
    [] step.do = "destroy" ->
         {IF s.this.cell.type = step.type THEN [s EXCEPT !.this.cell = Dead]
                                          ELSE [s EXCEPT !.this = Undefined]}
    [] step.do = "construct" ->
         LET over == [s EXCEPT !.leaked = s.leaked \/ Owned(s.this.cell)]
         IN  {Takes(over, step)}
               \cup (IF step.throws THEN {Fails([over EXCEPT !.this.cell = Dead])} ELSE {})
    [] step.do = "assign" ->
         IF s.this.cell.type # step.object.type THEN {[s EXCEPT !.this = Undefined]}
         ELSE {Takes(s, step)} \cup (IF step.throws THEN {Fails(s)} ELSE {})
    [] step.do = "copy_elsewhere" -> {s, Fails(s)}
    [] step.do = "throw" -> {Fails(s)}
    [] step.do = "abandon" -> {[s EXCEPT !.leaked = TRUE]}
    [] step.do = "dispatch" ->
         {IF step.tag = "dead" THEN [s EXCEPT !.this = Undefined] ELSE s}
    [] OTHER -> {s}

(* One step after an exception. *)
Cleanup(s, step) ==
  CASE step.do = "on_throw" -> [s EXCEPT !.this.tag = step.tag]
    [] step.do = "unwind" ->
         IF s.this.cell.type = s.this.tag THEN [s EXCEPT !.this.cell = Dead]
                                          ELSE [s EXCEPT !.this = Undefined]
    [] OTHER -> s

After(s, step) ==
  IF s.this = Undefined THEN {s}
  ELSE IF s.threw THEN {Cleanup(s, step)}
  ELSE Effects(s, step)

(* All that a sequence of steps on a holder may come to. *)
Outcomes(this, other, steps) ==
  LET run[i \in 0..Len(steps)] ==
        IF i = 0
          THEN {[this |-> this, other |-> other, threw |-> FALSE, leaked |-> FALSE]}
          ELSE UNION {After(s, steps[i]) : s \in run[i - 1]}
  IN  run[Len(steps)]

(* A constructor that throws leaves no holder behind. *)
Constructed(other, steps) ==
  {IF s.threw /\ s.this # Undefined THEN [s EXCEPT !.this = Gone] ELSE s :
     s \in Outcomes(Raw, other, steps)}

=============================================================================
