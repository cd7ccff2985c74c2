------------------------------ MODULE Optional ------------------------------
(***************************************************************************)
(* Si::optional (optional.hpp).  The tag is "T" when m_is_set and "dead"   *)
(* otherwise.  Move construction and move assignment are noexcept: an      *)
(* exception there ends the process, so that only copies, emplace() and    *)
(* swap() throw.                                                           *)
(***************************************************************************)
EXTENDS Lifetime

Set(h) == h.tag = "T"

(* What a T makes of an optional that it is constructed from. *)
Converted == "converted"

Move(object) == Construct(object, FALSE, TRUE)

FromNothing == <<SetTag("dead")>>

FromCopy(val) == <<SetTag("T"), CopyConstruct(Object("T", val))>>

CopyFrom(other) ==
  <<SetTag(other.tag)>> \o (IF Set(other) THEN <<CopyConstruct(other.cell)>> ELSE <<>>)

MoveFrom(other) ==
  <<SetTag(other.tag)>> \o (IF Set(other) THEN <<Move(other.cell)>> ELSE <<>>)

Reset(this) == IF Set(this) THEN <<Destroy("T"), SetTag("dead")>> ELSE <<>>

(* operator=(optional const &) *)
AssignCopy(this, other) ==
  IF ~Set(other) THEN Reset(this)
  ELSE IF Set(this) THEN <<CopyAssign(other.cell)>>
  ELSE <<CopyConstruct(other.cell), SetTag("T")>>

(* operator=(optional &&): the other one stays set. *)
AssignMove(this, other) ==
  IF ~Set(other) THEN Reset(this)
  ELSE IF Set(this) THEN <<Assign(other.cell, FALSE, TRUE)>>
  ELSE <<Move(other.cell), SetTag("T")>>

(* operator=(T const &) *)
AssignValue(this, val) ==
  IF Set(this) THEN <<CopyAssign(Object("T", val))>>
               ELSE <<CopyConstruct(Object("T", val)), SetTag("T")>>

(* Seeded bug: the optional counts as set while the new object is made. *)
EmplaceEarly(this, val) ==
  Reset(this) \o <<SetTag("T"), CopyConstruct(Object("T", val))>>

Emplace(this, val) ==
  Reset(this) \o <<CopyConstruct(Object("T", val)), SetTag("T")>>

(* Seeded bug: the object is made from the other optional both ways. *)
SwapOutcomesConverting(this, other) ==
  LET converted == [tag |-> "T", cell |-> Object("T", Converted)]
      Ends(a, b, threw) == [this |-> a, other |-> b, threw |-> threw, leaked |-> FALSE]
  IN  CASE Set(this) /\ Set(other) -> {Ends(other, this, FALSE)}
        [] Set(this) /\ ~Set(other) -> {Ends(other, converted, FALSE), Ends(this, other, TRUE)}
        [] ~Set(this) /\ Set(other) -> {Ends(converted, this, FALSE), Ends(this, other, TRUE)}
        [] OTHER -> {Ends(this, other, FALSE)}

(***************************************************************************)
(* swap(): std::swap() of two objects, in the order of its moves, or else  *)
(* emplace().  When this one is empty its argument is the object of the    *)
(* other, which is moved.  When the other one is empty it is this optional *)
(* itself, not its object, and a T has to have a constructor for that.     *)
(***************************************************************************)
SwapOutcomes(this, other) ==
  LET converted == [tag |-> "T", cell |-> Object("T", Converted)]
      Ends(a, b, threw) == [this |-> a, other |-> b, threw |-> threw, leaked |-> FALSE]
      Failing(ends) == IF MovesThrow THEN ends ELSE {}
  IN  CASE Set(this) /\ Set(other) ->
             {Ends(other, this, FALSE)}
               \cup Failing({Ends(this, other, TRUE), Ends(MovedFrom(this), other, TRUE),
                             Ends(other, MovedFrom(other), TRUE)})
        [] Set(this) /\ ~Set(other) ->
             {Ends(other, converted, FALSE), Ends(this, other, TRUE)}
        [] ~Set(this) /\ Set(other) ->
             {Ends(other, this, FALSE)} \cup Failing({Ends(this, other, TRUE)})
        [] OTHER -> {Ends(this, other, FALSE)}

End(this) == IF Set(this) THEN <<Destroy("T")>> ELSE <<>>

=============================================================================
