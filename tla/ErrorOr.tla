------------------------------- MODULE ErrorOr -------------------------------
(***************************************************************************)
(* Si::error_or (error_or.hpp).  The tag is "T" when code is 0, and        *)
(* "category" otherwise; an error is the object a stored category stands   *)
(* for.  Everything that moves is noexcept, as in Optional.                *)
(***************************************************************************)
EXTENDS Lifetime

(* The error code whose value is 0. *)
Success == "success"

IsError(h) == h.tag = "category"

Move(object) == Construct(object, FALSE, TRUE)

FromCopy(val) == <<SetTag("T"), CopyConstruct(Object("T", val))>>

(* error_or(Error): code is 0 when the error is "no error". *)
FromError(code) ==
  <<SetTag(IF code = Success THEN "T" ELSE "category"), Store(Object("category", code))>>

CopyFrom(other) ==
  <<SetTag(other.tag),
    IF IsError(other) THEN Store(other.cell) ELSE CopyConstruct(other.cell)>>

MoveFrom(other) ==
  <<SetTag(other.tag),
    IF IsError(other) THEN Store(other.cell) ELSE Move(other.cell)>>

(* Seeded bug: the value is not destroyed before an error takes its place. *)
MoveStepsUndestroyed(this, other, moves) ==
  IF IsError(this) /\ ~IsError(other)
    THEN <<SetTag(other.tag), Construct(other.cell, FALSE, moves)>>
  ELSE IF IsError(other) THEN <<SetTag(other.tag), Store(other.cell)>>
  ELSE <<Assign(other.cell, FALSE, moves)>>

(* operator=(error_or &&), from a holder or from a temporary copy of it. *)
MoveSteps(this, other, moves) ==
  IF IsError(this)
    THEN <<SetTag(other.tag),
           IF IsError(other) THEN Store(other.cell) ELSE Construct(other.cell, FALSE, moves)>>
  ELSE IF IsError(other) THEN <<Destroy("T"), SetTag(other.tag), Store(other.cell)>>
  ELSE <<Assign(other.cell, FALSE, moves)>>

AssignMove(this, other) == MoveSteps(this, other, TRUE)

(* Seeded bug: the source itself is moved from instead of a copy of it. *)
AssignCopyMoves(this, other) == MoveSteps(this, other, TRUE)

(* operator=(error_or const &) *)
AssignCopy(this, other) ==
  (IF IsError(other) THEN <<>> ELSE <<CopyElsewhere>>) \o MoveSteps(this, other, FALSE)

(* operator=(Value const &) *)
AssignValue(this, val) ==
  IF IsError(this) THEN <<SetTag("T"), CopyConstruct(Object("T", val))>>
                   ELSE <<CopyAssign(Object("T", val))>>

End(this) == IF IsError(this) THEN <<>> ELSE <<Destroy("T")>>

=============================================================================
