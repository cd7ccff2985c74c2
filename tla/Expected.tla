------------------------------ MODULE Expected ------------------------------
(***************************************************************************)
(* Si::expected (expected.hpp).  The tag is "T" for has_value, and         *)
(* "exception" for has_exception.  Nothing is noexcept, except what        *)
(* exception_ptr does.                                                     *)
(***************************************************************************)
EXTENDS Lifetime

HasValue(h) == h.tag = "T"

(* Moving the object out of another holder. *)
Move(object) == Construct(object, object.type = "T" /\ MovesThrow, TRUE)

Copy(object) == Construct(object, object.type = "T", FALSE)

FromCopy(val) == <<SetTag("T"), CopyConstruct(Object("T", val))>>

FromException(val) == <<SetTag("exception"), Store(Object("exception", val))>>

CopyFrom(other) == <<SetTag(other.tag), Copy(other.cell)>>

MoveFrom(other) == <<SetTag(other.tag), Move(other.cell)>>

(* operator=(expected const &) *)
AssignCopy(this, other) ==
  (IF this.tag = other.tag THEN <<Assign(other.cell, HasValue(other), FALSE)>>
                           ELSE <<Destroy(this.tag), Copy(other.cell)>>)
    \o <<SetTag(other.tag)>>

(* operator=(expected &&) *)
AssignMove(this, other) ==
  (IF this.tag = other.tag
     THEN <<Assign(other.cell, HasValue(other) /\ MovesThrow, TRUE)>>
     ELSE <<Destroy(this.tag), Move(other.cell)>>)
    \o <<SetTag(other.tag)>>

(* operator=(T &&); the version for T const & cannot be instantiated. *)
AssignValue(this, val) ==
  IF HasValue(this)
    THEN <<Assign(Object("T", val), MovesThrow, FALSE)>>
    ELSE <<Destroy("exception"), Construct(Object("T", val), MovesThrow, FALSE), SetTag("T")>>

(* emplace: the state is left as it was. *)
Emplace(this, val) == <<Destroy(this.tag), CopyConstruct(Object("T", val))>>

End(this) == <<Destroy(this.tag)>>

=============================================================================
