------------------------------- MODULE Variant -------------------------------
(***************************************************************************)
(* Si::variant of two types (variant.hpp).  The tag is "T1" or "T2", or    *)
(* "dead" for a variant that is valueless by exception.  Operations that   *)
(* depend on the type go through tables that are indexed with index(),     *)
(* which is out of their range for a valueless variant.                    *)
(***************************************************************************)
EXTENDS Lifetime

Move(object) == Construct(object, MovesThrow, TRUE)

(* variant_base(U &&) and inplace *)
FromCopy(object) == <<SetTag(object.type), CopyConstruct(object)>>

(***************************************************************************)
(* The copy constructor of variant_base<true>: the base has constructed a  *)
(* T1, and destroys what the index says if the copy throws.                *)
(***************************************************************************)
CopyFrom(other) ==
  <<SetTag("T1"), Construct(Object("T1", Default), FALSE, FALSE),
    SetTag(other.tag), Dispatch(other.tag), CopyConstruct(other.cell), Unwind>>

MoveFrom(other) == <<SetTag(other.tag), Dispatch(other.tag), Move(other.cell)>>

(* The same from the other one itself, or from a copy of it. *)
TakeFrom(this, other, moves) ==
  IF this.tag = other.tag
    THEN <<Dispatch(this.tag), Assign(other.cell, FALSE, moves)>>
    ELSE <<Dispatch(this.tag), Destroy(this.tag), Dispatch(other.tag),
           Construct(other.cell, MovesThrow, moves), SetTag(other.tag)>>

(* operator=(variant_base &&) *)
AssignMove(this, other) == TakeFrom(this, other, TRUE)

(* apply_visitor(), also behind visit(), try_get_ptr() and hash. *)
Visit(this) == IF this.tag = "dead" THEN <<Throw>> ELSE <<>>

(***************************************************************************)
(* assign(): a visitor of the other variant, which may have more types,    *)
(* makes a temporary of this one.  Visitors get lvalues, so that it copies *)
(* the object of the other one even if that is an rvalue.                  *)
(***************************************************************************)
AssignFrom(this, other) ==
  Visit(other) \o <<CopyElsewhere>> \o TakeFrom(this, other, FALSE)

(* Seeded bug: the object is destroyed before its successor is copied. *)
AssignCopyEarly(this, other) ==
  IF this.tag = other.tag
    THEN <<Dispatch(this.tag), CopyAssign(other.cell)>>
    ELSE <<Dispatch(this.tag), Destroy(this.tag), OnThrow("dead"),
           Dispatch(other.tag), CopyConstruct(other.cell), OnThrow("dead"),
           SetTag(other.tag)>>

(***************************************************************************)
(* operator=(variant_base const &): the copy is made in a temporary        *)
(* storage, whose object is moved away but never destroyed.                *)
(***************************************************************************)
AssignCopy(this, other) ==
  IF this.tag = other.tag
    THEN <<Dispatch(this.tag), CopyAssign(other.cell)>>
    ELSE <<Dispatch(other.tag), CopyElsewhere, Abandon,
           Dispatch(this.tag), Destroy(this.tag),
           Construct(other.cell, MovesThrow, FALSE), SetTag(other.tag)>>

(* operator=(U &&): the argument, which is in no holder, is copied; where *)
(* it is moved that is a copy that may be known not to throw.              *)
AssignValue(this, object) ==
  <<Dispatch(this.tag), Destroy(this.tag),
    CopyConstruct(object), OnThrow("dead"), SetTag(object.type)>>

(* operator== and operator< *)
Compare(this, other) == IF this.tag = other.tag THEN <<Dispatch(this.tag)>> ELSE <<>>

End(this) == IF this.tag = "dead" THEN <<>> ELSE <<Destroy(this.tag)>>

=============================================================================
