------------------------------ MODULE Holders ------------------------------
(***************************************************************************)
(* Objects of one of the classes Si::optional, Si::error_or, Si::expected  *)
(* and Si::variant, that are created, copied, moved, assigned and          *)
(* destroyed in any order, with objects in them whose operations throw.    *)
(* Each class is a module that gives the steps of its operations.  A       *)
(* behaviour ends when a tag and its storage disagree: the next operation  *)
(* on that holder would be undefined.                                      *)
(***************************************************************************)
EXTENDS Lifetime, FiniteSets

CONSTANTS
  Slots,  \* where holders live
  Codes   \* error codes; "success" is the one whose value is 0

ASSUME SlotsAssumption == Cardinality(Slots) > 1

VARIABLES
  kind,    \* the class all holders are of
  holder,  \* the holder in each slot
  last     \* the last operation, its operands and their tags, and how it ended

vars == <<kind, holder, last>>

O == INSTANCE Optional
E == INSTANCE ErrorOr
X == INSTANCE Expected
V == INSTANCE Variant

NoOperation ==
  [op |-> "none", threw |-> FALSE, leaked |-> FALSE, on |-> "gone", from |-> "gone",
   code |-> "none", operands |-> <<>>]

Init ==
  /\ kind \in {"optional", "error_or", "expected", "variant"}
  /\ holder = [h \in Slots |-> Gone]
  /\ last = NoOperation

Exists(h) == holder[h] # Gone

AllTruthful == \A h \in Slots : Truthful(holder[h])

(* Operation op on slot h, perhaps with the holder in slot g. *)
Happens(op, h, g, outcomes) ==
  /\ AllTruthful
  /\ \E s \in outcomes :
       /\ holder' = [holder EXCEPT ![h] = s.this, ![g] = s.other]
       /\ last' = [NoOperation EXCEPT !.op = op, !.threw = s.threw, !.leaked = s.leaked,
                                      !.on = holder[h].tag, !.from = holder[g].tag,
                                      !.operands = <<h, g>>]
  /\ UNCHANGED kind

Creates(op, h, g, steps) ==
  /\ ~Exists(h)
  /\ Happens(op, h, g, Constructed(holder[g], steps))

Changes(op, h, g, steps) ==
  /\ Exists(h)
  /\ Happens(op, h, g, Outcomes(holder[h], holder[g], steps))

-----------------------------------------------------------------------------

CreateEmpty(h, g) ==
  /\ kind = "optional"
  /\ Creates("create_empty", h, g, O!FromNothing)

CreateValue(h, g, val) ==
  \/ kind = "optional" /\ Creates("create_value", h, g, O!FromCopy(val))
  \/ kind = "error_or" /\ Creates("create_value", h, g, E!FromCopy(val))
  \/ kind = "expected" /\ Creates("create_value", h, g, X!FromCopy(val))
  \/ /\ kind = "variant"
     /\ \E type \in {"T1", "T2"} :
          Creates("create_value", h, g, V!FromCopy(Object(type, val)))

CreateError(h, g) ==
  \/ /\ kind = "error_or"
     /\ \E code \in Codes :
          /\ ~Exists(h)
          /\ AllTruthful
          /\ \E s \in Constructed(holder[g], E!FromError(code)) :
               holder' = [holder EXCEPT ![h] = s.this]
          /\ last' = [NoOperation EXCEPT !.op = "create_error", !.code = code, !.operands = <<h, g>>]
          /\ UNCHANGED kind
  \/ /\ kind = "expected"
     /\ \E val \in Values : Creates("create_error", h, g, X!FromException(val))

CreateCopy(h, g) ==
  /\ Exists(g)
  /\ \/ kind = "optional" /\ Creates("create_copy", h, g, O!CopyFrom(holder[g]))
     \/ kind = "error_or" /\ Creates("create_copy", h, g, E!CopyFrom(holder[g]))
     \/ kind = "expected" /\ Creates("create_copy", h, g, X!CopyFrom(holder[g]))
     \/ kind = "variant" /\ Creates("create_copy", h, g, V!CopyFrom(holder[g]))

CreateMoved(h, g) ==
  /\ Exists(g)
  /\ \/ kind = "optional" /\ Creates("create_moved", h, g, O!MoveFrom(holder[g]))
     \/ kind = "error_or" /\ Creates("create_moved", h, g, E!MoveFrom(holder[g]))
     \/ kind = "expected" /\ Creates("create_moved", h, g, X!MoveFrom(holder[g]))
     \/ kind = "variant" /\ Creates("create_moved", h, g, V!MoveFrom(holder[g]))

AssignCopy(h, g) ==
  /\ Exists(g)
  /\ \/ kind = "optional" /\ Changes("assign_copy", h, g, O!AssignCopy(holder[h], holder[g]))
     \/ kind = "error_or" /\ Changes("assign_copy", h, g, E!AssignCopy(holder[h], holder[g]))
     \/ kind = "expected" /\ Changes("assign_copy", h, g, X!AssignCopy(holder[h], holder[g]))
     \/ kind = "variant" /\ Changes("assign_copy", h, g, V!AssignCopy(holder[h], holder[g]))

AssignMoved(h, g) ==
  /\ Exists(g)
  /\ \/ kind = "optional" /\ Changes("assign_moved", h, g, O!AssignMove(holder[h], holder[g]))
     \/ kind = "error_or" /\ Changes("assign_moved", h, g, E!AssignMove(holder[h], holder[g]))
     \/ kind = "expected" /\ Changes("assign_moved", h, g, X!AssignMove(holder[h], holder[g]))
     \/ kind = "variant" /\ Changes("assign_moved", h, g, V!AssignMove(holder[h], holder[g]))

AssignValue(h, g, val) ==
  \/ kind = "optional" /\ Changes("assign_value", h, g, O!AssignValue(holder[h], val))
  \/ kind = "error_or" /\ Changes("assign_value", h, g, E!AssignValue(holder[h], val))
  \/ kind = "expected" /\ Changes("assign_value", h, g, X!AssignValue(holder[h], val))
  \/ /\ kind = "variant"
     /\ \E type \in {"T1", "T2"} :
          Changes("assign_value", h, g, V!AssignValue(holder[h], Object(type, val)))

Emplace(h, g, val) ==
  \/ kind = "optional" /\ Changes("emplace", h, g, O!Emplace(holder[h], val))
  \/ kind = "expected" /\ Changes("emplace", h, g, X!Emplace(holder[h], val))

(* optional::operator=(none_t) *)
Reset(h, g) ==
  /\ kind = "optional"
  /\ Changes("reset", h, g, O!Reset(holder[h]))

(* optional::swap() *)
Swap(h, g) ==
  /\ kind = "optional"
  /\ Exists(h) /\ Exists(g)
  /\ Happens("swap", h, g, O!SwapOutcomes(holder[h], holder[g]))

(* variant::assign() *)
AssignFrom(h, g) ==
  /\ kind = "variant"
  /\ Exists(g)
  /\ Changes("assign_from", h, g, V!AssignFrom(holder[h], holder[g]))

Visit(h, g) ==
  /\ kind = "variant"
  /\ Changes("visit", h, g, V!Visit(holder[h]))

Compare(h, g) ==
  /\ kind = "variant"
  /\ Exists(g)
  /\ Changes("compare", h, g, V!Compare(holder[h], holder[g]))

(* The destructor. *)
End(h, g) ==
  LET steps == CASE kind = "optional" -> O!End(holder[h])
                 [] kind = "error_or" -> E!End(holder[h])
                 [] kind = "expected" -> X!End(holder[h])
                 [] kind = "variant" -> V!End(holder[h])
      Ended(s) == IF s.this.cell = Dead \/ ~Owned(s.this.cell)
                    THEN [s EXCEPT !.this = Gone] ELSE [s EXCEPT !.leaked = TRUE]
  IN  /\ Exists(h)
      /\ Happens("end", h, g, {Ended(s) : s \in Outcomes(holder[h], holder[g], steps)})

Next ==
  \E h, g \in Slots :
    /\ h # g
    /\ \/ CreateEmpty(h, g) \/ CreateError(h, g)
       \/ CreateCopy(h, g) \/ CreateMoved(h, g)
       \/ AssignCopy(h, g) \/ AssignMoved(h, g)
       \/ Swap(h, g) \/ AssignFrom(h, g) \/ Visit(h, g)
       \/ Reset(h, g) \/ Compare(h, g) \/ End(h, g)
       \/ \E val \in Values : CreateValue(h, g, val) \/ AssignValue(h, g, val) \/ Emplace(h, g, val)

Spec == Init /\ [][Next]_vars

-----------------------------------------------------------------------------

(* What a tag may not tell behind an operation on a holder of class k.     *)
MayLie(k, done) ==
  CASE k = "optional" -> FALSE
    [] k = "error_or" ->
         \/ done.op = "create_error" /\ done.code = E!Success
         \/ done.op = "assign_value" /\ done.on = "category" /\ done.threw
    [] k = "expected" ->
         \/ done.op = "emplace" /\ (done.on = "exception" \/ done.threw)
         \/ done.op = "assign_value" /\ done.on = "exception" /\ done.threw
         \/ /\ done.op \in {"assign_copy", "assign_moved"}
            /\ done.on = "exception" /\ done.from = "T" /\ done.threw
    [] k = "variant" ->
         \/ done.op \in {"create_copy", "create_moved"} /\ done.from = "dead"
         \/ done.op \in {"assign_copy", "assign_moved", "compare"}
              /\ "dead" \in {done.on, done.from}
         \/ done.op \in {"assign_value", "assign_from"} /\ done.on = "dead"
         \/ done.op = "create_copy" /\ done.threw
         \/ done.op \in {"assign_copy", "assign_moved", "assign_from"}
              /\ done.on # done.from /\ done.threw

(***************************************************************************)
(* What a tag says is what is alive in the storage, so that the right      *)
(* destructor will run, once.  Whatever throws:                            *)
(*   - always, for optional;                                               *)
(*   - for error_or, unless it was made from the error code 0, or copying  *)
(*     a value over an error has thrown;                                   *)
(*   - for expected, unless an object was emplaced over an exception, or   *)
(*     constructing an object in place of what was there has thrown;       *)
(*   - for variant, unless the operation involved one that was valueless,  *)
(*     copy construction has thrown, or the move into a variant of the     *)
(*     other type has.                                                     *)
(***************************************************************************)
TagsTellTheTruth == ~AllTruthful => MayLie(kind, last)

(* The copies of variants: the copy constructor overwrites the T1 of its   *)
(* base, and the assignment abandons its temporary.                        *)
MayLeak(k, done) ==
  /\ k = "variant"
  /\ done.op = "create_copy" \/ (done.op = "assign_copy" /\ done.on # done.from)

(***************************************************************************)
(* No object is overwritten or left behind without its destructor, except  *)
(* by the copies of variants.                                              *)
(***************************************************************************)
EveryObjectIsDestroyed == last.leaked => MayLeak(kind, last)

(* What an operation that throws makes of a holder that stays usable. *)
Spares(k, op, before, after) ==
  \/ after = before
  \/ /\ <<k, op>> \in {<<"optional", "emplace">>, <<"variant", "assign_value">>}
     /\ after.tag = "dead"
  \/ op = "swap" /\ after.tag = before.tag

(***************************************************************************)
(* An operation that throws has no effect on a holder that stays usable,   *)
(* or it has emptied it: a failed emplace() of an optional and a failed    *)
(* assignment of a value to a variant do.  The other operand of an         *)
(* operation that throws is never changed, except by a swap, which may     *)
(* lose one of the objects, but empties and fills nothing.                 *)
(***************************************************************************)
FailuresHaveNoEffect ==
  [][ last'.threw /\ (\A h \in Slots : Truthful(holder'[h])) =>
        \A h \in Slots : Spares(kind, last'.op, holder[h], holder'[h]) ]_vars

(* What op makes of its target and of its source. *)
Transfers(op, target, source, newTarget, newSource) ==
  CASE op \in {"create_copy", "assign_copy", "assign_from"} ->
         newTarget = source /\ newSource = source
    [] op \in {"create_moved", "assign_moved"} ->
         newTarget = source /\ newSource \in {source, MovedFrom(source)}
    [] op = "swap" ->
         /\ newTarget = source /\ newSource.tag = target.tag
         /\ source.tag # "dead" => newSource = target
    [] OTHER -> FALSE

(***************************************************************************)
(* Between usable holders a copy ends with two equal ones, of which the    *)
(* source is what it was.  A move ends with the target being what the      *)
(* source was, and the source, which keeps its tag, moved from.  A swap    *)
(* exchanges both; only when the other one is empty an object arrives      *)
(* there that does not have to be the one that this one had.  All other    *)
(* holders stay as they are.                                               *)
(***************************************************************************)
CopiesAndMovesTransfer ==
  [][ /\ last'.op \in {"create_copy", "assign_copy", "assign_from",
                       "create_moved", "assign_moved", "swap"}
      /\ ~last'.threw
      /\ (\A h \in Slots : Truthful(holder'[h]))
      => LET h == last'.operands[1]
             g == last'.operands[2]
         IN  /\ Transfers(last'.op, holder[h], holder[g], holder'[h], holder'[g])
             /\ \A f \in Slots \ {h, g} : holder'[f] = holder[f] ]_vars

=============================================================================
