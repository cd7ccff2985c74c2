------------------------------ MODULE Streams ------------------------------
(***************************************************************************)
(* A source and a tree of sinks in use: a program reads from the source    *)
(* with map_next(), copy_next() and async_source::async_get(), in any      *)
(* order and of any size, and lets Si::copy (sink/copy.hpp) move what is   *)
(* left into the sinks.                                                    *)
(***************************************************************************)
EXTENDS Sources, Sinks, FiniteSets

CONSTANTS
  AllSources,   \* the sources to begin with
  AllChildren,  \* what the children of a multi_sink can be
  MaxSize,      \* the largest size a caller asks for
  Unlimited     \* std::numeric_limits<std::size_t>::max()

ChildClasses == {"container", "function", "ostream_ref", "ostream"}

(* The children have not received anything yet; a stream may be bad.       *)
ASSUME ChildrenAssumption ==
  AllChildren \subseteq Seq([class : ChildClasses, received : {<<>>}, good : BOOLEAN])

(* Nobody has more than a size can count.                                  *)
ASSUME SizeAssumption ==
  /\ Unlimited \in Nat /\ MaxSize \in 0..Unlimited
  /\ \A s \in AllSources :
       Len(s.rest) <= Unlimited /\ ("input" \in DOMAIN s => Len(s.input.rest) <= Unlimited)

VARIABLES
  source,    \* the source
  call,      \* the last call of the program, and what it returned
  throwing,  \* whether there is a throwing_sink around the multi_sink
  children,  \* the children of the multi_sink
  copying,   \* where Si::copy is: "before", "loop", "returned" or "threw"
  taken,     \* the elements Si::copy has got from the source
  refused    \* the positions in taken whose append() did not succeed

streamVars == <<source, call, throwing, children, copying, taken, refused>>

sinkVars == <<throwing, children, copying, taken, refused>>

NoCall == [how |-> "none", size |-> 0, out |-> <<>>, threw |-> FALSE]

StreamInit ==
  /\ source \in AllSources
  /\ call = NoCall
  /\ throwing = FALSE /\ children = <<>>
  /\ copying = "before" /\ taken = <<>> /\ refused = {}

-----------------------------------------------------------------------------
(* Reading.                                                                *)

Called(how, size, r) ==
  /\ source' = r.source
  /\ call' = [how |-> how, size |-> size, out |-> r.out, threw |-> r.threw]

CallMapNext(size) ==
  /\ copying = "before"
  /\ Called("mapped", size, MapNext(source, size))
  /\ UNCHANGED sinkVars

CallCopyNext(size) ==
  /\ copying = "before"
  /\ Called("copied", size, CopyNext(source, size))
  /\ UNCHANGED sinkVars

(* Only generator_source has a skip(); out is what was thrown away. *)
CallSkip(size) ==
  /\ copying = "before" /\ source.class = "generator"
  /\ Called("skipped", size, GeneratorSkip(source, size))
  /\ UNCHANGED sinkVars

(* The work of async_get: all that can be mapped, or else a copy. *)
AsyncGet(size) ==
  LET mapped == MapNext(source, Unlimited)
  IN  /\ copying = "before"
      /\ IF mapped.threw \/ mapped.out # <<>>
         THEN Called("mapped", Unlimited, mapped)
         ELSE Called("copied", size, CopyNext(mapped.source, size))
      /\ UNCHANGED sinkVars

-----------------------------------------------------------------------------
(* Si::copy.                                                               *)

(* The program puts sinks together and calls Si::copy. *)
StartCopy ==
  /\ copying = "before"
  /\ copying' = "loop"
  /\ throwing' \in BOOLEAN
  /\ children' \in AllChildren
  /\ call' = NoCall
  /\ UNCHANGED <<source, taken, refused>>

(* Si::get returned none. *)
CopyReturns ==
  /\ copying = "loop"
  /\ ~Get(source).threw /\ Get(source).out = <<>>
  /\ source' = Get(source).source
  /\ copying' = "returned"
  /\ UNCHANGED <<call, throwing, children, taken, refused>>

CopyThrows ==
  /\ copying = "loop"
  /\ Get(source).threw
  /\ source' = Get(source).source
  /\ copying' = "threw"
  /\ UNCHANGED <<call, throwing, children, taken, refused>>

(* Nobody looks at the error that append() returns. *)
CopyElement ==
  /\ copying = "loop"
  /\ Get(source).out # <<>>
  /\ source' = Get(source).source
  /\ taken' = Append(taken, Head(Get(source).out))
  /\ \E r \in SinkAppend(throwing, children, Head(Get(source).out)) :
       /\ children' = r.children
       /\ copying' = IF r.result = "exception" THEN "threw" ELSE "loop"
       /\ refused' = refused \cup (IF r.result = "success" THEN {} ELSE {Len(taken')})
  /\ UNCHANGED <<call, throwing>>

StreamNext ==
  \/ \E size \in 0..MaxSize :
       CallMapNext(size) \/ CallCopyNext(size) \/ CallSkip(size) \/ AsyncGet(size)
  \/ StartCopy
  \/ CopyReturns
  \/ CopyThrows
  \/ CopyElement

StreamSpec == StreamInit /\ [][StreamNext]_streamVars

-----------------------------------------------------------------------------
(* What the elements of a source are, regardless of how they are read.     *)

Values(s) == SelectSeq(s, LAMBDA e : e \notin {None, Failed})

Contents(s) ==
  CASE s.class = "filter" -> SelectSeq(Values(s.input.rest), Propagated)
    [] s.class = "transforming" ->
         LET v == Values(s.input.rest) IN [i \in DOMAIN v |-> Transformed(v[i])]
    [] s.class = "throwing" -> Values(s.input.rest)
    [] s.class \in {"enumerating", "received"} -> s.rest \o FlattenSeq(Values(s.input.rest))
    [] s.class = "error_extracting" ->
         LET error == SelectInSeq(s.input.rest, LAMBDA e : e = Failed)
         IN  IF s.error THEN <<>>
             ELSE Values(IF error = 0 THEN s.input.rest ELSE UpTo(s.input.rest, error - 1))
    [] OTHER -> Values(s.rest)

(* The plain source at the end of the chain. *)
Origin(s) == IF "input" \in DOMAIN s THEN s.input ELSE s

(* map_next() of these gives away what it shows; of the others it shows    *)
(* the same again.                                                         *)
MapGivesAway(s) ==
  \/ s.class = "enumerating"
  \/ Origin(s).class \in {"owning_direct", "single"}

(***************************************************************************)
(* Reading in whatever way neither loses nor repeats nor invents an        *)
(* element, with two exceptions.  map_next() of memory_source,             *)
(* range_source, received_from_socket_source and of an                     *)
(* error_extracting_source over the first two does not give away what it   *)
(* shows; that is also what async_get then hands out again and again.  And *)
(* a copy_next() of throwing_source that throws takes the elements in      *)
(* front of the error with it, if it was asked for more than one.          *)
(***************************************************************************)
ReadsAreExact ==
  [][CASE copying = "loop" \/ copying' = "loop" ->
            Contents(source) = From(taken', Len(taken)) \o Contents(source')
       [] call'.threw ->
            \E lost \in 0..(MaxSize - 1) :
              /\ lost < call'.size \/ lost = 0
              /\ source.class = "throwing" \/ lost = 0
              /\ Contents(source') = From(Contents(source), lost)
       [] call'.how = "mapped" /\ ~MapGivesAway(source) ->
            /\ Contents(source') = Contents(source)
            /\ IsPrefix(call'.out, Contents(source))
       [] OTHER -> Contents(source) = call'.out \o Contents(source')]_streamVars

(* What a source has taken from its origin in a step contains an end that  *)
(* is not one: a None or an error in the middle, or an empty range.        *)
Paused ==
  LET used == Len(Origin(source).rest) - Len(Origin(source').rest)
  IN  \E i \in 1..used : Origin(source).rest[i] \in {None, Failed, <<>>}

(***************************************************************************)
(* A copy_next() with room for an element that returns none, and so the    *)
(* end of Si::copy, means that the source has none, unless a function of a *)
(* generator said so in the middle, an error was taken for the end         *)
(* (received_from_socket_source), or a range was empty.                    *)
(***************************************************************************)
EmptyMeansEnd ==
  [][ \/ copying' = "before" /\ call'.how = "copied" /\ call'.size > 0 /\ ~call'.threw
                     /\ call'.out = <<>>
      \/ copying = "loop" /\ copying' = "returned"
     => Contents(source') = <<>> \/ Paused]_streamVars

(* s consists of the elements of t at the given positions, in their order. *)
Selects(t, positions, s) ==
  /\ Len(s) = Cardinality(positions)
  /\ \A p \in positions : s[Cardinality(positions \cap 1..p)] = t[p]

(* An ostream_ref_sink whose stream is bad drops what it gets. *)
Drops(child) == child.class = "ostream_ref" /\ ~child.good

(***************************************************************************)
(* Whatever a child of the multi_sink lacks of the elements that Si::copy  *)
(* has moved was reported by an append(), if to nobody who listens, and    *)
(* what it has got it has once and in order.  Only an ostream_ref_sink     *)
(* loses elements without a word.                                          *)
(***************************************************************************)
LossesAreReported ==
  \A i \in DOMAIN children :
    \E positions \in SUBSET DOMAIN taken :
      /\ Selects(taken, positions, children[i].received)
      /\ Drops(children[i]) \/ DOMAIN taken \ positions \subseteq refused

(***************************************************************************)
(* With a throwing_sink in front nothing is missing in the middle: the     *)
(* children have everything that Si::copy got from the source, but for the *)
(* last element when it ended with an exception.                           *)
(***************************************************************************)
ThrowingSinkLeavesNoHoles ==
  throwing =>
    \A i \in DOMAIN children :
      \/ Drops(children[i])
      \/ children[i].received = taken
      \/ copying = "threw" /\ children[i].received = Front(taken)

=============================================================================
