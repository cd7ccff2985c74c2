------------------------------ MODULE Sources ------------------------------
(***************************************************************************)
(* The sources of silicium/source: what map_next() and copy_next() of each *)
(* class return and leave behind.  A source is a record with the name of   *)
(* its class.  The plain ones have in "rest" what is still to come; an     *)
(* adaptor has the source under it in "input".                             *)
(***************************************************************************)
EXTENDS Naturals, SequencesExt

CONSTANTS
  None,            \* Si::none
  Failed,          \* an error_or that holds an error
  Propagated(_),   \* the predicate of a filter_source
  Transformed(_)   \* the function of a transforming_source

From(s, i) == SubSeq(s, i + 1, Len(s))

UpTo(s, i) == IF i < Len(s) THEN SubSeq(s, 1, i) ELSE s

(* A call has returned out, or nothing because it threw. *)
Returns(s, out) == [source |-> s, out |-> out, threw |-> FALSE]

Throws(s) == [source |-> s, out |-> <<>>, threw |-> TRUE]

-----------------------------------------------------------------------------
(* Si::get(), once after the other.                                        *)

(* What the calls return until there is nothing more for the first time.   *)
(* Only the function of a generator_source returns None in between.        *)
Results(s) == Append(s.rest, None)

(* The elements among the first k results. *)
Got(s, k) == SelectSeq(SubSeq(Results(s), 1, k), LAMBDA e : e # None)

After(s, k) == [s EXCEPT !.rest = From(@, k)]

(* How many calls a loop makes that ends with a None, with a result that   *)
(* breaks it, or when Enough(k) holds after k of them.                     *)
Gets(s, Enough(_), breaking) ==
  LET Ends(k) == Enough(k) \/ (k > 0 /\ Results(s)[k] \in breaking \cup {None})
  IN  CHOOSE k \in 0..Len(Results(s)) : Ends(k) /\ \A j \in 0..(k - 1) : ~Ends(j)

-----------------------------------------------------------------------------
(* The plain sources.  Each of them copies what is there until the         *)
(* destination is full; they differ in what they map.                      *)

FillFrom(s, size) ==
  LET k == Gets(s, LAMBDA j : j = size, {}) IN Returns(After(s, k), Got(s, k))

(* memory_source shows everything and keeps it. *)
MemoryMapNext(s, size) == Returns(s, s.rest)
MemoryCopyNext(s, size) == FillFrom(s, size)

(* mutable_memory_source only copies. *)
MutableMemoryMapNext(s, size) == Returns(s, <<>>)
MutableMemoryCopyNext(s, size) == FillFrom(s, size)

(* range_source over pointers shows everything and keeps it. *)
RangeMapNext(s, size) == Returns(s, s.rest)
RangeCopyNext(s, size) == FillFrom(s, size)

(* owning_source of an array gives away what it shows, but never more than *)
(* it was asked for; of another container it only copies.                  *)
OwningDirectMapNext(s, size) == Returns(After(s, size), UpTo(s.rest, size))
OwningDirectCopyNext(s, size) == FillFrom(s, size)
OwningIndirectMapNext(s, size) == Returns(s, <<>>)
OwningIndirectCopyNext(s, size) == FillFrom(s, size)

(* single_source gives its element away, whatever it is asked for. *)
SingleMapNext(s, size) == Returns(After(s, 1), s.rest)
SingleCopyNext(s, size) == FillFrom(s, size)

(* generator_source only copies; the None that ends a copy is used up. *)
GeneratorMapNext(s, size) == Returns(s, <<>>)
GeneratorCopyNext(s, size) == FillFrom(s, size)

(* It returns how many elements it has thrown away. *)
GeneratorSkip(s, size) == FillFrom(s, size)

PlainMapNext(s, size) ==
  CASE s.class = "memory" -> MemoryMapNext(s, size)
    [] s.class = "mutable_memory" -> MutableMemoryMapNext(s, size)
    [] s.class = "range" -> RangeMapNext(s, size)
    [] s.class = "owning_direct" -> OwningDirectMapNext(s, size)
    [] s.class = "owning_indirect" -> OwningIndirectMapNext(s, size)
    [] s.class = "single" -> SingleMapNext(s, size)
    [] s.class = "generator" -> GeneratorMapNext(s, size)

-----------------------------------------------------------------------------
(* The adaptors.                                                           *)

(* filter_source::map_next is still to be written. *)
FilterMapNext(s, size) == Throws(s)

(* Seeded bug: counts what it has looked at. *)
FilterCopyNextCounting(s, size) ==
  LET k == Gets(s.input, LAMBDA j : j = size, {})
  IN  Returns([s EXCEPT !.input = After(@, k)], SelectSeq(Got(s.input, k), Propagated))

FilterCopyNext(s, size) ==
  LET Passed(j) == SelectSeq(Got(s.input, j), Propagated)
      k == Gets(s.input, LAMBDA j : Len(Passed(j)) = size, {})
  IN  Returns([s EXCEPT !.input = After(@, k)], Passed(k))

TransformingMapNext(s, size) == Returns(s, <<>>)

TransformingCopyNext(s, size) ==
  LET k == Gets(s.input, LAMBDA j : j = size, {})
      taken == Got(s.input, k)
  IN  Returns([s EXCEPT !.input = After(@, k)], [i \in DOMAIN taken |-> Transformed(taken[i])])

(* make_throwing_source transforms with error_or::get: what was copied in  *)
(* front of the error goes with the exception.                             *)
ThrowingCopyNext(s, size) ==
  LET k == Gets(s.input, LAMBDA j : j = size, {Failed})
      rest == [s EXCEPT !.input = After(@, k)]
  IN  IF k > 0 /\ Results(s.input)[k] = Failed THEN Throws(rest)
                                               ELSE Returns(rest, Got(s.input, k))

(* enumerating_source::map_next ignores the size and gives away all it shows. *)
EnumeratingMapNext(s, size) ==
  IF s.rest # <<>> THEN Returns([s EXCEPT !.rest = <<>>], s.rest)
  ELSE Returns([s EXCEPT !.input = After(@, 1)], FlattenSeq(Got(s.input, 1)))

(* Seeded bug: what the destination had no room for is not kept. *)
EnumeratingCopyNextForgetful(s, size) ==
  LET Ranges(j) == s.rest \o FlattenSeq(Got(s.input, j))
      k == Gets(s.input, LAMBDA j : Len(Ranges(j)) >= size, {<<>>})
  IN  Returns([s EXCEPT !.input = After(@, k), !.rest = <<>>], UpTo(Ranges(k), size))

(* An empty range ends the copy. *)
EnumeratingCopyNext(s, size) ==
  LET Ranges(j) == s.rest \o FlattenSeq(Got(s.input, j))
      k == Gets(s.input, LAMBDA j : Len(Ranges(j)) >= size, {<<>>})
  IN  Returns([s EXCEPT !.input = After(@, k), !.rest = From(Ranges(k), size)],
              UpTo(Ranges(k), size))

(* error_extracting_source shows one value of what its input maps, and     *)
(* gives it away if the input does.                                        *)
ErrorExtractingMapNext(s, size) ==
  LET original == PlainMapNext(s.input, 1)
      rest == [s EXCEPT !.input = original.source]
  IN  IF s.error THEN Returns(s, <<>>)
      ELSE IF original.out # <<>> /\ Head(original.out) = Failed
           THEN Returns([rest EXCEPT !.error = TRUE], <<>>)
           ELSE Returns(rest, UpTo(original.out, 1))

ErrorExtractingCopyNext(s, size) ==
  LET k == Gets(s.input, LAMBDA j : j = size, {Failed})
  IN  IF s.error THEN Returns(s, <<>>)
      ELSE Returns([s EXCEPT !.input = After(@, k),
                             !.error = k > 0 /\ Results(s.input)[k] = Failed],
                   SelectSeq(Got(s.input, k), LAMBDA e : e # Failed))

(* received_from_socket_source takes an error for the end, once, and       *)
(* shows without giving away.                                              *)
ReceivedMapNext(s, size) ==
  LET received == SelectSeq(Got(s.input, 1), LAMBDA e : e # Failed)
      buffered == [s EXCEPT !.input = After(@, 1), !.rest = FlattenSeq(received)]
  IN  IF s.rest # <<>> THEN Returns(s, s.rest) ELSE Returns(buffered, buffered.rest)

(* It copies from one received range only. *)
ReceivedCopyNext(s, size) ==
  LET mapped == ReceivedMapNext(s, size)
  IN  Returns([mapped.source EXCEPT !.rest = From(@, size)], UpTo(mapped.out, size))

-----------------------------------------------------------------------------

MapNext(s, size) ==
  CASE s.class = "filter" -> FilterMapNext(s, size)
    [] s.class \in {"transforming", "throwing"} -> TransformingMapNext(s, size)
    [] s.class = "enumerating" -> EnumeratingMapNext(s, size)
    [] s.class = "error_extracting" -> ErrorExtractingMapNext(s, size)
    [] s.class = "received" -> ReceivedMapNext(s, size)
    [] OTHER -> PlainMapNext(s, size)

CopyNext(s, size) ==
  CASE s.class = "memory" -> MemoryCopyNext(s, size)
    [] s.class = "mutable_memory" -> MutableMemoryCopyNext(s, size)
    [] s.class = "range" -> RangeCopyNext(s, size)
    [] s.class = "owning_direct" -> OwningDirectCopyNext(s, size)
    [] s.class = "owning_indirect" -> OwningIndirectCopyNext(s, size)
    [] s.class = "single" -> SingleCopyNext(s, size)
    [] s.class = "generator" -> GeneratorCopyNext(s, size)
    [] s.class = "filter" -> FilterCopyNext(s, size)
    [] s.class = "transforming" -> TransformingCopyNext(s, size)
    [] s.class = "throwing" -> ThrowingCopyNext(s, size)
    [] s.class = "enumerating" -> EnumeratingCopyNext(s, size)
    [] s.class = "error_extracting" -> ErrorExtractingCopyNext(s, size)
    [] s.class = "received" -> ReceivedCopyNext(s, size)

(* Si::get *)
Get(s) == CopyNext(s, 1)

=============================================================================
