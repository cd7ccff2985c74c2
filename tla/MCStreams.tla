----------------------------- MODULE MCStreams -----------------------------
EXTENDS Streams

MCPropagated(e) == e # "a"
MCTransformed(e) == <<e>>

Plain(classes, rests) == [class : classes, rest : rests]

Adapted(classes, inputs) == [class : classes, input : inputs, rest : {<<>>}, error : {FALSE}]

Elements == BoundedSeq({"a", "b"}, 3)

(* Everything a generator can do, and an error anywhere. *)
Interrupted == {s \in BoundedSeq({"a", "b", None}, 3) : s # <<>> => s[Len(s)] # None}
Faulty == BoundedSeq({"a", "b", Failed}, 3)

Ranges == BoundedSeq({<<>>, <<"a">>, <<"a", "b">>, <<"b", "c", "d">>}, 3)
Packets == BoundedSeq({<<>>, <<"a">>, <<"b", "c">>, Failed}, 3)

MCSources ==
  Plain({"memory", "mutable_memory", "range", "owning_direct", "owning_indirect"}, Elements)
    \cup Plain({"single"}, {<<>>, <<"a">>})
    \cup Plain({"generator"}, Interrupted)
    \cup Adapted({"filter", "transforming"}, Plain({"memory"}, Elements))
    \cup Adapted({"filter", "transforming"}, Plain({"generator"}, Interrupted))
    \cup Adapted({"throwing", "error_extracting"}, Plain({"memory", "owning_direct"}, Faulty))
    \cup Adapted({"error_extracting"}, Plain({"single"}, {<<"a">>, <<Failed>>}))
    \cup Adapted({"enumerating"}, Plain({"memory"}, Ranges))
    \cup Adapted({"received"}, Plain({"generator"}, Packets))

Child(class) == [class |-> class, received |-> <<>>, good |-> TRUE]

MCChildren ==
  {<<Child(c), Child(d)>> : c, d \in {"container", "function", "ostream_ref", "ostream"}}

=============================================================================
