------------------------------- MODULE Sinks -------------------------------
(***************************************************************************)
(* The sinks of silicium/sink at the ends of a pipeline: what append() of  *)
(* one element can do to each of them, and to several under a multi_sink.  *)
(* A sink is a record with the name of its class, what it has received and *)
(* whether the stream under it is still good.                              *)
(***************************************************************************)
EXTENDS Naturals, Sequences

Result(sink, result) == [sink |-> sink, result |-> result]

Received(sink, e) == [sink EXCEPT !.received = Append(@, e)]

(* container_sink and iterator_sink *)
ContainerAppend(sink, e) == {Result(Received(sink, e), "success")}

(* function_sink returns what its function returns. *)
FunctionAppend(sink, e) ==
  {Result(Received(sink, e), "success"), Result(sink, "error")}

(* std::ostream::write: nothing more is written once the stream is bad. *)
Write(sink, e) ==
  (IF sink.good THEN {Received(sink, e)} ELSE {}) \cup {[sink EXCEPT !.good = FALSE]}

(* ostream_ref_sink does not look at its stream. *)
OstreamRefAppend(sink, e) == {Result(s, "success") : s \in Write(sink, e)}

(* The stream of an ostream_sink throws when it is bad. *)
OstreamAppend(sink, e) ==
  {Result(s, IF s.good THEN "success" ELSE "exception") : s \in Write(sink, e)}

ChildAppend(sink, e) ==
  CASE sink.class = "container" -> ContainerAppend(sink, e)
    [] sink.class = "function" -> FunctionAppend(sink, e)
    [] sink.class = "ostream_ref" -> OstreamRefAppend(sink, e)
    [] sink.class = "ostream" -> OstreamAppend(sink, e)

(* What can become of all children of a multi_sink, if each is asked. *)
AllOutcomes(children, e) ==
  LET Some == UNION {ChildAppend(children[i], e) : i \in DOMAIN children}
  IN  {o \in [DOMAIN children -> Some] :
         \A i \in DOMAIN children : o[i] \in ChildAppend(children[i], e)}

(* Seeded bug: every child is asked and the last result returned. *)
MultiAppendLastResult(children, e) ==
  {[children |-> [i \in DOMAIN children |-> o[i].sink],
    result |-> o[Len(children)].result] : o \in AllOutcomes(children, e)}

(* multi_sink stops at the first child that does not succeed.  The         *)
(* children in front of it have got the element, those behind have not.    *)
MultiAppend(children, e) ==
  LET Asked(o, i) == \A j \in 1..(i - 1) : o[j].result = "success"
      Stops(o, i) == Asked(o, i) /\ o[i].result # "success"
  IN  {[children |-> [i \in DOMAIN children |->
                        IF Asked(o, i) THEN o[i].sink ELSE children[i]],
        result |-> IF \E i \in DOMAIN children : Stops(o, i)
                   THEN o[CHOOSE i \in DOMAIN children : Stops(o, i)].result
                   ELSE "success"] : o \in AllOutcomes(children, e)}

(* Seeded bug: the error is returned as if nothing had happened. *)
ThrowingAppendQuiet(children, e) == MultiAppend(children, e)

(* throwing_sink makes an exception of an error. *)
ThrowingAppend(children, e) ==
  {[r EXCEPT !.result = IF @ = "error" THEN "exception" ELSE @] :
     r \in MultiAppend(children, e)}

SinkAppend(throwing, children, e) ==
  IF throwing THEN ThrowingAppend(children, e) ELSE MultiAppend(children, e)

=============================================================================
