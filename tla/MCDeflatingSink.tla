-------------------------- MODULE MCDeflatingSink --------------------------
EXTENDS DeflatingSink

(* More and less than fits, nothing at all, and flushes in all places. *)
MCCalls == {<<1>>, <<2>>, <<5>>, <<FlushElement>>, <<0>>,
            <<3, FlushElement>>, <<FlushElement, 1>>, <<2, 2>>}

=============================================================================
