--------------------------- MODULE MCAsyncSource ---------------------------
EXTENDS AsyncSource

(* All gets use the same buffer. *)
MCBufferOf == [c \in Gets |-> "x"]

=============================================================================
