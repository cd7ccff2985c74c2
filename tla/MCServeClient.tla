--------------------------- MODULE MCServeClient ---------------------------
EXTENDS ServeClient

(* A status line, a header line that is too long for the array, the empty  *)
(* line and the content. *)
MCPieces == <<<<1>>, <<2, 3, 4>>, <<5>>, <<6>>>>

=============================================================================
