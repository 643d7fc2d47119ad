--------------------------- MODULE MCLogGenerator ---------------------------
(***************************************************************************)
(* Five lines a second in batches of two: three requests, the last of them *)
(* short.  A request may outlast the second, as ten seconds do in the code.*)
(***************************************************************************)
EXTENDS LogGenerator

=============================================================================
