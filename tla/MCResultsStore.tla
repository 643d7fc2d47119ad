--------------------------- MODULE MCResultsStore ---------------------------
(***************************************************************************)
(* Two processes on one file, two rows there already and two to be saved.  *)
(***************************************************************************)
EXTENDS ResultsStore

=============================================================================
