--------------------------- MODULE MCAdvisorPage ---------------------------
(***************************************************************************)
(* Two instruments of each section and two edits: three renders of which   *)
(* any two overlap.                                                        *)
(***************************************************************************)
EXTENDS AdvisorPage

=============================================================================
