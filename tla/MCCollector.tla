---------------------------- MODULE MCCollector ----------------------------
(***************************************************************************)
(* Half seconds; a run in smoke mode, one whose window is less than a      *)
(* second, and one of more than the warm-up.  Two queries that reach their *)
(* timeout outlast the rounds, as in the code.                             *)
(***************************************************************************)
EXTENDS Collector

=============================================================================
