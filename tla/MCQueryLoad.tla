---------------------------- MODULE MCQueryLoad ----------------------------
(***************************************************************************)
(* Three seconds of load; a query may outlast the probe's own timeout, as  *)
(* 300 seconds outlast 90 in the code.                                     *)
(***************************************************************************)
EXTENDS QueryLoad

=============================================================================
