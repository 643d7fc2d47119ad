------------------------------ MODULE MCDeploy ------------------------------
(***************************************************************************)
(* Three deployments of every unit: one that leaves something behind, one  *)
(* that fails on its way, one that must cope with both.                    *)
(***************************************************************************)
EXTENDS Deploy, TLC

Symmetric == Permutations(Nodes)

=============================================================================
