---------------------------- MODULE MCNamespace ----------------------------
(***************************************************************************)
(* A claim, a deployment (the last kind the forced pass visits) and a      *)
(* custom resource (a kind it does not visit), for two calls in a row.     *)
(***************************************************************************)
EXTENDS Namespace, TLC

CONSTANTS pvc, depl, cr

MCObjects == {pvc, depl, cr}

MCKindOf == (pvc :> "PersistentVolumeClaim") @@ (depl :> "Deployment")
            @@ (cr :> "CustomResource")

=============================================================================
