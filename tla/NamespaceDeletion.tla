-------------------------- MODULE NamespaceDeletion --------------------------
(***************************************************************************)
(* What RecreateNamespace promises to the services that deploy into the    *)
(* namespace: it is deleted, once and for good, before a call answers nil, *)
(* and a new one takes its place only after such an answer.  An error      *)
(* promises nothing: the deletion may have begun, and may go on.           *)
(***************************************************************************)
VARIABLES
    phase,   \* of the namespace: Active, Terminating or Gone
    call     \* open, or how it ended: ok, err, created

vars == <<phase, call>>

Init ==
    /\ phase \in {"Active", "Terminating", "Gone"}
    /\ call = "open"

\* By this call or by another client; the answer may be lost.
Delete ==
    /\ phase = "Active" /\ phase' = "Terminating"
    /\ call' \in (IF call = "open" THEN {"open", "err"} ELSE {call})

Vanish ==
    /\ phase = "Terminating" /\ phase' = "Gone"
    /\ UNCHANGED call

Deleted ==
    /\ call = "open" /\ phase = "Gone"
    /\ call' = "ok"
    /\ UNCHANGED phase

Fail ==
    /\ call \in {"open", "ok"}
    /\ call' = "err"
    /\ UNCHANGED phase

Create ==
    /\ call = "ok" /\ phase = "Gone"
    /\ phase' = "Active" /\ call' = "created"

NextCall ==
    /\ call \in {"err", "created"}
    /\ call' = "open"
    /\ UNCHANGED phase

Next == Delete \/ Vanish \/ Deleted \/ Fail \/ Create \/ NextCall

Spec == Init /\ [][Next]_vars

=============================================================================
