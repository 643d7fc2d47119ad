---------------------------- MODULE ResultsTable ----------------------------
(***************************************************************************)
(* What the results database promises to its readers and to the rows in    *)
(* it: rows are added one at a time and never go away, and the change to   *)
(* the new schema is one step that keeps them all.                         *)
(***************************************************************************)
CONSTANT Rows

VARIABLES
    schema,   \* none, legacy, foreign or new
    rows      \* rows a reader finds

vars == <<schema, rows>>

Init ==
    /\ schema \in {"none", "legacy", "foreign", "new"}
    /\ rows \subseteq Rows
    /\ schema = "none" => rows = {}

\* A database without the table gets it in the new schema.
Upgrade ==
    /\ schema \in {"none", "legacy"}
    /\ schema' = "new" /\ rows' = rows

Add ==
    /\ schema = "new"
    /\ \E r \in Rows \ rows : rows' = rows \cup {r}
    /\ schema' = schema

Next == Upgrade \/ Add

Spec == Init /\ [][Next]_vars

=============================================================================
