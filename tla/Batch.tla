------------------------------- MODULE Batch -------------------------------
(***************************************************************************)
(* What `obs-bench run-batch` promises: the entries of the file are tried  *)
(* in order, each of them at most once by a process; a try adds one row,   *)
(* measured entirely on what that very try set up, or is counted as failed *)
(* (an interrupted one may do both); the process reports success only when *)
(* every entry has its row.                                                *)
(* A process may die at any moment, and the operator may start the file    *)
(* again after any end; rows are never lost.                               *)
(***************************************************************************)
EXTENDS Naturals, Sequences

CONSTANTS Total    \* number of entries in the file

VARIABLES
    proc,     \* which process works on the file
    next,     \* the entry to be tried next
    rows,     \* the results table: [of |-> the try, on |-> what was measured]
    failed,   \* entries of this process counted as failed
    outcome   \* "running", "killed", "ok" or "failed"

vars == <<proc, next, rows, failed, outcome>>

Init == /\ proc = 1 /\ next = 1 /\ rows = <<>> /\ failed = 0
        /\ outcome = "running"

Record ==
    /\ outcome = "running" /\ next <= Total
    /\ rows' = Append(rows, [of |-> <<proc, next>>, on |-> <<proc, next>>])
    /\ next' = next + 1
    /\ UNCHANGED <<proc, failed, outcome>>

\* The row is there, although the process was told that it is not.
RecordUnnoticed ==
    /\ outcome = "running" /\ next <= Total
    /\ rows' = Append(rows, [of |-> <<proc, next>>, on |-> <<proc, next>>])
    /\ next' = next + 1 /\ failed' = failed + 1
    /\ UNCHANGED <<proc, outcome>>

Skip ==
    /\ outcome = "running" /\ next <= Total
    /\ next' = next + 1 /\ failed' = failed + 1
    /\ UNCHANGED <<proc, rows, outcome>>

HasRow(e) == \E k \in DOMAIN rows : rows[k].of = <<proc, e>>

\* Success is reported only when every entry has its row.
Finish ==
    /\ outcome = "running" /\ next > Total
    /\ \/ outcome' = "ok" /\ failed = 0 /\ \A e \in 1..Total : HasRow(e)
       \/ outcome' = "failed" /\ failed > 0
    /\ UNCHANGED <<proc, next, rows, failed>>

Kill ==
    /\ outcome = "running" /\ outcome' = "killed"
    /\ UNCHANGED <<proc, next, rows, failed>>

Restart ==
    /\ outcome # "running" /\ outcome' = "running"
    /\ proc' = proc + 1 /\ next' = 1 /\ failed' = 0
    /\ UNCHANGED rows

Next == Record \/ RecordUnnoticed \/ Skip \/ Finish \/ Kill \/ Restart

Spec == Init /\ [][Next]_vars

=============================================================================
