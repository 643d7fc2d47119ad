------------------------------- MODULE Advisor -------------------------------
(***************************************************************************)
(* The server of obs-advisor.  Every request reads the whole results table *)
(* once, in no particular order, while obs-bench upgrades it and adds rows *)
(* to it: ResultsTable is what the server can rely on.  An estimate is the *)
(* capacity model's, of the rows of one instrument.                        *)
(***************************************************************************)
EXTENDS CapacityModel

CONSTANTS
    Subjects,    \* instruments, each with its workload type
    Rows,        \* rows obs-bench can come to save
    Loads,       \* loads that are asked for
    Retentions,  \* retentions that are asked for
    MaxRows,     \* bound: rows in the table
    NoReply

VARIABLES
    schema, rows,  \* of the results database
    reply          \* the answer just given, NoReply before it

serverVars == <<schema, rows, reply>>

\* obs-bench takes loads and retentions that are positive.
ASSUME AdvisorAssumption ==
    /\ \A r \in Rows :
          /\ r.of \in Subjects
          /\ r.load_value \in Nat \ {0} /\ r.retention_days \in Nat \ {0}
          /\ r.duration_seconds \in Nat /\ \A k \in Keys : r.use[k] \in Nat
    /\ Loads \subseteq Nat
    /\ \A target \in Retentions : AtMost(Zero, target) /\ target # Zero

Results == INSTANCE ResultsTable

Statuses == {200, 400, 500}

ServerTypeOK ==
    /\ schema \in {"none", "legacy", "foreign", "new"}
    /\ rows \subseteq Rows
    /\ reply # NoReply => reply.status \in Statuses

ServerInit ==
    /\ rows \in SUBSET Rows /\ IsFiniteSet(rows) /\ Cardinality(rows) <= MaxRows
    /\ Results!Init
    /\ reply = NoReply

\* obs-bench, seen by a reader of its database.
Bench ==
    /\ Results!Next
    /\ Cardinality(rows') <= MaxRows
    /\ reply = NoReply /\ UNCHANGED reply

\* A legacy table has not the columns of the query; any read may fail.
Unavailable ==
    /\ reply = NoReply
    /\ reply' = [status |-> 500]
    /\ UNCHANGED <<schema, rows>>

Measurements ==
    /\ reply = NoReply /\ schema = "new"
    /\ reply' = [status |-> 200, instruments |-> {r.of : r \in rows}]
    /\ UNCHANGED <<schema, rows>>

Subset(s) == {r \in rows : r.of = s}

NoRows(s) ==
    /\ reply = NoReply /\ schema = "new"
    /\ Subset(s) = {}
    /\ reply' = [status |-> 400]
    /\ UNCHANGED <<schema, rows>>

BuildReport(from, load, target) ==
    [status   |-> 200,
     from     |-> from,
     load     |-> load,
     target   |-> target,
     estimate |-> [k \in Keys |-> EstimateResource(from, load, target, k)],
     mape     |-> [k \in Keys |-> ValidateHoldout(from, k)]]

Estimate(s, load, target) ==
    /\ reply = NoReply /\ schema = "new"
    /\ Subset(s) # {}
    /\ \E from \in SetToSeqs(Subset(s)) : reply' = BuildReport(from, load, target)
    /\ UNCHANGED <<schema, rows>>

\* Handlers keep nothing: the next request finds the server as it was.
Served ==
    /\ reply # NoReply
    /\ reply' = NoReply
    /\ UNCHANGED <<schema, rows>>

ServerNext ==
    \/ Bench \/ Unavailable \/ Measurements \/ Served
    \/ \E s \in Subjects : NoRows(s)
    \/ \E s \in Subjects, load \in Loads, target \in Retentions : Estimate(s, load, target)

ServerSpec == ServerInit /\ [][ServerNext]_serverVars

-----------------------------------------------------------------------------
Estimated == reply # NoReply /\ "estimate" \in DOMAIN reply

FromRows    == Range(reply.from)
OfKey(k)    == {r \in FromRows : r.use[k] > 0}
Distinct(S) == \A r, q \in S : r.load_value = q.load_value => r = q

\* What a measurement alone says of its own load at the retention asked for.
ScaledTo(r, k) == Scaled(r, reply.target, EstimateAlpha(reply.from, k), k)

Neighbours(p, q, S) ==
    /\ p.load_value <= reply.load /\ reply.load <= q.load_value
    /\ p.load_value < q.load_value
    /\ \A r \in S : r.load_value <= p.load_value \/ q.load_value <= r.load_value

(***************************************************************************)
(* Between two measured loads the estimate lies between what the nearest   *)
(* measurements say, each brought to the wanted retention: the search for  *)
(* the segment in interpolate stops at the right one, at a measured load   *)
(* and between two, with rows left out that have no value for the key.     *)
(***************************************************************************)
Bracketed ==
    Estimated =>
        \A k \in Keys : Distinct(OfKey(k)) =>
            \A p, q \in OfKey(k) : Neighbours(p, q, OfKey(k)) =>
                /\ AtMost(Smaller(ScaledTo(p, k), ScaledTo(q, k)), reply.estimate[k])
                /\ AtMost(reply.estimate[k], Larger(ScaledTo(p, k), ScaledTo(q, k)))

(***************************************************************************)
(* Keeping data longer never gets cheaper, whatever the measurements were: *)
(* noise can make the medians fall as the period grows, and the fitted     *)
(* exponent must not follow it below zero.                                 *)
(***************************************************************************)
NeverCheaper ==
    Estimated =>
        \A k \in Keys, target \in Retentions : AtMost(reply.target, target) =>
            AtMost(reply.estimate[k], EstimateResource(reply.from, reply.load, target, k))

(***************************************************************************)
(* The query of loadRows has no ORDER BY, and yet the reply does not       *)
(* depend on the order of the rows when no two have the same load: neither *)
(* the fit of the exponent nor the interpolation nor the validation does.  *)
(***************************************************************************)
OrderFree ==
    Estimated /\ Distinct(FromRows) =>
        LET other == BuildReport(SetToSeq(FromRows), reply.load, reply.target)
        IN  reply.estimate = other.estimate /\ reply.mape = other.mape

\* The values of a key are a linear function of the load.
Collinear(k) ==
    \A p, q, r \in FromRows :
          (q.use[k] - p.use[k]) * (r.load_value - p.load_value)
        = (r.use[k] - p.use[k]) * (q.load_value - p.load_value)

(***************************************************************************)
(* The leave-one-out error that the page shows is honest: of measurements  *)
(* of one period at different loads it is zero only when they are linear   *)
(* in the load, so no row takes part in its own prediction; and then it is *)
(* zero.                                                                   *)
(***************************************************************************)
LeaveOneOut ==
    Estimated /\ Len(reply.from) >= 3 /\ Distinct(FromRows) =>
        \A k \in Keys :
            (/\ OfKey(k) = FromRows
             /\ \A p, q \in FromRows : PeriodForKey(p, k) = PeriodForKey(q, k))
            => (reply.mape[k] = Zero <=> Collinear(k))

=============================================================================
