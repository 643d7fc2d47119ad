------------------------------ MODULE Collector ------------------------------
(***************************************************************************)
(* Collect, the end of an experiment: with the load over, central          *)
(* monitoring is asked four PromQL queries for the numbers of the row.     *)
(* Each of them aggregates over a window that ends when it is evaluated.   *)
(* If one fails the round begins again at the next tick, for at most ten   *)
(* minutes; before that, the tunnel waits for a pod without a limit.       *)
(*                                                                         *)
(* Time goes in fractions of a second from the start of the load, and does *)
(* not pass while the collector has something to do at once.               *)
(***************************************************************************)
EXTENDS Naturals

CONSTANTS
    Second,        \* units of time in a second
    Durations,     \* durations of load to consider
    Warmup,        \* warmupDuration (15 minutes)
    Timeout,       \* limit of the rounds together (10 minutes)
    QueryTimeout,  \* timeout of the HTTP client (5 minutes)
    MaxLate,       \* bound: how late Run returns after the duration
    MaxWait,       \* bound: how long the tunnel waits for a pod
    MaxTime        \* bound: length of a run

ASSUME CollectorAssumption ==
    /\ Second \in Nat \ {0}
    /\ Durations \subseteq Nat \ {0} /\ Durations # {}
    /\ {Warmup, Timeout, QueryTimeout, MaxLate, MaxWait, MaxTime} \subseteq Nat

\* The queries of a round, in their order.
Disk    == 1
CPU     == 2
MemAvg  == 3
MemPeak == 4
Queries == Disk..MemPeak

VARIABLES
    duration,   \* of the load, as ordered
    clock,      \* since the load began
    stage,
    query,      \* the query under way
    busy,       \* how long it has taken
    tick,       \* a tick waits in the ticker's channel
    cancelled,  \* the command's context is done
    loadEnd,    \* when Run returned
    up,         \* when the tunnel was up and the ten minutes began
    at,         \* when each query was evaluated
    stale       \* history: queries last answered before a later failure

vars == <<duration, clock, stage, query, busy, tick, cancelled, loadEnd, up, at, stale>>

TypeOK ==
    /\ duration \in Durations
    /\ {clock, busy, loadEnd, up} \subseteq Nat
    /\ stage \in {"load", "forward", "select", "query", "ok", "err"}
    /\ query \in Queries
    /\ tick \in BOOLEAN /\ cancelled \in BOOLEAN
    /\ at \in [Queries -> Nat]
    /\ stale \subseteq Queries

Init ==
    /\ duration \in Durations
    /\ clock = 0 /\ stage = "load" /\ query = Disk /\ busy = 0
    /\ tick = FALSE /\ cancelled = FALSE
    /\ loadEnd = 0 /\ up = 0
    /\ at = [q \in Queries |-> 0] /\ stale = {}

WholeDuration == duration

\* The window that RunExperiment asks for.
CollectWindow == IF duration > Warmup THEN duration - Warmup ELSE duration

\* PromQL takes it in whole seconds, and refuses a window of none.
Window == CollectWindow - (CollectWindow % Second)

(***************************************************************************)
(* From the load to the first round.                                       *)
(***************************************************************************)
LoadEnds ==
    /\ stage = "load" /\ clock >= duration
    /\ stage' = "forward" /\ loadEnd' = clock
    /\ UNCHANGED <<duration, clock, query, busy, tick, cancelled, up, at, stale>>

\* The tunnel is up; the queries are made and the ticker starts.
TunnelUp ==
    /\ stage = "forward" /\ ~cancelled
    /\ stage' = "select" /\ up' = clock
    /\ UNCHANGED <<duration, clock, query, busy, tick, cancelled, loadEnd, at, stale>>

\* No job to query by, no tunnel, or a context that is done.
NeverStarts ==
    /\ stage = "forward"
    /\ stage' = "err"
    /\ UNCHANGED <<duration, clock, query, busy, tick, cancelled, loadEnd, up, at, stale>>

(***************************************************************************)
(* The rounds.  When the context is done and a tick waits, select may take *)
(* either; a query under a context that is done fails.                     *)
(***************************************************************************)
Done == cancelled \/ clock >= up + Timeout

SelectDone ==
    /\ stage = "select" /\ Done
    /\ stage' = "err"
    /\ UNCHANGED <<duration, clock, query, busy, tick, cancelled, loadEnd, up, at, stale>>

SelectTickResumes ==
    /\ stage = "select" /\ tick
    /\ stage' = "query" /\ busy' = 0 /\ tick' = FALSE
    /\ UNCHANGED <<duration, clock, query, cancelled, loadEnd, up, at, stale>>

SelectTick ==
    /\ stage = "select" /\ tick
    /\ stage' = "query" /\ query' = Disk /\ busy' = 0 /\ tick' = FALSE
    /\ UNCHANGED <<duration, clock, cancelled, loadEnd, up, at, stale>>

\* Central monitoring evaluated the query at some time since it was sent.
Answer ==
    /\ stage = "query" /\ ~Done /\ Window > 0
    /\ \E t \in (clock - busy)..clock : at' = [at EXCEPT ![query] = t]
    /\ stale' = stale \ {query}
    /\ busy' = 0
    /\ IF query = MemPeak THEN stage' = "ok" /\ UNCHANGED query
                          ELSE query' = query + 1 /\ UNCHANGED stage
    /\ UNCHANGED <<duration, clock, tick, cancelled, loadEnd, up>>

FailAsksAgain ==
    /\ stage = "query"
    /\ busy' = 0
    /\ stale' = stale \cup (Disk..(query - 1))
    /\ UNCHANGED <<duration, clock, stage, query, tick, cancelled, loadEnd, up, at>>

\* A lost tunnel, no data yet, a timeout, a context that is done.
Fail ==
    /\ stage = "query"
    /\ stage' = "select"
    /\ stale' = stale \cup (Disk..(query - 1))
    /\ UNCHANGED <<duration, clock, query, busy, tick, cancelled, loadEnd, up, at>>

(***************************************************************************)
(* Time and the operator.                                                  *)
(***************************************************************************)
Collecting == stage \in {"select", "query"}

Pass ==
    /\ clock < MaxTime
    /\ \/ stage = "load" /\ clock < duration + MaxLate
       \/ stage = "forward" /\ clock < loadEnd + MaxWait
       \/ stage = "select" /\ ~tick /\ ~Done
       \/ stage = "query" /\ busy < QueryTimeout /\ ~Done
    /\ clock' = clock + 1
    /\ busy' = IF stage = "query" THEN busy + 1 ELSE busy
    /\ tick' = (tick \/ (Collecting /\ (clock + 1 - up) % Second = 0))
    /\ UNCHANGED <<duration, stage, query, cancelled, loadEnd, up, at, stale>>

Cancel ==
    /\ ~cancelled /\ stage \in {"forward", "select", "query"}
    /\ cancelled' = TRUE
    /\ UNCHANGED <<duration, clock, stage, query, busy, tick, loadEnd, up, at, stale>>

Returned == stage \in {"ok", "err"} /\ UNCHANGED vars

Collector == SelectDone \/ SelectTick \/ Answer \/ Fail

Next ==
    \/ LoadEnds \/ TunnelUp \/ NeverStarts \/ Collector
    \/ Pass \/ Cancel \/ Returned

Spec == Init /\ [][Next]_vars

\* The goroutine is scheduled, and time passes.
FairSpec == Spec /\ WF_vars(Collector) /\ WF_vars(Pass)

(***************************************************************************)
(* Properties.                                                             *)
(***************************************************************************)
\* Whenever Run returned and however long tunnel and rounds took, no window of a
\* row reaches back into the warm-up; a run that is not longer than the warm-up
\* reaches back to the start of its load at most.
WarmupExcluded ==
    stage = "ok" => \A q \in Queries :
        at[q] >= Window + (IF duration > Warmup THEN Warmup ELSE 0)

\* The four numbers of a row come from one round: none was read before a query
\* that failed.  And what a window has of the time after the load is the wait for
\* the tunnel and at most ten minutes; the rounds do not add to it.
RowOfOneRound ==
    stage = "ok" =>
        /\ stale = {}
        /\ \A q \in Queries : /\ loadEnd <= at[q]
                              /\ at[q] - loadEnd <= (up - loadEnd) + Timeout

\* Once the tunnel is up the collector returns, whatever central monitoring does.
CollectEnds == Collecting ~> stage \in {"ok", "err"}

=============================================================================
