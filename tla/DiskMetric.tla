----------------------------- MODULE DiskMetric -----------------------------
(***************************************************************************)
(* How the disk_bytes of a row comes about: the disk exporter measures the *)
(* volume with `du` when it starts and at every tick of its ticker,        *)
(* central monitoring reads pvc_used_bytes at every scrape, and the        *)
(* collector takes the maximum over the steps of a subquery whose window   *)
(* ends with its query.                                                    *)
(*                                                                         *)
(* Of the exporter's four gauges only pvc_used_bytes has a reader, and a   *)
(* gauge is one locked read of the state.                                  *)
(***************************************************************************)
EXTENDS Naturals, FiniteSetsExt

CONSTANTS
    MaxSize,       \* usages of the volume are 0..MaxSize
    CollectEvery,  \* period of the exporter's ticker
    MaxDu,         \* longest time du takes
    ScrapeEvery,   \* period of the scrapes (30 s)
    StepEvery,     \* distance of the subquery's steps (30 s)
    Window,        \* length of the collector's window
    LookbackDelta, \* how old the sample of a step may be (5 minutes)
    MaxTime,       \* bound: length of a run
    MaxChanges,    \* bound: changes of the volume
    MaxFailures    \* bound: failed measurements and scrapes

ASSUME DiskMetricAssumption ==
    /\ {MaxSize, MaxDu, Window, LookbackDelta, MaxTime, MaxChanges, MaxFailures}
          \subseteq Nat
    /\ {CollectEvery, ScrapeEvery, StepEvery} \subseteq Nat \ {0}
    /\ ScrapeEvery <= LookbackDelta

NoValue == MaxSize + 1
Stale   == MaxSize + 2   \* what central monitoring notes for a target it lost
Sizes   == 0..MaxSize
Times   == 0..MaxTime

VARIABLES
    clock,
    disk,      \* what the volume holds
    history,   \* history: the usages of every unit of time so far
    col,       \* the exporter's collector: idle or measuring
    due,       \* a measurement is due: the first one, or a tick waits
    untilTick, \* time to the next tick, 0 before there is a ticker
    duFor,     \* how long the measurement has taken
    reading,   \* what du saw, or NoValue if it fails
    used,      \* state.used
    owed,      \* the scrape of this unit of time is still to come
    samples,   \* scraped value of each unit of time, or NoValue
    row,       \* DiskBytes of the row, or NoValue
    failures   \* history: units of time in which a du or a scrape failed

exporter == <<col, due, untilTick, duFor, reading, used>>
diskVars == <<clock, disk, history, exporter, owed, samples, row, failures>>

DiskTypeOK ==
    /\ clock \in Times /\ disk \in Sizes
    /\ history \in [Times -> SUBSET Sizes]
    /\ col \in {"idle", "measuring"} /\ due \in BOOLEAN
    /\ untilTick \in 0..CollectEvery /\ duFor \in 0..MaxDu
    /\ reading \in 0..NoValue /\ used \in Sizes
    /\ owed \in BOOLEAN
    /\ samples \in [Times -> 0..Stale]
    /\ row \in 0..NoValue
    /\ failures \subseteq Times

\* The exporter answers zeros until its first measurement is done.
DiskInit ==
    /\ clock = 0 /\ disk \in Sizes
    /\ history = [t \in Times |-> IF t = 0 THEN {disk} ELSE {}]
    /\ col = "idle" /\ due = TRUE /\ untilTick = 0
    /\ duFor = 0 /\ reading = NoValue /\ used = 0
    /\ owed = TRUE /\ samples = [t \in Times |-> NoValue]
    /\ row = NoValue /\ failures = {}

\* The stack writes, compacts and deletes, at most once in a unit of time.
DiskChanges ==
    /\ row = NoValue /\ history[clock] = {disk}
    /\ Cardinality({t \in Times : Cardinality(history[t]) > 1}) < MaxChanges
    /\ disk' \in Sizes \ {disk}
    /\ history' = [history EXCEPT ![clock] = @ \cup {disk'}]
    /\ UNCHANGED <<clock, exporter, owed, samples, row, failures>>

Failure == /\ Cardinality(failures) < MaxFailures
           /\ failures' = failures \cup {clock}

(***************************************************************************)
(* The exporter.                                                           *)
(***************************************************************************)
MeasureBegins ==
    /\ row = NoValue /\ col = "idle" /\ due
    /\ col' = "measuring" /\ due' = FALSE /\ duFor' = 0
    /\ \/ reading' = disk /\ UNCHANGED failures
       \/ reading' = NoValue /\ Failure
    /\ UNCHANGED <<clock, disk, history, untilTick, used, owed, samples, row>>

PublishedKeeps(r) == IF r = NoValue THEN used ELSE r

Published(r) == IF r = NoValue THEN 0 ELSE r

\* A failure publishes zeros, not the last good value.  The ticker is made after
\* the first measurement.
MeasureEnds ==
    /\ row = NoValue /\ col = "measuring"
    /\ col' = "idle" /\ used' = Published(reading)
    /\ untilTick' = IF untilTick = 0 THEN CollectEvery ELSE untilTick
    /\ duFor' = 0 /\ reading' = NoValue
    /\ UNCHANGED <<clock, disk, history, due, owed, samples, row, failures>>

(***************************************************************************)
(* Central monitoring and the collector.                                   *)
(***************************************************************************)
Scrape ==
    /\ row = NoValue /\ owed
    /\ samples' = [samples EXCEPT ![clock] = used] /\ owed' = FALSE
    /\ UNCHANGED <<clock, disk, history, exporter, row, failures>>

\* Central monitoring cannot read the exporter and notes that, or it is down.
ScrapeFails ==
    /\ row = NoValue /\ owed
    /\ \E s \in {NoValue, Stale} : samples' = [samples EXCEPT ![clock] = s]
    /\ owed' = FALSE /\ Failure
    /\ UNCHANGED <<clock, disk, history, exporter, row>>

WindowTimes == {t \in Times : t <= clock /\ clock <= t + Window}

\* The steps are the multiples of StepEvery on a clock of their own.
Steps(phase) == {s \in WindowTimes : s % StepEvery = phase}

InReach(s) == {t \in Times : /\ t <= s /\ s <= t + LookbackDelta
                            /\ samples[t] # NoValue}

\* A step takes the latest sample before it.
AtStep(s) == IF InReach(s) = {} THEN NoValue ELSE samples[Max(InReach(s))]

Seen(phase) == {AtStep(s) : s \in Steps(phase)} \ {NoValue, Stale}

AggregateMin(phase) == Min(Seen(phase))

\* max_over_time
Aggregate(phase) == Max(Seen(phase))

\* The collector repeats its queries once a second while there is no data.
Query ==
    /\ row = NoValue /\ clock >= Window
    /\ \E phase \in 0..(StepEvery - 1) :
          Seen(phase) # {} /\ row' = Aggregate(phase)
    /\ UNCHANGED <<clock, disk, history, exporter, owed, samples, failures>>

\* Time passes once the collector has taken up a waiting tick, du is within its
\* limit and the scrape is done.  A sample that is too old for every later query
\* is forgotten, which only saves states.
ClockTicks ==
    /\ row = NoValue /\ clock < MaxTime
    /\ ~(col = "idle" /\ due) /\ ~owed
    /\ col = "measuring" => duFor < MaxDu
    /\ clock' = clock + 1
    /\ history' = [history EXCEPT ![clock + 1] = {disk}]
    /\ samples' = [t \in Times |-> IF clock + 1 <= t + Window + LookbackDelta
                                   THEN samples[t] ELSE NoValue]
    /\ duFor' = IF col = "measuring" THEN duFor + 1 ELSE duFor
    /\ due' = (due \/ untilTick = 1)
    /\ untilTick' = IF untilTick = 1 THEN CollectEvery
                    ELSE IF untilTick = 0 THEN 0 ELSE untilTick - 1
    /\ owed' = ((clock + 1) % ScrapeEvery = 0)
    /\ UNCHANGED <<disk, col, reading, used, row, failures>>

DiskNext ==
    \/ DiskChanges \/ MeasureBegins \/ MeasureEnds
    \/ Scrape \/ ScrapeFails \/ Query \/ ClockTicks

DiskSpec == DiskInit /\ [][DiskNext]_diskVars

(***************************************************************************)
(* Properties.                                                             *)
(***************************************************************************)
\* How old the value behind a sample can be: du took its time, a tick came just
\* after, and the next du takes its time.
Lag == CollectEvery + 2 * MaxDu

\* The row's value is one the volume really had, in the window or as long
\* before it as the lookback and the measurements take; a zero may also stand
\* for an exporter that had nothing.
RowWasReal ==
    row \notin {NoValue, 0} =>
        \E t \in Times : /\ t <= clock /\ clock <= t + Window + LookbackDelta + Lag
                        /\ row \in history[t]

\* The row does not miss a usage that lasted: it is at least the smallest usage
\* of any stretch of the window that is long enough for a measurement, a scrape
\* and a step, and in which none failed, whatever failed before and after.
SustainedIsSeen ==
    row # NoValue =>
        \A a \in WindowTimes : \A b \in WindowTimes :
            b >= a + Lag + ScrapeEvery + StepEvery /\ failures \cap (a..b) = {} =>
                row >= Min(UNION {history[t] : t \in a..b})

=============================================================================
