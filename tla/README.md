# obs-bench in TLA+

This directory specifies and verifies `obs-bench`, the command that measures what
Prometheus, VictoriaMetrics, Loki and OpenSearch cost in a Kubernetes cluster. One
experiment rebuilds central monitoring, rebuilds the stack under test, starts a load,
queries the stack for hours, reads CPU, memory and disk usage from central monitoring and
saves one row. A batch file names many of them. The numbers are worth something only if
every row was measured on what its own experiment built, if the load was what it claims
to be, and if no row is lost; every one of these depends on long chains of cluster calls
that fail in the middle, on asynchronous deletion, on tunnels that die and on processes
that are interrupted. Beside it stands `obs-advisor`, a server and a page that estimate from
the rows what another load and another retention would need. The repository has no tests.

Paths below are relative to `src/obs-bench/internal/` unless they start with `images/`
(`src/obs-bench/images/`) or `obs-advisor/` (`src/obs-advisor/`).

## 1. Inventory

| Component | State | Operations | Interacts with | Hard behaviour | What makes it correct |
|---|---|---|---|---|---|
| Namespace deletion (`providers/kubernetes/provider.go` 106-305) | the namespace, its finalizer, its objects and theirs; `forcedOnce` and the context of a call | DeleteNamespace, forceFinalizeNamespaceResources, CreateNamespace | API server, namespace controller, owners of finalizers, another process | polling against asynchronous deletion; a forced pass after two minutes and at the end of the context; lost answers | nil means gone; no force without patience; nothing locked is left behind |
| Batch and experiment (`commands`, `usecases/experiment`, `services/experimentstack`, `services/experimentworkload`) | counters of the loop; what runs in the cluster; rows | validate, UpMonitoring, Deploy, Run, Collect, Save | everything else | errors at every stage, Ctrl-C, kill and restart on the same cluster; a defer with a context of its own | a row is measured on its own try; one row per try; Ctrl-C leaves at most the installation under way to go on; the batch ends |
| Read load and tunnel (`experimentworkload/workload.go` 88-184, `provider.go` 811-1031, `services/load-generator`) | two goroutines, three channels, a timer, a ticker | PortForwardService, waitForQueryAPI, runQueryLoad, GenerateQueries | pods behind a service, the stack's query API | a channel closed from two places; select with several ready branches; ticks dropped behind slow queries | one close; at most one query a second; success means the whole duration; both goroutines end |
| Up... services (`services/{monitoring,prometheus,victoria-metrics,loki,opensearch,metrics-provider,log-provider}`, `providers/helm`) | helm release, cluster roles, webhooks, namespace, objects, claims and volumes | TryUninstall, Up, Delete..., Create..., RecreateNamespace | helm, API server, operators, volume provisioner | a failure between any two calls; leftovers of killed runs; webhooks that are not served yet | an error has its cause in this run; no mixture of two runs; success means whole |
| Disk metric (`images/disk-usage-metrics-exporter`, `pkg/resourcepromql`, `pkg/promquery`) | four gauges under a lock; samples; the window | du and statfs on a ticker, scrape, max_over_time | volume, central Prometheus | stale and zeroed gauges; lookback; the ticker, the scrapes, the steps of the query and its window run on clocks of their own | the row is a value the volume had, and misses none that lasted |
| Log load generator (`images/log-load-generator`) | lines sent in this second | flushLoki, flushOpenSearch | Loki, OpenSearch | ambiguous timeouts, partial bulk failures, retries inside a second | never more than the rate; the full rate unless the backend is slow |
| Results database (`providers/resources-usage-info-storage`) | one SQLite table in one of several schemas | open, migrate, Save | other processes on the file, obs-advisor | a migration that drops the table; crash in it; two processes in it | no row is ever lost; nobody writes to the old schema |
| Collectors (`services/resources-usage-info-collector`, `usecases/experiment` 52-81) | a ticker, a tunnel, the round | Collect: four queries, retried for ten minutes | tunnel, central Prometheus, Ctrl-C | each window ends at its own query; retries; a wait without a limit before the ten minutes begin | no window reaches into the warm-up; one row, one round; it returns |
| Capacity model (`obs-advisor/server/capacitymodel`) | none | interpolate, estimateAlphaByRetention, median, validateHoldout, BuildReport | rows of the database | unordered rows, rows without a value, ends of the range, noisy medians | estimates lie between measurements, retention never pays, the order of rows does not show, the error is honest |
| obs-advisor server (`obs-advisor/server/main.go`) | none beyond a request | measurements, estimate | the database, which obs-bench upgrades and fills meanwhile | a legacy table, no rows, a failed read | the answer is of one state of the table |
| obs-advisor page (`obs-advisor/index.html`) | the form, a timer, the tables, what each render has read | loadData, scheduleRender, renderAll | the server | renders overlap, their answers come in any order or not at all | tables of two renders stand side by side only while the later one waits; no edit is lost |
| Charts page (`obs-advisor/charts.html`) | none | draws the measurements once | the server | - | - |
| Metrics provider (`images/metrics-provider`) | fixed series | observe every series on a tick | scraped by the stack | - | - |
| Images and charts (`providers/docker`, `providers/docker-registry`, `pkg/imageutil`, chart cache) | images in a registry, archives in a directory | build, push, pull | Docker, chart repositories | an archive is found by its prefix and never refreshed | - |
| Configuration, wiring (`config`, `app`, `enum`, `models`), Terraform (`src/infra`) | read once | - | - | - | - |

How they interact: `run-batch` calls `RunExperiment` in sequence; it calls the Up...
services, which call helm and the Kubernetes provider; `Run` starts a load source in the
cluster and queries the stack through a tunnel; the collector reads central monitoring
through another tunnel; the row goes to SQLite, from where obs-advisor reads it. There is
one goroutine per tunnel besides the main one, and no lock in obs-bench itself. The
concurrency that matters is between the process and the cluster, between two processes
on one file or cluster, and between the exporter, the scrapes and the query.

`PROJECT.json` lists every hazard at its line with the properties that cover it.

## 2. Modules and plan

In the order of the plan; all rows are done.

| # | Module | Models | Abstract specification | Proofs |
|---|---|---|---|---|
| 1 | `Namespace` | DeleteNamespace and CreateNamespace against the namespace controller | `NamespaceDeletion` | `Namespace_proofs` |
| 2 | `Experiment` | run-batch, RunExperiment, Run, Collect and Save over the cluster | `Batch` | `Experiment_proofs` |
| 3 | `QueryLoad` | runQueryLoad and the tunnel's goroutine | - | `QueryLoad_proofs` |
| 4 | `Deploy` | the seven Up... services over several runs | - | `Deploy_proofs` |
| 5 | `DiskMetric` | exporter, scrape, disk query | - | `Images_proofs` |
| 6 | `LogGenerator` | rounds, batches and retries of the log load | - | `Images_proofs` |
| 7 | `ResultsStore` | opening, migrating and saving | `ResultsTable` | `ResultsStore_proofs` |
| 8 | `Collector` | from the end of the load to the row: tunnel, ticker, rounds of four queries and their windows | - | `Collector_proofs` |
| 9 | `AdvisorPage` | the page: form, timer, overlapping renders, answers in any order | - | `Advisor_proofs` |
| 10 | `CapacityModel`, `Fractions` | interpolation, fit of the exponent, median, leave-one-out validation | reference conditions in `Advisor` | `Advisor_proofs` |
| 11 | `Advisor` | the server's handlers, composed with `CapacityModel` and, as its database, `ResultsTable` | - | `Advisor_proofs` |

What could follow: a composition of `Deploy` with `Namespace` that replaces the deletion of
the first by `NamespaceDeletion`, action by action.

The modules rely on each other through what they promise. `Deploy` takes a nil from
DeleteNamespace to mean that the namespace is gone and stays gone until the service creates
it: this is `NamespaceDeletion`, which `Namespace` is proved to implement. `Experiment`
takes an Up... call to either build the resource anew or fail, which is `OneGeneration` and
`OkIsWhole` of `Deploy`; the load to end, which is `CancelEnds` and the timer of
`QueryLoad`; and the collector to return, which is `CollectEnds` of `Collector`. `Advisor`
instantiates `ResultsTable`, which `ResultsStore` is proved to implement: what the server
sees of its database is what obs-bench's store promises to a reader.

### Conventions

Every module takes its sizes and times as CONSTANTS with a named ASSUME, has one action
per operation or per branch of one, and counts its bounds in guards: `MaxCalls`,
`MaxProcs`, `MaxDeploys`, `MaxRounds`, `MaxTime`, `MaxFailures`, `MaxLate`, `MaxWait`,
`MaxEdits`, `MaxRows`, `MaxChanges`. Variables marked
`history` in their declaration exist only for the properties. A definition that
immediately precedes another and differs from it in one detail (`MayForceAgain` before
`MayForce`) is a plausible mistake in the same code; `PROJECT.json` says which property it
breaks. MC modules and `.cfg` files only give values to constants.

## 3. The modules and the code

### Namespace

State: the phase of the namespace (Active, Terminating, Gone for NotFound), whether its
own finalizer is set, the objects under its name and those of them that hold a finalizer.
Objects survive a namespace whose finalizer was taken away by force: they come back under
the next namespace of that name.

`GetNamespace` and `SendDelete` are provider.go 121-135; the wait is the select over a
ticker (`TickGone`, `TickForce`) and the context (`DoneForce`, `LastGet`), `Minute` moves
the clock; `StripKind` visits the four kinds in their order and `FinalizeNs` empties
`spec.finalizers`. Requests fail before or after they took effect (`ApiError`, the second
branch of `SendDelete`); a request under a context that is done always fails. The pass
begun from the ticker runs under the call's context, the one begun at its end under a
fresh one (`PassWorks`). The controller deletes content, removes its finalizer and the
namespace; owners release finalizers or never do. Another process may delete the
namespace. After a call comes CreateNamespace or the next experiment's call.

Properties: the refinement `ImplementsDeletion`, `ForcedPatiently`, `OrphansReleased`,
`DeleteOnce`, `ErrorIsExcused`; under fairness `CallReturns` and `ForceUnsticks`.
`NamespaceDeletion` has two variables, the phase of the namespace and how the call ended: a
nil only while the namespace is gone, a new one only after a nil. The mapping takes the
phase as it is and reads the call off the client's stage; the client's waiting, both passes,
objects and finalizers are stutters. `NilMeansGone`, the part of it that `Deploy` cites most,
is a theorem of its own.

### Experiment and Batch

State: for each resource of the cluster the *try* (process and entry) that created what
runs there now; the loop's stage, entry and counters; the table of rows. One action per
stage of RunExperiment: `MonUninstall`, `MonUp`, `StackUninstall`, `StackUp`, `LoadPurge`,
`LoadUp`, `Forward`, `Query`, `StopLoad` (the defer of `runLogExperiment`, with its own
context), `CollectForward`, `Collect`, `Save`. Each can fail, before or after it took
effect. `Restart` starts the file again on the cluster as it is, whether the process before
was killed or ended. The loop does not look at the context (`Abort` goes to the next entry),
as in `command.go` 52-96.

After Ctrl-C only what does not look at the context still works: the defer, and helm.
Its uninstall takes no context, but what comes after it does, so under a context that is done
the experiment never gets from there to Up (`Uninstall`). DeleteNamespace may still return nil
when Ctrl-C comes while it waits, by a last forced pass (the Namespace module has it); here
that is `Cancel` right after the step. `Up` (`helm/provider.go` 44-83) then begins an
installation under a context that is done: helm creates the CRDs, the namespace and the
release record all the same, hands the rest to a goroutine and only stops waiting for it.
So `Install` builds whatever the context says, and under a done one may return an error and
leave its goroutine in `installing`, which creates objects beside the next entries
(`InstallGoesOn`) until the process ends. The history variable `interrupted` is the
installation that Ctrl-C came upon, under way or next.

Properties: `RowsMeasureTheirTry`, `StrayIsExcused`, the action property
`CancelStartsNothingNew` (after Ctrl-C no row is saved, no load source is created, and all
that still appears belongs to that one installation), `CancelEnds` and `BatchEnds` under
fairness, and the refinement
`ImplementsBatch`: each entry is recorded faithfully once or counted as failed, and success
is reported only when every entry has its row. (An insert that Ctrl-C interrupts is answered
with an error although its row may be committed: such an entry is both, `RecordUnnoticed`.)
The refinement maps a row to the try that it measured, or to None.

### QueryLoad

The main goroutine: waiting for the service, for its pods, the select over readyCh, errCh
and the context, the probe with its growing pause, the ticks. The second goroutine:
dialing, listening, ended; it closes readyCh and sends one error. A tick waits in a
channel that holds one. `Outcomes` is transientQueryErr and the client together: a
cancelled context or a timeout of the client is fatal, a dead tunnel transient.

Properties: `StopOnce`, `AtMostOneQps`, `OkAfterDuration`, and under fairness `TunnelEnds`
and `CancelEnds`. `ProbeBounded` is proved and not run.

### Deploy

A unit's Up... call is a sequence of operations (`Plan`); the module follows one unit
over `MaxDeploys` runs. Each operation says what it needs, what it changes and how it can
fail: before, after, and for uninstall, install and deletion in part. The state is what the
operations meet: the namespace and which run made each object in it, the release record,
the cluster roles, the webhook and whether its server answers, the pod's node, the
exporter's node selector, the claim and the volume with the data of earlier runs. The
cluster moves on its own: finalizers end, webhooks begin to answer, pods start and stop,
volumes with a Delete policy are reclaimed. An installation is one operation: helm's
goroutine that outlives it after Ctrl-C is in Experiment only, so nothing is claimed here of
the cluster roles it may create while the next entry uninstalls the same release.

Properties: `ErrorsAreFresh`, `OneGeneration`, `RolesAreRecorded`, `OkIsWhole`,
`ExporterFollowsPod`.

### DiskMetric

Four clocks that nothing aligns: the exporter's ticker (`CollectEvery`), the scrapes
(`ScrapeEvery`), the steps of the subquery (`StepEvery`, at any `phase`) and the window,
which ends with the query. The exporter measures once when it starts and makes its ticker
after that (main.go 170-176); a tick waits in a channel that holds one. `du` sees the volume
when it begins and publishes when it ends; a failure publishes zeros. A scrape that fails
leaves no sample or a mark that the target is gone (`Stale`), which hides the samples before
it. A step takes the latest sample within the lookback (`InReach`, `AtStep`), so the first
step may take one from before the window. The volume changes at any time, once per unit of
time. Samples that no later query can reach are forgotten.

`Lag` is how old the value behind a sample can be: a period of the ticker and two runs of
`du`, because the value was seen when the first began and is replaced when the second ends.
The scrapes are assumed no further apart than the lookback (30 seconds, provider.go 433,
against Prometheus's five minutes), and `du`, which the code runs without a timeout, to end
within `MaxDu`: both properties name it.

Properties: `SustainedIsSeen` (a usage that lasts through `Lag`, a scrape and a step is in
the row, if nothing failed meanwhile) and `RowWasReal` (the value of the row is one that the
volume had within window, lookback and `Lag`).

### LogGenerator

One second's round: `More` is the loop's condition, `NextBatch` the clamped batch;
`FlushOK` counts the batch even where OpenSearch reports errors inside a 200, `FlushFails`
counts nothing although lines may be stored, then pauses. Time passes in fractions of a
second.

Properties: `NeverFaster`, `FullUnlessSlow`. `RoundBounded` is proved and not run.

### ResultsStore and ResultsTable

Several processes on one file. Statements outside a transaction are atomic; the migration
runs `DropNew`, `CreateNew`, `Copy`, `DropOld`, `Rename` inside one and shows nothing until
`Commit`. The transaction is SQLite's deferred one: it takes the write lock with its first
write, which is not the check of the columns. Any statement may fail (`Disturbed`), the
process may die (`Crash`), and a table `resource_usage_info_new` may already be there. An
insert that reports an error may have been committed.

Properties: `NoRowLost`, `FailureExcused`, and the refinement `ImplementsTable`: readers see
a table that only grows and changes its schema in one step. `OpenMeansNew` is proved and
not run.

### Collector

From the load's return to the row. `TunnelUp` ends a wait that has no limit; only then the
ten minutes (`Timeout`) begin. `SelectTick` starts a round, `Answer` is a query that central
monitoring evaluated at some moment since it was sent, and `Fail` any error, which drops
the round and waits for the next tick. The window of each query has the length that
RunExperiment computed (`CollectWindow`, usecase.go 52-55, in whole seconds) and ends when
the query is evaluated. Ctrl-C may come at any time (`Cancel`); when it races a tick, select
may take either. The history variable `stale` holds the queries whose last answer is older
than a failure.

Properties: `WarmupExcluded` (no window of a row reaches into the warm-up, however late the
collector is), `RowOfOneRound` (no number of a row is older than the last failure, and the
windows reach at most the wait for the tunnel and ten minutes past the load), and under
fairness `CollectEnds`. The prometheus and the victoria-metrics collector hold the same
code and the module stands for both.

### AdvisorPage

The script runs one task at a time, so an action is a task with the promises it resolves.
The form is a version number, one up with each edit. `Type` starts the timer anew, `Select`
renders at once, `Loaded` ends loadData in one of its two ways; `RenderAll` reads the form
and sends all requests before anything waits; `Respond` takes one answer, and shows a
section when it was the last of that section and the total when it was the last of all.
Nothing cancels a render. A render keeps what it read in constants, for its requests, its
rows and its caption, so a table is known by the render that shows it. The history variable
`overtaken` says that an earlier render replaced the table of a later one, which
the code allows (section 7).

Properties: `SideBySide` (unless an answer came out of order, tables of two renders stand
side by side only while the later one still waits for answers of the other section; the total
is never ahead of the tables, and where both are of one render it adds their rows),
`NoEditLost` (when all is quiet and no answer came out of order, what is shown
is what is entered), and under fairness `EditIsShown`.

### CapacityModel, Fractions and Advisor

`CapacityModel` is the arithmetic of `model.go` as operators, one for each of its functions:
a property such as "lies between" is about the algorithm, not about rounding, so the numbers
are an ordered field, given by constants (`Plus`, `Times`, `AtMost`, ...), with `Whole` for the
integers in it; `NumberLaws`, `IntegerLaws` and `PowerLaws` are all that is taken of it. The
run gives them the exact fractions of `Fractions`, and `MCNumbers` checks the laws on samples
of these. `Pow` and `Log` are constants too; the run takes loads, values and periods that are
powers of four and exponents that are multiples of a half, where both are exact.

A slice is a sequence of rows, in whatever order the database returned them, and a point is
the position of its row, so the points of a key are a set of positions (`Used`) and sorting
them is the order `Precedes`: the search of `interpolate` for its segment is `SegmentEnd` and
`Below`. The sort of the points is not stable in Go; `Precedes` breaks ties by position, and
no property depends on them. A sorted list of values is not built for the median either:
`Median` is the value that has at most half of the others below it. The errors of the
validation are indexed by row instead of appended. What is a product of an estimate (the low
and high ends, prices) is left out.

`Advisor` is the server around it: each request reads the table once. The table is
`ResultsTable`, with the steps of obs-bench that a reader can see (`Bench`): rows appear and
a legacy table is migrated between two requests. `Estimate` takes the rows in any order.
Where the fit has no spread in its periods, `Variance` is zero and `EstimateAlpha` falls back,
as in the code.
A measured period is never zero here, because obs-bench accepts positive retentions only
(1, 7 and 30 days in its commands); a load shorter than a second is stored with duration 0,
and the retention then stands for it, as in the code.

Properties: `Bracketed` (between two measured loads the estimate lies between what both
say), `NeverCheaper` (a longer retention never costs less, whatever the noise),
`OrderFree` (the order of the rows does not show, for distinct loads), and `LeaveOneOut`
(the error shown is zero exactly for values linear in the load, so no row predicts itself).

## 4. What each run checks

| Run | Instance | Shows |
|---|---|---|
| `namespace` | three objects (a claim, a deployment, a custom resource), force after 2 of 5 minutes, two calls | all properties of Namespace, the refinement included |
| `experiment` | a log entry, a metrics entry, an invalid entry; two processes | all properties of Experiment, the refinement included |
| `query_load` | 3 seconds of load, queries up to 3, probe of 1, pauses up to 2 | all properties of QueryLoad |
| `deploy` | every unit, three runs, two nodes (symmetric) | all properties of Deploy |
| `disk_metric` | ticks and steps every 2, `du` up to 1, scrapes every 1, lookback 1, window 7, 13 units, one change, one failure | both properties of DiskMetric |
| `log_generator` | 5 lines in batches of 2 or 3, 4 units a second, timeout 5, two rounds | all properties of LogGenerator |
| `results_store` | two processes, two old rows, two new rows, any initial schema | all properties of ResultsStore, the refinement included |
| `collector` | loads of 3, 5 and 9 half seconds, warm-up 4, rounds for 6, queries up to 3, 20 units | all properties of Collector |
| `advisor_page` | two instruments per section, two edits | all properties of AdvisorPage |
| `advisor` | nine candidate rows of two instruments, tables of up to four, loads 0 to 100, two retentions | all properties of Advisor |
| `read_load_constant` | as query_load | finding 1 |
| `deploy_scratch` | two runs, one node | finding 2 |

Why the bounds are enough to be interesting. *Namespace*: two calls are needed for a
failed call to be followed by another, and the three objects cover the first and the last
kind of the forced pass and one it does not know; five minutes with a threshold of two
leave room on both sides. *Experiment*: a row that is wrong needs a try that leaves
something behind and one that meets it; the second may be in the same process or the
next. Ctrl-C at any installation is followed by up to two entries that uninstall what its
goroutine still creates. *QueryLoad*: a query may outlast the load and the probe, as 300
seconds outlast 90
in the code. *Deploy*: one run that leaves something behind, one that fails on it or on its
way, one that meets both. *DiskMetric*: the window is exactly
as long as a lasting usage must be, the run is longer than window, lookback and `Lag`
together, and steps come with and without a scrape between them. *LogGenerator*: a
full batch, a short last batch, a request longer than the second, and a round after a late
one. *ResultsStore*: two processes are needed for a migration that another overtakes.
*Collector*: a load shorter than the warm-up, one just longer and one much longer, a length
that is no whole number of seconds, a query that outlasts a tick, and more than one failed
round. *AdvisorPage*: two edits and the end of loadData make three renders that overlap, and
two instruments per section make a section that is half answered. *Advisor*: loads before,
at, between and beyond the measured ones; rows without a value, without a duration, with a
falling median; four rows leave three to train on. Where a proof exists (section 6) the
bounds do not matter.

`CHECK_DEADLOCK FALSE` stands in the Deploy and DiskMetric configurations only: there the
model ends, when the last deployment is over or when the row is written. In the other
modules `Finished`, `Returned` or `Idle` is the one state that may stay, and any other stop
is an error.

The type invariants are not among the runs' properties where a theorem states them
(section 6).

## 5. Fairness

- *Namespace*: weak fairness of the client's own steps (a single goroutine that is never
  blocked outside the select), of the minutes, and of the namespace controller. None for
  ReleaseFinalizer: the code exists because finalizers may never be released.
- *Experiment*: weak fairness of `Step`, the steps of the process. Waiting for a ready pod is
  not among them without a ready pod, because PortForwardService has no timeout;
  `BatchEnds` therefore assumes pods that come up for good. Every other call has a timeout.
- *QueryLoad*: weak fairness of the main goroutine, of time, of a dial (the API server answers
  or the connection fails) and of a listening tunnel that was told to stop.
- *Collector*: weak fairness of the collector's goroutine and of time. None for the tunnel:
  the wait for a ready pod has no timeout, so `CollectEnds` begins when the tunnel is up.
- *AdvisorPage*: weak fairness of `Loaded`, of the timer and of `Answer`: fetch settles every
  request, and a failed one is an answer too. Edits are free.
- The other modules state safety only.

## 6. What is proved

With TLAPS, for every value of the constants allowed by the ASSUMEs:

| Module | Theorems | The inductive invariant and why it is needed |
|---|---|---|
| `Namespace_proofs` | TypeCorrect, NilIsTruthful, ForceIsPatient, OrphansAreReleased, DeletedOnce, ErrorsAreExcused, Refinement | what the phase implies in each stage of the client (`PhaseInv`), how far the passes of this call have come (`PassInv`), which kinds the pass has already released (`StripInv`: without it nothing is known of the objects when the finalizer goes), and that an Active namespace has seen no accepted Delete (`DeleteInv`) |
| `Experiment_proofs` | TypeCorrect, RowsFaithful, StraysExcused, NothingNewAfterCancel, Refinement | `Provenance`: at every stage, the resources set up so far belong to this try; after Ctrl-C, at most the interrupted installation is still to come or goes on by itself, and goroutines of helm exist only then (`HelmInv`), so none can change what a row is measured on; rows are older than the current try (`RowsBefore`, from which also `OneRowPerTry`: no try has two rows); no failure is counted only if every entry so far has its row (`Tally`), which the exit code of the refinement needs |
| `QueryLoad_proofs` | TypeCorrect, StoppedOnce, RateKept, OkIsWholeLoad, ProbeIsBounded | closes are counted by stage (`StopInv`), a waiting tick owns its second (`RateInv`), and the clock is bounded by the query or pause under way (`ProbeInv`, `LoadInv`): a tick that waits may be late, one that does not has come in time |
| `Deploy_proofs` | TypeCorrect, FreshErrors, NoMixture, NothingOrphaned, Whole, ExporterPlaced | the invariant follows the set `Behind` of calls that a deployment has behind it: what each has taken away (`Uninstalled`, `RolesFree`, `HookFree`), and that from the deletion of the namespace on exactly what was created since is there, by this deployment (`Built`, `Installed`, `Placed`). `PlanFacts` is all the proofs use of the seven plans, their order: uninstall before deleteNs and dropRoles, these before install or createNs, these before every object. `NotRefused` then shows each refusal by the cluster impossible |
| `Collector_proofs` | TypeCorrect, NoWarmup, OneRound | the clock against the load, the tunnel and the ten minutes in each stage (`ClockInv`), the queries answered so far are of this round (`RoundInv`); `WindowBound` is the arithmetic of the window |
| `Advisor_proofs` (page) | TypeCorrect, TablesSideBySide, NothingLost | renders against edits (`CountInv`), the latest render has read the form or another is to come (`CurrentInv`), tables are of begun renders and the total of one without open answers (`TableInv`), and a section in which a render has its answers shows that render or a later one (`AnsweredInv`), which is what an earlier render's late answer would break, and then it sets `overtaken` |
| `Advisor_proofs` (server) | ServerTypeCorrect, EstimateIsBracketed, RetentionNeverPays, OrderNeverMatters, ValidationIsHonest | a reply is the capacity model's, of a slice in which every row comes once and is one that obs-bench saves (`RowsInv`, `ReplyInv`); the rest is about the model's operators. `LeastPosition`: a total order of positions has a least one in every set, hence the extremes and the segment are what their names say (`Extremes`, `SegmentFact`). `InterpolateBetween`: the segment of two neighbours ends at these two. `ScaledFact` and `InterpolateScaled`: another retention multiplies all points, and so the estimate, by the same factor, which is at least one for a longer one because no exponent is negative (`AlphaFact`). `ReorderingExists`: two slices of the same rows differ by a permutation, which keeps the medians (`MedianReordered`, by counting), the exponent, the segment and the estimate, and what is left without one row is again such a pair (`TrainFact`, `HoldoutOfSameRows`). For the validation, `Mean` is a fold, whose recursion over finite sets is first shown to be well founded (`SumsAreRecursive`); errors are not negative, so their mean is zero only if each prediction is exact (`MeanIsZero`, `MapeFact`), which for measurements of one period says that the row is on the line of its two neighbours among the others (`PredictionFact`, `NeighboursFact`). If some row were off the line of the two lowest ones, the first such row would, with the two before it, refute the prediction of the one just before it (`HoldoutIsHonest`) |
| `Images_proofs` (LogGenerator) | TypeCorrect, RateKept, FullRate, RoundsBounded | lines stored against rounds begun and lines acknowledged (`StoredInv`), the clock against the deadline in each stage (`ClockInv`). For the full rate, `FastInv`: without a failure the round has sent whole batches in at most that many times the slowest request, and only its last batch may be short; `RequestsBound` compares their number with `Requests` |
| `Images_proofs` (DiskMetric) | DiskTypeCorrect, DiskValueIsReal, NothingLastingMissed | the age of every value on its way to the row: what `du` has seen is as old as `du` runs (`ReadingInv`), what is published is replaced within `Lag`, by the tick that waits, the ticker or the `du` under way (`UsedInv`), hence each sample is a value of the volume, or of a failed measurement, no older than `Lag` (`SampleInv`), and every scrape time in reach has its sample or failure (`ScrapeInv`). Both properties follow at the one step that writes the row: a lasting usage leaves room for a step (`PhaseFact`) with a sample in reach. `Measured` and `Recent` say what this means in terms of `history` |
| `ResultsStore_proofs` | TypeCorrect, RowsKept, OpenIsNew, FailuresExcused, Refinement | who is past the new table holds the lock (`LockInv`), and from the copy to the commit the copy equals the table and the schema is the old one (`CopyInv`): saves need an open store, which needs the new schema, so none can fall into the window; `ExcuseInv` carries the excuse to the statement that fails |

Each follows Init => IInv, IInv /\ [Next]_vars => IInv', IInv => Inv; the refinements add
that the initial states map to initial states and each step to a step or a stutter of the
abstract module.

Three theorems about the server have hypotheses beside the ASSUMEs: EstimateIsBracketed,
RetentionNeverPays and ValidationIsHonest take the numbers to be an ordered field in which the
operators stay (`OrderedField`), with powers that are positive, multiplicative and at least one
for a base of at least one (`PowerLaws`). The real numbers with their power are such a field;
floating-point numbers are one up to rounding. OrderNeverMatters needs neither: it holds for floating-point
operations as they are, but for the sums of the fit and of the mean error, which Go takes in
the order of a map and of the rows, and `Mean` in none.

Only model-checked: liveness (`CallReturns`, `ForceUnsticks`, `CancelEnds`, `BatchEnds`,
`TunnelEnds`, `CollectEnds`, `EditIsShown`), which needs ENABLED and is out of the prover's
reach.

## 7. Findings

1. `read_load_constant`: the load generators' comment says that the read load is constant in
   every experiment. A tunnel that is lost is not opened again, each later tick is a
   transient error that is skipped, and the experiment ends without an error
   (`experimentworkload/workload.go` 117-131).
2. `deploy_scratch`: stacks are said to be deployed from scratch. Only RecreateNamespace
   removes Released volumes, and the stacks call DeleteNamespace; with a Retain policy the
   claim of the next run can get the directory of the previous one, which is what the
   comment at provider.go 263-266 warns of.

Differences seen while modelling that no run of their own shows:

- models/resource_usage_info.go:28 calls disk_bytes the usage at the moment of the query;
  the query takes the maximum over the collection window (`pkg/resourcepromql/queries.go`
  29, `Aggregate` of DiskMetric). `RowWasReal` says how old the value can be.
- obs-advisor/server/capacitymodel/model.go:24 calls the peak of memory one over the full
  run; its window leaves out the warm-up like the others (`WarmupExcluded`). Line 20
  speaks of CPU in steady state; the window ends after the load, with the wait for the
  tunnel in it (`RowOfOneRound` bounds that).
- obs-advisor/index.html:233 takes every row to be measured at seven days; the commands
  accept 1, 7 and 30 days and the server uses rows of any (`Advisor`).
- A late answer of an earlier render replaces the tables of a later one
  (obs-advisor/index.html:391); nothing promises otherwise, and the properties of
  AdvisorPage say what still holds.
- A failed request leaves its instrument out of the comparison without a word
  (obs-advisor/index.html:163 and 387).

## 8. What is not modelled, and why

- The content of requests: chart values, PromQL texts, JSON. Their meaning is modelled where
  a property depends on it (max_over_time, lookback, transient errors).
- In Deploy, helm's goroutine that Ctrl-C leaves behind (Experiment has it): what it adds to
  the cluster roles and to the namespace while the next entry removes the release.
- Several stacks deployed at once: every unit has its own namespace and names. Experiment
  keeps them side by side in its state.
- Two obs-bench processes working on one cluster at the same time: nothing in the code
  coordinates them and nothing claims that they may. Their database is shared in
  ResultsStore, and Namespace has a rival deletion.
- Building images and pulling charts: I/O of the Docker and helm libraries; a build is one
  call of Deploy. The chart cache is filled once and constant afterwards.
- The metrics provider: fixed series observed by one ticker, no state outlives a tick.
- charts.html draws the measurements once and keeps nothing. Of model.go the low and high
  ends of an estimate and prices, which are products of an estimate with constants.
- Configuration, wiring and Terraform: read once or declarative.
