----------------------------- MODULE Experiment -----------------------------
(***************************************************************************)
(* `obs-bench run-batch`: the loop over the entries of the batch file and, *)
(* for each of them, RunExperiment: central monitoring, the stack under    *)
(* test, the load, the read queries, the collection and the saved row.     *)
(*                                                                         *)
(* The cluster outlives the process.  It is a set of resources, each with  *)
(* the try that created what runs there now; a try is <<process, entry>>.  *)
(* Every stage may fail, the operator may press Ctrl-C, the process may be *)
(* killed, and the operator may start another one on the same file.        *)
(***************************************************************************)
EXTENDS Naturals, Sequences

CONSTANTS
    Instruments,   \* instruments a batch file can name
    LogBackends,   \* those of them that take logs
    Total,         \* number of entries in the batch file
    Entry,         \* the instrument of each entry
    ValidEntries,  \* the entries that pass validate
    MaxProcs,      \* bound: processes started on the file
    None

Tries == (1..MaxProcs) \X (1..Total)

ASSUME ExperimentAssumption ==
    /\ LogBackends \subseteq Instruments
    /\ {"monitoring", "metrics-provider", "log-producer"} \cap Instruments = {}
    /\ Total \in Nat \ {0}
    /\ Entry \in [1..Total -> Instruments]
    /\ ValidEntries \subseteq 1..Total
    /\ MaxProcs \in Nat \ {0}
    /\ None \notin Tries

Resources == {"monitoring", "metrics-provider", "log-producer"} \cup Instruments

VARIABLES
    owner,      \* the try that created each resource, or None
    podReady,   \* the pods behind the service to be forwarded are ready
    rows,       \* the results table
    proc,       \* the running process
    pc,         \* its stage
    entry,      \* the entry it works on
    succeeded,  \* the two counters of the loop
    failed,
    cancelled,  \* the command's context is cancelled
    loadErr,    \* runQueryLoad returned an error and the defer is still to run
    installing, \* helm's installations that nobody waits for any more
    interrupted,\* history: the installation that Ctrl-C came upon
    ranOn,      \* history: whose load source ran beside the queries
    measured,   \* history: whose monitoring and stack the collector read
    mayStray    \* history: something kept the code from removing a producer

vars == <<owner, podReady, rows, proc, pc, entry, succeeded, failed, cancelled,
          loadErr, installing, interrupted, ranOn, measured, mayStray>>

Stages == {"next", "monUninstall", "monUp", "stackUninstall", "stackUp",
           "loadPurge", "loadUp", "forward", "query", "stopLoad",
           "collectForward", "collect", "save"}

Final == {"ok", "failed", "killed"}

Try == <<proc, entry>>
Instrument == Entry[entry]
IsLogs == Instrument \in LogBackends
LoadSource == IF IsLogs THEN "log-producer" ELSE "metrics-provider"

MaybeTry == Tries \cup {None}

TypeOK ==
    /\ owner \in [Resources -> MaybeTry]
    /\ podReady \in BOOLEAN
    /\ rows \in Seq([of : Tries, mon : MaybeTry, stack : MaybeTry,
                     load : MaybeTry])
    /\ proc \in 1..MaxProcs
    /\ pc \in Stages \cup Final
    /\ entry \in 1..(Total + 1)
    /\ pc \in Stages \ {"next"} => entry \in ValidEntries
    /\ succeeded \in Nat /\ failed \in Nat
    /\ cancelled \in BOOLEAN /\ loadErr \in BOOLEAN /\ mayStray \in BOOLEAN
    /\ installing \subseteq Resources \X Tries
    /\ interrupted \subseteq Resources \X Tries
    /\ ranOn \in MaybeTry
    /\ measured \in [mon : MaybeTry, stack : MaybeTry]

Init ==
    /\ owner = [r \in Resources |-> None]
    /\ podReady = FALSE /\ rows = <<>>
    /\ proc = 1 /\ pc = "next" /\ entry = 1
    /\ succeeded = 0 /\ failed = 0 /\ cancelled = FALSE
    /\ loadErr = FALSE /\ mayStray = FALSE
    /\ installing = {} /\ interrupted = {}
    /\ ranOn = None /\ measured = [mon |-> None, stack |-> None]

(***************************************************************************)
(* Control.  An error of any stage ends the experiment; the loop counts it *)
(* and goes on, without looking at the context.                            *)
(***************************************************************************)
Go(to) == /\ pc' = to
          /\ UNCHANGED <<entry, succeeded, failed>>

AbortStuck == pc' = "next" /\ UNCHANGED <<entry, succeeded, failed>>

Abort == /\ pc' = "next"
         /\ entry' = entry + 1
         /\ failed' = failed + 1
         /\ UNCHANGED succeeded

Remains == UNCHANGED <<podReady, rows, proc, cancelled, installing, interrupted>>
NotMeasuring == UNCHANGED <<loadErr, ranOn, measured>>

Remaining == entry <= Total

StartEntry ==
    /\ pc = "next" /\ Remaining
    /\ IF entry \in ValidEntries THEN Go("monUninstall") ELSE Abort
    /\ Remains /\ NotMeasuring /\ UNCHANGED <<owner, mayStray>>

ExitCodeLenient == IF succeeded = 0 THEN "failed" ELSE "ok"

ExitCode == IF failed > 0 THEN "failed" ELSE "ok"

\* The process takes helm's goroutines with it.
EndBatch ==
    /\ pc = "next" /\ ~Remaining
    /\ Go(ExitCode)
    /\ installing' = {}
    /\ NotMeasuring
    /\ UNCHANGED <<owner, podReady, rows, proc, cancelled, interrupted, mayStray>>

(***************************************************************************)
(* UpMonitoring and Deploy.  helm's uninstall takes no context, but what   *)
(* comes before it (Prometheus and VictoriaMetrics build and push an image *)
(* first) and after it (the webhooks, DeleteNamespace) does: none of it    *)
(* starts under a context that is done.  DeleteNamespace may return nil    *)
(* when Ctrl-C comes while it waits; that is Cancel right after the step.  *)
(***************************************************************************)
UninstallNoCtx(r, to) ==
    /\ \/ owner' = [owner EXCEPT ![r] = None] /\ Go(to)
       \/ owner' \in {owner, [owner EXCEPT ![r] = None]} /\ Abort
    /\ Remains /\ NotMeasuring /\ UNCHANGED mayStray

Uninstall(r, to) ==
    /\ \/ ~cancelled /\ owner' = [owner EXCEPT ![r] = None] /\ Go(to)
       \/ owner' \in {owner, [owner EXCEPT ![r] = None]} /\ Abort
    /\ Remains /\ NotMeasuring /\ UNCHANGED mayStray

InstallSwallow(r, to) ==
    /\ owner' \in {owner, [owner EXCEPT ![r] = Try]}
    /\ Go(to)
    /\ Remains /\ NotMeasuring /\ UNCHANGED mayStray

\* Up does not look at the context.  helm creates objects under a context that
\* is done as well, and a failed installation may leave its pods running; the
\* end of the context only makes helm stop waiting for its goroutine, which may
\* still find an answer ready, or go on by itself.
Install(r, to) ==
    /\ \/ owner' = [owner EXCEPT ![r] = Try] /\ (Go(to) \/ Abort)
          /\ UNCHANGED installing
       \/ owner' = owner /\ Abort /\ UNCHANGED installing
       \/ /\ cancelled
          /\ owner' \in {owner, [owner EXCEPT ![r] = Try]} /\ Abort
          /\ installing' = installing \cup {<<r, Try>>}
    /\ NotMeasuring
    /\ UNCHANGED <<podReady, rows, proc, cancelled, interrupted, mayStray>>

\* helm's goroutine, beside whatever the loop does meanwhile.
InstallGoesOn ==
    /\ \E i \in installing : owner' = [owner EXCEPT ![i[1]] = i[2]]
    /\ Remains /\ NotMeasuring /\ UNCHANGED <<pc, entry, succeeded, failed, mayStray>>

MonUninstall == pc = "monUninstall" /\ Uninstall("monitoring", "monUp")

MonUp == pc = "monUp" /\ Install("monitoring", "stackUninstall")

StackUninstall == pc = "stackUninstall" /\ Uninstall(Instrument, "stackUp")

StackUp == pc = "stackUp" /\ Install(Instrument, "loadPurge")

(***************************************************************************)
(* UpMetricsProvider and UpLogProvider: RecreateNamespace removes whatever *)
(* source an earlier try left, then the deployment is created.  When the   *)
(* creation is answered with an error the deployment may exist all the     *)
(* same, and the defer that deletes it is not registered yet.              *)
(***************************************************************************)
LoadPurge ==
    /\ pc = "loadPurge"
    /\ \/ /\ ~cancelled
          /\ owner' = [owner EXCEPT ![LoadSource] = None] /\ Go("loadUp")
          /\ mayStray' = (mayStray /\ ~IsLogs)
       \/ /\ owner' \in {owner, [owner EXCEPT ![LoadSource] = None]}
          /\ Abort
          /\ UNCHANGED mayStray
    /\ Remains /\ NotMeasuring

LoadUp ==
    /\ pc = "loadUp"
    /\ \/ /\ ~cancelled
          /\ owner' = [owner EXCEPT ![LoadSource] = Try] /\ Go("forward")
          /\ UNCHANGED mayStray
       \/ /\ ~cancelled
          /\ owner' = [owner EXCEPT ![LoadSource] = Try] /\ Abort
          /\ mayStray' = (mayStray \/ IsLogs)
       \/ owner' = owner /\ Abort /\ UNCHANGED mayStray
    /\ Remains /\ NotMeasuring

(***************************************************************************)
(* runQueryLoad.  PortForwardService waits for a ready pod as long as its  *)
(* context lasts.  The loop of queries notices a cancelled context only    *)
(* when it sends a query, so its last tick may still return nil.           *)
(***************************************************************************)
LoadEndsNoDefer(err) ==
    /\ UNCHANGED loadErr
    /\ IF err THEN Abort
       ELSE Go(IF IsLogs THEN "stopLoad" ELSE "collectForward")

LoadEnds(err) ==
    IF IsLogs THEN Go("stopLoad") /\ loadErr' = err
    ELSE /\ IF err THEN Abort ELSE Go("collectForward")
         /\ UNCHANGED loadErr

Forward ==
    /\ pc = "forward" /\ podReady /\ ~cancelled
    /\ Go("query")
    /\ Remains /\ NotMeasuring /\ UNCHANGED <<owner, mayStray>>

ForwardWaits ==
    /\ pc = "forward" /\ ~cancelled
    /\ LoadEnds(TRUE)
    /\ Remains /\ UNCHANGED <<owner, mayStray, ranOn, measured>>

ForwardFails ==
    /\ pc = "forward"
    /\ LoadEnds(TRUE)
    /\ Remains /\ UNCHANGED <<owner, mayStray, ranOn, measured>>

Query ==
    /\ pc = "query"
    /\ \E err \in BOOLEAN : LoadEnds(err)
    /\ ranOn' = owner[LoadSource]
    /\ Remains /\ UNCHANGED <<owner, mayStray, measured>>

\* The deferred DeleteLogProducerDeployment, under a context of its own.
StopLoad ==
    /\ pc = "stopLoad"
    /\ \/ owner' = [owner EXCEPT !["log-producer"] = None] /\ UNCHANGED mayStray
       \/ owner' = owner /\ mayStray' = TRUE
    /\ IF loadErr THEN Abort ELSE Go("collectForward")
    /\ loadErr' = FALSE
    /\ Remains /\ UNCHANGED <<ranOn, measured>>

(***************************************************************************)
(* Collect and Save.                                                       *)
(***************************************************************************)
CollectForward ==
    /\ pc = "collectForward" /\ podReady /\ ~cancelled
    /\ Go("collect")
    /\ Remains /\ NotMeasuring /\ UNCHANGED <<owner, mayStray>>

CollectForwardFails ==
    /\ pc = "collectForward"
    /\ Abort
    /\ Remains /\ NotMeasuring /\ UNCHANGED <<owner, mayStray>>

Collect ==
    /\ pc = "collect"
    /\ \/ /\ ~cancelled
          /\ measured' = [mon |-> owner["monitoring"],
                          stack |-> owner[Instrument]]
          /\ Go("save")
       \/ Abort /\ UNCHANGED measured
    /\ Remains /\ UNCHANGED <<owner, mayStray, loadErr, ranOn>>

NewRow == [of |-> Try, mon |-> measured.mon, stack |-> measured.stack, load |-> ranOn]

\* An insert that Ctrl-C interrupts is answered with an error, but its row may
\* have been committed.
Save ==
    /\ pc = "save"
    /\ \/ /\ ~cancelled /\ rows' = Append(rows, NewRow)
          /\ succeeded' = succeeded + 1
          /\ pc' = "next" /\ entry' = entry + 1 /\ UNCHANGED <<failed, cancelled>>
       \/ /\ ~cancelled /\ cancelled' = TRUE
          /\ rows' = Append(rows, NewRow) /\ Abort
       \/ Abort /\ UNCHANGED <<rows, cancelled>>
    /\ NotMeasuring
    /\ UNCHANGED <<owner, mayStray, podReady, proc, installing, interrupted>>

(***************************************************************************)
(* The environment: Ctrl-C, a kill and a new process, pods that come up    *)
(* and go down.                                                            *)
(***************************************************************************)
UnderWay ==
    CASE pc = "monUp"   -> {<<"monitoring", Try>>}
      [] pc = "stackUp" -> {<<Instrument, Try>>}
      [] OTHER          -> {}

Cancel ==
    /\ ~cancelled /\ pc \in Stages
    /\ cancelled' = TRUE /\ interrupted' = UnderWay
    /\ UNCHANGED <<owner, podReady, rows, proc, pc, entry, succeeded, failed,
                   loadErr, installing, ranOn, measured, mayStray>>

Kill ==
    /\ pc \in Stages
    /\ pc' = "killed" /\ installing' = {}
    /\ mayStray' = (mayStray \/ owner["log-producer"] # None)
    /\ UNCHANGED <<owner, podReady, rows, proc, entry, succeeded, failed,
                   cancelled, loadErr, interrupted, ranOn, measured>>

Restart ==
    /\ pc \in Final /\ proc < MaxProcs
    /\ proc' = proc + 1 /\ pc' = "next" /\ entry' = 1
    /\ succeeded' = 0 /\ failed' = 0 /\ cancelled' = FALSE /\ loadErr' = FALSE
    /\ interrupted' = {}
    /\ ranOn' = None /\ measured' = [mon |-> None, stack |-> None]
    /\ UNCHANGED <<owner, podReady, rows, installing, mayStray>>

PodsChange ==
    /\ pc \in Stages
    /\ podReady' = ~podReady
    /\ UNCHANGED <<owner, rows, proc, pc, entry, succeeded, failed, cancelled,
                   loadErr, installing, interrupted, ranOn, measured, mayStray>>

Finished == pc \in Final /\ UNCHANGED vars

\* Whatever must end by itself: every stage but the wait for a ready pod is
\* bounded by a timeout of its own, and that wait ends with the context.
Step ==
    \/ StartEntry \/ EndBatch
    \/ MonUninstall \/ MonUp \/ StackUninstall \/ StackUp
    \/ LoadPurge \/ LoadUp
    \/ Forward \/ (cancelled /\ ForwardFails) \/ Query \/ StopLoad
    \/ CollectForward \/ (cancelled /\ CollectForwardFails) \/ Collect \/ Save

Next ==
    \/ Step \/ ForwardFails \/ CollectForwardFails
    \/ InstallGoesOn \/ Cancel \/ Kill \/ Restart \/ PodsChange \/ Finished

Spec == Init /\ [][Next]_vars

FairSpec == Spec /\ WF_vars(Step)

(***************************************************************************)
(* Properties.                                                             *)
(***************************************************************************)
\* Every row was measured on the monitoring, the stack and the load source
\* that the very same try created, although the cluster keeps what earlier
\* tries, failed tries and killed processes left running.
RowsMeasureTheirTry ==
    \A k \in DOMAIN rows :
        {rows[k].mon, rows[k].stack, rows[k].load} = {rows[k].of}

\* Between experiments a log producer is running only if its deletion failed,
\* its creation was answered with an error, or a process was killed.
StrayIsExcused ==
    pc \in {"next"} \cup Final /\ owner["log-producer"] # None => mayStray

\* Ctrl-C stops neither the loop nor an installation that helm has begun, and
\* Up would begin one under a context that is done.  Even so nothing new is
\* built: no later entry gets as far as Up, no load source is created, no row is
\* saved, and what still appears in the cluster belongs to the one installation
\* that Ctrl-C came upon.
CancelStartsNothingNew ==
    [][ cancelled /\ cancelled' =>
          /\ \A r \in Resources : \/ owner'[r] \in {owner[r], None}
                                  \/ <<r, owner'[r]>> \in interrupted
          /\ rows' = rows ]_vars

\* After Ctrl-C the command ends, wherever it was.
CancelEnds == cancelled ~> pc \in Final

\* If the pods that are waited for come up for good, the batch ends.
BatchEnds == (<>[]podReady) => <>(pc \in Final)

\* The command implements the abstract batch: one faithful row or one failure
\* per entry, and success only when every entry has its row.
Measured(row) ==
    [of |-> row.of,
     on |-> IF {row.mon, row.stack, row.load} = {row.of} THEN row.of ELSE None]

AbstractBatch == INSTANCE Batch WITH
    next <- entry,
    rows <- [k \in DOMAIN rows |-> Measured(rows[k])],
    outcome <- IF pc \in Stages THEN "running" ELSE pc

ImplementsBatch == AbstractBatch!Spec

=============================================================================
