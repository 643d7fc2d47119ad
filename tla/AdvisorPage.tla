----------------------------- MODULE AdvisorPage -----------------------------
(***************************************************************************)
(* The page of obs-advisor.  An edit of the form leads to a render, which  *)
(* reads the form, asks the server for one estimate per instrument and     *)
(* shows the tables of its two sections and their total as the answers     *)
(* come in.  Nothing cancels a render: several may be under way, and their *)
(* answers come in any order or not at all.                                *)
(*                                                                         *)
(* The script runs one task at a time; a task and the promises it resolves *)
(* are one action.  What the form holds is the number of edits so far.  A  *)
(* render keeps what it read in constants, for its requests as well as for *)
(* the text of its tables: a table is known by the render that shows it.   *)
(***************************************************************************)
EXTENDS Naturals

CONSTANTS
    Metrics,    \* instruments with measurements under metrics
    Logs,       \* and under logs
    MaxEdits,   \* bound: edits of the form
    None

ASSUME AdvisorPageAssumption ==
    /\ Metrics \cap Logs = {}
    /\ MaxEdits \in Nat

Sections == {"metrics", "logs"}
Of(s)    == IF s = "metrics" THEN Metrics ELSE Logs
Edits    == 0..MaxEdits

\* Every edit leads to at most one render, and so does the end of loadData.
Renders == 1..(MaxEdits + 1)

VARIABLES
    form,       \* what is entered
    timer,      \* renderTimer is running
    loading,    \* loadData: fetching, then loaded or failed
    known,      \* METRICS_INSTRUMENTS and LOGS_INSTRUMENTS
    started,    \* renders begun
    read,       \* what each of them read from the form
    wants,      \* the instruments it asks for
    pending,    \* those without an answer yet
    shown,      \* whose table each section shows
    total,      \* whose rows the total adds
    overtaken   \* history: a table was replaced by that of an earlier render

renders == <<started, read, wants, pending>>
tables  == <<shown, total, overtaken>>
vars    == <<form, timer, loading, known, renders, tables>>

Instruments == Metrics \cup Logs

ASSUME NoneAssumption == None \notin Renders

TypeOK ==
    /\ form \in Edits /\ timer \in BOOLEAN
    /\ loading \in {"fetching", "loaded", "failed"}
    /\ known \subseteq Instruments
    /\ started \in 0..(MaxEdits + 1)
    /\ read \in [Renders -> Edits]
    /\ wants \in [Renders -> SUBSET Instruments]
    /\ pending \in [Renders -> SUBSET Instruments]
    /\ shown \in [Sections -> Renders \cup {None}]
    /\ total \in Renders \cup {None}
    /\ overtaken \in BOOLEAN

Init ==
    /\ form = 0 /\ timer = FALSE
    /\ loading = "fetching" /\ known = {}
    /\ started = 0
    /\ read = [r \in Renders |-> 0]
    /\ wants = [r \in Renders |-> {}]
    /\ pending = [r \in Renders |-> {}]
    /\ shown = [s \in Sections |-> None] /\ total = None
    /\ overtaken = FALSE

(***************************************************************************)
(* What a render shows.                                                    *)
(***************************************************************************)
\* The sections of render r that have all their answers, once those in waiting
\* are the ones without.
Done(r, waiting) == {s \in Sections : wants'[r] \cap Of(s) \cap waiting = {}}

ShowIfLatest(r, sections) ==
    /\ shown' = [s \in Sections |->
                    IF s \in sections /\ r = started' THEN r ELSE shown[s]]
    /\ UNCHANGED overtaken

\* renderTable of the sections that are complete with this task.
ShowSections(r, sections) ==
    /\ shown' = [s \in Sections |-> IF s \in sections THEN r ELSE shown[s]]
    /\ overtaken' = (overtaken \/ \E s \in sections : shown[s] # None /\ shown[s] > r)

\* renderTotal takes the rows that its own renderMetrics and renderLogs returned.
ShowTotal(r, waiting) ==
    total' = IF waiting = {} THEN r ELSE total

(***************************************************************************)
(* renderAll: both sections read the form and send their requests before   *)
(* the first of them waits.  A section without instruments is shown at     *)
(* once.                                                                   *)
(***************************************************************************)
RenderAll(entered, instruments) ==
    LET r == started + 1
    IN  /\ started' = r
        /\ read' = [read EXCEPT ![r] = entered]
        /\ wants' = [wants EXCEPT ![r] = instruments]
        /\ pending' = [pending EXCEPT ![r] = instruments]
        /\ ShowSections(r, Done(r, instruments))
        /\ ShowTotal(r, instruments)

\* The end of loadData, which no answer and no wrong answer can stop.
Loaded ==
    /\ loading = "fetching"
    /\ \/ loading' = "loaded" /\ known' = Instruments
       \/ loading' = "failed" /\ known' = {}
    /\ RenderAll(form, known')
    /\ UNCHANGED <<form, timer>>

(***************************************************************************)
(* The form.  Loads and tariffs are rendered when nothing was typed for    *)
(* 300 ms, a retention at once.                                            *)
(***************************************************************************)
TypeUnlessBusy ==
    /\ form < MaxEdits
    /\ form' = form + 1
    /\ timer' = (timer \/ \A r \in Renders : pending[r] = {})
    /\ UNCHANGED <<loading, known, renders, tables>>

\* scheduleRender: the timer starts anew.
Type ==
    /\ form < MaxEdits
    /\ form' = form + 1 /\ timer' = TRUE
    /\ UNCHANGED <<loading, known, renders, tables>>

TimerFires ==
    /\ timer
    /\ timer' = FALSE
    /\ RenderAll(form, known)
    /\ UNCHANGED <<form, loading, known>>

SelectReadsBefore ==
    /\ form < MaxEdits
    /\ form' = form + 1
    /\ RenderAll(form, known)
    /\ UNCHANGED <<timer, loading, known>>

\* A timer that runs goes on running.
Select ==
    /\ form < MaxEdits
    /\ form' = form + 1
    /\ RenderAll(form', known)
    /\ UNCHANGED <<timer, loading, known>>

(***************************************************************************)
(* The server and the connection to it.                                    *)
(***************************************************************************)
\* fetchEstimate never throws: an error of any kind is an answer too, one that
\* leaves its instrument out of the table.
Respond(r, i) ==
    LET waiting == pending[r] \ {i}
    IN  /\ i \in pending[r]
        /\ pending' = [pending EXCEPT ![r] = waiting]
        /\ UNCHANGED <<form, timer, loading, known, started, read, wants>>
        /\ ShowSections(r, {s \in Done(r, waiting) : i \in Of(s)})
        /\ ShowTotal(r, waiting)

Answer == \E r \in Renders, i \in Instruments : Respond(r, i)

Quiet == /\ ~timer /\ loading # "fetching"
         /\ \A r \in Renders : pending[r] = {}

Idle == Quiet /\ form = MaxEdits /\ UNCHANGED vars

Next == Loaded \/ Type \/ TimerFires \/ Select \/ Answer \/ Idle

Spec == Init /\ [][Next]_vars

\* Timers fire, and every request is answered or fails.
FairSpec == /\ Spec
            /\ WF_vars(Loaded) /\ WF_vars(TimerFires) /\ WF_vars(Answer)

(***************************************************************************)
(* Properties.                                                             *)
(***************************************************************************)
\* Renders overlap and nothing orders them.  Where both sections show the same
\* render, the total adds its rows.  Unless an earlier render came late, tables
\* of two renders stand side by side only while the later one still waits for
\* answers of the other section, and the total is never ahead of the tables.
SideBySide ==
    /\ shown["metrics"] = shown["logs"] => total = shown["logs"]
    /\ ~overtaken =>
          /\ \A s, t \in Sections :
                shown[t] # None /\ pending[shown[t]] \cap Of(s) = {}
                    => shown[s] # None /\ shown[s] >= shown[t]
          /\ total # None => \A s \in Sections : shown[s] # None /\ shown[s] >= total

\* No edit is lost between the timer, the selects and loadData: when all is
\* quiet the page shows what is entered, unless an answer came out of order.
NoEditLost ==
    Quiet /\ ~overtaken =>
        /\ \A s \in Sections : shown[s] # None /\ read[shown[s]] = form
        /\ total # None /\ read[total] = form

\* Every edit reaches both sections, unless an earlier render is late.
EditIsShown ==
    \A v \in Edits : \A s \in Sections :
        form = v ~> overtaken \/ (shown[s] # None /\ read[shown[s]] >= v)

=============================================================================
