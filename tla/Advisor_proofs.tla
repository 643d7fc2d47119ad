---------------------------- MODULE Advisor_proofs ----------------------------
(***************************************************************************)
(* Proofs about obs-advisor: its page, for any instruments and any number  *)
(* of edits, and its server with the capacity model, for any table, any    *)
(* order of its rows, any load and any retention.                          *)
(*                                                                         *)
(* The numbers of the model are an ordered field, and powers obey their laws *)
(* in it: both are hypotheses of the theorems about estimates.             *)
(***************************************************************************)
EXTENDS AdvisorPage, Advisor, FiniteSetTheorems, SequenceTheorems,
        WellFoundedInduction, TLAPS

(***************************************************************************)
(* The page.                                                               *)
(***************************************************************************)
\* A render for every edit that is over, none for one whose timer still runs.
CountInv ==
    started + (IF timer THEN 1 ELSE 0) <= form + (IF loading = "fetching" THEN 0 ELSE 1)

\* The latest render has read what is entered, or another one is to come.
CurrentInv ==
    ~timer /\ loading # "fetching" => started > 0 /\ read[started] = form

\* A table has all its answers, so has the total, and the total is that of the
\* render which shows its second section.
TableInv ==
    /\ \A r \in Renders : /\ pending[r] \subseteq wants[r]
                          /\ r > started => pending[r] = {}
    /\ \A s \in Sections : shown[s] # None =>
          shown[s] <= started /\ pending[shown[s]] \cap Of(s) = {}
    /\ total # None => total <= started /\ pending[total] = {}
    /\ shown["metrics"] = shown["logs"] => total = shown["logs"]

\* Where a render has its answers, the page shows it or a later one.
AnsweredInv ==
    ~overtaken => \A r \in Renders : r <= started =>
        /\ \A s \in Sections : pending[r] \cap Of(s) = {} =>
              shown[s] # None /\ shown[s] >= r
        /\ pending[r] = {} => total # None /\ total >= r

IInv == TypeOK /\ CountInv /\ CurrentInv /\ TableInv /\ AnsweredInv

\* A page that was just opened has rendered nothing.
LEMMA InitInv == Init => IInv
<1> SUFFICES ASSUME Init PROVE IInv
  OBVIOUS
<1>1. 0 \in Edits /\ 0 \in 0..(MaxEdits + 1)
  BY AdvisorPageAssumption DEF Edits
<1>2. TypeOK
  BY <1>1 DEF Init, TypeOK
<1>3. CountInv /\ CurrentInv /\ TableInv
  BY DEF Init, CountInv, CurrentInv, TableInv, Sections
<1>4. AnsweredInv
  BY AdvisorPageAssumption DEF Init, AnsweredInv, Renders
<1>5. QED
  BY <1>2, <1>3, <1>4 DEF IInv

\* Every instrument is in a section.
LEMMA SectionOf == \A i \in Instruments : \E s \in Sections : i \in Of(s)
  BY DEF Instruments, Sections, Of

\* Both sections together are all instruments.
LEMMA BothSections ==
    ASSUME NEW I \in SUBSET Instruments, \A s \in Sections : I \cap Of(s) = {}
    PROVE  I = {}
  BY SectionOf

\* A render begins.
LEMMA RenderStep ==
    ASSUME IInv, NEW entered \in Edits, NEW known2 \in SUBSET Instruments,
           RenderAll(entered, known2), started + 1 \in Renders
    PROVE  /\ started' = started + 1 /\ started' \in Renders
           /\ read' \in [Renders -> Edits] /\ read'[started'] = entered
           /\ wants' \in [Renders -> SUBSET Instruments]
           /\ pending' \in [Renders -> SUBSET Instruments]
           /\ shown' \in [Sections -> Renders \cup {None}] /\ total' \in Renders \cup {None}
           /\ overtaken' \in BOOLEAN
           /\ TableInv' /\ AnsweredInv'
<1> DEFINE new == started + 1
<1>1. /\ started \in Nat /\ MaxEdits \in Nat /\ new \in Renders /\ new \in Nat
      /\ read \in [Renders -> Edits]
      /\ wants \in [Renders -> SUBSET Instruments]
      /\ pending \in [Renders -> SUBSET Instruments]
      /\ shown \in [Sections -> Renders \cup {None}]
      /\ total \in Renders \cup {None} /\ overtaken \in BOOLEAN
      /\ Renders \subseteq Nat
  BY AdvisorPageAssumption DEF IInv, TypeOK, Renders
<1>2. /\ started' = new /\ read' = [read EXCEPT ![new] = entered]
      /\ wants' = [wants EXCEPT ![new] = known2]
      /\ pending' = [pending EXCEPT ![new] = known2]
  BY DEF RenderAll
<1>3. read'[new] = entered /\ wants'[new] = known2 /\ pending'[new] = known2
  BY <1>1, <1>2
<1>4. PICK done : /\ done = {s \in Sections : known2 \cap Of(s) = {}}
                  /\ shown' = [s \in Sections |-> IF s \in done THEN new ELSE shown[s]]
                  /\ overtaken' = (overtaken \/ \E s \in done : shown[s] # None /\ shown[s] > new)
  <2>1. Done(new, known2) = {s \in Sections : known2 \cap Of(s) = {}}
    BY <1>3 DEF Done
  <2>2. QED
    BY <2>1 DEF RenderAll, ShowSections
<1>5. total' = IF known2 = {} THEN new ELSE total
  BY DEF RenderAll, ShowTotal
<1>6. new # None
  BY <1>1, NoneAssumption
<1>7. \A q \in Renders : q <= started => pending'[q] = pending[q] /\ q # new
  BY <1>1, <1>2
<1>8. TableInv'
  <2>1. \A q \in Renders : pending'[q] \subseteq wants'[q] /\ (q > new => pending'[q] = {})
    BY <1>1, <1>2 DEF IInv, TableInv
  <2>2. ASSUME NEW s \in Sections, shown'[s] # None
        PROVE  shown'[s] <= new /\ pending'[shown'[s]] \cap Of(s) = {}
    <3>1. CASE s \in done
      BY <1>1, <1>3, <1>4, <3>1
    <3>2. CASE s \notin done
      <4>1. shown'[s] = shown[s] /\ shown[s] \in Renders
        BY <1>1, <1>4, <2>2, <3>2
      <4>2. shown[s] <= started /\ pending[shown[s]] \cap Of(s) = {}
        BY <2>2, <4>1 DEF IInv, TableInv
      <4>3. QED
        BY <1>1, <1>7, <4>1, <4>2
    <3>3. QED
      BY <3>1, <3>2
  <2>3. total' # None => total' <= new /\ pending'[total'] = {}
    <3>1. CASE known2 = {}
      BY <1>1, <1>3, <1>5, <3>1
    <3>2. CASE known2 # {} /\ total # None
      <4>1. total \in Renders /\ total <= started /\ pending[total] = {}
        BY <1>1, <3>2 DEF IInv, TableInv
      <4>2. QED
        BY <1>1, <1>5, <1>7, <3>2, <4>1
    <3>3. QED
      BY <1>5, <3>1, <3>2
  <2>4. ASSUME shown'["metrics"] = shown'["logs"] PROVE total' = shown'["logs"]
    <3>1. \A s \in Sections : shown[s] # new
      BY <1>1, <1>6 DEF IInv, TableInv
    <3>2. "metrics" \in Sections /\ "logs" \in Sections
      BY DEF Sections
    <3>3. CASE known2 = {}
      BY <1>4, <1>5, <3>2, <3>3
    <3>4. CASE known2 # {}
      <4>1. "metrics" \notin done \/ "logs" \notin done
        BY <1>4, <3>4, BothSections DEF Sections
      <4>2. "metrics" \notin done /\ "logs" \notin done
        BY <1>4, <2>4, <3>1, <3>2, <4>1
      <4>3. QED
        BY <1>4, <1>5, <2>4, <3>2, <3>4, <4>2 DEF IInv, TableInv
    <3>5. QED
      BY <3>3, <3>4
  <2>5. QED
    BY <1>2, <2>1, <2>2, <2>3, <2>4 DEF TableInv
<1>9. AnsweredInv'
  <2> SUFFICES ASSUME ~overtaken', NEW q \in Renders, q <= new
               PROVE  /\ \A s \in Sections : pending'[q] \cap Of(s) = {} =>
                            shown'[s] # None /\ shown'[s] >= q
                      /\ pending'[q] = {} => total' # None /\ total' >= q
    BY <1>2 DEF AnsweredInv
  <2>1. CASE q = new
    BY <1>1, <1>3, <1>4, <1>5, <1>6, <2>1
  <2>2. CASE q # new
    <3>1. q <= started /\ pending'[q] = pending[q] /\ ~overtaken
      BY <1>1, <1>4, <1>7, <2>2
    <3>2. ASSUME NEW s \in Sections, pending[q] \cap Of(s) = {}
          PROVE  shown'[s] # None /\ shown'[s] >= q
      <4>1. shown[s] # None /\ shown[s] >= q
        BY <3>1, <3>2 DEF IInv, AnsweredInv
      <4>2. QED
        BY <1>1, <1>4, <1>6, <4>1
    <3>3. pending[q] = {} => total # None /\ total >= q
      BY <3>1 DEF IInv, AnsweredInv
    <3>4. QED
      BY <1>1, <1>5, <1>6, <3>1, <3>2, <3>3
  <2>3. QED
    BY <2>1, <2>2
<1>10. shown' \in [Sections -> Renders \cup {None}] /\ total' \in Renders \cup {None}
  BY <1>1, <1>4, <1>5
<1>11. QED
  BY <1>1, <1>2, <1>3, <1>4, <1>8, <1>9, <1>10

\* An answer to a request of some render.
LEMMA AnswerStep ==
    ASSUME IInv, NEW r \in Renders, NEW i \in Instruments, Respond(r, i)
    PROVE  /\ pending' \in [Renders -> SUBSET Instruments]
           /\ shown' \in [Sections -> Renders \cup {None}] /\ total' \in Renders \cup {None}
           /\ overtaken' \in BOOLEAN
           /\ TableInv' /\ AnsweredInv'
<1> DEFINE waiting == pending[r] \ {i}
<1>1. /\ started \in Nat /\ Renders \subseteq Nat
      /\ wants \in [Renders -> SUBSET Instruments]
      /\ pending \in [Renders -> SUBSET Instruments]
      /\ shown \in [Sections -> Renders \cup {None}]
      /\ total \in Renders \cup {None} /\ overtaken \in BOOLEAN
  BY AdvisorPageAssumption DEF IInv, TypeOK, Renders
<1>2. /\ i \in pending[r] /\ pending' = [pending EXCEPT ![r] = waiting]
      /\ UNCHANGED <<form, timer, loading, known, started, read, wants>>
  BY DEF Respond
<1>3. /\ r <= started /\ r \in Nat /\ r # None
      /\ pending'[r] = waiting /\ waiting \in SUBSET Instruments /\ waiting \subseteq wants[r]
      /\ \A q \in Renders : pending'[q] \subseteq pending[q] /\ (q # r => pending'[q] = pending[q])
  BY <1>1, <1>2, NoneAssumption DEF IInv, TableInv
<1>4. PICK done : /\ done = {s \in Sections : waiting \cap Of(s) = {} /\ i \in Of(s)}
                  /\ shown' = [s \in Sections |-> IF s \in done THEN r ELSE shown[s]]
                  /\ overtaken' = (overtaken \/ \E s \in done : shown[s] # None /\ shown[s] > r)
  <2>1. {s \in Done(r, waiting) : i \in Of(s)}
          = {s \in Sections : waiting \cap Of(s) = {} /\ i \in Of(s)}
    BY <1>2, <1>3 DEF Done
  <2>2. QED
    BY <1>2, <2>1 DEF Respond, ShowSections
<1>5. total' = IF waiting = {} THEN r ELSE total
  BY <1>2 DEF Respond, ShowTotal
<1>6. PICK t \in Sections : i \in Of(t)
  BY SectionOf
<1>7. waiting = {} => t \in done
  BY <1>4, <1>6
<1>8. TableInv'
  <2>1. \A q \in Renders : pending'[q] \subseteq wants'[q] /\ (q > started => pending'[q] = {})
    BY <1>1, <1>2, <1>3 DEF IInv, TableInv
  <2>2. ASSUME NEW s \in Sections, shown'[s] # None
        PROVE  shown'[s] <= started /\ pending'[shown'[s]] \cap Of(s) = {}
    <3>1. CASE s \in done
      BY <1>3, <1>4, <3>1
    <3>2. CASE s \notin done
      <4>1. shown'[s] = shown[s] /\ shown[s] \in Renders
        BY <1>1, <1>4, <2>2, <3>2
      <4>2. shown[s] <= started /\ pending[shown[s]] \cap Of(s) = {}
        BY <2>2, <4>1 DEF IInv, TableInv
      <4>3. QED
        BY <1>3, <4>1, <4>2
    <3>3. QED
      BY <3>1, <3>2
  <2>3. total' # None => total' <= started /\ pending'[total'] = {}
    <3>1. CASE waiting = {}
      BY <1>3, <1>5, <3>1
    <3>2. CASE waiting # {} /\ total # None
      <4>1. total \in Renders /\ total <= started /\ pending[total] = {}
        BY <1>1, <3>2 DEF IInv, TableInv
      <4>2. QED
        BY <1>3, <1>5, <3>2, <4>1
    <3>3. QED
      BY <1>5, <3>1, <3>2
  <2>4. ASSUME shown'["metrics"] = shown'["logs"] PROVE total' = shown'["logs"]
    <3>1. "metrics" \in Sections /\ "logs" \in Sections
          /\ \A s \in Sections : s = "metrics" \/ s = "logs"
      BY DEF Sections
    <3>2. CASE done = {}
      BY <1>4, <1>5, <1>7, <2>4, <3>1, <3>2 DEF IInv, TableInv
    <3>3. CASE done # {}
      <4>1. \A s \in Sections : shown'[s] = r
        BY <1>4, <2>4, <3>1, <3>3
      <4>2. \A s \in Sections : waiting \cap Of(s) = {}
        BY <1>2, <1>3, <2>2, <4>1
      <4>3. waiting = {}
        BY <1>3, <4>2, BothSections
      <4>4. QED
        BY <1>5, <3>1, <4>1, <4>3
    <3>4. QED
      BY <3>2, <3>3
  <2>5. QED
    BY <1>2, <2>1, <2>2, <2>3, <2>4 DEF TableInv
<1>9. AnsweredInv'
  <2> SUFFICES ASSUME ~overtaken', NEW q \in Renders, q <= started
               PROVE  /\ \A s \in Sections : pending'[q] \cap Of(s) = {} =>
                            shown'[s] # None /\ shown'[s] >= q
                      /\ pending'[q] = {} => total' # None /\ total' >= q
    BY <1>2 DEF AnsweredInv
  <2>1. /\ ~overtaken
        /\ \A s \in done : shown[s] # None => ~(shown[s] > r)
    BY <1>4
  <2>2. /\ \A s \in Sections : pending[q] \cap Of(s) = {} =>
              shown[s] # None /\ shown[s] >= q
        /\ pending[q] = {} => total # None /\ total >= q
    BY <2>1 DEF IInv, AnsweredInv
  <2>3. CASE q = r
    <3>1. ASSUME NEW s \in Sections, waiting \cap Of(s) = {}
          PROVE  shown'[s] # None /\ shown'[s] >= r
      <4>1. CASE i \in Of(s)
        BY <1>3, <1>4, <3>1, <4>1
      <4>2. CASE i \notin Of(s)
        <5>1. pending[r] \cap Of(s) = {} /\ s \notin done
          BY <1>4, <3>1, <4>2
        <5>2. QED
          BY <1>4, <2>2, <2>3, <5>1
      <4>3. QED
        BY <4>1, <4>2
    <3>2. waiting = {} => total' # None /\ total' >= r
      BY <1>3, <1>5
    <3>3. QED
      BY <1>3, <2>3, <3>1, <3>2
  <2>4. CASE q # r
    <3>1. pending'[q] = pending[q] /\ q \in Nat
      BY <1>1, <1>3, <2>4
    <3>2. ASSUME NEW s \in Sections, pending[q] \cap Of(s) = {}
          PROVE  /\ shown'[s] # None /\ shown'[s] >= q
                 /\ s \in done => r >= q
      <4>1. shown[s] # None /\ shown[s] >= q /\ shown[s] \in Nat
        BY <1>1, <2>2, <3>2
      <4>2. s \in done => r >= shown[s]
        BY <1>3, <2>1, <4>1
      <4>3. QED
        BY <1>3, <1>4, <3>1, <4>1, <4>2
    <3>3. pending[q] = {} => total' # None /\ total' >= q
      <4>1. CASE waiting = {}
        BY <1>3, <1>5, <1>7, <3>2, <4>1
      <4>2. CASE waiting # {}
        BY <1>5, <2>2, <4>2
      <4>3. QED
        BY <4>1, <4>2
    <3>4. QED
      BY <3>1, <3>2, <3>3
  <2>5. QED
    BY <2>3, <2>4
<1>10. pending' \in [Renders -> SUBSET Instruments]
  BY <1>1, <1>2
<1>11. shown' \in [Sections -> Renders \cup {None}] /\ total' \in Renders \cup {None}
  BY <1>1, <1>4, <1>5
<1>12. QED
  BY <1>1, <1>4, <1>8, <1>9, <1>10, <1>11

\* Every task of the page preserves the invariant.
LEMMA StepInv == IInv /\ [Next]_vars => IInv'
<1> SUFFICES ASSUME IInv, [Next]_vars PROVE IInv'
  OBVIOUS
<1>1. /\ TypeOK /\ CountInv /\ CurrentInv /\ TableInv /\ AnsweredInv
      /\ MaxEdits \in Nat /\ form \in 0..MaxEdits /\ started \in Nat
      /\ known \in SUBSET Instruments
  BY AdvisorPageAssumption DEF IInv, TypeOK, Edits
<1>2. CASE Type
  <2>1. form' \in Edits /\ form' = form + 1 /\ timer' = TRUE
        /\ UNCHANGED <<loading, known, renders, tables>>
    BY <1>1, <1>2 DEF Type, Edits
  <2>2. TypeOK'
    BY <1>1, <2>1 DEF TypeOK, renders, tables
  <2>3. CountInv' /\ CurrentInv'
    BY <1>1, <2>1 DEF CountInv, CurrentInv, renders
  <2>4. TableInv' /\ AnsweredInv'
    BY <1>1, <2>1 DEF TableInv, AnsweredInv, renders, tables
  <2>5. QED
    BY <2>2, <2>3, <2>4 DEF IInv
<1>3. CASE TimerFires
  <2>1. timer /\ timer' = FALSE /\ RenderAll(form, known) /\ UNCHANGED <<form, loading, known>>
    BY <1>3 DEF TimerFires
  <2>2. started + 1 \in Renders /\ form \in Edits
    BY <1>1, <2>1 DEF CountInv, Renders, Edits
  <2>3. TypeOK' /\ TableInv' /\ AnsweredInv' /\ started' = started + 1 /\ read'[started'] = form
    <3>1. /\ timer' \in BOOLEAN /\ form' \in Edits
          /\ known' \in SUBSET Instruments /\ loading' \in {"fetching", "loaded", "failed"}
      BY <1>1, <2>1, <2>2 DEF TypeOK
    <3>2. QED
      BY <1>1, <2>1, <2>2, <3>1, RenderStep DEF TypeOK, Renders
  <2>4. CountInv' /\ CurrentInv'
    BY <1>1, <2>1, <2>3 DEF CountInv, CurrentInv
  <2>5. QED
    BY <2>3, <2>4 DEF IInv
<1>4. CASE Select
  <2>1. form' \in Edits /\ form' = form + 1 /\ RenderAll(form', known)
        /\ UNCHANGED <<timer, loading, known>>
    BY <1>1, <1>4 DEF Select, Edits
  <2>2. started + 1 \in Renders
    BY <1>1, <1>4 DEF CountInv, Renders, Select
  <2>3. TypeOK' /\ TableInv' /\ AnsweredInv' /\ started' = started + 1 /\ read'[started'] = form'
    BY <1>1, <2>1, <2>2, RenderStep DEF TypeOK, Renders
  <2>4. CountInv' /\ CurrentInv'
    BY <1>1, <2>1, <2>3 DEF CountInv, CurrentInv
  <2>5. QED
    BY <2>3, <2>4 DEF IInv
<1>5. CASE Loaded
  <2>1. /\ loading = "fetching" /\ loading' \in {"loaded", "failed"}
        /\ known' \in SUBSET Instruments /\ RenderAll(form, known')
        /\ UNCHANGED <<form, timer>>
    BY <1>5 DEF Loaded
  <2>2. started + 1 \in Renders /\ form \in Edits
    BY <1>1, <2>1 DEF CountInv, Renders, Edits
  <2>3. TypeOK' /\ TableInv' /\ AnsweredInv' /\ started' = started + 1 /\ read'[started'] = form
    BY <1>1, <2>1, <2>2, RenderStep DEF TypeOK, Renders
  <2>4. CountInv' /\ CurrentInv'
    BY <1>1, <2>1, <2>3 DEF CountInv, CurrentInv
  <2>5. QED
    BY <2>3, <2>4 DEF IInv
<1>6. CASE Answer
  <2>1. PICK r \in Renders, i \in Instruments : Respond(r, i)
    BY <1>6 DEF Answer
  <2>2. UNCHANGED <<form, timer, loading, known, started, read, wants>>
    BY <2>1 DEF Respond
  <2>3. TypeOK' /\ TableInv' /\ AnsweredInv'
    BY <1>1, <2>1, <2>2, AnswerStep DEF TypeOK
  <2>4. CountInv' /\ CurrentInv'
    BY <1>1, <2>2 DEF CountInv, CurrentInv
  <2>5. QED
    BY <2>3, <2>4 DEF IInv
<1>7. CASE UNCHANGED vars
  BY <1>7 DEF vars, renders, tables, IInv, TypeOK, CountInv, CurrentInv, TableInv, AnsweredInv
<1>8. QED
  BY <1>2, <1>3, <1>4, <1>5, <1>6, <1>7 DEF Next, Idle

\* The invariant of the page.
LEMMA Invariant == Spec => []IInv
  BY InitInv, StepInv, PTL DEF Spec

\* Every state of the page is well formed: no edit leads to more than one render
\* (obs-advisor/index.html, scheduleRender and the selects).
THEOREM TypeCorrect == Spec => []TypeOK
<1>1. IInv => TypeOK
  BY DEF IInv
<1>2. QED
  BY Invariant, <1>1, PTL

\* However many renders overlap, and for any instruments: tables of two renders
\* stand side by side only while the later one waits, and the total goes with
\* the tables, unless an earlier render came late (obs-advisor/index.html,
\* renderAll).
THEOREM TablesSideBySide == Spec => []SideBySide
<1>1. IInv => SideBySide
  <2> SUFFICES ASSUME IInv PROVE SideBySide
    OBVIOUS
  <2>1. /\ \A s \in Sections : shown[s] # None => shown[s] \in Renders /\ shown[s] <= started
        /\ total # None => total \in Renders /\ total <= started /\ pending[total] = {}
    BY DEF IInv, TypeOK, TableInv
  <2>2. ASSUME ~overtaken, NEW s \in Sections, NEW t \in Sections,
               shown[t] # None, pending[shown[t]] \cap Of(s) = {}
        PROVE  shown[s] # None /\ shown[s] >= shown[t]
    BY <2>1, <2>2 DEF IInv, AnsweredInv
  <2>3. ASSUME ~overtaken, total # None, NEW s \in Sections
        PROVE  shown[s] # None /\ shown[s] >= total
    BY <2>1, <2>3 DEF IInv, AnsweredInv
  <2>4. QED
    BY <2>2, <2>3 DEF IInv, TableInv, SideBySide
<1>2. QED
  BY Invariant, <1>1, PTL

\* When nothing is under way the page shows what is entered, unless an answer of
\* an earlier render came last, for any number of edits and instruments.
THEOREM NothingLost == Spec => []NoEditLost
<1>1. IInv => NoEditLost
  <2> SUFFICES ASSUME IInv, Quiet, ~overtaken
               PROVE  /\ \A s \in Sections : shown[s] # None /\ read[shown[s]] = form
                      /\ total # None /\ read[total] = form
    BY DEF NoEditLost
  <2>1. started > 0 /\ read[started] = form /\ started \in Renders
    BY AdvisorPageAssumption DEF IInv, TypeOK, CurrentInv, Quiet, Renders
  <2>2. pending[started] = {} /\ started <= started
    BY <2>1 DEF Quiet, Renders
  <2>3. /\ \A s \in Sections : shown[s] # None /\ shown[s] >= started
        /\ total # None /\ total >= started
    BY <2>1, <2>2 DEF IInv, AnsweredInv
  <2>4. /\ \A s \in Sections : shown[s] \in Renders /\ shown[s] <= started
        /\ total \in Renders /\ total <= started
    BY <2>3 DEF IInv, TypeOK, TableInv
  <2>5. (\A s \in Sections : shown[s] = started) /\ total = started
    BY <2>1, <2>3, <2>4 DEF Renders
  <2>6. QED
    BY <2>1, <2>3, <2>5
<1>2. QED
  BY Invariant, <1>1, PTL

(***************************************************************************)
(* Numbers.                                                                *)
(***************************************************************************)
\* The operators stay within the numbers, and AtMost compares nothing else.
Closed(Num) ==
    /\ Whole(0) \in Num /\ Whole(1) \in Num
    /\ \A n \in Int : Whole(n) \in Num
    /\ \A p, q \in Num : Plus(p, q) \in Num /\ Minus(p, q) \in Num /\ Times(p, q) \in Num
                         /\ (q # Zero => Over(p, q) \in Num)
    /\ \A p, q : AtMost(p, q) \in BOOLEAN /\ (AtMost(p, q) => p \in Num /\ q \in Num)

\* What is taken of the numbers: the reals are such a field, the rationals too.
OrderedField(Num) == Closed(Num) /\ NumberLaws(Num) /\ IntegerLaws(Int)

\* A summand can be cancelled.
LEMMA Cancel ==
    ASSUME NEW Num, OrderedField(Num), NEW p \in Num, NEW q \in Num, NEW r \in Num,
           Plus(p, r) = Plus(q, r)
    PROVE  p = q
<1>1. Zero \in Num /\ Minus(Zero, r) \in Num
  BY DEF OrderedField, Closed, Zero
<1>2. Plus(r, Minus(Zero, r)) = Zero
  BY <1>1 DEF OrderedField, NumberLaws
<1>3. \A s \in Num : s = Plus(Plus(s, r), Minus(Zero, r))
  <2> SUFFICES ASSUME NEW s \in Num PROVE s = Plus(Plus(s, r), Minus(Zero, r))
    OBVIOUS
  <2>1. Plus(Plus(s, r), Minus(Zero, r)) = Plus(s, Plus(r, Minus(Zero, r)))
    BY <1>1 DEF OrderedField, NumberLaws
  <2>2. Plus(s, Zero) = Plus(Zero, s) /\ Plus(Zero, s) = s
    BY <1>1 DEF OrderedField, NumberLaws
  <2> QED BY <1>2, <2>1, <2>2
<1> QED BY <1>3

\* Zero, one, and the order of numbers.
LEMMA OrderFacts ==
    ASSUME NEW Num, OrderedField(Num)
    PROVE  /\ Zero \in Num /\ One \in Num
           /\ \A p, q \in Num : AtMost(p, q) \in BOOLEAN /\ (AtMost(p, q) \/ AtMost(q, p))
           /\ \A p \in Num : AtMost(p, p)
           /\ \A p, q \in Num : AtMost(p, q) /\ AtMost(q, p) => p = q
           /\ \A p, q, r \in Num : AtMost(p, q) /\ AtMost(q, r) => AtMost(p, r)
           /\ \A p \in Num : Plus(p, Zero) = p /\ Times(p, One) = p
           /\ AtMost(Zero, One) /\ One # Zero
<1>1. Zero \in Num /\ One \in Num
  BY DEF OrderedField, Closed, Zero, One
<1>2. \A p, q \in Num : AtMost(p, q) \/ AtMost(q, p)
  BY DEF OrderedField, NumberLaws
<1>3. AtMost(Whole(0), Whole(1)) /\ ~AtMost(Whole(1), Whole(0))
  BY DEF OrderedField, IntegerLaws
<1>4. \A p \in Num : Plus(p, Zero) = p /\ Times(p, One) = p
  BY <1>1 DEF OrderedField, NumberLaws
<1>5. \A p, q \in Num : AtMost(p, q) /\ AtMost(q, p) => p = q
  BY DEF OrderedField, NumberLaws
<1>6. \A p, q, r \in Num : AtMost(p, q) /\ AtMost(q, r) => AtMost(p, r)
  BY DEF OrderedField, NumberLaws
<1>7. \A p, q \in Num : AtMost(p, q) \in BOOLEAN
  BY DEF OrderedField, Closed
<1>8. One # Zero
  BY <1>3 DEF Zero, One
<1> QED BY <1>1, <1>2, <1>3, <1>4, <1>5, <1>6, <1>7, <1>8 DEF Zero, One

\* What a difference adds up to, and its sign.
LEMMA Difference ==
    ASSUME NEW Num, OrderedField(Num), NEW p \in Num, NEW q \in Num
    PROVE  /\ Minus(q, p) \in Num /\ Plus(p, Minus(q, p)) = q
           /\ AtMost(p, q) <=> AtMost(Zero, Minus(q, p))
<1> DEFINE d == Minus(q, p)
<1>1. d \in Num /\ Zero \in Num /\ Plus(Zero, p) = p
  BY OrderFacts DEF OrderedField, Closed, NumberLaws
<1>2. Plus(d, p) = q /\ Plus(p, d) = q
  BY <1>1 DEF OrderedField, NumberLaws
<1>3. AtMost(Zero, d) => AtMost(p, q)
  <2>1. AtMost(Zero, d) => AtMost(Plus(Zero, p), Plus(d, p))
    BY <1>1 DEF OrderedField, NumberLaws
  <2> QED BY <1>1, <1>2, <2>1
<1>4. ASSUME AtMost(p, q), ~AtMost(Zero, d) PROVE FALSE
  <2>1. AtMost(d, Zero)
    BY <1>1, <1>4, OrderFacts
  <2>2. AtMost(Plus(d, p), Plus(Zero, p))
    BY <1>1, <2>1 DEF OrderedField, NumberLaws
  <2>3. p = q
    BY <1>1, <1>2, <1>4, <2>2, OrderFacts
  <2>4. d = Zero
    <3> HIDE DEF d
    <3> QED BY <1>1, <1>2, <2>3, Cancel
  <2> QED BY <1>1, <1>4, <2>4, OrderFacts
<1>5. AtMost(p, q) \in BOOLEAN /\ AtMost(Zero, d) \in BOOLEAN
  BY <1>1, OrderFacts
<1> QED BY <1>1, <1>2, <1>3, <1>4, <1>5

\* A product with zero is zero.
LEMMA MulZero ==
    ASSUME NEW Num, OrderedField(Num), NEW p \in Num
    PROVE  Times(p, Zero) = Zero /\ Times(Zero, p) = Zero
<1>1. Zero \in Num /\ Times(p, Zero) \in Num /\ Times(Zero, p) = Times(p, Zero)
  <2>1. Zero \in Num
    BY OrderFacts
  <2> QED BY <2>1 DEF OrderedField, Closed, NumberLaws
<1>2. Plus(Zero, Zero) = Zero /\ Plus(Zero, Times(p, Zero)) = Times(p, Zero)
  BY <1>1 DEF OrderedField, NumberLaws
<1>3. Times(p, Plus(Zero, Zero)) = Plus(Times(p, Zero), Times(p, Zero))
  BY <1>1 DEF OrderedField, NumberLaws
<1>4. Plus(Times(p, Zero), Times(p, Zero)) = Plus(Zero, Times(p, Zero))
  BY <1>2, <1>3
<1>5. Times(p, Zero) = Zero
  BY <1>1, <1>4, Cancel
<1> QED BY <1>1, <1>5

\* A factor that is not negative keeps the order,
LEMMA MulUp ==
    ASSUME NEW Num, OrderedField(Num), NEW r \in Num, NEW p \in Num, NEW q \in Num,
           AtMost(Zero, r), AtMost(p, q)
    PROVE  AtMost(Times(r, p), Times(r, q))
<1> DEFINE d == Minus(q, p)
<1>1. d \in Num /\ Plus(p, d) = q /\ AtMost(Zero, d)
  BY Difference
<1> HIDE DEF d
<1>2. Times(r, q) = Plus(Times(r, p), Times(r, d))
  BY <1>1 DEF OrderedField, NumberLaws
<1>3. AtMost(Zero, Times(r, d)) /\ Times(r, d) \in Num /\ Times(r, p) \in Num /\ Zero \in Num
  BY <1>1, OrderFacts DEF OrderedField, Closed, NumberLaws
<1>4. AtMost(Plus(Zero, Times(r, p)), Plus(Times(r, d), Times(r, p)))
  BY <1>3 DEF OrderedField, NumberLaws
<1>5. Plus(Zero, Times(r, p)) = Times(r, p) /\ Plus(Times(r, d), Times(r, p)) = Times(r, q)
  BY <1>2, <1>3 DEF OrderedField, NumberLaws
<1> QED BY <1>4, <1>5

\* and one that is not positive turns it round.
LEMMA MulDown ==
    ASSUME NEW Num, OrderedField(Num), NEW d \in Num, NEW p \in Num, NEW q \in Num,
           AtMost(d, Zero), AtMost(p, q)
    PROVE  AtMost(Times(q, d), Times(p, d))
<1> DEFINE e == Minus(q, p)
<1>1. e \in Num /\ Plus(p, e) = q /\ AtMost(Zero, e) /\ Zero \in Num
  BY Difference, OrderFacts
<1> HIDE DEF e
<1>2. AtMost(Times(e, d), Zero)
  <2>1. AtMost(Times(e, d), Times(e, Zero))
    BY <1>1, MulUp
  <2> QED BY <1>1, <2>1, MulZero
<1>3. /\ Times(e, d) \in Num /\ Times(p, d) \in Num /\ Times(d, e) = Times(e, d)
      /\ Times(d, p) = Times(p, d) /\ Times(d, q) = Times(q, d)
  BY <1>1 DEF OrderedField, Closed, NumberLaws
<1>4. Times(q, d) = Plus(Times(e, d), Times(p, d))
  <2>1. Times(d, q) = Plus(Times(d, p), Times(d, e))
    BY <1>1 DEF OrderedField, NumberLaws
  <2>2. Plus(Times(p, d), Times(e, d)) = Plus(Times(e, d), Times(p, d))
    BY <1>3 DEF OrderedField, NumberLaws
  <2> QED BY <1>3, <2>1, <2>2
<1>5. AtMost(Plus(Times(e, d), Times(p, d)), Plus(Zero, Times(p, d)))
  BY <1>1, <1>2, <1>3 DEF OrderedField, NumberLaws
<1>6. Plus(Zero, Times(p, d)) = Times(p, d)
  BY <1>3 DEF OrderedField, NumberLaws
<1> QED BY <1>4, <1>5, <1>6

\* A product of a difference is the difference of the products.
LEMMA MulSub ==
    ASSUME NEW Num, OrderedField(Num), NEW c \in Num, NEW p \in Num, NEW q \in Num
    PROVE  Minus(Times(c, q), Times(c, p)) = Times(c, Minus(q, p))
<1> DEFINE d == Minus(q, p)
<1>1. d \in Num /\ Plus(p, d) = q
  BY Difference
<1> HIDE DEF d
<1>2. Times(c, d) \in Num /\ Times(c, p) \in Num /\ Times(c, q) \in Num
  BY <1>1 DEF OrderedField, Closed
<1>3. Times(c, q) = Plus(Times(c, p), Times(c, d))
  BY <1>1 DEF OrderedField, NumberLaws
<1>4. Minus(Times(c, q), Times(c, p)) \in Num
      /\ Plus(Times(c, p), Minus(Times(c, q), Times(c, p))) = Times(c, q)
  BY <1>2, Difference
<1>5. \A s \in Num : Plus(Times(c, p), s) = Plus(s, Times(c, p))
  BY <1>2 DEF OrderedField, NumberLaws
<1>6. Minus(Times(c, q), Times(c, p)) = Times(c, d)
  BY <1>2, <1>3, <1>4, <1>5, Cancel
<1> QED BY <1>6 DEF d

\* A factor that is not zero can be cancelled.
LEMMA CancelFactor ==
    ASSUME NEW Num, OrderedField(Num), NEW p \in Num, NEW q \in Num, NEW r \in Num,
           r # Zero, Times(p, r) = Times(q, r)
    PROVE  p = q
<1> DEFINE i == Over(One, r)
<1>1. i \in Num /\ Times(i, r) = One /\ Times(r, i) = One
  <2>1. One \in Num
    BY OrderFacts
  <2>2. i \in Num /\ Times(i, r) = One
    BY <2>1 DEF OrderedField, Closed, NumberLaws
  <2>3. Times(r, i) = Times(i, r)
    BY <2>2 DEF OrderedField, NumberLaws
  <2> QED BY <2>2, <2>3
<1> HIDE DEF i
<1>2. \A s \in Num : s = Times(Times(s, r), i)
  <2> SUFFICES ASSUME NEW s \in Num PROVE s = Times(Times(s, r), i)
    OBVIOUS
  <2>1. Times(Times(s, r), i) = Times(s, Times(r, i))
    BY <1>1 DEF OrderedField, NumberLaws
  <2> QED BY <1>1, <2>1, OrderFacts
<1> QED BY <1>2

\* A quotient by a positive number, and on which side of zero and of one it is.
LEMMA Quotient ==
    ASSUME NEW Num, OrderedField(Num), NEW p \in Num, NEW q \in Positive(Num)
    PROVE  /\ Over(p, q) \in Num /\ Times(Over(p, q), q) = p
           /\ AtMost(Zero, p) => AtMost(Zero, Over(p, q))
           /\ AtMost(p, q) => AtMost(Over(p, q), One)
           /\ AtMost(q, p) => AtMost(One, Over(p, q))
<1> DEFINE t == Over(p, q)
<1>1. q \in Num /\ AtMost(Zero, q) /\ q # Zero
  BY DEF Positive
<1>2. t \in Num /\ Times(t, q) = p /\ Times(q, t) = p /\ Zero \in Num /\ One \in Num
  <2>1. t \in Num /\ Times(t, q) = p
    BY <1>1 DEF OrderedField, Closed, NumberLaws
  <2>2. Times(q, t) = Times(t, q)
    BY <1>1, <2>1 DEF OrderedField, NumberLaws
  <2> QED BY <2>1, <2>2, OrderFacts
<1>3. \A r, s \in Num : AtMost(r, s) => AtMost(Times(q, r), Times(q, s))
  BY <1>1, MulUp
<1>4. \A r, s \in Num : Times(q, r) = Times(q, s) => r = s
  <2>1. \A s \in Num : Times(q, s) = Times(s, q)
    BY <1>1 DEF OrderedField, NumberLaws
  <2> QED BY <1>1, <2>1, CancelFactor
<1>5. \A r, s \in Num : AtMost(Times(q, r), Times(q, s)) => AtMost(r, s)
  <2> SUFFICES ASSUME NEW r \in Num, NEW s \in Num, AtMost(Times(q, r), Times(q, s)),
                      ~AtMost(r, s)
               PROVE  FALSE
    BY OrderFacts
  <2>1. AtMost(s, r)
    BY OrderFacts
  <2>2. Times(q, r) = Times(q, s)
    BY <1>1, <1>3, <2>1 DEF OrderedField, Closed, NumberLaws
  <2> QED BY <1>4, <2>1, <2>2
<1>6. Times(q, Zero) = Zero /\ Times(q, One) = q
  BY <1>1, MulZero, OrderFacts
<1> HIDE DEF t
<1>7. /\ AtMost(Zero, p) => AtMost(Zero, t)
      /\ AtMost(p, q) => AtMost(t, One)
      /\ AtMost(q, p) => AtMost(One, t)
  BY <1>2, <1>5, <1>6
<1> QED BY <1>2, <1>7 DEF t

(***************************************************************************)
(* Positions, sorted by load.                                              *)
(***************************************************************************)
\* A set of natural numbers has a least one.
LEMMA LeastNumber ==
    ASSUME NEW S \in SUBSET Nat, S # {}
    PROVE  \E m \in S : \A k \in S : m <= k
<1>1. PICK m \in S : \A k \in S : <<k, m>> \notin OpToRel(<, Nat)
  BY NatLessThanWellFounded, WFMin, Zenon
<1>2. \A k \in S : ~(k < m)
  BY <1>1 DEF OpToRel
<1> QED BY <1>2

\* R is a total order of the positions.
Sorts(R, n) ==
    /\ \A i, j \in 1..n : i # j => <<i, j>> \in R \/ <<j, i>> \in R
    /\ \A i, j, k \in 1..n : <<i, j>> \in R /\ <<j, k>> \in R => <<i, k>> \in R

\* A total order has a least member in every set of positions.
LEMMA LeastPosition ==
    ASSUME NEW n \in Nat, NEW R, Sorts(R, n), NEW S \in SUBSET (1..n), S # {}
    PROVE  \E i \in S : \A j \in S \ {i} : <<i, j>> \in R
<1> DEFINE Has(T) == \E i \in T : \A j \in T \ {i} : <<i, j>> \in R
           Without(k) == \E T \in SUBSET (1..k) : T # {} /\ ~Has(T)
           Bad == {k \in Nat : k <= n /\ Without(k)}
<1>1. CASE Bad = {}
  <2>1. ~Without(n)
    <3> HIDE DEF Without
    <3> QED BY <1>1
  <2> QED BY <2>1
<1>2. CASE Bad # {}
  <2>1. PICK m \in Bad : \A k \in Bad : m <= k
    <3>1. Bad \in SUBSET Nat
      OBVIOUS
    <3> HIDE DEF Bad
    <3> QED BY <1>2, <3>1, LeastNumber
  <2>2. m \in Nat /\ m <= n /\ Without(m)
    BY <2>1
  <2>3. PICK T \in SUBSET (1..m) : T # {} /\ ~Has(T)
    BY <2>2
  <2>4. m # 0
    <3>1. \E i \in T : i \in 1..m
      BY <2>3
    <3> QED BY <3>1
  <2>5. m - 1 \in Nat /\ m - 1 <= n /\ m \in 1..n /\ ~(m <= m - 1)
    BY <2>2, <2>4
  <2>9. ~Without(m - 1)
    <3> HIDE DEF Without
    <3> QED BY <2>1, <2>5
  <2>10. \A U \in SUBSET (1..(m - 1)) : U # {} => Has(U)
    BY <2>9
  <2>6. T \ {m} \in SUBSET (1..(m - 1)) /\ T \in SUBSET (1..n)
    BY <2>2, <2>3
  <2>7. CASE T \ {m} = {}
    <3>1. m \in T /\ T \ {m} = {}
      BY <2>3, <2>7
    <3> QED BY <2>3, <3>1
  <2>8. CASE T \ {m} # {}
    <3>1. PICK h \in T \ {m} : \A j \in (T \ {m}) \ {h} : <<h, j>> \in R
      BY <2>10, <2>6, <2>8
    <3>2. h \in 1..n /\ h # m
      BY <2>6, <3>1
    <3>3. CASE m \notin T \/ <<h, m>> \in R
      <4>1. \A j \in T \ {h} : <<h, j>> \in R
        BY <3>1, <3>3
      <4> QED BY <2>3, <3>1, <4>1
    <3>4. CASE m \in T /\ <<m, h>> \in R
      <4>1. \A j \in T \ {m} : <<m, j>> \in R
        BY <2>5, <2>6, <3>1, <3>2, <3>4 DEF Sorts
      <4> QED BY <2>3, <3>4, <4>1
    <3> QED BY <2>5, <3>2, <3>3, <3>4 DEF Sorts
  <2> QED BY <2>7, <2>8
<1> QED BY <1>1, <1>2

\* n rows of the table, in the order of the query.
Slice(rws, n) == n \in Nat /\ rws \in [1..n -> Rows]

\* What a row of the table holds.
LEMMA RowFact ==
    ASSUME NEW r \in Rows
    PROVE  /\ r.load_value \in Nat \ {0} /\ r.retention_days \in Nat \ {0}
           /\ r.duration_seconds \in Nat /\ \A k \in Keys : r.use[k] \in Nat
BY AdvisorAssumption

\* Precedes is a strict total order of the positions, and sorts them by load.
LEMMA PrecedesOrder ==
    ASSUME NEW n, NEW rws, Slice(rws, n)
    PROVE  /\ \A i, j \in 1..n : i # j => Precedes(rws, i, j) \/ Precedes(rws, j, i)
           /\ \A i, j \in 1..n : Precedes(rws, i, j) => /\ ~Precedes(rws, j, i) /\ i # j
                                     /\ rws[i].load_value <= rws[j].load_value
           /\ \A i, j, k \in 1..n :
                 Precedes(rws, i, j) /\ Precedes(rws, j, k) => Precedes(rws, i, k)
<1>1. \A i \in 1..n : rws[i].load_value \in Nat /\ i \in Nat
  BY RowFact DEF Slice
<1> QED BY <1>1 DEF Precedes

\* The lowest and the highest point are the ones their names say.
LEMMA Extremes ==
    ASSUME NEW n, NEW rws, Slice(rws, n), NEW S \in SUBSET (1..n), S # {}
    PROVE  /\ Lowest(rws, S) \in S
           /\ \A j \in S \ {Lowest(rws, S)} : Precedes(rws, Lowest(rws, S), j)
           /\ Highest(rws, S) \in S
           /\ \A j \in S \ {Highest(rws, S)} : Precedes(rws, j, Highest(rws, S))
<1> DEFINE Up   == {e \in (1..n) \X (1..n) : Precedes(rws, e[1], e[2])}
           Down == {e \in (1..n) \X (1..n) : Precedes(rws, e[2], e[1])}
<1>1. /\ \A i, j \in 1..n : <<i, j>> \in Up <=> Precedes(rws, i, j)
      /\ \A i, j \in 1..n : <<i, j>> \in Down <=> Precedes(rws, j, i)
  OBVIOUS
<1>2. n \in Nat
  BY DEF Slice
<1> HIDE DEF Up, Down
<1>3. \E i \in S : \A j \in S \ {i} : <<i, j>> \in Up
  <2>1. \A i, j \in 1..n : i # j => <<i, j>> \in Up \/ <<j, i>> \in Up
    BY <1>1, PrecedesOrder
  <2>2. \A i, j, k \in 1..n : <<i, j>> \in Up /\ <<j, k>> \in Up => <<i, k>> \in Up
    BY <1>1, PrecedesOrder
  <2>3. Sorts(Up, n)
    BY <2>1, <2>2 DEF Sorts
  <2> QED BY <1>2, <2>3, LeastPosition
<1>4. \E i \in S : \A j \in S \ {i} : <<i, j>> \in Down
  <2>1. \A i, j \in 1..n : i # j => <<i, j>> \in Down \/ <<j, i>> \in Down
    BY <1>1, PrecedesOrder
  <2>2. \A i, j, k \in 1..n : <<i, j>> \in Down /\ <<j, k>> \in Down => <<i, k>> \in Down
    BY <1>1, PrecedesOrder
  <2>3. Sorts(Down, n)
    BY <2>1, <2>2 DEF Sorts
  <2> QED BY <1>2, <2>3, LeastPosition
<1>5. \E i \in S : \A j \in S \ {i} : Precedes(rws, i, j)
  BY <1>1, <1>3
<1>6. \E i \in S : \A j \in S \ {i} : Precedes(rws, j, i)
  BY <1>1, <1>4
<1> QED BY <1>5, <1>6 DEF Lowest, Highest

\* With two points or more, the segment for x has two ends, in order.
LEMMA SegmentFact ==
    ASSUME NEW n, NEW rws, Slice(rws, n), NEW S \in SUBSET (1..n), S # {},
           Lowest(rws, S) # Highest(rws, S), NEW x \in Nat
    PROVE  LET e == SegmentEnd(rws, S, x)
               b == Below(rws, S, e)
           IN  e \in S /\ b \in S /\ Precedes(rws, b, e)
               /\ \A j \in S \ {b} : Precedes(rws, j, e) => Precedes(rws, j, b)
<1> DEFINE e == SegmentEnd(rws, S, x)
           lo == Lowest(rws, S)
           hi == Highest(rws, S)
<1>1. /\ lo \in S /\ \A j \in S \ {lo} : Precedes(rws, lo, j)
      /\ hi \in S /\ \A j \in S \ {hi} : Precedes(rws, j, hi)
  BY Extremes
<1>2. \A i \in S : rws[i].load_value \in Nat /\ i \in 1..n
  BY RowFact DEF Slice
<1>3. e \in S /\ e # lo
  <2>1. CASE x <= rws[lo].load_value
    <3> DEFINE T == {j \in S : Precedes(rws, lo, j)}
    <3>1. hi \in T /\ T \in SUBSET (1..n) /\ lo \notin T
      BY <1>1, <1>2, PrecedesOrder
    <3>2. Lowest(rws, T) \in T
      BY <3>1, Extremes
    <3>3. e = Lowest(rws, T)
      BY <2>1 DEF SegmentEnd, Above
    <3> QED BY <3>1, <3>2, <3>3
  <2>2. CASE ~(x <= rws[lo].load_value) /\ x >= rws[hi].load_value
    BY <1>1, <2>2 DEF SegmentEnd
  <2>3. CASE ~(x <= rws[lo].load_value) /\ ~(x >= rws[hi].load_value)
    <3> DEFINE T == {i \in S : rws[i].load_value >= x}
    <3>1. hi \in T
      <4>1. hi \in S /\ rws[hi].load_value \in Nat
        BY <1>1, <1>2
      <4>2. rws[hi].load_value >= x
        BY <2>3, <4>1
      <4> QED BY <4>1, <4>2
    <3>4. T \in SUBSET (1..n) /\ lo \notin T
      BY <1>2, <2>3
    <3>2. Lowest(rws, T) \in T
      BY <3>1, <3>4, Extremes
    <3>3. e = Lowest(rws, T)
      BY <2>3 DEF SegmentEnd
    <3> QED BY <3>2, <3>3, <3>4
  <2> QED BY <2>1, <2>2, <2>3
<1> HIDE DEF e, lo, hi
<1> DEFINE B == {i \in S : Precedes(rws, i, e)}
<1>4. B # {} /\ B \in SUBSET (1..n)
  BY <1>1, <1>3
<1>5. Highest(rws, B) \in B /\ \A j \in B \ {Highest(rws, B)} : Precedes(rws, j, Highest(rws, B))
  BY <1>4, Extremes
<1>6. Below(rws, S, e) = Highest(rws, B)
  BY DEF Below
<1> QED BY <1>3, <1>5, <1>6 DEF e

(***************************************************************************)
(* A segment.                                                              *)
(***************************************************************************)
\* The height at the share t of the way from u to v.
Line(u, v, t) == Plus(u, Times(t, Minus(v, u)))

\* A point between the ends of a line is at a height between theirs.
LEMMA LineBetween ==
    ASSUME NEW Num, OrderedField(Num), NEW u \in Num, NEW v \in Num, NEW t \in Num,
           AtMost(Zero, t), AtMost(t, One)
    PROVE  AtMost(Smaller(u, v), Line(u, v, t)) /\ AtMost(Line(u, v, t), Larger(u, v))
<1> DEFINE d == Minus(v, u)
           m == Times(t, d)
<1>1. /\ d \in Num /\ Plus(u, d) = v
      /\ AtMost(u, v) => AtMost(Zero, d)
      /\ Zero \in Num /\ One \in Num
  BY Difference, OrderFacts
<1>2. ~AtMost(u, v) => AtMost(d, Zero)
  <2>1. ~AtMost(u, v) => ~AtMost(Zero, d)
    BY Difference
  <2> QED BY <1>1, <2>1, OrderFacts
<1> HIDE DEF d
<1>3. m \in Num
  BY <1>1 DEF OrderedField, Closed
<1>4. Times(Zero, d) = Zero /\ Times(One, d) = d /\ Times(d, One) = d /\ Times(d, t) = m
      /\ Times(d, Zero) = Zero
  <2>1. Times(Zero, d) = Zero /\ Times(d, Zero) = Zero
    BY <1>1, MulZero
  <2>2. Times(One, d) = d /\ Times(d, t) = m
    BY <1>1 DEF OrderedField, NumberLaws
  <2>3. Times(d, One) = d
    BY <1>1, OrderFacts
  <2> QED BY <2>1, <2>2, <2>3
<1>5. AtMost(Zero, d) => AtMost(Zero, m) /\ AtMost(m, d)
  <2>1. AtMost(Zero, d) => AtMost(Times(d, Zero), Times(d, t)) /\ AtMost(Times(d, t), Times(d, One))
    BY <1>1, MulUp
  <2> QED BY <1>4, <2>1
<1>6. AtMost(d, Zero) => AtMost(d, m) /\ AtMost(m, Zero)
  <2>1. AtMost(d, Zero) => AtMost(Times(One, d), Times(t, d)) /\ AtMost(Times(t, d), Times(Zero, d))
    BY <1>1, MulDown
  <2> QED BY <1>4, <2>1
<1> HIDE DEF m
<1>7. \A r, s \in Num : AtMost(r, s) => AtMost(Plus(u, r), Plus(u, s))
  <2> SUFFICES ASSUME NEW r \in Num, NEW s \in Num, AtMost(r, s)
               PROVE  AtMost(Plus(u, r), Plus(u, s))
    OBVIOUS
  <2>1. AtMost(Plus(r, u), Plus(s, u))
    BY DEF OrderedField, NumberLaws
  <2>2. Plus(r, u) = Plus(u, r) /\ Plus(s, u) = Plus(u, s)
    BY DEF OrderedField, NumberLaws
  <2> QED BY <2>1, <2>2
<1>8. Plus(u, Zero) = u /\ Line(u, v, t) = Plus(u, m)
  BY OrderFacts DEF Line, m, d
<1>9. CASE AtMost(u, v)
  <2>1. AtMost(Plus(u, Zero), Plus(u, m)) /\ AtMost(Plus(u, m), Plus(u, d))
    BY <1>1, <1>3, <1>5, <1>7, <1>9
  <2> QED BY <1>1, <1>8, <1>9, <2>1 DEF Smaller, Larger
<1>10. CASE ~AtMost(u, v)
  <2>1. AtMost(Plus(u, d), Plus(u, m)) /\ AtMost(Plus(u, m), Plus(u, Zero))
    BY <1>1, <1>2, <1>3, <1>6, <1>7, <1>10
  <2> QED BY <1>1, <1>8, <1>10, <2>1 DEF Smaller, Larger
<1>11. AtMost(u, v) \in BOOLEAN
  BY OrderFacts
<1> QED BY <1>9, <1>10, <1>11

\* The two ends of a line.
LEMMA LineEnds ==
    ASSUME NEW Num, OrderedField(Num), NEW u \in Num, NEW v \in Num
    PROVE  Line(u, v, Zero) = u /\ Line(u, v, One) = v
<1>1. Minus(v, u) \in Num /\ Plus(u, Minus(v, u)) = v
  BY Difference
<1>2. Times(Zero, Minus(v, u)) = Zero /\ Plus(u, Zero) = u
  BY <1>1, MulZero, OrderFacts
<1>3. Times(One, Minus(v, u)) = Minus(v, u)
  BY <1>1 DEF OrderedField, NumberLaws
<1> QED BY <1>1, <1>2, <1>3 DEF Line

\* A line between scaled ends is the scaled line.
LEMMA LineScaled ==
    ASSUME NEW Num, OrderedField(Num), NEW u \in Num, NEW v \in Num, NEW t \in Num,
           NEW c \in Num
    PROVE  /\ Line(u, v, t) \in Num
           /\ Line(Times(c, u), Times(c, v), t) = Times(c, Line(u, v, t))
<1> DEFINE d == Minus(v, u)
<1>1. d \in Num /\ Minus(Times(c, v), Times(c, u)) = Times(c, d)
  BY Difference, MulSub
<1> HIDE DEF d
<1>2. Times(t, d) \in Num /\ Times(c, d) \in Num /\ Plus(u, Times(t, d)) \in Num
  BY <1>1 DEF OrderedField, Closed
<1>3. Times(t, Times(c, d)) = Times(c, Times(t, d))
  <2>1. /\ Times(Times(t, c), d) = Times(t, Times(c, d))
        /\ Times(Times(c, t), d) = Times(c, Times(t, d))
    BY <1>1 DEF OrderedField, NumberLaws
  <2>2. Times(t, c) = Times(c, t)
    BY DEF OrderedField, NumberLaws
  <2> QED BY <2>1, <2>2
<1>4. Times(c, Plus(u, Times(t, d))) = Plus(Times(c, u), Times(c, Times(t, d)))
  BY <1>2 DEF OrderedField, NumberLaws
<1> QED BY <1>1, <1>2, <1>3, <1>4 DEF Line, d

\* How far x is along a segment that is not upright.
LEMMA ShareFact ==
    ASSUME NEW Num, OrderedField(Num), NEW a \in Nat, NEW b \in Nat, a < b, NEW x \in Nat
    PROVE  LET t == Over(Whole(x - a), Whole(b - a))
           IN  /\ t \in Num
               /\ a <= x /\ x <= b => AtMost(Zero, t) /\ AtMost(t, One)
               /\ x = a => t = Zero
               /\ x = b => t = One
<1> DEFINE w == Whole(b - a)
           e == Whole(x - a)
           t == Over(e, w)
<1>1. b - a \in Int /\ x - a \in Int /\ 0 <= b - a /\ ~(b - a <= 0) /\ 0 \in Int
  OBVIOUS
<1>2. w \in Num /\ e \in Num
  BY <1>1 DEF OrderedField, Closed
<1>3. AtMost(Zero, w) /\ ~AtMost(w, Zero)
  BY <1>1 DEF OrderedField, IntegerLaws, Zero
<1>4. w \in Positive(Num)
  BY <1>2, <1>3 DEF Positive
<1>5. a <= x /\ x <= b => AtMost(Zero, e) /\ AtMost(e, w)
  BY <1>1 DEF OrderedField, IntegerLaws, Zero
<1>6. x = a => e = Zero
  BY DEF Zero
<1>7. x = b => e = w
  OBVIOUS
<1> HIDE DEF e, w
<1>8. /\ t \in Num /\ Times(t, w) = e
      /\ AtMost(Zero, e) => AtMost(Zero, t)
      /\ AtMost(e, w) => AtMost(t, One)
  BY <1>2, <1>4, Quotient
<1> HIDE DEF t
<1>9. Zero \in Num /\ One \in Num /\ Times(Zero, w) = Zero /\ Times(One, w) = w /\ w # Zero
  <2>1. Zero \in Num /\ One \in Num
    BY OrderFacts
  <2>2. Times(Zero, w) = Zero
    BY <1>2, MulZero
  <2>3. Times(One, w) = w
    BY <1>2 DEF OrderedField, NumberLaws
  <2> QED BY <1>4, <2>1, <2>2, <2>3 DEF Positive
<1>10. e = Zero => t = Zero
  BY <1>2, <1>8, <1>9, CancelFactor
<1>11. e = w => t = One
  BY <1>2, <1>8, <1>9, CancelFactor
<1>12. t = Over(Whole(x - a), Whole(b - a))
  BY DEF t, e, w
<1> QED BY <1>5, <1>6, <1>7, <1>8, <1>10, <1>11, <1>12

SegmentShare(rws, i, j, x) ==
    Over(Whole(x - rws[i].load_value), Whole(rws[j].load_value - rws[i].load_value))

\* A segment that is not upright is a line.
LEMMA SegmentIsLine ==
    ASSUME NEW n, NEW rws, Slice(rws, n), NEW i \in 1..n, NEW j \in 1..n,
           rws[i].load_value < rws[j].load_value, NEW y, NEW x
    PROVE  Segment(rws, y, i, j, x) = Line(y[i], y[j], SegmentShare(rws, i, j, x))
<1>1. rws[i].load_value \in Nat /\ rws[j].load_value \in Nat
  BY RowFact DEF Slice
<1>2. rws[j].load_value - rws[i].load_value # 0
  BY <1>1
<1> QED BY <1>2 DEF Segment, Line, SegmentShare

\* A segment between scaled values is the scaled segment.
LEMMA SegmentScaled ==
    ASSUME NEW Num, OrderedField(Num), NEW n, NEW rws, Slice(rws, n),
           NEW i \in 1..n, NEW j \in 1..n, rws[i].load_value <= rws[j].load_value,
           NEW x \in Nat, NEW c \in Num, NEW y, NEW z,
           y[i] \in Num, y[j] \in Num, z[i] = Times(c, y[i]), z[j] = Times(c, y[j])
    PROVE  /\ Segment(rws, y, i, j, x) \in Num
           /\ Segment(rws, z, i, j, x) = Times(c, Segment(rws, y, i, j, x))
<1>1. rws[i].load_value \in Nat /\ rws[j].load_value \in Nat
  BY RowFact DEF Slice
<1>2. CASE rws[i].load_value = rws[j].load_value
  <2>1. rws[j].load_value - rws[i].load_value = 0
    BY <1>1, <1>2
  <2> QED BY <2>1 DEF Segment
<1>3. CASE rws[i].load_value < rws[j].load_value
  <2> DEFINE t == SegmentShare(rws, i, j, x)
  <2>1. t \in Num
    BY <1>1, <1>3, ShareFact DEF SegmentShare
  <2>2. /\ Segment(rws, y, i, j, x) = Line(y[i], y[j], t)
        /\ Segment(rws, z, i, j, x) = Line(z[i], z[j], t)
    BY <1>3, SegmentIsLine
  <2> HIDE DEF t
  <2> QED BY <2>1, <2>2, LineScaled
<1> QED BY <1>1, <1>2, <1>3

\* Between the ends of a segment the value is between theirs.
LEMMA SegmentBetween ==
    ASSUME NEW Num, OrderedField(Num), NEW n, NEW rws, Slice(rws, n),
           NEW i \in 1..n, NEW j \in 1..n, rws[i].load_value < rws[j].load_value,
           NEW x \in Nat, NEW y, y[i] \in Num, y[j] \in Num
    PROVE  /\ x = rws[i].load_value => Segment(rws, y, i, j, x) = y[i]
           /\ x = rws[j].load_value => Segment(rws, y, i, j, x) = y[j]
           /\ rws[i].load_value <= x /\ x <= rws[j].load_value =>
                 /\ AtMost(Smaller(y[i], y[j]), Segment(rws, y, i, j, x))
                 /\ AtMost(Segment(rws, y, i, j, x), Larger(y[i], y[j]))
<1> DEFINE t == SegmentShare(rws, i, j, x)
<1>1. rws[i].load_value \in Nat /\ rws[j].load_value \in Nat
  BY RowFact DEF Slice
<1>2. /\ t \in Num
      /\ rws[i].load_value <= x /\ x <= rws[j].load_value =>
            AtMost(Zero, t) /\ AtMost(t, One)
      /\ x = rws[i].load_value => t = Zero
      /\ x = rws[j].load_value => t = One
  BY <1>1, ShareFact DEF SegmentShare
<1>3. Segment(rws, y, i, j, x) = Line(y[i], y[j], t)
  BY SegmentIsLine
<1> HIDE DEF t
<1>4. Line(y[i], y[j], Zero) = y[i] /\ Line(y[i], y[j], One) = y[j]
  BY LineEnds
<1>5. AtMost(Zero, t) /\ AtMost(t, One) =>
         /\ AtMost(Smaller(y[i], y[j]), Line(y[i], y[j], t))
         /\ AtMost(Line(y[i], y[j], t), Larger(y[i], y[j]))
  BY <1>2, LineBetween
<1> QED BY <1>2, <1>3, <1>4, <1>5

(***************************************************************************)
(* The interpolation.                                                      *)
(***************************************************************************)
\* Scaling the values scales the estimate.
LEMMA InterpolateScaled ==
    ASSUME NEW Num, OrderedField(Num), NEW n, NEW rws, Slice(rws, n),
           NEW S \in SUBSET (1..n), NEW x \in Nat, NEW c \in Num,
           NEW y \in [S -> Num], NEW z, DOMAIN z = S, \A i \in S : z[i] = Times(c, y[i])
    PROVE  /\ Interpolate(rws, y, x) \in Num
           /\ Interpolate(rws, z, x) = Times(c, Interpolate(rws, y, x))
<1> DEFINE e == SegmentEnd(rws, S, x)
           b == Below(rws, S, e)
<1>1. CASE S = {}
  <2>1. Interpolate(rws, y, x) = Zero /\ Interpolate(rws, z, x) = Zero
    BY <1>1 DEF Interpolate
  <2> QED BY <2>1, OrderFacts, MulZero
<1>2. CASE S # {} /\ Lowest(rws, S) = Highest(rws, S)
  <2>1. Lowest(rws, S) \in S
    BY <1>2, Extremes
  <2>2. /\ Interpolate(rws, y, x) = y[Lowest(rws, S)]
        /\ Interpolate(rws, z, x) = z[Lowest(rws, S)]
    BY <1>2 DEF Interpolate
  <2> QED BY <2>1, <2>2
<1>3. CASE S # {} /\ Lowest(rws, S) # Highest(rws, S)
  <2>1. e \in S /\ b \in S /\ Precedes(rws, b, e)
    BY <1>3, SegmentFact
  <2>2. /\ Interpolate(rws, y, x) = Segment(rws, y, b, e, x)
        /\ Interpolate(rws, z, x) = Segment(rws, z, b, e, x)
    BY <1>3 DEF Interpolate
  <2> HIDE DEF e, b
  <2>3. rws[b].load_value <= rws[e].load_value /\ b \in 1..n /\ e \in 1..n
    BY <2>1, PrecedesOrder
  <2>4. y[b] \in Num /\ y[e] \in Num /\ z[b] = Times(c, y[b]) /\ z[e] = Times(c, y[e])
    BY <2>1
  <2> QED BY <2>2, <2>3, <2>4, SegmentScaled
<1> QED BY <1>1, <1>2, <1>3

\* Between two loads the estimate is between their values, where no two points
\* have the same load.
LEMMA InterpolateBetween ==
    ASSUME NEW Num, OrderedField(Num), NEW n, NEW rws, Slice(rws, n),
           NEW S \in SUBSET (1..n), NEW x \in Nat, NEW y \in [S -> Num],
           \A i, j \in S : rws[i].load_value = rws[j].load_value => i = j,
           NEW p \in S, NEW q \in S, rws[p].load_value <= x, x <= rws[q].load_value,
           rws[p].load_value < rws[q].load_value,
           \A i \in S : rws[i].load_value <= rws[p].load_value
                        \/ rws[q].load_value <= rws[i].load_value
    PROVE  /\ AtMost(Smaller(y[p], y[q]), Interpolate(rws, y, x))
           /\ AtMost(Interpolate(rws, y, x), Larger(y[p], y[q]))
<1> DEFINE lo == Lowest(rws, S)
           hi == Highest(rws, S)
           e  == SegmentEnd(rws, S, x)
           b  == Below(rws, S, e)
<1>1. \A i \in S : rws[i].load_value \in Nat /\ i \in 1..n
  BY RowFact DEF Slice
<1>2. \A i, j \in S : Precedes(rws, i, j) <=> rws[i].load_value < rws[j].load_value
  BY <1>1 DEF Precedes
<1>3. /\ lo \in S /\ \A j \in S : rws[lo].load_value <= rws[j].load_value
      /\ hi \in S /\ \A j \in S : rws[j].load_value <= rws[hi].load_value
  <2>1. /\ lo \in S /\ \A j \in S \ {lo} : Precedes(rws, lo, j)
        /\ hi \in S /\ \A j \in S \ {hi} : Precedes(rws, j, hi)
    BY Extremes
  <2> HIDE DEF lo, hi
  <2> QED BY <1>1, <1>2, <2>1
<1>4. lo # hi
  <2> HIDE DEF lo, hi
  <2> QED BY <1>1, <1>3
<1>5. /\ e \in S /\ b \in S /\ rws[b].load_value < rws[e].load_value
      /\ \A j \in S : rws[j].load_value < rws[e].load_value =>
            rws[j].load_value <= rws[b].load_value
  <2>1. /\ e \in S /\ b \in S /\ Precedes(rws, b, e)
        /\ \A j \in S \ {b} : Precedes(rws, j, e) => Precedes(rws, j, b)
    BY <1>4, SegmentFact
  <2> HIDE DEF e, b
  <2> QED BY <1>1, <1>2, <2>1
<1>6. Interpolate(rws, y, x) = Segment(rws, y, b, e, x)
  BY <1>4 DEF Interpolate
<1>7. \/ rws[lo].load_value >= x /\ lo = p /\ x = rws[p].load_value
         /\ \A j \in S : rws[j].load_value < rws[e].load_value => j = lo
      \/ rws[hi].load_value <= x /\ e = hi /\ hi = q /\ x = rws[q].load_value
      \/ rws[e].load_value >= x /\ \A j \in S : rws[j].load_value >= x =>
            rws[e].load_value <= rws[j].load_value
  <2>1. CASE x <= rws[lo].load_value
    <3> DEFINE T == {j \in S : Precedes(rws, lo, j)}
    <3>1. e = Lowest(rws, T)
      BY <2>1 DEF SegmentEnd, Above
    <3>2. hi \in T /\ T \in SUBSET (1..n)
      <4> HIDE DEF lo, hi
      <4>1. rws[lo].load_value # rws[hi].load_value
        BY <1>3, <1>4
      <4>2. Precedes(rws, lo, hi)
        BY <1>1, <1>2, <1>3, <4>1
      <4> QED BY <1>1, <1>3, <4>2
    <3>3. Lowest(rws, T) \in T /\ \A j \in T \ {Lowest(rws, T)} : Precedes(rws, Lowest(rws, T), j)
      BY <3>2, Extremes
    <3>4. \A j \in S : rws[lo].load_value < rws[j].load_value => j \in T
      BY <1>2, <1>3
    <3>5. \A j \in T : j \in S /\ rws[lo].load_value < rws[j].load_value
      BY <1>2, <1>3
    <3> HIDE DEF lo, hi, e, T
    <3>6. \A j \in S : rws[j].load_value < rws[e].load_value => j = lo
      <4> SUFFICES ASSUME NEW j \in S, rws[j].load_value < rws[e].load_value, j # lo
                   PROVE  FALSE
        OBVIOUS
      <4>1. j \in T
        BY <1>1, <1>3, <3>4
      <4>2. Precedes(rws, e, j) \/ e = j
        BY <3>1, <3>3, <4>1
      <4> QED BY <1>1, <1>2, <1>5, <4>2
    <3>7. lo = p /\ x = rws[p].load_value
      BY <1>1, <1>3, <2>1
    <3> QED BY <2>1, <3>6, <3>7, <1>1, <1>3
  <2>2. CASE ~(x <= rws[lo].load_value) /\ x >= rws[hi].load_value
    <3>1. e = hi
      BY <2>2 DEF SegmentEnd
    <3> HIDE DEF lo, hi, e
    <3>2. hi = q /\ x = rws[q].load_value
      BY <1>1, <1>3, <2>2
    <3> QED BY <2>2, <3>1, <3>2, <1>1, <1>3
  <2>3. CASE ~(x <= rws[lo].load_value) /\ ~(x >= rws[hi].load_value)
    <3> DEFINE T == {i \in S : rws[i].load_value >= x}
    <3>1. e = Lowest(rws, T)
      BY <2>3 DEF SegmentEnd
    <3>2. T # {} /\ T \in SUBSET (1..n)
      <4>1. q \in T
        BY <1>1
      <4> QED BY <4>1, <1>1
    <3>3. Lowest(rws, T) \in T /\ \A j \in T \ {Lowest(rws, T)} : Precedes(rws, Lowest(rws, T), j)
      BY <3>2, Extremes
    <3>4. \A j \in T : rws[e].load_value <= rws[j].load_value
      BY <1>1, <1>2, <3>1, <3>3
    <3> QED BY <3>1, <3>3, <3>4
  <2> QED BY <2>1, <2>2, <2>3
<1> HIDE DEF lo, hi, e, b
<1>8. b \in 1..n /\ e \in 1..n /\ y[b] \in Num /\ y[e] \in Num /\ y[p] \in Num /\ y[q] \in Num
  BY <1>1, <1>5
<1>9. /\ x = rws[b].load_value => Segment(rws, y, b, e, x) = y[b]
      /\ x = rws[e].load_value => Segment(rws, y, b, e, x) = y[e]
      /\ rws[b].load_value <= x /\ x <= rws[e].load_value =>
            /\ AtMost(Smaller(y[b], y[e]), Segment(rws, y, b, e, x))
            /\ AtMost(Segment(rws, y, b, e, x), Larger(y[b], y[e]))
  BY <1>5, <1>8, SegmentBetween
<1>10. \/ Interpolate(rws, y, x) \in {y[p], y[q]}
       \/ b = p /\ e = q
  <2>1. CASE /\ rws[lo].load_value >= x /\ lo = p /\ x = rws[p].load_value
             /\ \A j \in S : rws[j].load_value < rws[e].load_value => j = lo
    BY <1>5, <1>6, <1>9, <2>1
  <2>2. CASE rws[hi].load_value <= x /\ e = hi /\ hi = q /\ x = rws[q].load_value
    BY <1>5, <1>6, <1>9, <2>2
  <2>3. CASE /\ rws[e].load_value >= x
             /\ \A j \in S : rws[j].load_value >= x => rws[e].load_value <= rws[j].load_value
    <3>4. rws[e].load_value \in Nat /\ rws[q].load_value \in Nat
      BY <1>1, <1>5
    <3>1. rws[e].load_value <= rws[q].load_value
      BY <2>3
    <3>2. CASE rws[e].load_value <= rws[p].load_value
      <4>1. rws[e].load_value = x /\ e = p
        BY <1>1, <1>5, <2>3, <3>2
      <4> QED BY <1>6, <1>9, <4>1
    <3>3. CASE rws[q].load_value <= rws[e].load_value
      <4>1. e = q
        <5>1. rws[e].load_value = rws[q].load_value
          BY <3>1, <3>3, <3>4
        <5> QED BY <1>5, <5>1
      <4>2. rws[p].load_value <= rws[b].load_value
        BY <1>5, <4>1
      <4>3. rws[b].load_value <= rws[p].load_value
        BY <1>1, <1>5, <4>1
      <4> QED BY <1>1, <1>5, <4>1, <4>2, <4>3
    <3> QED BY <1>5, <3>2, <3>3
  <2> QED BY <1>7, <2>1, <2>2, <2>3
<1>11. \A v \in {y[p], y[q]} :
          AtMost(Smaller(y[p], y[q]), v) /\ AtMost(v, Larger(y[p], y[q]))
  BY <1>8, OrderFacts DEF Smaller, Larger
<1> QED BY <1>6, <1>9, <1>10, <1>11

(***************************************************************************)
(* An estimate.                                                            *)
(***************************************************************************)
\* No exponent is negative, fitted or not.
LEMMA AlphaFact ==
    ASSUME NEW Num, OrderedField(Num), NEW rws, NEW k \in Keys
    PROVE  AtMost(Zero, EstimateAlpha(rws, k))
<1>1. /\ AtMost(Zero, AlphaMin[k]) /\ AtMost(AlphaMin[k], AlphaMax[k])
      /\ AtMost(Zero, AlphaFew[k]) /\ AtMost(Zero, AlphaNone[k])
  BY CapacityModelAssumption
<1>2. \A p, q : AtMost(p, q) => p \in Num /\ q \in Num
  BY DEF OrderedField, Closed
<1>3. \A p, q : AtMost(Zero, p) /\ AtMost(p, q) => AtMost(Zero, q)
  BY <1>2, OrderFacts
<1>4. \A a : AtMost(Zero, Clamp(a, k))
  BY <1>1, <1>3 DEF Clamp, Larger, Smaller
<1>5. EstimateAlpha(rws, k) \in {AlphaFew[k], AlphaNone[k], Clamp(Slope(MedianPoints(rws, k)), k)}
  BY DEF EstimateAlpha
<1> HIDE DEF EstimateAlpha
<1> QED BY <1>1, <1>4, <1>5

\* Positive integers are positive numbers.
LEMMA WholePositive ==
    ASSUME NEW Num, OrderedField(Num), NEW n \in Nat \ {0}
    PROVE  Whole(n) \in Positive(Num)
<1>1. n \in Int /\ 0 <= n /\ ~(n <= 0) /\ 0 \in Int
  OBVIOUS
<1>2. Whole(n) \in Num
  BY <1>1 DEF OrderedField, Closed
<1>3. AtMost(Zero, Whole(n)) /\ ~AtMost(Whole(n), Zero)
  BY <1>1 DEF OrderedField, IntegerLaws, Zero
<1>4. Whole(n) # Zero
  BY <1>3
<1> QED BY <1>2, <1>3, <1>4 DEF Positive

\* Quotients of positive numbers are positive,
LEMMA PositiveQuotient ==
    ASSUME NEW Num, OrderedField(Num), NEW p \in Positive(Num), NEW q \in Positive(Num)
    PROVE  Over(p, q) \in Positive(Num)
<1>1. p \in Num /\ q \in Num /\ AtMost(Zero, p) /\ p # Zero
  BY DEF Positive
<1>2. Over(p, q) \in Num /\ AtMost(Zero, Over(p, q)) /\ Times(Over(p, q), q) = p
  BY <1>1, Quotient
<1>3. Times(Zero, q) = Zero
  BY <1>1, MulZero
<1> QED BY <1>1, <1>2, <1>3 DEF Positive

\* so are the periods of the rows,
LEMMA PeriodPositive ==
    ASSUME NEW Num, OrderedField(Num), NEW r \in Rows, NEW k
    PROVE  PeriodForKey(r, k) \in Positive(Num)
<1>1. Whole(r.retention_days) \in Positive(Num)
  BY RowFact, WholePositive
<1>2. Whole(Day) \in Positive(Num)
  BY CapacityModelAssumption, WholePositive
<1>3. r.duration_seconds > 0 => Over(Whole(r.duration_seconds), Whole(Day)) \in Positive(Num)
  <2>1. r.duration_seconds > 0 => r.duration_seconds \in Nat \ {0}
    BY RowFact
  <2>2. r.duration_seconds > 0 => Whole(r.duration_seconds) \in Positive(Num)
    BY <2>1, WholePositive
  <2> QED BY <1>2, <2>2, PositiveQuotient
<1> QED BY <1>1, <1>3 DEF PeriodForKey, MeasuredPeriod

\* and products of positive numbers are not negative.
LEMMA MulPositive ==
    ASSUME NEW Num, OrderedField(Num), NEW p \in Positive(Num), NEW q \in Positive(Num)
    PROVE  Times(p, q) \in Num /\ AtMost(Zero, Times(p, q))
BY DEF Positive, OrderedField, Closed, NumberLaws

\* A value at a longer retention is the one at the shorter times a factor that
\* is the same for all rows.
LEMMA ScaledFact ==
    ASSUME NEW Num, OrderedField(Num), PowerLaws(Num, Num), NEW k \in Keys,
           NEW r \in Rows, r.use[k] > 0, NEW a, AtMost(Zero, a),
           NEW u \in Positive(Num), NEW v \in Positive(Num)
    PROVE  /\ Scaled(r, u, a, k) \in Num /\ AtMost(Zero, Scaled(r, u, a, k))
           /\ Scaled(r, v, a, k) = Times(Pow(Over(v, u), a), Scaled(r, u, a, k))
<1> DEFINE p == PeriodForKey(r, k)
           w == Whole(r.use[k])
           f == Over(v, u)
           g == Over(u, p)
<1>1. a \in Num
  BY DEF OrderedField, Closed
<1>2. w \in Positive(Num)
  BY RowFact, WholePositive
<1>3. p \in Positive(Num)
  BY PeriodPositive
<1> HIDE DEF p, w
<1>4. f \in Positive(Num) /\ g \in Positive(Num) /\ Over(v, p) \in Positive(Num)
  BY <1>3, PositiveQuotient
<1>5. u \in Num /\ v \in Num /\ p \in Num /\ p # Zero /\ w \in Num
  BY <1>2, <1>3 DEF Positive
<1>6. Times(f, u) = v /\ Times(g, p) = u /\ Times(Over(v, p), p) = v
  BY <1>3, <1>5, Quotient
<1> HIDE DEF f, g
<1>7. f \in Num /\ g \in Num /\ Over(v, p) \in Num /\ Times(f, g) \in Num
  BY <1>4 DEF Positive, OrderedField, Closed
<1>8. Times(Times(f, g), p) = Times(f, Times(g, p))
  BY <1>5, <1>7 DEF OrderedField, NumberLaws
<1>9. Over(v, p) = Times(f, g)
  BY <1>5, <1>6, <1>7, <1>8, CancelFactor
<1>10. /\ \A q \in Positive(Num) : AtMost(Zero, Pow(q, a)) /\ Pow(q, a) # Zero
       /\ Pow(Times(f, g), a) = Times(Pow(f, a), Pow(g, a))
  BY <1>1, <1>4 DEF PowerLaws
<1>11. \A q \in Positive(Num) : Pow(q, a) \in Positive(Num)
  BY <1>10 DEF Positive, OrderedField, Closed
<1>12. Pow(f, a) \in Num /\ Pow(g, a) \in Num
  BY <1>4, <1>11 DEF Positive
<1>13. Times(w, Times(Pow(f, a), Pow(g, a))) = Times(Pow(f, a), Times(w, Pow(g, a)))
  <2>1. /\ Times(Times(w, Pow(f, a)), Pow(g, a)) = Times(w, Times(Pow(f, a), Pow(g, a)))
        /\ Times(Times(Pow(f, a), w), Pow(g, a)) = Times(Pow(f, a), Times(w, Pow(g, a)))
    BY <1>5, <1>12 DEF OrderedField, NumberLaws
  <2>2. Times(w, Pow(f, a)) = Times(Pow(f, a), w)
    BY <1>5, <1>12 DEF OrderedField, NumberLaws
  <2> QED BY <2>1, <2>2
<1>14. Scaled(r, u, a, k) = Times(w, Pow(g, a)) /\ Scaled(r, v, a, k) = Times(w, Pow(Over(v, p), a))
  BY DEF Scaled, w, g, p
<1>15. Scaled(r, u, a, k) \in Num /\ AtMost(Zero, Scaled(r, u, a, k))
  BY <1>2, <1>4, <1>11, <1>14, MulPositive
<1>16. Scaled(r, v, a, k) = Times(Pow(f, a), Scaled(r, u, a, k))
  BY <1>9, <1>10, <1>13, <1>14
<1> QED BY <1>15, <1>16 DEF f

\* An estimate does not fall as the retention grows.
LEMMA EstimateMonotone ==
    ASSUME NEW Num, OrderedField(Num), PowerLaws(Num, Num), NEW k \in Keys,
           NEW n, NEW rws, Slice(rws, n), NEW x \in Nat,
           NEW u \in Positive(Num), NEW v \in Positive(Num), AtMost(u, v)
    PROVE  AtMost(EstimateResource(rws, x, u, k), EstimateResource(rws, x, v, k))
<1> DEFINE a == EstimateAlpha(rws, k)
           S == Used(rws, k)
           y == [i \in S |-> Scaled(rws[i], u, a, k)]
           z == [i \in S |-> Scaled(rws[i], v, a, k)]
           c == Pow(Over(v, u), a)
<1>1. AtMost(Zero, a)
  BY AlphaFact
<1>2. S \in SUBSET (1..n) /\ \A i \in S : rws[i] \in Rows /\ rws[i].use[k] > 0
  BY DEF Used, Slice
<1>3. /\ EstimateResource(rws, x, u, k) = Larger(Zero, Interpolate(rws, y, x))
      /\ EstimateResource(rws, x, v, k) = Larger(Zero, Interpolate(rws, z, x))
  BY DEF EstimateResource
<1>4. c \in Num /\ AtMost(Zero, c) /\ AtMost(One, c)
  <2>1. Over(v, u) \in Positive(Num) /\ AtMost(One, Over(v, u))
    BY PositiveQuotient, Quotient DEF Positive
  <2>2. a \in Num
    BY <1>1 DEF OrderedField, Closed
  <2>3. AtMost(Zero, c) /\ AtMost(One, c)
    BY <1>1, <2>1, <2>2 DEF PowerLaws
  <2> QED BY <2>3 DEF OrderedField, Closed
<1>5. \A i \in S : Scaled(rws[i], u, a, k) \in Num
                   /\ Scaled(rws[i], v, a, k) = Times(c, Scaled(rws[i], u, a, k))
  BY <1>1, <1>2, ScaledFact
<1> HIDE DEF a, S, c
<1>6. y \in [S -> Num] /\ DOMAIN z = S /\ \A i \in S : z[i] = Times(c, y[i])
  BY <1>5
<1> DEFINE m == Interpolate(rws, y, x)
<1> HIDE DEF y, z
<1>7. m \in Num /\ Interpolate(rws, z, x) = Times(c, m)
  BY <1>2, <1>4, <1>6, InterpolateScaled
<1> HIDE DEF m
<1>8. AtMost(Zero, m) => AtMost(m, Times(c, m))
  <2>1. One \in Num /\ Times(m, One) = m /\ Times(m, c) = Times(c, m)
    BY <1>4, <1>7, OrderFacts DEF OrderedField, NumberLaws
  <2>2. AtMost(Zero, m) => AtMost(Times(m, One), Times(m, c))
    BY <1>4, <1>7, <2>1, MulUp
  <2> QED BY <2>1, <2>2
<1>9. Times(c, m) \in Num /\ Zero \in Num
  BY <1>4, <1>7, OrderFacts DEF OrderedField, Closed
<1>10. AtMost(Larger(Zero, m), Larger(Zero, Times(c, m)))
  BY <1>7, <1>8, <1>9, OrderFacts DEF Larger
<1> QED BY <1>3, <1>7, <1>10 DEF m

\* An estimate at a load between two neighbouring measurements is between what they
\* say of it.
LEMMA EstimateBetween ==
    ASSUME NEW Num, OrderedField(Num), PowerLaws(Num, Num), NEW k \in Keys,
           NEW n, NEW rws, Slice(rws, n), NEW x \in Nat, NEW u \in Positive(Num),
           \A i, j \in Used(rws, k) : rws[i].load_value = rws[j].load_value => i = j,
           NEW p \in Used(rws, k), NEW q \in Used(rws, k),
           rws[p].load_value <= x, x <= rws[q].load_value,
           rws[p].load_value < rws[q].load_value,
           \A i \in Used(rws, k) : rws[i].load_value <= rws[p].load_value
                                   \/ rws[q].load_value <= rws[i].load_value
    PROVE  LET a == EstimateAlpha(rws, k)
               s == Scaled(rws[p], u, a, k)
               t == Scaled(rws[q], u, a, k)
           IN  /\ AtMost(Smaller(s, t), EstimateResource(rws, x, u, k))
               /\ AtMost(EstimateResource(rws, x, u, k), Larger(s, t))
<1> DEFINE a == EstimateAlpha(rws, k)
           S == Used(rws, k)
           y == [i \in S |-> Scaled(rws[i], u, a, k)]
           m == Interpolate(rws, y, x)
<1>1. AtMost(Zero, a)
  BY AlphaFact
<1>2. S \in SUBSET (1..n) /\ \A i \in S : rws[i] \in Rows /\ rws[i].use[k] > 0
  BY DEF Used, Slice
<1>3. EstimateResource(rws, x, u, k) = Larger(Zero, m)
  BY DEF EstimateResource
<1>4. \A i \in S : Scaled(rws[i], u, a, k) \in Num /\ AtMost(Zero, Scaled(rws[i], u, a, k))
  BY <1>1, <1>2, ScaledFact
<1> HIDE DEF a, S
<1>5. y \in [S -> Num] /\ \A i \in S : AtMost(Zero, y[i])
  BY <1>4
<1>6. y[p] = Scaled(rws[p], u, a, k) /\ y[q] = Scaled(rws[q], u, a, k)
  BY DEF S
<1> HIDE DEF y
<1>7. AtMost(Smaller(y[p], y[q]), m) /\ AtMost(m, Larger(y[p], y[q]))
  BY <1>2, <1>5, InterpolateBetween DEF S
<1>8. AtMost(Zero, Smaller(y[p], y[q])) /\ Smaller(y[p], y[q]) \in Num
  BY <1>5 DEF Smaller, S
<1>9. m \in Num
  BY <1>7 DEF OrderedField, Closed
<1> HIDE DEF m
<1>10. AtMost(Zero, m)
  BY <1>7, <1>8, <1>9, OrderFacts
<1>11. EstimateResource(rws, x, u, k) = m
  BY <1>3, <1>10 DEF Larger
<1> QED BY <1>6, <1>7, <1>11 DEF a

(***************************************************************************)
(* Slices of the same rows in two orders.                                  *)
(***************************************************************************)
\* B has the row of position i of A at pi[i].
Reordered(A, B, n, pi) ==
    /\ Slice(A, n) /\ Slice(B, n)
    /\ pi \in [1..n -> 1..n]
    /\ \A i, j \in 1..n : pi[i] = pi[j] => i = j
    /\ \A j \in 1..n : \E i \in 1..n : pi[i] = j
    /\ \A i \in 1..n : B[pi[i]] = A[i]

\* No two rows have the same load.
SingleLoads(A, n) == \A i, j \in 1..n : A[i].load_value = A[j].load_value => i = j

\* Where the points S of the one are in the other.
Image(pi, S) == {pi[i] : i \in S}

\* What the range of a function and
LEMMA RangeFact ==
    ASSUME NEW f
    PROVE  /\ \A i \in DOMAIN f : f[i] \in Range(f)
           /\ \A v \in Range(f) : \E i \in DOMAIN f : f[i] = v
BY Zenon DEF Range

\* an image are.
LEMMA ImageFact ==
    ASSUME NEW pi, NEW S
    PROVE  /\ \A i \in S : pi[i] \in Image(pi, S)
           /\ \A j \in Image(pi, S) : \E i \in S : pi[i] = j
BY Zenon DEF Image

\* Two slices that hold the same rows, each once, differ by a permutation.
LEMMA ReorderingExists ==
    ASSUME NEW n, NEW A, NEW B, Slice(A, n), Slice(B, n),
           \A i, j \in 1..n : A[i] = A[j] => i = j,
           \A i, j \in 1..n : B[i] = B[j] => i = j,
           Range(A) = Range(B)
    PROVE  \E pi : Reordered(A, B, n, pi)
<1> DEFINE pi == [i \in 1..n |-> CHOOSE j \in 1..n : B[j] = A[i]]
<1>1. /\ DOMAIN A = 1..n /\ DOMAIN B = 1..n
      /\ \A i \in 1..n : \E j \in 1..n : B[j] = A[i]
      /\ \A j \in 1..n : \E i \in 1..n : A[i] = B[j]
  <2>1. DOMAIN A = 1..n /\ DOMAIN B = 1..n
    BY DEF Slice
  <2> QED BY <2>1, RangeFact
<1>2. \A i \in 1..n : pi[i] \in 1..n /\ B[pi[i]] = A[i]
  BY <1>1
<1>3. pi \in [1..n -> 1..n]
  BY <1>2
<1> HIDE DEF pi
<1>4. \A i, j \in 1..n : pi[i] = pi[j] => i = j
  BY <1>2
<1>5. \A j \in 1..n : \E i \in 1..n : pi[i] = j
  BY <1>1, <1>2
<1> QED BY <1>2, <1>3, <1>4, <1>5 DEF Reordered

\* A permutation keeps the number of positions.
LEMMA ImageSize ==
    ASSUME NEW n, NEW A, NEW B, NEW pi, Reordered(A, B, n, pi), NEW S \in SUBSET (1..n)
    PROVE  Cardinality(Image(pi, S)) = Cardinality(S) /\ Image(pi, S) \in SUBSET (1..n)
<1> DEFINE f == [i \in S |-> pi[i]]
<1>1. f \in Bijection(S, Image(pi, S))
  BY DEF Bijection, Injection, Surjection, IsInjective, Image, Reordered
<1>2. IsFiniteSet(S)
  <2>1. n \in Int /\ 1 \in Int
    BY DEF Reordered, Slice
  <2>2. IsFiniteSet(1..n)
    BY <2>1, FS_Interval
  <2> QED BY <2>2, FS_Subset
<1>3. ExistsBijection(S, Image(pi, S))
  BY <1>1 DEF ExistsBijection
<1> QED BY <1>2, <1>3, FS_Bijection DEF Image, Reordered

\* The same values have one median,
LEMMA MedianReordered ==
    ASSUME NEW n, NEW A, NEW B, NEW pi, Reordered(A, B, n, pi), NEW S \in SUBSET (1..n),
           NEW f, NEW g, DOMAIN f = S, DOMAIN g = Image(pi, S),
           \A i \in S : g[pi[i]] = f[i]
    PROVE  Median(f) = Median(g)
<1>1. Range(f) = Range(g)
  <2>1. /\ \A i \in S : pi[i] \in Image(pi, S)
        /\ \A j \in Image(pi, S) : \E i \in S : pi[i] = j
    BY Zenon DEF Image
  <2>2. /\ \A i \in S : f[i] \in Range(f)
        /\ \A v \in Range(f) : \E i \in S : f[i] = v
    BY RangeFact
  <2>3. /\ \A i \in Image(pi, S) : g[i] \in Range(g)
        /\ \A v \in Range(g) : \E i \in Image(pi, S) : g[i] = v
    BY RangeFact
  <2> QED BY <2>1, <2>2, <2>3
<1>2. Cardinality(DOMAIN f) = Cardinality(DOMAIN g)
  BY ImageSize
<1>3. \A v : /\ Cardinality({i \in DOMAIN f : f[i] < v})
                 = Cardinality({i \in DOMAIN g : g[i] < v})
             /\ Cardinality({i \in DOMAIN f : f[i] <= v})
                 = Cardinality({i \in DOMAIN g : g[i] <= v})
  <2> SUFFICES ASSUME NEW v
               PROVE  /\ Cardinality({i \in S : f[i] < v})
                           = Cardinality({i \in Image(pi, S) : g[i] < v})
                      /\ Cardinality({i \in S : f[i] <= v})
                           = Cardinality({i \in Image(pi, S) : g[i] <= v})
    OBVIOUS
  <2> DEFINE less == {i \in S : f[i] < v}
             most == {i \in S : f[i] <= v}
  <2>1. {i \in Image(pi, S) : g[i] < v} = Image(pi, less)
    BY DEF Image
  <2>2. {i \in Image(pi, S) : g[i] <= v} = Image(pi, most)
    BY DEF Image
  <2>3. less \in SUBSET (1..n) /\ most \in SUBSET (1..n)
    OBVIOUS
  <2>4. /\ Cardinality(Image(pi, less)) = Cardinality(less)
        /\ Cardinality(Image(pi, most)) = Cardinality(most)
    <3> HIDE DEF less, most
    <3>1. Cardinality(Image(pi, less)) = Cardinality(less)
      BY <2>3, ImageSize
    <3>2. Cardinality(Image(pi, most)) = Cardinality(most)
      BY <2>3, ImageSize
    <3> QED BY <3>1, <3>2
  <2> QED BY <2>1, <2>2, <2>4
<1> QED BY <1>1, <1>2, <1>3 DEF Median

\* and the same rows one exponent.
LEMMA AlphaReordered ==
    ASSUME NEW n, NEW A, NEW B, NEW pi, Reordered(A, B, n, pi), NEW k
    PROVE  /\ Used(B, k) = Image(pi, Used(A, k)) /\ Used(A, k) \in SUBSET (1..n)
           /\ EstimateAlpha(A, k) = EstimateAlpha(B, k)
<1>1. DOMAIN A = 1..n /\ DOMAIN B = 1..n
  BY DEF Reordered, Slice
<1>2. Used(B, k) = Image(pi, Used(A, k)) /\ Used(A, k) \in SUBSET (1..n)
  <2>1. Used(A, k) \in SUBSET (1..n) /\ Used(B, k) \in SUBSET (1..n)
    BY <1>1 DEF Used
  <2>2. \A i \in 1..n : pi[i] \in 1..n /\ (pi[i] \in Used(B, k) <=> i \in Used(A, k))
    BY <1>1 DEF Used, Reordered
  <2>5. /\ \A i \in Used(A, k) : pi[i] \in Image(pi, Used(A, k))
        /\ \A j \in Image(pi, Used(A, k)) : \E i \in Used(A, k) : pi[i] = j
    BY ImageFact
  <2>3. \A j \in Used(B, k) : j \in Image(pi, Used(A, k))
    BY <2>1, <2>2, <2>5 DEF Reordered
  <2>4. \A j \in Image(pi, Used(A, k)) : j \in Used(B, k)
    BY <2>1, <2>2, <2>5
  <2> QED BY <2>1, <2>3, <2>4
<1>3. Periods(A, k) = Periods(B, k)
  <2>5. /\ \A i \in Used(A, k) : pi[i] \in Used(B, k)
        /\ \A j \in Used(B, k) : \E i \in Used(A, k) : pi[i] = j
    BY <1>2, ImageFact
  <2>1. \A i \in Used(A, k) : pi[i] \in Used(B, k) /\ A[i] = B[pi[i]]
    BY <1>2, <2>5 DEF Reordered
  <2>2. \A j \in Used(B, k) : \E i \in Used(A, k) : A[i] = B[j]
    BY <1>2, <2>5 DEF Reordered
  <2>3. \A p \in Periods(A, k) : p \in Periods(B, k)
    BY <2>1 DEF Periods
  <2>4. \A p \in Periods(B, k) : p \in Periods(A, k)
    BY <2>2 DEF Periods
  <2> QED BY <2>3, <2>4
<1>4. MedianPoints(A, k) = MedianPoints(B, k)
  <2> DEFINE OfA(p) == {i \in Used(A, k) : PeriodForKey(A[i], k) = p}
             OfB(p) == {i \in Used(B, k) : PeriodForKey(B[i], k) = p}
             ValA(p) == [i \in OfA(p) |-> A[i].use[k]]
             ValB(p) == [i \in OfB(p) |-> B[i].use[k]]
  <2>1. ASSUME NEW p PROVE Median(ValA(p)) = Median(ValB(p))
    <3>1. OfB(p) = Image(pi, OfA(p)) /\ OfA(p) \in SUBSET (1..n)
      BY <1>2 DEF Image, Reordered
    <3>2. \A i \in OfA(p) : ValB(p)[pi[i]] = ValA(p)[i]
      BY <3>1 DEF Image, Reordered
    <3>3. DOMAIN ValA(p) = OfA(p) /\ DOMAIN ValB(p) = OfB(p)
      OBVIOUS
    <3> HIDE DEF OfA, OfB, ValA, ValB
    <3> QED BY <3>1, <3>2, <3>3, MedianReordered
  <2>2. /\ MedianPoints(A, k) = {[x |-> Log(p), y |-> Log(Whole(Median(ValA(p))))] :
                                    p \in Periods(A, k) \ {Zero}}
        /\ MedianPoints(B, k) = {[x |-> Log(p), y |-> Log(Whole(Median(ValB(p))))] :
                                    p \in Periods(B, k) \ {Zero}}
    BY DEF MedianPoints
  <2> HIDE DEF ValA, ValB
  <2> QED BY <1>3, <2>1, <2>2
<1> QED BY <1>2, <1>3, <1>4 DEF EstimateAlpha

\* The points have the same order by load,
LEMMA PrecedesReordered ==
    ASSUME NEW n, NEW A, NEW B, NEW pi, Reordered(A, B, n, pi), SingleLoads(A, n),
           NEW i \in 1..n, NEW j \in 1..n
    PROVE  Precedes(B, pi[i], pi[j]) <=> Precedes(A, i, j)
<1>1. /\ B[pi[i]] = A[i] /\ B[pi[j]] = A[j] /\ (pi[i] = pi[j] <=> i = j)
  BY DEF Reordered
<1>5. pi[i] \in 1..n /\ pi[j] \in 1..n /\ n \in Nat
  BY DEF Reordered, Slice
<1>2. A[i].load_value \in Nat /\ A[j].load_value \in Nat
  BY RowFact DEF Reordered, Slice
<1>3. A[i].load_value = A[j].load_value => i = j
  BY DEF SingleLoads
<1> QED BY <1>1, <1>2, <1>3, <1>5 DEF Precedes

\* The extremes of the same points are the same point.
LEMMA ExtremesReordered ==
    ASSUME NEW n, NEW A, NEW B, NEW pi, Reordered(A, B, n, pi), SingleLoads(A, n),
           NEW S \in SUBSET (1..n), S # {}
    PROVE  /\ Lowest(B, Image(pi, S)) = pi[Lowest(A, S)] /\ Lowest(A, S) \in S
           /\ Highest(B, Image(pi, S)) = pi[Highest(A, S)] /\ Highest(A, S) \in S
<1> DEFINE T == Image(pi, S)
<1>1. /\ T \in SUBSET (1..n) /\ T # {}
      /\ \A i \in S : pi[i] \in T
      /\ \A j \in T : \E i \in S : pi[i] = j
  BY ImageFact, ImageSize
<1> HIDE DEF T
<1>2. Slice(A, n) /\ Slice(B, n) /\ \A i, j \in S : pi[i] = pi[j] => i = j
  BY DEF Reordered
<1>3. /\ Lowest(A, S) \in S /\ \A j \in S \ {Lowest(A, S)} : Precedes(A, Lowest(A, S), j)
      /\ Highest(A, S) \in S /\ \A j \in S \ {Highest(A, S)} : Precedes(A, j, Highest(A, S))
  BY <1>2, Extremes
<1>4. /\ Lowest(B, T) \in T /\ \A j \in T \ {Lowest(B, T)} : Precedes(B, Lowest(B, T), j)
      /\ Highest(B, T) \in T /\ \A j \in T \ {Highest(B, T)} : Precedes(B, j, Highest(B, T))
  BY <1>1, <1>2, Extremes
<1>5. \A i, j \in T : Precedes(B, i, j) => ~Precedes(B, j, i)
  BY <1>1, <1>2, PrecedesOrder
<1>6. \A j \in T \ {pi[Lowest(A, S)]} : Precedes(B, pi[Lowest(A, S)], j)
  <2> SUFFICES ASSUME NEW j \in T, j # pi[Lowest(A, S)]
               PROVE  Precedes(B, pi[Lowest(A, S)], j)
    OBVIOUS
  <2>1. PICK i \in S : pi[i] = j
    BY <1>1
  <2>2. Precedes(A, Lowest(A, S), i)
    BY <1>3, <2>1
  <2> QED BY <1>3, <2>1, <2>2, PrecedesReordered
<1>7. \A j \in T \ {pi[Highest(A, S)]} : Precedes(B, j, pi[Highest(A, S)])
  <2> SUFFICES ASSUME NEW j \in T, j # pi[Highest(A, S)]
               PROVE  Precedes(B, j, pi[Highest(A, S)])
    OBVIOUS
  <2>1. PICK i \in S : pi[i] = j
    BY <1>1
  <2>2. Precedes(A, i, Highest(A, S))
    BY <1>3, <2>1
  <2> QED BY <1>3, <2>1, <2>2, PrecedesReordered
<1>8. Lowest(B, T) = pi[Lowest(A, S)]
  BY <1>1, <1>3, <1>4, <1>5, <1>6
<1>9. Highest(B, T) = pi[Highest(A, S)]
  BY <1>1, <1>3, <1>4, <1>5, <1>7
<1> QED BY <1>3, <1>8, <1>9 DEF T

\* so the segment for a load has the same ends,
LEMMA SegmentEndReordered ==
    ASSUME NEW n, NEW A, NEW B, NEW pi, Reordered(A, B, n, pi), SingleLoads(A, n),
           NEW S \in SUBSET (1..n), S # {}, Lowest(A, S) # Highest(A, S), NEW x \in Nat
    PROVE  /\ SegmentEnd(B, Image(pi, S), x) = pi[SegmentEnd(A, S, x)]
           /\ SegmentEnd(A, S, x) \in S
           /\ Below(B, Image(pi, S), SegmentEnd(B, Image(pi, S), x))
                = pi[Below(A, S, SegmentEnd(A, S, x))]
           /\ Below(A, S, SegmentEnd(A, S, x)) \in S
<1> DEFINE T  == Image(pi, S)
           lo == Lowest(A, S)
           hi == Highest(A, S)
           e  == SegmentEnd(A, S, x)
<1>1. Slice(A, n) /\ Slice(B, n) /\ \A i \in S : i \in 1..n /\ B[pi[i]] = A[i]
  BY DEF Reordered
<1>2. /\ T \in SUBSET (1..n)
      /\ \A i \in S : pi[i] \in T
      /\ \A j \in T : \E i \in S : pi[i] = j
  BY ImageFact, ImageSize
<1>3. /\ Lowest(B, T) = pi[lo] /\ lo \in S /\ Highest(B, T) = pi[hi] /\ hi \in S
  BY ExtremesReordered
<1>4. \A j \in S \ {lo} : Precedes(A, lo, j)
  BY <1>1, Extremes
<1>5. B[pi[lo]] = A[lo] /\ B[pi[hi]] = A[hi] /\ A[hi].load_value \in Nat
  BY <1>1, <1>3, RowFact DEF Slice
<1>6. \A i, j \in S : Precedes(B, pi[i], pi[j]) <=> Precedes(A, i, j)
  BY PrecedesReordered
<1>7. /\ e \in S /\ Below(A, S, e) \in S /\ Precedes(A, Below(A, S, e), e)
  BY <1>1, SegmentFact
<1> HIDE DEF T, lo, hi, e
<1>8. SegmentEnd(B, T, x) = pi[e]
  <2>1. CASE x <= A[lo].load_value
    <3> DEFINE U == {j \in S : Precedes(A, lo, j)}
               V == {j \in T : Precedes(B, pi[lo], j)}
    <3>1. U # {} /\ U \in SUBSET (1..n)
      BY <1>1, <1>3, <1>4 DEF lo, hi
    <3>2. V = Image(pi, U)
      <4>1. /\ \A i \in U : pi[i] \in V
            /\ \A j \in V : \E i \in U : pi[i] = j
        BY <1>2, <1>3, <1>6
      <4> HIDE DEF U, V
      <4> QED BY <4>1 DEF Image
    <3>3. Lowest(B, V) = pi[Lowest(A, U)]
      <4> HIDE DEF U, V
      <4> QED BY <3>1, <3>2, ExtremesReordered
    <3>4. e = Lowest(A, U) /\ SegmentEnd(B, T, x) = Lowest(B, V)
      BY <1>3, <1>5, <2>1 DEF SegmentEnd, Above, lo, e
    <3> QED BY <3>3, <3>4
  <2>2. CASE ~(x <= A[lo].load_value) /\ x >= A[hi].load_value
    BY <1>3, <1>5, <2>2 DEF SegmentEnd, lo, hi, e
  <2>3. CASE ~(x <= A[lo].load_value) /\ ~(x >= A[hi].load_value)
    <3> DEFINE U == {i \in S : A[i].load_value >= x}
               V == {i \in T : B[i].load_value >= x}
    <3>1. U # {} /\ U \in SUBSET (1..n)
      <4>1. A[hi].load_value >= x
        BY <1>5, <2>3
      <4> QED BY <1>1, <1>3, <4>1
    <3>2. V = Image(pi, U)
      <4>1. /\ \A i \in U : pi[i] \in V
            /\ \A j \in V : \E i \in U : pi[i] = j
        BY <1>1, <1>2
      <4> HIDE DEF U, V
      <4> QED BY <4>1 DEF Image
    <3>3. Lowest(B, V) = pi[Lowest(A, U)]
      <4> HIDE DEF U, V
      <4> QED BY <3>1, <3>2, ExtremesReordered
    <3>4. e = Lowest(A, U) /\ SegmentEnd(B, T, x) = Lowest(B, V)
      BY <1>3, <1>5, <2>3 DEF SegmentEnd, lo, hi, e
    <3> QED BY <3>3, <3>4
  <2> QED BY <2>1, <2>2, <2>3
<1>9. Below(B, T, pi[e]) = pi[Below(A, S, e)]
  <2> DEFINE U == {j \in S : Precedes(A, j, e)}
             V == {j \in T : Precedes(B, j, pi[e])}
  <2>1. U # {} /\ U \in SUBSET (1..n)
    BY <1>1, <1>7
  <2>2. V = Image(pi, U)
    <3>1. /\ \A i \in U : pi[i] \in V
          /\ \A j \in V : \E i \in U : pi[i] = j
      BY <1>2, <1>6, <1>7
    <3> HIDE DEF U, V
    <3> QED BY <3>1 DEF Image
  <2>3. Highest(B, V) = pi[Highest(A, U)]
    <3> HIDE DEF U, V
    <3> QED BY <2>1, <2>2, ExtremesReordered
  <2> QED BY <2>3 DEF Below
<1> QED BY <1>7, <1>8, <1>9 DEF T, e

\* so the interpolation gives the same value,
LEMMA InterpolateReordered ==
    ASSUME NEW n, NEW A, NEW B, NEW pi, Reordered(A, B, n, pi), SingleLoads(A, n),
           NEW S \in SUBSET (1..n), NEW y, NEW z, DOMAIN y = S, DOMAIN z = Image(pi, S),
           \A i \in S : z[pi[i]] = y[i], NEW x \in Nat
    PROVE  Interpolate(A, y, x) = Interpolate(B, z, x)
<1> DEFINE T == Image(pi, S)
           lo == Lowest(A, S)
           hi == Highest(A, S)
           e  == SegmentEnd(A, S, x)
           b  == Below(A, S, e)
<1>1. T \in SUBSET (1..n) /\ (T = {} <=> S = {})
  BY ImageFact, ImageSize
<1>2. CASE S = {}
  BY <1>1, <1>2 DEF Interpolate
<1>3. CASE S # {}
  <2>1. Lowest(B, T) = pi[lo] /\ lo \in S /\ Highest(B, T) = pi[hi] /\ hi \in S
    BY <1>3, ExtremesReordered
  <2>2. pi[lo] = pi[hi] <=> lo = hi
    BY <2>1 DEF Reordered
  <2>3. CASE lo = hi
    BY <1>1, <1>3, <2>1, <2>2, <2>3 DEF Interpolate
  <2>4. CASE lo # hi
    <3>1. /\ SegmentEnd(B, T, x) = pi[e] /\ e \in S
          /\ Below(B, T, SegmentEnd(B, T, x)) = pi[b] /\ b \in S
      BY <1>3, <2>4, SegmentEndReordered
    <3>2. B[pi[e]] = A[e] /\ B[pi[b]] = A[b] /\ z[pi[e]] = y[e] /\ z[pi[b]] = y[b]
      BY <3>1 DEF Reordered
    <3>3. Interpolate(A, y, x) = Segment(A, y, b, e, x)
      BY <1>3, <2>4 DEF Interpolate
    <3>4. Interpolate(B, z, x) = Segment(B, z, pi[b], pi[e], x)
      <4> HIDE DEF lo, hi, e, b
      <4> QED BY <1>1, <1>3, <2>1, <2>2, <2>4, <3>1 DEF Interpolate
    <3>5. Segment(B, z, pi[b], pi[e], x) = Segment(A, y, b, e, x)
      <4> HIDE DEF lo, hi, e, b
      <4> QED BY <3>2 DEF Segment
    <3> QED BY <3>3, <3>4, <3>5
  <2> QED BY <2>3, <2>4
<1> QED BY <1>2, <1>3

\* and the estimate is the same.
LEMMA EstimateReordered ==
    ASSUME NEW n, NEW A, NEW B, NEW pi, Reordered(A, B, n, pi), SingleLoads(A, n),
           NEW x \in Nat, NEW u, NEW k
    PROVE  EstimateResource(A, x, u, k) = EstimateResource(B, x, u, k)
<1> DEFINE S == Used(A, k)
           a == EstimateAlpha(A, k)
           y == [i \in S |-> Scaled(A[i], u, a, k)]
           z == [i \in Used(B, k) |-> Scaled(B[i], u, a, k)]
<1>1. Used(B, k) = Image(pi, S) /\ S \in SUBSET (1..n) /\ a = EstimateAlpha(B, k)
  BY AlphaReordered
<1> HIDE DEF S, a
<1>2. \A i \in S : pi[i] \in Used(B, k) /\ B[pi[i]] = A[i]
  <2>1. \A i \in S : pi[i] \in Image(pi, S)
    BY ImageFact, Zenon
  <2> QED BY <1>1, <2>1 DEF Reordered
<1>3. DOMAIN y = S /\ DOMAIN z = Image(pi, S) /\ \A i \in S : z[pi[i]] = y[i]
  BY <1>1, <1>2
<1>4. EstimateResource(A, x, u, k) = Larger(Zero, Interpolate(A, y, x))
  BY DEF EstimateResource, S, a
<1>5. EstimateResource(B, x, u, k) = Larger(Zero, Interpolate(B, z, x))
  BY <1>1 DEF EstimateResource
<1> HIDE DEF y, z
<1>6. Interpolate(A, y, x) = Interpolate(B, z, x)
  BY <1>1, <1>3, InterpolateReordered
<1> QED BY <1>4, <1>5, <1>6

\* What is left without one row.
LEMMA TrainFact ==
    ASSUME NEW n, NEW A, Slice(A, n), SingleLoads(A, n), NEW p \in 1..n
    PROVE  /\ Slice(Train(A, p), n - 1) /\ SingleLoads(Train(A, p), n - 1)
           /\ Range(Train(A, p)) = Range(A) \ {A[p]}
<1> DEFINE C == Train(A, p)
<1>1. n \in Nat /\ A \in [1..n -> Rows] /\ n - 1 \in Nat /\ p - 1 \in Nat /\ p \in Nat
  BY DEF Slice
<1>2. A \in Seq(Rows) /\ Len(A) = n
  BY <1>1
<1>3. C = SubSeq(A, 1, p - 1) \o SubSeq(A, p + 1, n)
  BY <1>2 DEF Train, RemoveAt
<1> DEFINE L == SubSeq(A, 1, p - 1)
           R == SubSeq(A, p + 1, n)
<1>4. /\ L \in Seq(Rows) /\ Len(L) = p - 1
      /\ \A j \in 1..(p - 1) : L[j] = A[j]
  <2>1. 1 \in Int /\ p - 1 \in Int /\ \A j \in 1..(p - 1) : A[j] \in Rows
    BY <1>1
  <2>2. /\ SubSeq(A, 1, p - 1) \in Seq(Rows)
        /\ Len(SubSeq(A, 1, p - 1)) = IF 1 <= p - 1 THEN (p - 1) - 1 + 1 ELSE 0
        /\ \A j \in 1..((p - 1) - 1 + 1) : SubSeq(A, 1, p - 1)[j] = A[1 + j - 1]
    BY <2>1, SubSeqProperties
  <2> QED BY <1>1, <2>2
<1>5. /\ R \in Seq(Rows) /\ Len(R) = n - p
      /\ \A j \in 1..(n - p) : R[j] = A[p + j]
  <2>1. p + 1 \in Int /\ n \in Int /\ \A j \in (p + 1)..n : A[j] \in Rows
    BY <1>1
  <2>2. /\ SubSeq(A, p + 1, n) \in Seq(Rows)
        /\ Len(SubSeq(A, p + 1, n)) = IF p + 1 <= n THEN n - (p + 1) + 1 ELSE 0
        /\ \A j \in 1..(n - (p + 1) + 1) : SubSeq(A, p + 1, n)[j] = A[(p + 1) + j - 1]
    BY <2>1, SubSeqProperties
  <2> QED BY <1>1, <2>2
<1> HIDE DEF L, R
<1>6. /\ C \in Seq(Rows) /\ Len(C) = n - 1
      /\ \A j \in 1..(n - 1) : C[j] = IF j <= p - 1 THEN L[j] ELSE R[j - (p - 1)]
  <2>1. C = L \o R
    BY <1>3 DEF L, R
  <2>2. /\ L \o R \in Seq(Rows) /\ Len(L \o R) = Len(L) + Len(R)
        /\ \A j \in 1..(Len(L) + Len(R)) :
              (L \o R)[j] = IF j <= Len(L) THEN L[j] ELSE R[j - Len(L)]
    BY <1>4, <1>5, ConcatProperties
  <2>3. Len(L) + Len(R) = n - 1
    BY <1>1, <1>4, <1>5
  <2> HIDE DEF C
  <2> QED BY <1>4, <2>1, <2>2, <2>3
<1> HIDE DEF C
<1>7. \A j \in 1..(n - 1) : C[j] = IF j < p THEN A[j] ELSE A[j + 1]
  <2> SUFFICES ASSUME NEW j \in 1..(n - 1) PROVE C[j] = IF j < p THEN A[j] ELSE A[j + 1]
    OBVIOUS
  <2>1. CASE j < p
    <3>1. j \in 1..(p - 1) /\ j <= p - 1
      BY <1>1, <2>1
    <3> QED BY <1>4, <1>6, <2>1, <3>1
  <2>2. CASE ~(j < p)
    <3>1. j - (p - 1) \in 1..(n - p) /\ ~(j <= p - 1) /\ p + (j - (p - 1)) = j + 1
      BY <1>1, <2>2
    <3> QED BY <1>5, <1>6, <2>2, <3>1
  <2> QED BY <2>1, <2>2
<1>8. Slice(C, n - 1)
  <2>1. C \in [1..(n - 1) -> Rows]
    BY <1>6, LenProperties
  <2> QED BY <1>1, <2>1 DEF Slice
<1> DEFINE place(j) == IF j < p THEN j ELSE j + 1
<1>9. \A j \in 1..(n - 1) : place(j) \in 1..n /\ place(j) # p /\ C[j] = A[place(j)]
  BY <1>1, <1>7
<1>10. \A i \in 1..n : i # p => \E j \in 1..(n - 1) : place(j) = i
  <2> SUFFICES ASSUME NEW i \in 1..n, i # p PROVE \E j \in 1..(n - 1) : place(j) = i
    OBVIOUS
  <2>1. CASE i < p
    <3>1. i \in 1..(n - 1) /\ place(i) = i
      BY <1>1, <2>1
    <3> QED BY <3>1
  <2>2. CASE ~(i < p)
    <3>1. i - 1 \in 1..(n - 1) /\ place(i - 1) = i
      BY <1>1, <2>2
    <3> QED BY <3>1
  <2> QED BY <2>1, <2>2
<1>11. \A i, j \in 1..(n - 1) : place(i) = place(j) => i = j
  BY <1>1
<1> HIDE DEF place
<1>12. SingleLoads(C, n - 1)
  BY <1>9, <1>11 DEF SingleLoads
<1>13. Range(C) = Range(A) \ {A[p]}
  <2>1. DOMAIN A = 1..n /\ DOMAIN C = 1..(n - 1)
    BY <1>1, <1>8 DEF Slice
  <2>2. /\ \A i \in 1..n : A[i] \in Range(A)
        /\ \A v \in Range(A) : \E i \in 1..n : A[i] = v
    BY <2>1, RangeFact
  <2>3. /\ \A j \in 1..(n - 1) : C[j] \in Range(C)
        /\ \A v \in Range(C) : \E j \in 1..(n - 1) : C[j] = v
    BY <2>1, RangeFact
  <2>4. \A i \in 1..n : A[i] = A[p] => i = p
    BY DEF SingleLoads
  <2>5. \A v \in Range(C) : v \in Range(A) \ {A[p]}
    BY <1>9, <2>2, <2>3, <2>4
  <2>6. \A v \in Range(A) \ {A[p]} : v \in Range(C)
    <3> SUFFICES ASSUME NEW v \in Range(A), v # A[p] PROVE v \in Range(C)
      OBVIOUS
    <3>1. PICK i \in 1..n : A[i] = v
      BY <2>2
    <3>2. PICK j \in 1..(n - 1) : place(j) = i
      BY <1>10, <3>1
    <3> QED BY <1>9, <2>3, <3>1, <3>2
  <2> QED BY <2>5, <2>6
<1> QED BY <1>8, <1>12, <1>13 DEF C

\* Two slices that hold the same rows, of different loads.
SameRows(A, B, n) ==
    Slice(A, n) /\ Slice(B, n) /\ SingleLoads(A, n) /\ SingleLoads(B, n) /\ Range(A) = Range(B)

\* Estimates and
LEMMA EstimateOfSameRows ==
    ASSUME NEW n, NEW A, NEW B, SameRows(A, B, n), NEW x \in Nat, NEW u, NEW k
    PROVE  EstimateResource(A, x, u, k) = EstimateResource(B, x, u, k)
<1>1. /\ Slice(A, n) /\ Slice(B, n) /\ SingleLoads(A, n) /\ Range(A) = Range(B)
      /\ \A i, j \in 1..n : A[i] = A[j] => i = j
      /\ \A i, j \in 1..n : B[i] = B[j] => i = j
  BY DEF SameRows, SingleLoads
<1>2. PICK pi : Reordered(A, B, n, pi)
  BY <1>1, ReorderingExists
<1> QED BY <1>1, <1>2, EstimateReordered

\* validations of the same rows are the same.
LEMMA HoldoutOfSameRows ==
    ASSUME NEW n, NEW A, NEW B, SameRows(A, B, n), NEW k
    PROVE  ValidateHoldout(A, k) = ValidateHoldout(B, k)
<1> DEFINE PosA(r) == CHOOSE i \in DOMAIN A : A[i] = r
           PosB(r) == CHOOSE i \in DOMAIN B : B[i] = r
           ErrA(r) == Mape(r.use[k], EstimateResource(Train(A, PosA(r)), r.load_value,
                                                      PeriodForKey(r, k), k))
           ErrB(r) == Mape(r.use[k], EstimateResource(Train(B, PosB(r)), r.load_value,
                                                      PeriodForKey(r, k), k))
<1>1. /\ Slice(A, n) /\ Slice(B, n) /\ SingleLoads(A, n) /\ SingleLoads(B, n)
      /\ Range(A) = Range(B)
  BY DEF SameRows
<1>2. DOMAIN A = 1..n /\ DOMAIN B = 1..n /\ Len(A) = n /\ Len(B) = n
  BY <1>1 DEF Slice
<1>3. ASSUME NEW r \in Range(A) PROVE ErrA(r) = ErrB(r)
  <2>1. PosA(r) \in 1..n /\ A[PosA(r)] = r
    <3>1. \E i \in DOMAIN A : A[i] = r
      BY RangeFact
    <3> QED BY <1>2, <3>1
  <2>2. PosB(r) \in 1..n /\ B[PosB(r)] = r
    <3>1. \E i \in DOMAIN B : B[i] = r
      BY <1>1, RangeFact
    <3> QED BY <1>2, <3>1
  <2> HIDE DEF PosA, PosB
  <2>3. /\ Slice(Train(A, PosA(r)), n - 1) /\ SingleLoads(Train(A, PosA(r)), n - 1)
        /\ Range(Train(A, PosA(r))) = Range(A) \ {r}
    BY <1>1, <2>1, TrainFact
  <2>4. /\ Slice(Train(B, PosB(r)), n - 1) /\ SingleLoads(Train(B, PosB(r)), n - 1)
        /\ Range(Train(B, PosB(r))) = Range(B) \ {r}
    BY <1>1, <2>2, TrainFact
  <2>5. SameRows(Train(A, PosA(r)), Train(B, PosB(r)), n - 1)
    BY <1>1, <2>3, <2>4 DEF SameRows
  <2>6. r.load_value \in Nat
    BY <1>1, <2>1, RowFact DEF Slice
  <2>7. EstimateResource(Train(A, PosA(r)), r.load_value, PeriodForKey(r, k), k)
          = EstimateResource(Train(B, PosB(r)), r.load_value, PeriodForKey(r, k), k)
    BY <2>5, <2>6, EstimateOfSameRows
  <2> QED BY <2>7
<1>4. /\ ValidateHoldout(A, k) = IF Len(A) < 3 THEN Null ELSE Mean([r \in Range(A) |-> ErrA(r)])
      /\ ValidateHoldout(B, k) = IF Len(B) < 3 THEN Null ELSE Mean([r \in Range(B) |-> ErrB(r)])
  BY DEF ValidateHoldout
<1> HIDE DEF ErrA, ErrB
<1>5. [r \in Range(A) |-> ErrA(r)] = [r \in Range(B) |-> ErrB(r)]
  BY <1>1, <1>3
<1> QED BY <1>2, <1>4, <1>5

\* SetToSeq of the rows of a slice is a slice of the same rows.
LEMMA SetToSeqFact ==
    ASSUME NEW n, NEW A, Slice(A, n), \A i, j \in 1..n : A[i] = A[j] => i = j
    PROVE  /\ Slice(SetToSeq(Range(A)), n)
           /\ \A i, j \in 1..n : SetToSeq(Range(A))[i] = SetToSeq(Range(A))[j] => i = j
           /\ Range(SetToSeq(Range(A))) = Range(A)
<1> DEFINE S == Range(A)
           q == SetToSeq(S)
<1>1. n \in Nat /\ DOMAIN A = 1..n /\ S \in SUBSET Rows /\ A \in [1..n -> S]
  BY DEF Slice, Range
<1>2. IsFiniteSet(1..n) /\ Cardinality(1..n) = n
  BY <1>1, FS_Interval
<1>3. A \in Bijection(1..n, S)
  <2>1. \A v \in S : \E i \in 1..n : A[i] = v
    BY <1>1, RangeFact
  <2> QED BY <1>1, <2>1 DEF Bijection, Injection, Surjection, IsInjective
<1>4. Cardinality(S) = n /\ IsFiniteSet(S)
  <2>1. ExistsBijection(1..n, S)
    BY <1>3 DEF ExistsBijection
  <2> QED BY <1>2, <2>1, FS_Bijection
<1>5. IsInjective(A)
  BY <1>1 DEF IsInjective
<1>6. q \in [1..n -> S] /\ IsInjective(q)
  BY <1>1, <1>4, <1>5 DEF SetToSeq
<1> HIDE DEF q
<1>7. q \in Injection(1..n, S)
  BY <1>6 DEF Injection
<1>8. q \in Surjection(1..n, S)
  BY <1>2, <1>4, <1>7, FS_Injection
<1>9. Range(q) = S
  <2>1. \A v \in S : \E i \in 1..n : q[i] = v
    BY <1>8 DEF Surjection
  <2>2. DOMAIN q = 1..n /\ \A i \in 1..n : q[i] \in S
    BY <1>6
  <2>3. /\ \A i \in 1..n : q[i] \in Range(q)
        /\ \A v \in Range(q) : \E i \in 1..n : q[i] = v
    BY <2>2, RangeFact
  <2> QED BY <2>1, <2>2, <2>3
<1>10. Slice(q, n)
  BY <1>1, <1>6 DEF Slice
<1>11. \A i, j \in 1..n : q[i] = q[j] => i = j
  BY <1>6 DEF IsInjective
<1> QED BY <1>9, <1>10, <1>11 DEF q

(***************************************************************************)
(* The leave-one-out error.  It is a mean, which is a fold over the values *)
(* of a function; every value is an error and not negative, so that the    *)
(* mean is zero only if no prediction is wrong.                            *)
(***************************************************************************)
\* The member that is added next,
Pick(s) == CHOOSE i \in s : TRUE

\* to a sum of the others, which g has, and
Added(f, g, s) == IF s = {} THEN Zero ELSE Plus(f[Pick(s)], g[s \ {Pick(s)}])

\* the sums of all sets of positions.
Sums(f) == CHOOSE g : g = [s \in SUBSET (DOMAIN f) |-> Added(f, g, s)]

\* The fold is the sum over all positions.
LEMMA FoldIsSum == ASSUME NEW f PROVE FoldFunction(Plus, Zero, f) = Sums(f)[DOMAIN f]
BY DEF FoldFunction, FoldFunctionOnSet, MapThenFoldSet, Sums, Added, Pick

\* What is left after a member is picked.
LEMMA PickFact ==
    ASSUME NEW s, IsFiniteSet(s), s # {}
    PROVE  /\ Pick(s) \in s /\ IsFiniteSet(s \ {Pick(s)})
           /\ Cardinality(s) \in Nat \ {0} /\ Cardinality(s \ {Pick(s)}) = Cardinality(s) - 1
<1>1. Pick(s) \in s
  BY DEF Pick
<1>2. Cardinality(s) \in Nat /\ Cardinality(s) # 0
  BY FS_CardinalityType, FS_EmptySet
<1> QED BY <1>1, <1>2, FS_RemoveElement

\* g sums up the sets of up to n positions.
SumsUpTo(f, g, n) ==
    /\ DOMAIN g = SUBSET (DOMAIN f)
    /\ \A s \in SUBSET (DOMAIN f) : Cardinality(s) <= n => g[s] = Added(f, g, s)

\* Sums up to a size give those of the next one,
LEMMA SumsExtend ==
    ASSUME NEW f, IsFiniteSet(DOMAIN f), NEW n \in Nat, NEW g, SumsUpTo(f, g, n)
    PROVE  \E h : SumsUpTo(f, h, n + 1)
<1> DEFINE D == DOMAIN f
           h == [s \in SUBSET D |-> IF Cardinality(s) <= n THEN g[s] ELSE Added(f, g, s)]
<1>1. \A s \in SUBSET D : IsFiniteSet(s) /\ Cardinality(s) \in Nat
  BY FS_Subset, FS_CardinalityType
<1>2. ASSUME NEW s \in SUBSET D, Cardinality(s) <= n + 1 PROVE h[s] = Added(f, h, s)
  <2>1. h[s] = Added(f, g, s)
    BY DEF SumsUpTo
  <2>2. CASE s = {}
    BY <2>1, <2>2 DEF Added
  <2>3. CASE s # {}
    <3> DEFINE t == s \ {Pick(s)}
    <3>1. t \in SUBSET D /\ Cardinality(t) <= n
      BY <1>1, <1>2, <2>3, PickFact
    <3>2. h[t] = g[t]
      BY <3>1
    <3> HIDE DEF h
    <3> QED BY <2>1, <2>3, <3>2 DEF Added
  <2> QED BY <2>2, <2>3
<1>3. DOMAIN h = SUBSET D
  OBVIOUS
<1> HIDE DEF h
<1> QED BY <1>2, <1>3 DEF SumsUpTo

\* and so there are sums of any size.
LEMMA SumsExist ==
    ASSUME NEW f, IsFiniteSet(DOMAIN f), NEW n \in Nat
    PROVE  \E g : SumsUpTo(f, g, n)
<1> DEFINE Bad == {m \in Nat : ~ \E g : SumsUpTo(f, g, m)}
<1> SUFFICES ASSUME Bad # {} PROVE FALSE
  OBVIOUS
<1>1. PICK m \in Bad : \A k \in Bad : m <= k
  <2>1. Bad \in SUBSET Nat
    OBVIOUS
  <2> HIDE DEF Bad
  <2> QED BY <2>1, LeastNumber
<1>2. CASE m = 0
  <2> DEFINE g == [s \in SUBSET (DOMAIN f) |-> Zero]
  <2>1. ASSUME NEW s \in SUBSET (DOMAIN f), Cardinality(s) <= 0 PROVE g[s] = Added(f, g, s)
    <3>1. s = {}
      BY <2>1, FS_Subset, FS_CardinalityType, FS_EmptySet
    <3> QED BY <3>1 DEF Added
  <2>2. DOMAIN g = SUBSET (DOMAIN f)
    OBVIOUS
  <2> HIDE DEF g
  <2>3. SumsUpTo(f, g, 0)
    BY <2>1, <2>2 DEF SumsUpTo
  <2> QED BY <1>2, <2>3
<1>3. CASE m # 0
  <2>1. m - 1 \in Nat /\ ~(m <= m - 1) /\ (m - 1) + 1 = m
    BY <1>3
  <2>2. m - 1 \notin Bad
    <3> HIDE DEF Bad
    <3> QED BY <1>1, <2>1
  <2>3. PICK g : SumsUpTo(f, g, m - 1)
    BY <2>1, <2>2
  <2>4. \E h : SumsUpTo(f, h, m)
    BY <2>1, <2>3, SumsExtend
  <2> QED BY <2>4
<1> QED BY <1>2, <1>3

\* The recursion of the fold is well founded.
LEMMA SumsAreRecursive ==
    ASSUME NEW f, IsFiniteSet(DOMAIN f), NEW s \in SUBSET (DOMAIN f)
    PROVE  Sums(f)[s] = Added(f, Sums(f), s)
<1> DEFINE D == DOMAIN f
           n == Cardinality(D)
<1>1. n \in Nat /\ \A t \in SUBSET D : Cardinality(t) <= n
  BY FS_Subset, FS_CardinalityType
<1> HIDE DEF n
<1>2. PICK g : SumsUpTo(f, g, n)
  BY <1>1, SumsExist
<1> DEFINE h == [t \in SUBSET D |-> g[t]]
<1>3. \A t \in SUBSET D : Added(f, g, t) = Added(f, h, t)
  BY DEF Added
<1>4. \A t \in SUBSET D : h[t] = Added(f, h, t)
  <2> SUFFICES ASSUME NEW t \in SUBSET D PROVE h[t] = Added(f, h, t)
    OBVIOUS
  <2>1. g[t] = Added(f, g, t)
    BY <1>1, <1>2 DEF SumsUpTo
  <2> QED BY <1>3, <2>1
<1>5. DOMAIN h = SUBSET D /\ h = [t \in SUBSET D |-> h[t]]
  OBVIOUS
<1> HIDE DEF h
<1>6. h = [t \in SUBSET D |-> Added(f, h, t)]
  BY <1>4, <1>5
<1>7. Sums(f) = [t \in SUBSET D |-> Added(f, Sums(f), t)]
  BY <1>6 DEF Sums
<1> QED BY <1>7

\* A sum of numbers that are not negative is zero only if all of them are.
LEMMA SumIsZero ==
    ASSUME NEW Num, OrderedField(Num), NEW p \in Num, NEW q \in Num,
           AtMost(Zero, p), AtMost(Zero, q)
    PROVE  /\ Plus(p, q) \in Num /\ AtMost(Zero, Plus(p, q))
           /\ Plus(p, q) = Zero <=> p = Zero /\ q = Zero
<1>1. /\ Zero \in Num /\ Plus(p, q) \in Num /\ Plus(Zero, Zero) = Zero /\ Plus(Zero, q) = q
      /\ Plus(Zero, p) = p /\ Plus(p, q) = Plus(q, p)
  BY OrderFacts DEF OrderedField, Closed, NumberLaws
<1>2. AtMost(Plus(Zero, q), Plus(p, q)) /\ AtMost(Plus(Zero, p), Plus(q, p))
  BY <1>1 DEF OrderedField, NumberLaws
<1>3. AtMost(q, Plus(p, q)) /\ AtMost(p, Plus(p, q))
  BY <1>1, <1>2
<1>4. AtMost(Zero, Plus(p, q))
  BY <1>1, <1>3, OrderFacts
<1>5. Plus(p, q) = Zero => p = Zero /\ q = Zero
  BY <1>1, <1>3, OrderFacts
<1> QED BY <1>1, <1>4, <1>5

\* The same of a sum of any number of them.
LEMMA SumsFact ==
    ASSUME NEW Num, OrderedField(Num), NEW f, IsFiniteSet(DOMAIN f),
           \A i \in DOMAIN f : f[i] \in Num /\ AtMost(Zero, f[i]),
           NEW n \in Nat
    PROVE  \A s \in SUBSET (DOMAIN f) : Cardinality(s) <= n =>
              /\ Sums(f)[s] \in Num /\ AtMost(Zero, Sums(f)[s])
              /\ Sums(f)[s] = Zero <=> \A i \in s : f[i] = Zero
<1> DEFINE D == DOMAIN f
           G(s) == /\ Sums(f)[s] \in Num /\ AtMost(Zero, Sums(f)[s])
                   /\ Sums(f)[s] = Zero <=> \A i \in s : f[i] = Zero
           Bad == {m \in Nat : ~ \A s \in SUBSET D : Cardinality(s) <= m => G(s)}
<1> SUFFICES ASSUME Bad # {} PROVE FALSE
  OBVIOUS
<1>1. PICK m \in Bad : \A k \in Bad : m <= k
  <2>1. Bad \in SUBSET Nat
    OBVIOUS
  <2> HIDE DEF Bad
  <2> QED BY <2>1, LeastNumber
<1>2. PICK s \in SUBSET D : Cardinality(s) <= m /\ ~G(s)
  BY <1>1
<1>3. IsFiniteSet(s) /\ Sums(f)[s] = Added(f, Sums(f), s)
  BY SumsAreRecursive, FS_Subset
<1>4. CASE s = {}
  <2>1. Sums(f)[s] = Zero
    BY <1>3, <1>4 DEF Added
  <2> QED BY <1>2, <1>4, <2>1, OrderFacts
<1>5. CASE s # {}
  <2> DEFINE t == s \ {Pick(s)}
  <2>1. /\ Pick(s) \in s /\ Cardinality(s) \in Nat \ {0}
        /\ Cardinality(t) = Cardinality(s) - 1
    BY <1>3, <1>5, PickFact
  <2>2. m - 1 \in Nat /\ ~(m <= m - 1) /\ Cardinality(t) <= m - 1
    BY <1>1, <1>2, <2>1
  <2>3. m - 1 \notin Bad
    <3> HIDE DEF Bad
    <3> QED BY <1>1, <2>2
  <2>4. \A u \in SUBSET D : Cardinality(u) <= m - 1 => G(u)
    BY <2>2, <2>3
  <2>5. G(t)
    <3>1. t \in SUBSET D
      OBVIOUS
    <3> HIDE DEF t, G
    <3> QED BY <2>2, <2>4, <3>1
  <2>6. Sums(f)[s] = Plus(f[Pick(s)], Sums(f)[t])
    BY <1>3, <1>5 DEF Added
  <2>7. f[Pick(s)] \in Num /\ AtMost(Zero, f[Pick(s)])
    BY <2>1
  <2>8. /\ Sums(f)[s] \in Num /\ AtMost(Zero, Sums(f)[s])
        /\ Sums(f)[s] = Zero <=> f[Pick(s)] = Zero /\ Sums(f)[t] = Zero
    BY <2>5, <2>6, <2>7, SumIsZero
  <2>9. (\A i \in s : f[i] = Zero) <=> f[Pick(s)] = Zero /\ \A i \in t : f[i] = Zero
    BY <2>1
  <2> QED BY <1>2, <2>5, <2>8, <2>9
<1> QED BY <1>4, <1>5

\* A mean of errors is zero only if there is none.
LEMMA MeanIsZero ==
    ASSUME NEW Num, OrderedField(Num), NEW f, IsFiniteSet(DOMAIN f), DOMAIN f # {},
           \A i \in DOMAIN f : f[i] \in Num /\ AtMost(Zero, f[i])
    PROVE  Mean(f) = Zero <=> \A i \in DOMAIN f : f[i] = Zero
<1> DEFINE n == Cardinality(DOMAIN f)
           t == Sums(f)[DOMAIN f]
<1>1. n \in Nat \ {0}
  BY FS_CardinalityType, FS_EmptySet
<1>2. t \in Num /\ (t = Zero <=> \A i \in DOMAIN f : f[i] = Zero)
  <2>1. n \in Nat /\ n <= n /\ DOMAIN f \in SUBSET (DOMAIN f)
    BY <1>1
  <2> HIDE DEF n
  <2>2. \A s \in SUBSET (DOMAIN f) : Cardinality(s) <= n =>
              /\ Sums(f)[s] \in Num /\ AtMost(Zero, Sums(f)[s])
              /\ Sums(f)[s] = Zero <=> \A i \in s : f[i] = Zero
    BY <2>1, SumsFact
  <2> QED BY <2>1, <2>2 DEF n
<1>3. Mean(f) = Over(t, Whole(n))
  BY FoldIsSum DEF Mean
<1> HIDE DEF n, t
<1>4. Whole(n) \in Positive(Num)
  BY <1>1, WholePositive
<1>5. Over(t, Whole(n)) \in Num /\ Times(Over(t, Whole(n)), Whole(n)) = t
  BY <1>2, <1>4, Quotient
<1>6. Times(Zero, Whole(n)) = Zero /\ Whole(n) \in Num /\ Whole(n) # Zero /\ Zero \in Num
  BY <1>4, MulZero, OrderFacts DEF Positive
<1>7. Over(t, Whole(n)) = Zero <=> t = Zero
  <2>1. t = Zero => Over(t, Whole(n)) = Zero
    BY <1>5, <1>6, CancelFactor
  <2> QED BY <1>5, <1>6, <2>1
<1> QED BY <1>2, <1>3, <1>7

\* An error is not negative, and zero only for a prediction that is exact.
LEMMA MapeFact ==
    ASSUME NEW Num, OrderedField(Num), NEW n \in Nat \ {0}, NEW p \in Num
    PROVE  /\ Mape(n, p) \in Num /\ AtMost(Zero, Mape(n, p))
           /\ Mape(n, p) = Zero <=> p = Whole(n)
<1> DEFINE w == Whole(n)
           d == Minus(w, p)
           a == Abs(d)
<1>1. w \in Positive(Num)
  BY WholePositive
<1>2. w \in Num /\ w # Zero /\ Zero \in Num /\ One \in Num
  BY <1>1, OrderFacts DEF Positive
<1>3. Mape(n, p) = Over(a, w)
  BY DEF Mape
<1> HIDE DEF w
<1>4. d \in Num /\ Plus(p, d) = w
  BY <1>2, Difference
<1>5. d = Zero <=> p = w
  <2>1. d = Zero => p = w
    BY <1>2, <1>4, OrderFacts
  <2>2. p = w => d = Zero
    <3>1. Plus(Zero, p) = p /\ Plus(d, p) = Plus(p, d)
      BY <1>2, <1>4 DEF OrderedField, NumberLaws
    <3> HIDE DEF d
    <3> QED BY <1>2, <1>4, <3>1, Cancel
  <2> QED BY <2>1, <2>2
<1> HIDE DEF d
<1> DEFINE m == Minus(Zero, d)
<1>6. /\ m \in Num /\ (AtMost(d, Zero) <=> AtMost(Zero, m)) /\ (m = Zero <=> d = Zero)
  <2>1. /\ m \in Num /\ Plus(d, m) = Zero
        /\ AtMost(d, Zero) <=> AtMost(Zero, m)
    BY <1>2, <1>4, Difference
  <2>2. Plus(Zero, m) = m /\ Plus(d, Zero) = d
    BY <1>2, <1>4, <2>1, OrderFacts DEF OrderedField, NumberLaws
  <2> HIDE DEF m
  <2> QED BY <2>1, <2>2
<1>11. a = IF AtMost(d, m) THEN m ELSE d
  BY DEF Abs, Larger
<1> HIDE DEF m, a
<1>7. a \in Num /\ AtMost(Zero, a) /\ (a = Zero <=> d = Zero)
  <2>1. AtMost(d, m) \/ AtMost(m, d)
    BY <1>4, <1>6, OrderFacts
  <2>2. AtMost(Zero, d) \/ AtMost(d, Zero)
    BY <1>2, <1>4, OrderFacts
  <2>3. AtMost(Zero, a)
    BY <1>2, <1>4, <1>6, <1>11, <2>1, <2>2, OrderFacts
  <2> QED BY <1>4, <1>6, <1>11, <2>3
<1>8. Over(a, w) \in Num /\ Times(Over(a, w), w) = a /\ AtMost(Zero, Over(a, w))
  BY <1>1, <1>7, Quotient
<1>9. Times(Zero, w) = Zero
  BY <1>2, MulZero
<1>10. Over(a, w) = Zero <=> a = Zero
  <2>1. a = Zero => Over(a, w) = Zero
    BY <1>2, <1>8, <1>9, CancelFactor
  <2> QED BY <1>8, <1>9, <2>1
<1> QED BY <1>3, <1>5, <1>7, <1>8, <1>10 DEF w

(***************************************************************************)
(* A prediction of measurements of one period is a point of the line       *)
(* through two of them.                                                    *)
(***************************************************************************)
\* Numbers of integers are exact.
LEMMA WholeFacts ==
    ASSUME NEW Num, OrderedField(Num), NEW m \in Int, NEW n \in Int
    PROVE  /\ Whole(m) \in Num /\ (Whole(m) = Whole(n) <=> m = n)
           /\ Minus(Whole(m), Whole(n)) = Whole(m - n)
           /\ Whole(m + n) = Plus(Whole(m), Whole(n))
           /\ Whole(m * n) = Times(Whole(m), Whole(n))
<1>1. \A i \in Int : Whole(i) \in Num
  BY DEF OrderedField, Closed
<1>2. /\ Whole(m + n) = Plus(Whole(m), Whole(n))
      /\ Whole(m * n) = Times(Whole(m), Whole(n))
  BY DEF OrderedField, IntegerLaws
<1>3. Whole(m) = Whole(n) <=> m = n
  <2>1. AtMost(Whole(m), Whole(n)) <=> m <= n
    BY DEF OrderedField, IntegerLaws
  <2>2. AtMost(Whole(n), Whole(m)) <=> n <= m
    BY DEF OrderedField, IntegerLaws
  <2>3. AtMost(Whole(m), Whole(m))
    BY <1>1, OrderFacts
  <2> QED BY <2>1, <2>2, <2>3
<1>4. Minus(Whole(m), Whole(n)) = Whole(m - n)
  <2>1. m - n \in Int /\ (m - n) + n = m
    OBVIOUS
  <2>2. Plus(Whole(m - n), Whole(n)) = Whole(m)
    <3>1. Whole((m - n) + n) = Plus(Whole(m - n), Whole(n))
      BY <2>1 DEF OrderedField, IntegerLaws
    <3> QED BY <2>1, <3>1
  <2>3. Minus(Whole(m), Whole(n)) \in Num /\ Plus(Minus(Whole(m), Whole(n)), Whole(n)) = Whole(m)
    BY <1>1 DEF OrderedField, Closed, NumberLaws
  <2>4. Whole(m - n) \in Num /\ Whole(n) \in Num
    BY <1>1, <2>1
  <2> QED BY <2>2, <2>3, <2>4, Cancel
<1> QED BY <1>1, <1>2, <1>3, <1>4

\* A line through two points of integers meets a third exactly when the cross
\* products agree.
LEMMA LineIsExact ==
    ASSUME NEW Num, OrderedField(Num), NEW dx \in Int, dx # 0, NEW d \in Int,
           NEW u \in Int, NEW v \in Int, NEW w \in Int
    PROVE  Line(Whole(u), Whole(v), Over(Whole(d), Whole(dx))) = Whole(w)
             <=> (v - u) * d = (w - u) * dx
<1> DEFINE t == Over(Whole(d), Whole(dx))
           e == Whole(v - u)
<1>1. /\ v - u \in Int /\ w - u \in Int /\ 0 \in Int
      /\ (v - u) * d \in Int /\ (w - u) * dx \in Int /\ u + (w - u) = w
  OBVIOUS
<1>2. /\ Whole(u) \in Num /\ Whole(v) \in Num /\ Whole(w) \in Num /\ Whole(dx) \in Num
      /\ Whole(d) \in Num /\ e \in Num /\ Whole(w - u) \in Num
  BY <1>1, WholeFacts
<1>3. Whole(dx) # Zero
  BY <1>1, WholeFacts DEF Zero
<1>4. t \in Num /\ Times(t, Whole(dx)) = Whole(d)
  BY <1>2, <1>3 DEF OrderedField, Closed, NumberLaws
<1>5. Minus(Whole(v), Whole(u)) = e
  BY WholeFacts
<1>6. Plus(Whole(u), Whole(w - u)) = Whole(w)
  <2>1. Whole(u + (w - u)) = Plus(Whole(u), Whole(w - u))
    BY <1>1, WholeFacts
  <2> QED BY <1>1, <2>1
<1> HIDE DEF t, e
<1>7. Times(t, e) \in Num
  BY <1>2, <1>4 DEF OrderedField, Closed
<1>8. Plus(Whole(u), Times(t, e)) = Whole(w) <=> Times(t, e) = Whole(w - u)
  <2>1. /\ Plus(Whole(u), Times(t, e)) = Plus(Times(t, e), Whole(u))
        /\ Plus(Whole(u), Whole(w - u)) = Plus(Whole(w - u), Whole(u))
    BY <1>2, <1>7 DEF OrderedField, NumberLaws
  <2>2. Plus(Times(t, e), Whole(u)) = Plus(Whole(w - u), Whole(u)) => Times(t, e) = Whole(w - u)
    BY <1>2, <1>7, Cancel
  <2> QED BY <1>6, <2>1, <2>2
<1>9. Times(Times(t, e), Whole(dx)) = Whole((v - u) * d)
  <2>1. Times(Times(e, t), Whole(dx)) = Times(e, Times(t, Whole(dx))) /\ Times(t, e) = Times(e, t)
    BY <1>2, <1>4 DEF OrderedField, NumberLaws
  <2>2. Times(e, Whole(d)) = Whole((v - u) * d)
    BY <1>1, WholeFacts DEF e
  <2> QED BY <1>4, <2>1, <2>2
<1>10. Times(Whole(w - u), Whole(dx)) = Whole((w - u) * dx)
  BY <1>1, WholeFacts
<1>11. Times(t, e) = Whole(w - u) <=> Whole((v - u) * d) = Whole((w - u) * dx)
  <2>1. Times(Times(t, e), Whole(dx)) = Times(Whole(w - u), Whole(dx))
          => Times(t, e) = Whole(w - u)
    BY <1>2, <1>3, <1>7, CancelFactor
  <2> QED BY <1>9, <1>10, <2>1
<1>12. Whole((v - u) * d) = Whole((w - u) * dx) <=> (v - u) * d = (w - u) * dx
  <2> DEFINE l == (v - u) * d
             r == (w - u) * dx
  <2>1. l \in Int /\ r \in Int
    BY <1>1
  <2> HIDE DEF l, r
  <2>2. Whole(l) = Whole(r) <=> l = r
    BY <2>1, WholeFacts
  <2> QED BY <2>2 DEF l, r
<1> QED BY <1>5, <1>8, <1>11, <1>12 DEF Line, t

\* Points of integers on one line.
OnLine(p, q, r, k) ==
      (q.use[k] - p.use[k]) * (r.load_value - p.load_value)
    = (r.use[k] - p.use[k]) * (q.load_value - p.load_value)

\* Differences of points on a line of integers through zero, and a point in
\* proportion to one of them, are on it.
LEMMA CrossProducts ==
    ASSUME NEW d \in Int, NEW e \in Int, d # 0
    PROVE  /\ \A l1, u1, l2, u2 \in Int :
                 /\ e * l1 = u1 * d /\ e * l2 = u2 * d => e * (l2 - l1) = (u2 - u1) * d
           /\ \A l1, u1, l2, u2 \in Int :
                 e * l1 = u1 * d /\ e * l2 = u2 * d => u1 * l2 = u2 * l1
           /\ \A l1, u1, l2, u2 \in Int :
                 l1 # 0 /\ e * l1 = u1 * d /\ u2 * l1 = u1 * l2 => e * l2 = u2 * d
<1>1. ASSUME NEW l1 \in Int, NEW u1 \in Int, NEW l2 \in Int, NEW u2 \in Int,
             e * l1 = u1 * d, e * l2 = u2 * d
      PROVE  e * (l2 - l1) = (u2 - u1) * d
  BY <1>1
<1>2. \A a, b, c \in Int : c # 0 /\ a * c = b * c => a = b
  OBVIOUS
<1>3. \A a, b, c \in Int : (a * b) * c = a * (b * c) /\ a * b = b * a
  OBVIOUS
<1>4. \A a, b \in Int : a * b \in Int
  OBVIOUS
<1>5. ASSUME NEW l1 \in Int, NEW u1 \in Int, NEW l2 \in Int, NEW u2 \in Int,
             e * l1 = u1 * d, e * l2 = u2 * d
      PROVE  u1 * l2 = u2 * l1
  <2>1. (u1 * l2) * d = (u1 * d) * l2
    BY <1>3
  <2>2. (e * l1) * l2 = (e * l2) * l1
    BY <1>3
  <2>3. (u2 * d) * l1 = (u2 * l1) * d
    BY <1>3
  <2>4. (u1 * l2) * d = (u2 * l1) * d
    BY <1>5, <2>1, <2>2, <2>3
  <2> QED BY <1>2, <1>4, <2>4
<1>6. ASSUME NEW l1 \in Int, NEW u1 \in Int, NEW l2 \in Int, NEW u2 \in Int,
             l1 # 0, e * l1 = u1 * d, u2 * l1 = u1 * l2
      PROVE  e * l2 = u2 * d
  <2>1. (e * l2) * l1 = (e * l1) * l2
    BY <1>3
  <2>2. (u1 * d) * l2 = (u1 * l2) * d
    BY <1>3
  <2>3. (u2 * l1) * d = (u2 * d) * l1
    BY <1>3
  <2>4. (e * l2) * l1 = (u2 * d) * l1
    BY <1>6, <2>1, <2>2, <2>3
  <2> QED BY <1>2, <1>4, <1>6, <2>4
<1> QED BY <1>1, <1>5, <1>6

\* A line through two points goes on through a third one when the point before
\* it is on the line to it.
LEMMA LineGoesOn ==
    ASSUME NEW k \in Keys, NEW a \in Rows, NEW b \in Rows, NEW o \in Rows, NEW q \in Rows,
           NEW r \in Rows, a.load_value # b.load_value, o.load_value # q.load_value,
           OnLine(a, b, o, k), OnLine(a, b, q, k), OnLine(o, r, q, k)
    PROVE  OnLine(a, b, r, k)
<1> DEFINE d == b.load_value - a.load_value
           e == b.use[k] - a.use[k]
<1>1. \A x \in {a, b, o, q, r} : x.load_value \in Int /\ x.use[k] \in Int
  BY RowFact
<1>2. d \in Int /\ e \in Int /\ d # 0
  BY <1>1
<1>3. /\ e * (o.load_value - a.load_value) = (o.use[k] - a.use[k]) * d
      /\ e * (q.load_value - a.load_value) = (q.use[k] - a.use[k]) * d
      /\ (r.use[k] - o.use[k]) * (q.load_value - o.load_value)
            = (q.use[k] - o.use[k]) * (r.load_value - o.load_value)
  BY DEF OnLine
<1> HIDE DEF d, e
<1>4. /\ \A l1, u1, l2, u2 \in Int :
            e * l1 = u1 * d /\ e * l2 = u2 * d => e * (l2 - l1) = (u2 - u1) * d
      /\ \A l1, u1, l2, u2 \in Int :
            l1 # 0 /\ e * l1 = u1 * d /\ u2 * l1 = u1 * l2 => e * l2 = u2 * d
  BY <1>2, CrossProducts
<1>5. e * (q.load_value - o.load_value) = (q.use[k] - o.use[k]) * d
  <2> DEFINE l1 == o.load_value - a.load_value
             u1 == o.use[k] - a.use[k]
             l2 == q.load_value - a.load_value
             u2 == q.use[k] - a.use[k]
  <2>1. l1 \in Int /\ u1 \in Int /\ l2 \in Int /\ u2 \in Int
    BY <1>1
  <2>2. l2 - l1 = q.load_value - o.load_value /\ u2 - u1 = q.use[k] - o.use[k]
    BY <1>1
  <2>3. e * l1 = u1 * d /\ e * l2 = u2 * d
    BY <1>3
  <2> HIDE DEF l1, u1, l2, u2
  <2>4. e * (l2 - l1) = (u2 - u1) * d
    BY <1>4, <2>1, <2>3
  <2> QED BY <2>2, <2>4
<1>6. e * (r.load_value - o.load_value) = (r.use[k] - o.use[k]) * d
  <2> DEFINE l1 == q.load_value - o.load_value
             u1 == q.use[k] - o.use[k]
             l2 == r.load_value - o.load_value
             u2 == r.use[k] - o.use[k]
  <2>1. l1 \in Int /\ u1 \in Int /\ l2 \in Int /\ u2 \in Int /\ l1 # 0
    BY <1>1
  <2>2. e * l1 = u1 * d /\ u2 * l1 = u1 * l2
    BY <1>3, <1>5
  <2> HIDE DEF l1, u1, l2, u2
  <2>3. e * l2 = u2 * d
    BY <1>4, <2>1, <2>2
  <2> QED BY <2>3 DEF l2, u2
<1>7. e * (r.load_value - a.load_value) = (r.use[k] - a.use[k]) * d
  <2> DEFINE l1 == a.load_value - o.load_value
             u1 == a.use[k] - o.use[k]
             l2 == r.load_value - o.load_value
             u2 == r.use[k] - o.use[k]
  <2>1. l1 \in Int /\ u1 \in Int /\ l2 \in Int /\ u2 \in Int
    BY <1>1
  <2>2. l2 - l1 = r.load_value - a.load_value /\ u2 - u1 = r.use[k] - a.use[k]
    BY <1>1
  <2>3. e * l1 = u1 * d
    <3> DEFINE l == o.load_value - a.load_value
               u == o.use[k] - a.use[k]
    <3>1. l \in Int /\ u \in Int /\ l1 = 0 - l /\ u1 = 0 - u
      BY <1>1
    <3>2. e * 0 = 0 * d /\ 0 \in Int
      BY <1>2
    <3>3. e * l = u * d
      BY <1>3
    <3> HIDE DEF l, u
    <3>4. e * (0 - l) = (0 - u) * d
      BY <1>4, <3>1, <3>2, <3>3
    <3> QED BY <3>1, <3>4
  <2>4. e * l2 = u2 * d
    BY <1>6
  <2> HIDE DEF l1, u1, l2, u2
  <2>5. e * (l2 - l1) = (u2 - u1) * d
    BY <1>4, <2>1, <2>3, <2>4
  <2> QED BY <2>2, <2>5
<1> QED BY <1>7 DEF OnLine, d, e

\* Three points on the line of two others are on a line.
LEMMA LineOfThree ==
    ASSUME NEW k \in Keys, NEW a \in Rows, NEW b \in Rows, NEW p \in Rows, NEW q \in Rows,
           NEW r \in Rows, a.load_value # b.load_value,
           OnLine(a, b, p, k), OnLine(a, b, q, k), OnLine(a, b, r, k)
    PROVE  OnLine(p, q, r, k)
<1> DEFINE d == b.load_value - a.load_value
           e == b.use[k] - a.use[k]
           lp == p.load_value - a.load_value
           up == p.use[k] - a.use[k]
           lq == q.load_value - a.load_value
           uq == q.use[k] - a.use[k]
           lr == r.load_value - a.load_value
           ur == r.use[k] - a.use[k]
<1>1. \A x \in {a, b, p, q, r} : x.load_value \in Int /\ x.use[k] \in Int
  BY RowFact
<1>2. d \in Int /\ e \in Int /\ d # 0
  BY <1>1
<1>3. e * lp = up * d /\ e * lq = uq * d /\ e * lr = ur * d
  BY DEF OnLine
<1>4. /\ lp \in Int /\ up \in Int /\ lq \in Int /\ uq \in Int /\ lr \in Int /\ ur \in Int
      /\ lq - lp = q.load_value - p.load_value /\ uq - up = q.use[k] - p.use[k]
      /\ lr - lp = r.load_value - p.load_value /\ ur - up = r.use[k] - p.use[k]
  BY <1>1
<1> HIDE DEF d, e, lp, up, lq, uq, lr, ur
<1>5. /\ \A l1, u1, l2, u2 \in Int :
            e * l1 = u1 * d /\ e * l2 = u2 * d => e * (l2 - l1) = (u2 - u1) * d
      /\ \A l1, u1, l2, u2 \in Int :
            e * l1 = u1 * d /\ e * l2 = u2 * d => u1 * l2 = u2 * l1
  BY <1>2, CrossProducts
<1>6. e * (lq - lp) = (uq - up) * d /\ e * (lr - lp) = (ur - up) * d
  BY <1>3, <1>4, <1>5
<1>7. lq - lp \in Int /\ uq - up \in Int /\ lr - lp \in Int /\ ur - up \in Int
  BY <1>4
<1>8. (uq - up) * (lr - lp) = (ur - up) * (lq - lp)
  <2> DEFINE l1 == lq - lp
             u1 == uq - up
             l2 == lr - lp
             u2 == ur - up
  <2>1. l1 \in Int /\ u1 \in Int /\ l2 \in Int /\ u2 \in Int
    BY <1>7
  <2>2. e * l1 = u1 * d /\ e * l2 = u2 * d
    BY <1>6
  <2> HIDE DEF l1, u1, l2, u2
  <2>3. u1 * l2 = u2 * l1
    BY <1>5, <2>1, <2>2
  <2> QED BY <2>3 DEF l1, u1, l2, u2
<1> QED BY <1>4, <1>8 DEF OnLine

\* At its own period a measurement is not scaled.
LEMMA PowOne ==
    ASSUME NEW Num, OrderedField(Num), PowerLaws(Num, Num), NEW a \in Num, AtMost(Zero, a),
           NEW p \in Positive(Num)
    PROVE  Pow(Over(p, p), a) = One
<1>1. p \in Num /\ p # Zero /\ One \in Num /\ One # Zero /\ AtMost(Zero, One)
      /\ AtMost(One, One)
  BY OrderFacts DEF Positive
<1>2. Over(p, p) = One
  <2>1. Over(p, p) \in Num /\ Times(Over(p, p), p) = p /\ Times(One, p) = p
    BY <1>1 DEF OrderedField, Closed, NumberLaws
  <2> QED BY <1>1, <2>1, CancelFactor
<1>3. One \in Positive(Num) /\ Times(One, One) = One
  BY <1>1, OrderFacts DEF Positive
<1>4. /\ AtMost(Zero, Pow(One, a)) /\ Pow(One, a) # Zero
      /\ Pow(One, a) = Times(Pow(One, a), Pow(One, a))
  <2>1. /\ AtMost(Zero, Pow(One, a)) /\ Pow(One, a) # Zero
        /\ Pow(Times(One, One), a) = Times(Pow(One, a), Pow(One, a))
    BY <1>3 DEF PowerLaws
  <2> QED BY <1>3, <2>1
<1>5. Pow(One, a) \in Num
  BY <1>4 DEF OrderedField, Closed
<1>6. Times(One, Pow(One, a)) = Pow(One, a)
  BY <1>5 DEF OrderedField, NumberLaws
<1>7. Pow(One, a) = One
  BY <1>1, <1>4, <1>5, <1>6, CancelFactor
<1> QED BY <1>2, <1>7

\* Measurements of one period, all of them used.
OnePeriod(A, n, k) ==
    /\ \A i \in 1..n : A[i].use[k] > 0
    /\ \A i, j \in 1..n : PeriodForKey(A[i], k) = PeriodForKey(A[j], k)

\* At their own period such measurements are interpolated as they are.
LEMMA EstimateAtPeriod ==
    ASSUME NEW Num, OrderedField(Num), PowerLaws(Num, Num), NEW k \in Keys,
           NEW n, NEW A, Slice(A, n), OnePeriod(A, n, k), n >= 1,
           NEW P, P = PeriodForKey(A[1], k), NEW x
    PROVE  EstimateResource(A, x, P, k)
             = Larger(Zero, Interpolate(A, [i \in 1..n |-> Whole(A[i].use[k])], x))
<1>1. DOMAIN A = 1..n /\ n \in Nat /\ 1 \in 1..n /\ \A i \in 1..n : A[i] \in Rows
  BY DEF Slice
<1>2. Used(A, k) = 1..n
  BY <1>1 DEF Used, OnePeriod
<1>3. \A i \in 1..n : PeriodForKey(A[i], k) = P
  BY <1>1 DEF OnePeriod
<1>4. Periods(A, k) = {P}
  BY <1>1, <1>2, <1>3 DEF Periods
<1>5. EstimateAlpha(A, k) = AlphaFew[k]
  <2>1. Cardinality({P}) = 1
    BY FS_Singleton
  <2> QED BY <1>4, <2>1 DEF EstimateAlpha
<1>6. AtMost(Zero, AlphaFew[k]) /\ AlphaFew[k] \in Num
  <2>1. AtMost(Zero, AlphaFew[k])
    BY CapacityModelAssumption
  <2> QED BY <2>1 DEF OrderedField, Closed
<1>7. P \in Positive(Num)
  BY <1>1, PeriodPositive
<1>8. ASSUME NEW i \in 1..n PROVE Scaled(A[i], P, AlphaFew[k], k) = Whole(A[i].use[k])
  <2>1. Pow(Over(P, PeriodForKey(A[i], k)), AlphaFew[k]) = One
    BY <1>3, <1>6, <1>7, PowOne
  <2>2. Whole(A[i].use[k]) \in Num
    <3>1. A[i].use[k] \in Int
      BY <1>1, RowFact
    <3> QED BY <3>1 DEF OrderedField, Closed
  <2>3. Times(Whole(A[i].use[k]), One) = Whole(A[i].use[k])
    BY <2>2, OrderFacts
  <2> QED BY <2>1, <2>3 DEF Scaled
<1>9. [i \in Used(A, k) |-> Scaled(A[i], P, EstimateAlpha(A, k), k)]
        = [i \in 1..n |-> Whole(A[i].use[k])]
  BY <1>2, <1>5, <1>8
<1> QED BY <1>9 DEF EstimateResource

\* The prediction from two measurements or more of one period.
Start(T, n, x) == T[Below(T, 1..n, SegmentEnd(T, 1..n, x))]
End(T, n, x)   == T[SegmentEnd(T, 1..n, x)]

\* Its error is zero exactly when the row predicted is on their line.
LEMMA PredictionFact ==
    ASSUME NEW Num, OrderedField(Num), PowerLaws(Num, Num), NEW k \in Keys,
           NEW n, NEW T, Slice(T, n), SingleLoads(T, n), OnePeriod(T, n, k), n >= 2,
           NEW r \in Rows, r.use[k] > 0, PeriodForKey(T[1], k) = PeriodForKey(r, k)
    PROVE  LET x   == r.load_value
               err == Mape(r.use[k], EstimateResource(T, x, PeriodForKey(r, k), k))
           IN  /\ Start(T, n, x) \in Range(T) /\ End(T, n, x) \in Range(T)
               /\ err \in Num /\ AtMost(Zero, err)
               /\ err = Zero <=> OnLine(Start(T, n, x), End(T, n, x), r, k)
<1> DEFINE S == 1..n
           x == r.load_value
           w == r.use[k]
           e == SegmentEnd(T, S, x)
           b == Below(T, S, e)
           y == [i \in S |-> Whole(T[i].use[k])]
           m == Interpolate(T, y, x)
<1>1. /\ n \in Nat /\ DOMAIN T = S /\ 1 \in S /\ 2 \in S /\ S \in SUBSET (1..n) /\ S # {}
      /\ \A i \in S : T[i] \in Rows /\ T[i].load_value \in Int /\ T[i].use[k] \in Int
  BY RowFact DEF Slice
<1>2. x \in Nat /\ x \in Int /\ w \in Nat \ {0} /\ w \in Int
  BY RowFact
<1>3. Lowest(T, S) # Highest(T, S)
  <2>1. /\ \A j \in S \ {Lowest(T, S)} : Precedes(T, Lowest(T, S), j)
        /\ \A j \in S \ {Highest(T, S)} : Precedes(T, j, Highest(T, S))
        /\ Lowest(T, S) \in S
    BY <1>1, Extremes
  <2>2. \A i, j \in S : Precedes(T, i, j) => ~Precedes(T, j, i)
    BY PrecedesOrder
  <2> QED BY <1>1, <2>1, <2>2
<1>4. e \in S /\ b \in S /\ T[b].load_value < T[e].load_value
  <2>1. e \in S /\ b \in S /\ Precedes(T, b, e)
    BY <1>1, <1>2, <1>3, SegmentFact
  <2> HIDE DEF e, b
  <2>2. b # e /\ T[b].load_value <= T[e].load_value
    BY <2>1, PrecedesOrder
  <2> QED BY <1>1, <2>1, <2>2 DEF SingleLoads
<1>5. m = Segment(T, y, b, e, x)
  BY <1>1, <1>3 DEF Interpolate
<1>6. EstimateResource(T, x, PeriodForKey(r, k), k) = Larger(Zero, m)
  BY <1>1, EstimateAtPeriod
<1> HIDE DEF e, b
<1> DEFINE d  == x - T[b].load_value
           dx == T[e].load_value - T[b].load_value
           u  == T[b].use[k]
           v  == T[e].use[k]
<1>7. d \in Int /\ dx \in Int /\ dx # 0 /\ u \in Int /\ v \in Int
  BY <1>1, <1>2, <1>4
<1>8. m = Line(Whole(u), Whole(v), Over(Whole(d), Whole(dx)))
  <2>1. y[b] = Whole(u) /\ y[e] = Whole(v)
    BY <1>4
  <2> HIDE DEF y
  <2>2. Segment(T, y, b, e, x) = Line(y[b], y[e], SegmentShare(T, b, e, x))
    BY <1>1, <1>4, SegmentIsLine
  <2> QED BY <1>5, <2>1, <2>2 DEF SegmentShare
<1> HIDE DEF m, d, dx, u, v, w
<1>9. m = Whole(w) <=> (v - u) * d = (w - u) * dx
  BY <1>2, <1>7, <1>8, LineIsExact
<1>10. m = Whole(w) <=> OnLine(T[b], T[e], r, k)
  BY <1>9 DEF OnLine, d, dx, u, v, w
<1>11. m \in Num
  <2>1. \A i \in Int : Whole(i) \in Num
    BY DEF OrderedField, Closed
  <2>2. Whole(dx) # Zero /\ Whole(dx) \in Num /\ Whole(d) \in Num
    <3>1. 0 \in Int
      OBVIOUS
    <3>2. Whole(dx) = Whole(0) <=> dx = 0
      BY <1>7, <3>1, WholeFacts
    <3> QED BY <1>7, <2>1, <3>2 DEF Zero
  <2>3. Over(Whole(d), Whole(dx)) \in Num
    BY <2>2 DEF OrderedField, Closed
  <2> QED BY <1>7, <1>8, <2>1, <2>3 DEF Line, OrderedField, Closed
<1>12. Larger(Zero, m) \in Num /\ (Larger(Zero, m) = Whole(w) <=> m = Whole(w))
  <2>1. Whole(w) \in Num /\ AtMost(Zero, Whole(w)) /\ Whole(w) # Zero
    BY <1>2, WholePositive DEF Positive
  <2> QED BY <1>11, <2>1, OrderFacts DEF Larger
<1>13. /\ Mape(w, Larger(Zero, m)) \in Num /\ AtMost(Zero, Mape(w, Larger(Zero, m)))
       /\ Mape(w, Larger(Zero, m)) = Zero <=> Larger(Zero, m) = Whole(w)
  BY <1>2, <1>12, MapeFact
<1>14. T[b] \in Range(T) /\ T[e] \in Range(T)
  BY <1>1, <1>4, RangeFact
<1>15. Start(T, n, x) = T[b] /\ End(T, n, x) = T[e]
  BY DEF Start, End, b, e
<1> QED BY <1>6, <1>10, <1>12, <1>13, <1>14, <1>15 DEF w

\* Between two measured loads the prediction starts and ends at the neighbours.
LEMMA NeighboursFact ==
    ASSUME NEW n, NEW T, Slice(T, n), SingleLoads(T, n), NEW x \in Nat,
           NEW p \in Range(T), NEW q \in Range(T), p.load_value < x, x < q.load_value,
           \A r \in Range(T) : r.load_value <= p.load_value \/ q.load_value <= r.load_value
    PROVE  Start(T, n, x) = p /\ End(T, n, x) = q
<1> DEFINE S == 1..n
           e == SegmentEnd(T, S, x)
           U == {i \in S : T[i].load_value >= x}
           V == {j \in S : Precedes(T, j, e)}
<1>1. /\ n \in Nat /\ DOMAIN T = S
      /\ \A i \in S : T[i] \in Range(T) /\ T[i].load_value \in Nat
      /\ \A r \in Range(T) : \E i \in S : T[i] = r
  BY RangeFact, RowFact DEF Slice
<1>2. PICK i \in S, j \in S : T[i] = p /\ T[j] = q
  BY <1>1
<1>3. S # {} /\ S \in SUBSET (1..n)
  BY <1>2
<1>4. e = Lowest(T, U)
  <2>1. \A h \in S : T[Lowest(T, S)].load_value <= T[h].load_value
    <3>1. Lowest(T, S) \in S /\ \A h \in S \ {Lowest(T, S)} : Precedes(T, Lowest(T, S), h)
      BY <1>3, Extremes
    <3>2. \A h \in S \ {Lowest(T, S)} : T[Lowest(T, S)].load_value <= T[h].load_value
      BY <3>1, PrecedesOrder
    <3>3. T[Lowest(T, S)].load_value <= T[Lowest(T, S)].load_value
      BY <1>1, <3>1
    <3> QED BY <3>2, <3>3
  <2>2. \A h \in S : T[h].load_value <= T[Highest(T, S)].load_value
    <3>1. Highest(T, S) \in S /\ \A h \in S \ {Highest(T, S)} : Precedes(T, h, Highest(T, S))
      BY <1>3, Extremes
    <3>2. \A h \in S \ {Highest(T, S)} : T[h].load_value <= T[Highest(T, S)].load_value
      BY <3>1, PrecedesOrder
    <3>3. T[Highest(T, S)].load_value <= T[Highest(T, S)].load_value
      BY <1>1, <3>1
    <3> QED BY <3>2, <3>3
  <2>3. Lowest(T, S) \in S /\ Highest(T, S) \in S
    BY <1>3, Extremes
  <2>4. ~(x <= T[Lowest(T, S)].load_value) /\ ~(x >= T[Highest(T, S)].load_value)
    <3>1. /\ T[Lowest(T, S)].load_value <= p.load_value /\ T[Lowest(T, S)].load_value \in Nat
          /\ q.load_value <= T[Highest(T, S)].load_value /\ T[Highest(T, S)].load_value \in Nat
          /\ p.load_value \in Nat /\ q.load_value \in Nat
      BY <1>1, <1>2, <2>1, <2>2, <2>3
    <3> QED BY <3>1
  <2> QED BY <2>4 DEF SegmentEnd
<1>5. e \in U /\ T[e].load_value <= q.load_value
  <2>1. j \in U /\ U \in SUBSET (1..n)
    BY <1>1, <1>2
  <2>2. Lowest(T, U) \in U /\ \A h \in U \ {Lowest(T, U)} : Precedes(T, Lowest(T, U), h)
    BY <2>1, Extremes
  <2> HIDE DEF e
  <2>3. e = j \/ Precedes(T, e, j)
    BY <1>4, <2>1, <2>2
  <2>4. e \in U /\ e \in S
    BY <1>4, <2>2
  <2>5. T[e].load_value <= T[j].load_value
    <3>1. Precedes(T, e, j) => T[e].load_value <= T[j].load_value
      BY <2>4, PrecedesOrder
    <3>2. e = j => T[e].load_value <= T[j].load_value
      BY <1>1
    <3> QED BY <2>3, <3>1, <3>2
  <2> QED BY <1>2, <2>4, <2>5
<1> HIDE DEF e
<1>6. e = j
  <2>1. q.load_value <= T[e].load_value
    BY <1>1, <1>2, <1>5
  <2>2. T[e].load_value = T[j].load_value
    BY <1>1, <1>2, <1>5, <2>1
  <2> QED BY <1>2, <1>5, <2>2 DEF SingleLoads
<1>7. Highest(T, V) = i
  <2>1. T[i].load_value < T[j].load_value
    BY <1>1, <1>2
  <2>2. i \in V
    BY <1>1, <1>2, <1>6, <2>1 DEF Precedes
  <2>3. V \in SUBSET (1..n) /\ V # {}
    BY <2>2
  <2>4. /\ Highest(T, V) \in V
        /\ \A h \in V \ {Highest(T, V)} : Precedes(T, h, Highest(T, V))
    BY <2>3, Extremes
  <2> DEFINE b == Highest(T, V)
  <2> HIDE DEF b
  <2>5. b \in S /\ Precedes(T, b, e) /\ (b = i \/ Precedes(T, i, b))
    BY <2>2, <2>4 DEF b
  <2>6. b # e /\ T[b].load_value <= T[e].load_value /\ T[i].load_value <= T[b].load_value
    <3>1. \A g, h \in 1..n : Precedes(T, g, h) =>
             g # h /\ T[g].load_value <= T[h].load_value
      BY PrecedesOrder
    <3>2. e \in S
      BY <1>6
    <3>3. T[i].load_value <= T[i].load_value
      BY <1>1
    <3> HIDE DEF S
    <3> QED BY <2>5, <3>1, <3>2, <3>3 DEF S
  <2>7. T[b].load_value # T[e].load_value
    BY <1>2, <1>6, <2>5, <2>6 DEF SingleLoads
  <2>8. T[b].load_value <= T[i].load_value
    <3>1. T[b].load_value <= p.load_value \/ q.load_value <= T[b].load_value
      BY <1>1, <2>5
    <3> QED BY <1>1, <1>2, <1>6, <2>5, <2>6, <2>7, <3>1
  <2>9. T[b].load_value = T[i].load_value
    BY <1>1, <1>2, <2>5, <2>6, <2>8
  <2> QED BY <1>2, <2>5, <2>9 DEF SingleLoads, b
<1> QED BY <1>2, <1>6, <1>7 DEF Start, End, Below, e

\* What a row of A is predicted from:
Others(A, r) == Train(A, CHOOSE i \in DOMAIN A : A[i] = r)

\* all the others.
LEMMA OthersFact ==
    ASSUME NEW n, NEW A, Slice(A, n), SingleLoads(A, n), NEW r \in Range(A)
    PROVE  /\ Slice(Others(A, r), n - 1) /\ SingleLoads(Others(A, r), n - 1)
           /\ Range(Others(A, r)) = Range(A) \ {r}
<1> DEFINE p == CHOOSE i \in DOMAIN A : A[i] = r
<1>1. DOMAIN A = 1..n
  BY DEF Slice
<1>2. p \in 1..n /\ A[p] = r
  <2>1. \E i \in DOMAIN A : A[i] = r
    BY RangeFact
  <2> QED BY <1>1, <2>1
<1> HIDE DEF p
<1>3. /\ Slice(Train(A, p), n - 1) /\ SingleLoads(Train(A, p), n - 1)
      /\ Range(Train(A, p)) = Range(A) \ {A[p]}
  BY <1>2, TrainFact
<1> QED BY <1>2, <1>3 DEF Others, p

\* The validation is zero exactly when every measurement is on the line through
\* the two that predict it.
LEMMA HoldoutIsZero ==
    ASSUME NEW Num, OrderedField(Num), PowerLaws(Num, Num), NEW k \in Keys,
           NEW n, NEW A, Slice(A, n), SingleLoads(A, n), OnePeriod(A, n, k), n >= 3
    PROVE  ValidateHoldout(A, k) = Zero <=>
              \A r \in Range(A) :
                 OnLine(Start(Others(A, r), n - 1, r.load_value),
                        End(Others(A, r), n - 1, r.load_value), r, k)
<1> DEFINE Error(r) == Mape(r.use[k], EstimateResource(Others(A, r), r.load_value,
                                                       PeriodForKey(r, k), k))
           f == [r \in Range(A) |-> Error(r)]
           Exact(r) == OnLine(Start(Others(A, r), n - 1, r.load_value),
                              End(Others(A, r), n - 1, r.load_value), r, k)
<1>1. /\ n \in Nat /\ DOMAIN A = 1..n /\ Len(A) = n /\ n - 1 \in Nat /\ n - 1 >= 2
      /\ \A r \in Range(A) : \E i \in 1..n : A[i] = r
      /\ \A i \in 1..n : A[i] \in Range(A) /\ A[i] \in Rows
  BY RangeFact DEF Slice
<1>2. \A r \in Range(A) : r \in Rows /\ r.use[k] > 0
  BY <1>1 DEF OnePeriod
<1>3. \A r, s \in Range(A) : PeriodForKey(r, k) = PeriodForKey(s, k)
  BY <1>1 DEF OnePeriod
<1>4. ValidateHoldout(A, k) = Mean(f)
  <2>1. ~(Len(A) < 3)
    BY <1>1
  <2> QED BY <2>1 DEF ValidateHoldout, Others
<1>5. ASSUME NEW r \in Range(A)
      PROVE  Error(r) \in Num /\ AtMost(Zero, Error(r)) /\ (Error(r) = Zero <=> Exact(r))
  <2> DEFINE T == Others(A, r)
             m == n - 1
  <2>1. Slice(T, m) /\ SingleLoads(T, m) /\ Range(T) = Range(A) \ {r}
    BY OthersFact
  <2>2. m \in Nat /\ m >= 2 /\ 1 \in 1..m /\ DOMAIN T = 1..m
    BY <1>1, <2>1 DEF Slice
  <2> HIDE DEF T, m
  <2>3. \A i \in 1..m : T[i] \in Range(A)
    BY <2>1, <2>2, RangeFact
  <2>4. OnePeriod(T, m, k) /\ PeriodForKey(T[1], k) = PeriodForKey(r, k)
    BY <1>2, <1>3, <2>2, <2>3 DEF OnePeriod
  <2>5. /\ Mape(r.use[k], EstimateResource(T, r.load_value, PeriodForKey(r, k), k)) \in Num
        /\ AtMost(Zero, Mape(r.use[k], EstimateResource(T, r.load_value, PeriodForKey(r, k), k)))
        /\ Mape(r.use[k], EstimateResource(T, r.load_value, PeriodForKey(r, k), k)) = Zero
             <=> OnLine(Start(T, m, r.load_value), End(T, m, r.load_value), r, k)
    BY <1>2, <2>1, <2>2, <2>4, PredictionFact
  <2> QED BY <2>5 DEF T, m
<1> HIDE DEF Error, Exact
<1>6. IsFiniteSet(Range(A)) /\ Range(A) # {}
  <2>1. IsFiniteSet(1..n)
    BY <1>1, FS_Interval
  <2>2. A \in Surjection(1..n, Range(A))
    <3>1. A \in [1..n -> Range(A)]
      BY <1>1 DEF Slice
    <3> QED BY <1>1, <3>1 DEF Surjection
  <2>3. 1 \in 1..n
    BY <1>1
  <2> QED BY <1>1, <2>1, <2>2, <2>3, FS_Surjection
<1>7. DOMAIN f = Range(A) /\ \A r \in Range(A) : f[r] = Error(r)
  OBVIOUS
<1> HIDE DEF f
<1>8. Mean(f) = Zero <=> \A r \in Range(A) : f[r] = Zero
  BY <1>5, <1>6, <1>7, MeanIsZero
<1> QED BY <1>4, <1>5, <1>7, <1>8 DEF Exact

\* Sets of rows have a row of the least load and
LEMMA LeastLoad ==
    ASSUME NEW S \in SUBSET Rows, S # {}
    PROVE  \E r \in S : \A s \in S : r.load_value <= s.load_value
<1> DEFINE L == {s.load_value : s \in S}
<1>1. L \in SUBSET Nat /\ L # {}
  BY RowFact
<1>2. PICK m \in L : \A l \in L : m <= l
  BY <1>1, LeastNumber
<1> QED BY <1>2

\* below a bound one of the greatest.
LEMMA GreatestLoad ==
    ASSUME NEW S \in SUBSET Rows, S # {}, NEW x \in Nat, \A s \in S : s.load_value < x
    PROVE  \E r \in S : \A s \in S : s.load_value <= r.load_value
<1> DEFINE L == {x - s.load_value : s \in S}
<1>1. \A s \in S : s.load_value \in Nat /\ x - s.load_value \in Nat
  BY RowFact
<1>2. L \in SUBSET Nat /\ L # {}
  BY <1>1
<1>3. PICK m \in L : \A l \in L : m <= l
  BY <1>2, LeastNumber
<1>4. PICK r \in S : m = x - r.load_value
  BY <1>3
<1>5. \A s \in S : x - r.load_value <= x - s.load_value
  BY <1>3, <1>4
<1> QED BY <1>1, <1>5

\* The validation is zero exactly for measurements on one line: the first one off
\* the line through the two lowest would falsify the prediction of the one before.
LEMMA HoldoutIsHonest ==
    ASSUME NEW Num, OrderedField(Num), PowerLaws(Num, Num), NEW k \in Keys,
           NEW n, NEW A, Slice(A, n), SingleLoads(A, n), OnePeriod(A, n, k), n >= 3
    PROVE  ValidateHoldout(A, k) = Zero <=> \A p, q, r \in Range(A) : OnLine(p, q, r, k)
<1> DEFINE R == Range(A)
           m == n - 1
           From(r) == Start(Others(A, r), m, r.load_value)
           To(r)   == End(Others(A, r), m, r.load_value)
<1>1. /\ n \in Nat /\ DOMAIN A = 1..n
      /\ \A r \in R : \E i \in 1..n : A[i] = r
      /\ \A i \in 1..n : A[i] \in R /\ A[i] \in Rows
  BY RangeFact DEF Slice
<1>2. R \in SUBSET Rows /\ \A r \in R : r.load_value \in Nat
  BY <1>1, RowFact
<1>3. \A r, s \in R : r.load_value = s.load_value => r = s
  BY <1>1 DEF SingleLoads
<1>4. ValidateHoldout(A, k) = Zero <=> \A r \in R : OnLine(From(r), To(r), r, k)
  BY HoldoutIsZero
<1>5. ASSUME \A p, q, r \in R : OnLine(p, q, r, k)
      PROVE  \A r \in R : OnLine(From(r), To(r), r, k)
  <2> SUFFICES ASSUME NEW r \in R PROVE From(r) \in R /\ To(r) \in R
    BY <1>5
  <2> DEFINE T == Others(A, r)
  <2>1. Slice(T, m) /\ SingleLoads(T, m) /\ Range(T) = R \ {r}
    BY OthersFact
  <2>2. m \in Nat /\ m >= 2 /\ 1 \in 1..m /\ DOMAIN T = 1..m
    BY <1>1, <2>1 DEF Slice
  <2> HIDE DEF T, m
  <2>3. \A i \in 1..m : T[i] \in R
    BY <2>1, <2>2, RangeFact
  <2>4. OnePeriod(T, m, k) /\ PeriodForKey(T[1], k) = PeriodForKey(r, k) /\ r.use[k] > 0
    <3>1. \A s \in R : s.use[k] > 0 /\ PeriodForKey(s, k) = PeriodForKey(r, k)
      BY <1>1 DEF OnePeriod
    <3> QED BY <2>2, <2>3, <3>1 DEF OnePeriod
  <2>5. Start(T, m, r.load_value) \in Range(T) /\ End(T, m, r.load_value) \in Range(T)
    BY <1>2, <2>1, <2>2, <2>4, PredictionFact
  <2> QED BY <2>1, <2>5 DEF T
<1>6. ASSUME \A r \in R : OnLine(From(r), To(r), r, k)
      PROVE  \A p, q, r \in R : OnLine(p, q, r, k)
  <2>1. PICK a \in R : \A s \in R : a.load_value <= s.load_value
    <3>1. R # {}
      BY <1>1
    <3> QED BY <1>2, <3>1, LeastLoad
  <2>2. PICK b \in R \ {a} : \A s \in R \ {a} : b.load_value <= s.load_value
    <3>1. 1 \in 1..n /\ 2 \in 1..n /\ A[1].load_value # A[2].load_value
      BY <1>1 DEF SingleLoads
    <3>2. R \ {a} # {} /\ R \ {a} \in SUBSET Rows
      BY <1>1, <1>2, <3>1
    <3> QED BY <3>2, LeastLoad
  <2>3. a.load_value < b.load_value
    <3>1. a.load_value <= b.load_value /\ a.load_value # b.load_value
      BY <1>3, <2>1, <2>2
    <3> QED BY <1>2, <2>2, <3>1
  <2> DEFINE Off == {s \in R : ~OnLine(a, b, s, k)}
  <2>4. ASSUME Off # {} PROVE FALSE
    <3>1. PICK r \in Off : \A s \in Off : r.load_value <= s.load_value
      BY <1>2, <2>4, LeastLoad
    <3>2. OnLine(a, b, a, k) /\ OnLine(a, b, b, k)
      <4>1. /\ a.load_value \in Int /\ a.use[k] \in Int
            /\ b.load_value \in Int /\ b.use[k] \in Int
        BY <1>2, <2>2, RowFact
      <4> QED BY <4>1 DEF OnLine
    <3>3. b.load_value < r.load_value
      <4>1. r # a /\ r # b /\ r \in R
        BY <3>1, <3>2
      <4>2. b.load_value <= r.load_value /\ b.load_value # r.load_value
        BY <1>3, <2>2, <4>1
      <4> QED BY <1>2, <2>2, <4>1, <4>2
    <3> DEFINE Before(x) == {s \in R : s.load_value < x.load_value}
    <3>4. PICK q \in Before(r) : \A s \in Before(r) : s.load_value <= q.load_value
      <4>1. b \in Before(r)
        BY <2>2, <3>3
      <4>2. Before(r) \in SUBSET Rows /\ Before(r) # {} /\ r.load_value \in Nat
        BY <1>2, <3>1, <4>1
      <4> QED BY <4>2, GreatestLoad
    <3>5. a.load_value < q.load_value
      <4>1. b.load_value <= q.load_value
        BY <2>2, <3>3, <3>4
      <4> QED BY <1>2, <2>2, <2>3, <3>4, <4>1
    <3>6. PICK o \in Before(q) : \A s \in Before(q) : s.load_value <= o.load_value
      <4>1. a \in Before(q)
        BY <3>5
      <4>2. Before(q) \in SUBSET Rows /\ Before(q) # {} /\ q.load_value \in Nat
        BY <1>2, <3>4, <4>1
      <4> QED BY <4>2, GreatestLoad
    <3>7. /\ o \in R /\ q \in R /\ r \in R
          /\ o.load_value < q.load_value /\ q.load_value < r.load_value
          /\ o.load_value \in Nat /\ q.load_value \in Nat /\ r.load_value \in Nat
      BY <1>2, <3>1, <3>4, <3>6
    <3>8. OnLine(a, b, q, k) /\ OnLine(a, b, o, k)
      <4>1. \A s \in R : s.load_value < r.load_value => s \notin Off
        BY <1>2, <3>1
      <4>2. o.load_value < r.load_value
        BY <3>7
      <4> QED BY <3>7, <4>1, <4>2
    <3>9. OnLine(o, r, q, k)
      <4> DEFINE T == Others(A, q)
      <4>1. Slice(T, m) /\ SingleLoads(T, m) /\ Range(T) = R \ {q}
        BY <3>7, OthersFact
      <4> HIDE DEF T
      <4>2. o \in Range(T) /\ r \in Range(T)
        BY <3>7, <4>1
      <4>3. \A s \in Range(T) : s.load_value <= o.load_value \/ r.load_value <= s.load_value
        <5> SUFFICES ASSUME NEW s \in R, s # q
                     PROVE  s.load_value <= o.load_value \/ r.load_value <= s.load_value
          BY <4>1
        <5>1. s.load_value # q.load_value /\ s.load_value \in Nat
          BY <1>2, <1>3, <3>7
        <5>2. s.load_value < q.load_value => s.load_value <= o.load_value
          BY <3>6
        <5>3. s.load_value < r.load_value => s.load_value <= q.load_value
          BY <3>4
        <5> QED BY <3>7, <5>1, <5>2, <5>3
      <4>4. Start(T, m, q.load_value) = o /\ End(T, m, q.load_value) = r
        <5> HIDE DEF m, R
        <5> QED BY <3>7, <4>1, <4>2, <4>3, NeighboursFact
      <4> QED BY <1>6, <3>7, <4>4 DEF T
    <3>10. OnLine(a, b, r, k)
      <4>1. a \in Rows /\ b \in Rows /\ o \in Rows /\ q \in Rows /\ r \in Rows
        BY <1>2, <2>2, <3>7
      <4>2. a.load_value # b.load_value /\ o.load_value # q.load_value
        BY <1>2, <2>2, <2>3, <3>7
      <4> QED BY <3>8, <3>9, <4>1, <4>2, LineGoesOn
    <3> QED BY <3>1, <3>10
  <2>5. \A s \in R : OnLine(a, b, s, k)
    BY <2>4
  <2> SUFFICES ASSUME NEW p \in R, NEW q \in R, NEW r \in R PROVE OnLine(p, q, r, k)
    OBVIOUS
  <2>6. a \in Rows /\ b \in Rows /\ p \in Rows /\ q \in Rows /\ r \in Rows
    BY <1>2, <2>2
  <2>7. a.load_value # b.load_value
    BY <1>2, <2>2, <2>3
  <2> HIDE DEF R
  <2> QED BY <2>5, <2>6, <2>7, LineOfThree
<1> QED BY <1>4, <1>5, <1>6

(***************************************************************************)
(* The server.                                                             *)
(***************************************************************************)
\* The table is finite and of rows that obs-bench saves.
RowsInv == rows \in SUBSET Rows /\ IsFiniteSet(rows)

\* An estimate is of rows of the table, each of them once, and is the model's.
ReplyInv ==
    Estimated =>
        /\ reply.load \in Loads /\ reply.target \in Retentions
        /\ \E n : /\ Slice(reply.from, n)
                  /\ \A i, j \in 1..n : i # j => reply.from[i] # reply.from[j]
        /\ reply.estimate =
              [k \in Keys |-> EstimateResource(reply.from, reply.load, reply.target, k)]
        /\ reply.mape = [k \in Keys |-> ValidateHoldout(reply.from, k)]

\* The invariant, which is inductive.
ServerInv == ServerTypeOK /\ RowsInv /\ ReplyInv

\* A server that starts finds a table of rows and has answered nothing.
LEMMA ServerInitInv == ServerInit => ServerInv
BY DEF ServerInit, ServerInv, ServerTypeOK, RowsInv, ReplyInv, Estimated, Results!Init

\* Every request, and every step of obs-bench, preserves the invariant.
LEMMA ServerStepInv == ServerInv /\ [ServerNext]_serverVars => ServerInv'
<1> SUFFICES ASSUME ServerInv, [ServerNext]_serverVars PROVE ServerInv'
  OBVIOUS
<1> USE DEF ServerInv
<1>1. CASE UNCHANGED serverVars
  BY <1>1 DEF serverVars, ServerTypeOK, RowsInv, ReplyInv, Estimated
<1>2. CASE Bench
  <2>1. schema' \in {"none", "legacy", "foreign", "new"}
    BY <1>2 DEF Bench, Results!Next, Results!Upgrade, Results!Add, ServerTypeOK
  <2>2. rows' \in SUBSET Rows /\ IsFiniteSet(rows')
    <3>1. CASE Results!Upgrade
      BY <3>1 DEF Results!Upgrade, RowsInv
    <3>2. CASE Results!Add
      <4>1. PICK r \in Rows : rows' = rows \cup {r}
        BY <3>2 DEF Results!Add
      <4> QED BY <4>1, FS_AddElement DEF RowsInv
    <3> QED BY <1>2, <3>1, <3>2 DEF Bench, Results!Next
  <2>3. reply = NoReply /\ reply' = NoReply
    BY <1>2 DEF Bench
  <2> QED BY <2>1, <2>2, <2>3 DEF ServerTypeOK, RowsInv, ReplyInv, Estimated
<1>3. CASE Unavailable
  BY <1>3 DEF Unavailable, ServerTypeOK, RowsInv, ReplyInv, Estimated, Statuses
<1>4. CASE Measurements
  BY <1>4 DEF Measurements, ServerTypeOK, RowsInv, ReplyInv, Estimated, Statuses
<1>5. CASE Served
  BY <1>5 DEF Served, ServerTypeOK, RowsInv, ReplyInv, Estimated
<1>6. ASSUME NEW s \in Subjects, NoRows(s) PROVE ServerInv'
  BY <1>6 DEF NoRows, ServerTypeOK, RowsInv, ReplyInv, Estimated, Statuses
<1>7. ASSUME NEW s \in Subjects, NEW load \in Loads, NEW target \in Retentions,
             Estimate(s, load, target)
      PROVE  ServerInv'
  <2>1. PICK from \in SetToSeqs(Subset(s)) : reply' = BuildReport(from, load, target)
    BY <1>7 DEF Estimate
  <2>2. UNCHANGED <<schema, rows>>
    BY <1>7 DEF Estimate
  <2>3. Subset(s) \in SUBSET Rows /\ Cardinality(Subset(s)) \in Nat
    BY FS_Subset, FS_CardinalityType DEF Subset, RowsInv
  <2>4. /\ Slice(from, Cardinality(Subset(s)))
        /\ \A i, j \in 1..Cardinality(Subset(s)) : i # j => from[i] # from[j]
    BY <2>1, <2>3 DEF SetToSeqs, Slice
  <2>5. /\ reply'.status = 200 /\ reply'.from = from
        /\ reply'.load = load /\ reply'.target = target
        /\ reply'.estimate = [k \in Keys |-> EstimateResource(from, load, target, k)]
        /\ reply'.mape = [k \in Keys |-> ValidateHoldout(from, k)]
    BY <2>1 DEF BuildReport
  <2>6. ReplyInv'
    BY <2>4, <2>5 DEF ReplyInv
  <2> QED BY <2>2, <2>5, <2>6 DEF ServerTypeOK, RowsInv, Statuses
<1> QED BY <1>1, <1>2, <1>3, <1>4, <1>5, <1>6, <1>7 DEF ServerNext

\* The table is of the rows obs-bench saves, and an estimate is the capacity model's
\* of a slice of them in which each comes once (src/obs-advisor/server/main.go,
\* loadRows and /api/estimate).
THEOREM ServerInvariant == ServerSpec => []ServerInv
BY ServerInitInv, ServerStepInv, PTL DEF ServerSpec

\* Every reply has a status the handlers can send, whatever the table holds.
THEOREM ServerTypeCorrect == ServerSpec => []ServerTypeOK
<1>1. ServerInv => ServerTypeOK
  BY DEF ServerInv
<1> QED BY <1>1, ServerInvariant, PTL

\* The retentions asked for are positive.
LEMMA RetentionPositive ==
    ASSUME NEW Num, OrderedField(Num), NEW u \in Retentions
    PROVE  u \in Positive(Num)
BY AdvisorAssumption DEF Positive, OrderedField, Closed

\* No estimate is of less at a longer retention, for every table, every order of its
\* rows and every load (capacitymodel/model.go, estimateAlphaByRetention and
\* estimateResource).
THEOREM RetentionNeverPays ==
    ASSUME NEW Num, OrderedField(Num), PowerLaws(Num, Num)
    PROVE  ServerSpec => []NeverCheaper
<1>1. ServerInv => NeverCheaper
  <2> SUFFICES ASSUME ServerInv, Estimated, NEW k \in Keys, NEW v \in Retentions,
                      AtMost(reply.target, v)
               PROVE  AtMost(reply.estimate[k],
                             EstimateResource(reply.from, reply.load, v, k))
    BY DEF NeverCheaper
  <2>1. PICK n : Slice(reply.from, n)
    BY DEF ServerInv, ReplyInv
  <2>2. reply.load \in Nat /\ reply.target \in Positive(Num) /\ v \in Positive(Num)
    BY AdvisorAssumption, RetentionPositive DEF ServerInv, ReplyInv
  <2>3. reply.estimate[k] = EstimateResource(reply.from, reply.load, reply.target, k)
    BY DEF ServerInv, ReplyInv
  <2> QED BY <2>1, <2>2, <2>3, EstimateMonotone
<1> QED BY <1>1, ServerInvariant, PTL

\* Between two measured loads the estimate is between what the two neighbours say,
\* for every table, every order of its rows and every load (capacitymodel/model.go,
\* interpolate and segment).
THEOREM EstimateIsBracketed ==
    ASSUME NEW Num, OrderedField(Num), PowerLaws(Num, Num)
    PROVE  ServerSpec => []Bracketed
<1>1. ServerInv => Bracketed
  <2> SUFFICES ASSUME ServerInv, Estimated, NEW k \in Keys, Distinct(OfKey(k)),
                      NEW p \in OfKey(k), NEW q \in OfKey(k), Neighbours(p, q, OfKey(k))
               PROVE  /\ AtMost(Smaller(ScaledTo(p, k), ScaledTo(q, k)), reply.estimate[k])
                      /\ AtMost(reply.estimate[k], Larger(ScaledTo(p, k), ScaledTo(q, k)))
    BY DEF Bracketed
  <2> DEFINE from == reply.from
             S == Used(from, k)
  <2>1. PICK n : Slice(from, n) /\ \A i, j \in 1..n : i # j => from[i] # from[j]
    BY DEF ServerInv, ReplyInv
  <2>2. reply.load \in Nat /\ reply.target \in Positive(Num)
    BY AdvisorAssumption, RetentionPositive DEF ServerInv, ReplyInv
  <2>3. reply.estimate[k] = EstimateResource(from, reply.load, reply.target, k)
    BY DEF ServerInv, ReplyInv
  <2>4. /\ \A i \in S : i \in 1..n /\ from[i] \in OfKey(k)
        /\ \A r \in OfKey(k) : \E i \in S : from[i] = r
    BY <2>1 DEF Used, OfKey, FromRows, Range, Slice
  <2>5. PICK a \in S, b \in S : from[a] = p /\ from[b] = q
    BY <2>4
  <2>6. \A i, j \in S : from[i].load_value = from[j].load_value => i = j
    BY <2>1, <2>4 DEF Distinct
  <2>7. /\ from[a].load_value <= reply.load /\ reply.load <= from[b].load_value
        /\ from[a].load_value < from[b].load_value
        /\ \A i \in S : from[i].load_value <= from[a].load_value
                        \/ from[b].load_value <= from[i].load_value
    BY <2>4, <2>5 DEF Neighbours
  <2>8. /\ ScaledTo(p, k) = Scaled(from[a], reply.target, EstimateAlpha(from, k), k)
        /\ ScaledTo(q, k) = Scaled(from[b], reply.target, EstimateAlpha(from, k), k)
    BY <2>5 DEF ScaledTo
  <2> HIDE DEF from
  <2> QED BY <2>1, <2>2, <2>3, <2>6, <2>7, <2>8, EstimateBetween
<1> QED BY <1>1, ServerInvariant, PTL

\* The reply does not depend on the order in which the query returns the rows, when
\* no two have the same load, for every table: neither the estimate nor the
\* validation (src/obs-advisor/server/main.go, loadRows, has no ORDER BY;
\* capacitymodel/model.go, BuildReport).
THEOREM OrderNeverMatters == ServerSpec => []OrderFree
<1>1. ServerInv => OrderFree
  <2> SUFFICES ASSUME ServerInv, Estimated, Distinct(FromRows)
               PROVE  LET other == BuildReport(SetToSeq(FromRows), reply.load, reply.target)
                      IN  reply.estimate = other.estimate /\ reply.mape = other.mape
    BY DEF OrderFree
  <2> DEFINE A == reply.from
             B == SetToSeq(FromRows)
  <2>1. PICK n : Slice(A, n) /\ \A i, j \in 1..n : i # j => A[i] # A[j]
    BY DEF ServerInv, ReplyInv
  <2>2. /\ reply.load \in Nat
        /\ reply.estimate = [k \in Keys |-> EstimateResource(A, reply.load, reply.target, k)]
        /\ reply.mape = [k \in Keys |-> ValidateHoldout(A, k)]
    BY AdvisorAssumption DEF ServerInv, ReplyInv
  <2>3. /\ Slice(B, n) /\ Range(B) = Range(A)
        /\ \A i, j \in 1..n : B[i] = B[j] => i = j
    BY <2>1, SetToSeqFact DEF FromRows
  <2>4. \A r, s \in Range(A) : r.load_value = s.load_value => r = s
    BY DEF Distinct, FromRows
  <2> HIDE DEF A, B
  <2>5. \A i \in 1..n : A[i] \in Range(A) /\ B[i] \in Range(A)
    <3>1. DOMAIN A = 1..n /\ DOMAIN B = 1..n
      BY <2>1, <2>3 DEF Slice
    <3>2. \A i \in 1..n : A[i] \in Range(A)
      BY <3>1, RangeFact
    <3>3. \A i \in 1..n : B[i] \in Range(B)
      BY <3>1, RangeFact
    <3> QED BY <2>3, <3>2, <3>3
  <2>6. SingleLoads(A, n) /\ SingleLoads(B, n)
    BY <2>1, <2>3, <2>4, <2>5 DEF SingleLoads
  <2>7. SameRows(A, B, n)
    BY <2>1, <2>3, <2>6 DEF SameRows
  <2>8. \A k \in Keys : EstimateResource(A, reply.load, reply.target, k)
                          = EstimateResource(B, reply.load, reply.target, k)
    BY <2>2, <2>7, EstimateOfSameRows
  <2>9. \A k \in Keys : ValidateHoldout(A, k) = ValidateHoldout(B, k)
    BY <2>7, HoldoutOfSameRows
  <2>10. /\ reply.estimate = [k \in Keys |-> EstimateResource(B, reply.load, reply.target, k)]
         /\ reply.mape = [k \in Keys |-> ValidateHoldout(B, k)]
    BY <2>2, <2>8, <2>9
  <2> QED BY <2>10 DEF BuildReport, B
<1> QED BY <1>1, ServerInvariant, PTL

\* The error that the page shows is zero exactly for measurements that are linear
\* in the load, for every table in which no two have the same load: no measurement
\* takes part in its own prediction (capacitymodel/model.go, validateHoldout).
THEOREM ValidationIsHonest ==
    ASSUME NEW Num, OrderedField(Num), PowerLaws(Num, Num)
    PROVE  ServerSpec => []LeaveOneOut
<1>1. ServerInv => LeaveOneOut
  <2> SUFFICES ASSUME ServerInv, Estimated, Len(reply.from) >= 3, Distinct(FromRows),
                      NEW k \in Keys, OfKey(k) = FromRows,
                      \A p, q \in FromRows : PeriodForKey(p, k) = PeriodForKey(q, k)
               PROVE  reply.mape[k] = Zero <=> Collinear(k)
    BY DEF LeaveOneOut
  <2> DEFINE A == reply.from
  <2>1. PICK n : Slice(A, n) /\ \A i, j \in 1..n : i # j => A[i] # A[j]
    BY DEF ServerInv, ReplyInv
  <2>2. reply.mape[k] = ValidateHoldout(A, k)
    BY DEF ServerInv, ReplyInv
  <2>3. /\ \A r, s \in Range(A) : r.load_value = s.load_value => r = s
        /\ \A r \in Range(A) : r.use[k] > 0
        /\ \A r, s \in Range(A) : PeriodForKey(r, k) = PeriodForKey(s, k)
        /\ Len(A) >= 3
    BY DEF Distinct, OfKey, FromRows
  <2>4. Collinear(k) <=> \A p, q, r \in Range(A) : OnLine(p, q, r, k)
    BY DEF Collinear, FromRows, OnLine
  <2> HIDE DEF A
  <2>5. n \in Nat /\ DOMAIN A = 1..n /\ Len(A) = n
    BY <2>1 DEF Slice
  <2>6. \A i \in 1..n : A[i] \in Range(A)
    BY <2>5, RangeFact
  <2>7. SingleLoads(A, n) /\ OnePeriod(A, n, k)
    BY <2>1, <2>3, <2>6 DEF SingleLoads, OnePeriod
  <2>8. n >= 3
    BY <2>3, <2>5
  <2> QED BY <2>1, <2>2, <2>4, <2>7, <2>8, HoldoutIsHonest
<1> QED BY <1>1, ServerInvariant, PTL

=============================================================================
