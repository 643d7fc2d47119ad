-------------------------- MODULE Experiment_proofs --------------------------
(***************************************************************************)
(* Proofs about the batch loop: type correctness, the faithfulness of the  *)
(* rows, and that the command implements the abstract batch.               *)
(***************************************************************************)
EXTENDS Experiment, SequenceTheorems, TLAPS

LEMMA NoneIsMaybeTry == None \in MaybeTry
  BY DEF MaybeTry

\* In a stage the current try and the resources it works on are well formed.
LEMMA StageFacts ==
    ASSUME TypeOK, pc \in Stages \ {"next"}
    PROVE  /\ entry \in 1..Total
           /\ Try \in Tries
           /\ Try \in MaybeTry
           /\ Instrument \in Resources
           /\ LoadSource \in Resources
           /\ {"monitoring", "log-producer"} \subseteq Resources
<1>1. entry \in ValidEntries /\ proc \in 1..MaxProcs
  BY DEF TypeOK
<1>2. entry \in 1..Total
  BY <1>1, ExperimentAssumption
<1>3. Try \in Tries
  BY <1>1, <1>2 DEF Try, Tries
<1>4. Instrument \in Resources
  BY <1>2, ExperimentAssumption DEF Instrument, Resources
<1>5. /\ LoadSource \in Resources
      /\ {"monitoring", "log-producer"} \subseteq Resources
  BY DEF LoadSource, Resources
<1>6. QED
  BY <1>2, <1>3, <1>4, <1>5 DEF MaybeTry

\* The part of the type invariant that speaks of the loop.
ControlOK ==
    /\ pc \in Stages \cup Final
    /\ entry \in 1..(Total + 1)
    /\ pc \in Stages \ {"next"} => entry \in ValidEntries
    /\ succeeded \in Nat /\ failed \in Nat

\* Going on to another stage, or giving the entry up, keeps it.
LEMMA ControlStep ==
    ASSUME TypeOK, pc \in Stages \ {"next"},
           Abort \/ \E to \in Stages : Go(to)
    PROVE  ControlOK'
<1>1. entry \in 1..Total
  BY StageFacts
<1>2. CASE Abort
  BY <1>1, <1>2, ExperimentAssumption DEF Abort, ControlOK, TypeOK, Stages
<1>3. CASE \E to \in Stages : Go(to)
  BY <1>3 DEF Go, ControlOK, TypeOK
<1>4. QED
  BY <1>2, <1>3

\* Every change of a resource's owner is an update with one of these values.
LEMMA OwnerStep ==
    ASSUME TypeOK, NEW r \in Resources, NEW t \in MaybeTry
    PROVE  [owner EXCEPT ![r] = t] \in [Resources -> MaybeTry]
  BY DEF TypeOK

\* A save gives the entry up, or adds the row whether or not it is counted as
\* failed.
LEMMA SaveCases ==
    ASSUME Save
    PROVE  \/ Abort /\ UNCHANGED rows
           \/ /\ rows' = Append(rows, NewRow) /\ pc' = "next"
              /\ entry' = entry + 1 /\ failed' \in {failed, failed + 1}
  BY DEF Save, Abort

LEMMA TypeInit == Init => TypeOK
<1> SUFFICES ASSUME Init PROVE TypeOK
  OBVIOUS
<1>1. owner \in [Resources -> MaybeTry]
  BY NoneIsMaybeTry DEF Init
<1>2. rows \in Seq([of : Tries, mon : MaybeTry, stack : MaybeTry,
                   load : MaybeTry])
  BY DEF Init
<1>3. measured \in [mon : MaybeTry, stack : MaybeTry]
  BY NoneIsMaybeTry DEF Init
<1>4. proc \in 1..MaxProcs /\ entry \in 1..(Total + 1)
  BY ExperimentAssumption DEF Init
<1>5. pc = "next" /\ pc \in Stages \cup Final
  BY DEF Init, Stages
<1>6. QED
  BY <1>1, <1>2, <1>3, <1>4, <1>5, NoneIsMaybeTry DEF Init, TypeOK

LEMMA TypeStep == TypeOK /\ [Next]_vars => TypeOK'
<1> SUFFICES ASSUME TypeOK, [Next]_vars
             PROVE  TypeOK'
  OBVIOUS
<1>1. CASE StartEntry
  BY <1>1, ExperimentAssumption
     DEF StartEntry, Remaining, TypeOK, Stages, Final, Go, Abort, Remains,
         NotMeasuring
<1>2. CASE EndBatch
  BY <1>2 DEF EndBatch, ExitCode, TypeOK, Stages, Final, Go, NotMeasuring
<1>3. CASE MonUninstall
  <2>1. ControlOK'
    BY <1>3, ControlStep DEF MonUninstall, Uninstall, Stages
  <2>2. owner' \in [Resources -> MaybeTry]
    BY <1>3, StageFacts, OwnerStep, NoneIsMaybeTry
       DEF MonUninstall, Uninstall, Stages, TypeOK
  <2>3. QED
    BY <1>3, <2>1, <2>2
       DEF MonUninstall, Uninstall, TypeOK, ControlOK, Remains, NotMeasuring
<1>4. CASE MonUp
  <2>1. ControlOK'
    BY <1>4, ControlStep DEF MonUp, Install, Stages
  <2>2. owner' \in [Resources -> MaybeTry]
    BY <1>4, StageFacts, OwnerStep, NoneIsMaybeTry
       DEF MonUp, Install, Stages, TypeOK
  <2>3. installing' \subseteq Resources \X Tries
    BY <1>4, StageFacts DEF MonUp, Install, Stages, TypeOK
  <2>4. QED
    BY <1>4, <2>1, <2>2, <2>3
       DEF MonUp, Install, TypeOK, ControlOK, NotMeasuring
<1>5. CASE StackUninstall
  <2>1. ControlOK'
    BY <1>5, ControlStep DEF StackUninstall, Uninstall, Stages
  <2>2. owner' \in [Resources -> MaybeTry]
    BY <1>5, StageFacts, OwnerStep, NoneIsMaybeTry
       DEF StackUninstall, Uninstall, Stages, TypeOK
  <2>3. QED
    BY <1>5, <2>1, <2>2
       DEF StackUninstall, Uninstall, TypeOK, ControlOK, Remains, NotMeasuring
<1>6. CASE StackUp
  <2>1. ControlOK'
    BY <1>6, ControlStep DEF StackUp, Install, Stages
  <2>2. owner' \in [Resources -> MaybeTry]
    BY <1>6, StageFacts, OwnerStep, NoneIsMaybeTry
       DEF StackUp, Install, Stages, TypeOK
  <2>3. installing' \subseteq Resources \X Tries
    BY <1>6, StageFacts DEF StackUp, Install, Stages, TypeOK
  <2>4. QED
    BY <1>6, <2>1, <2>2, <2>3
       DEF StackUp, Install, TypeOK, ControlOK, NotMeasuring
<1>7. CASE LoadPurge
  <2>1. ControlOK'
    BY <1>7, ControlStep DEF LoadPurge, Stages
  <2>2. owner' \in [Resources -> MaybeTry]
    BY <1>7, StageFacts, OwnerStep, NoneIsMaybeTry
       DEF LoadPurge, Stages, TypeOK
  <2>3. QED
    BY <1>7, <2>1, <2>2
       DEF LoadPurge, TypeOK, ControlOK, Remains, NotMeasuring
<1>8. CASE LoadUp
  <2>1. ControlOK'
    BY <1>8, ControlStep DEF LoadUp, Stages
  <2>2. owner' \in [Resources -> MaybeTry]
    BY <1>8, StageFacts, OwnerStep, NoneIsMaybeTry
       DEF LoadUp, Stages, TypeOK
  <2>3. QED
    BY <1>8, <2>1, <2>2
       DEF LoadUp, TypeOK, ControlOK, Remains, NotMeasuring
<1>9. CASE Forward
  BY <1>9 DEF Forward, TypeOK, Stages, Go, Remains, NotMeasuring
<1>10. CASE ForwardFails
  <2>1. ControlOK'
    BY <1>10, ControlStep DEF ForwardFails, LoadEnds, Stages
  <2>2. owner' \in [Resources -> MaybeTry]
    BY <1>10, StageFacts, OwnerStep, NoneIsMaybeTry
       DEF ForwardFails, LoadEnds, Stages, TypeOK
  <2>3. QED
    BY <1>10, <2>1, <2>2
       DEF ForwardFails, LoadEnds, TypeOK, ControlOK, Remains, NotMeasuring
<1>11. CASE Query
  <2>1. ControlOK'
    BY <1>11, ControlStep DEF Query, LoadEnds, Stages
  <2>2. owner' \in [Resources -> MaybeTry]
    BY <1>11, StageFacts, OwnerStep, NoneIsMaybeTry
       DEF Query, LoadEnds, Stages, TypeOK
  <2>3. QED
    BY <1>11, <2>1, <2>2, StageFacts
       DEF Query, LoadEnds, Stages, TypeOK, ControlOK, Remains, NotMeasuring
<1>12. CASE StopLoad
  <2>1. ControlOK'
    BY <1>12, ControlStep DEF StopLoad, Stages
  <2>2. owner' \in [Resources -> MaybeTry]
    BY <1>12, StageFacts, OwnerStep, NoneIsMaybeTry
       DEF StopLoad, Stages, TypeOK
  <2>3. QED
    BY <1>12, <2>1, <2>2
       DEF StopLoad, TypeOK, ControlOK, Remains, NotMeasuring
<1>13. CASE CollectForward
  BY <1>13 DEF CollectForward, TypeOK, Stages, Go, Remains, NotMeasuring
<1>14. CASE CollectForwardFails
  <2>1. ControlOK'
    BY <1>14, ControlStep DEF CollectForwardFails, Stages
  <2>2. owner' \in [Resources -> MaybeTry]
    BY <1>14, StageFacts, OwnerStep, NoneIsMaybeTry
       DEF CollectForwardFails, Stages, TypeOK
  <2>3. QED
    BY <1>14, <2>1, <2>2
       DEF CollectForwardFails, TypeOK, ControlOK, Remains, NotMeasuring
<1>15. CASE Collect
  <2>1. ControlOK'
    BY <1>15, ControlStep DEF Collect, Stages
  <2>2. owner' \in [Resources -> MaybeTry]
    BY <1>15, StageFacts, OwnerStep, NoneIsMaybeTry
       DEF Collect, Stages, TypeOK
  <2>3. QED
    BY <1>15, <2>1, <2>2, StageFacts
       DEF Collect, Stages, TypeOK, ControlOK, Remains, NotMeasuring
<1>16. CASE Save
  <2>1. entry \in 1..Total /\ Try \in Tries
    BY <1>16, StageFacts DEF Save, Stages
  <2>2. ControlOK'
    BY <1>16, <2>1, ExperimentAssumption
       DEF Save, Abort, ControlOK, TypeOK, Stages
  <2>3. cancelled' \in BOOLEAN
    BY <1>16 DEF Save, TypeOK
  <2>4. rows' \in Seq([of : Tries, mon : MaybeTry, stack : MaybeTry,
                      load : MaybeTry])
    <3> DEFINE Row == [of : Tries, mon : MaybeTry, stack : MaybeTry,
                       load : MaybeTry]
    <3>1. NewRow \in Row
      BY <2>1 DEF TypeOK, NewRow
    <3>2. rows \in Seq(Row) /\ (rows' = rows \/ rows' = Append(rows, NewRow))
      BY <1>16, SaveCases DEF TypeOK
    <3> HIDE DEF Row
    <3>3. rows' \in Seq(Row)
      BY <3>1, <3>2
    <3>4. QED
      BY <3>3 DEF Row
  <2>5. QED
    BY <1>16, <2>2, <2>3, <2>4 DEF Save, TypeOK, ControlOK, NotMeasuring
<1>17. CASE Cancel
  <2>1. interrupted' \subseteq Resources \X Tries
    BY <1>17, StageFacts DEF Cancel, UnderWay, Stages
  <2>2. QED
    BY <1>17, <2>1 DEF Cancel, TypeOK
<1>18. CASE Restart
  <2>1. ranOn' \in MaybeTry /\ measured' \in [mon : MaybeTry, stack : MaybeTry]
    BY <1>18, NoneIsMaybeTry DEF Restart
  <2>2. ControlOK' /\ proc' \in 1..MaxProcs
    BY <1>18, ExperimentAssumption DEF Restart, ControlOK, TypeOK, Stages
  <2>3. QED
    BY <1>18, <2>1, <2>2 DEF Restart, TypeOK, ControlOK
<1>19. CASE Kill \/ PodsChange
  BY <1>19 DEF Kill, PodsChange, TypeOK, Stages, Final
<1>20. CASE InstallGoesOn
  <2>1. PICK i \in installing : owner' = [owner EXCEPT ![i[1]] = i[2]]
    BY <1>20 DEF InstallGoesOn
  <2>2. i[1] \in Resources /\ i[2] \in MaybeTry
    BY <2>1 DEF TypeOK, MaybeTry
  <2>3. owner' \in [Resources -> MaybeTry]
    BY <2>1, <2>2, OwnerStep
  <2>4. QED
    BY <1>20, <2>3 DEF InstallGoesOn, TypeOK, Remains, NotMeasuring
<1>21. CASE Finished \/ UNCHANGED vars
  BY <1>21 DEF Finished, vars, TypeOK
<1>22. QED
  BY <1>1, <1>2, <1>3, <1>4, <1>5, <1>6, <1>7, <1>8, <1>9, <1>10, <1>11,
     <1>12, <1>13, <1>14, <1>15, <1>16, <1>17, <1>18, <1>19, <1>20, <1>21
     DEF Next, Step

(***************************************************************************)
(* Every state of the specification is well typed: in particular the loop  *)
(* never runs past the last entry but one position, and only a validated   *)
(* entry has stages.                                                       *)
(***************************************************************************)
THEOREM TypeCorrect == Spec => []TypeOK
  BY TypeInit, TypeStep, PTL DEF Spec

(***************************************************************************)
(* The inductive invariant.  What makes a row faithful is a chain of       *)
(* ownership: each stage is reached only with the resources of the earlier *)
(* stages owned by the current try.                                        *)
(***************************************************************************)
Provenance ==
    /\ pc \in {"stackUninstall", "stackUp", "loadPurge", "loadUp", "forward",
              "query", "stopLoad", "collectForward", "collect", "save"}
          => owner["monitoring"] = Try
    /\ pc \in {"loadPurge", "loadUp", "forward", "query", "stopLoad",
              "collectForward", "collect", "save"}
          => owner[Instrument] = Try
    /\ pc \in {"forward", "query"} => owner[LoadSource] = Try
    /\ pc = "stopLoad" => IsLogs
    /\ \/ pc = "stopLoad" /\ ~loadErr
       \/ pc \in {"collectForward", "collect", "save"}
       => ranOn = Try
    /\ pc = "save" => measured = [mon |-> Try, stack |-> Try]

\* Rows belong to earlier tries, and as long as no failure is counted every
\* entry this process is done with has its row.
RowsBefore ==
    \A k \in DOMAIN rows :
        /\ rows[k].of[1] <= proc
        /\ rows[k].of[1] = proc => rows[k].of[2] < entry

HasRow(e) == \E k \in DOMAIN rows : rows[k].of = <<proc, e>>

Tally == failed = 0 => \A e \in 1..(entry - 1) : HasRow(e)

\* A producer that is not the running log experiment's own is excused.
StrayInv ==
    \/ owner["log-producer"] # None => mayStray
    \/ pc \in {"forward", "query", "stopLoad"} /\ IsLogs

\* No sequence of failures, restarts and retries gives one try two rows.
OneRowPerTry ==
    \A j, k \in DOMAIN rows : rows[j].of = rows[k].of => j = k

\* Helm builds for the installation that Ctrl-C came upon and for no other; when
\* its goroutine is on its own, the loop is past that try, and no later entry
\* gets further than its first uninstall.
HelmInv ==
    /\ installing \subseteq interrupted
    /\ installing # {} => cancelled /\ pc \in {"next", "monUninstall"}
    /\ cancelled => UnderWay \subseteq interrupted
    /\ \A i \in interrupted : i[1] # "log-producer"

IInv == /\ TypeOK
        /\ HelmInv
        /\ Provenance
        /\ RowsMeasureTheirTry
        /\ RowsBefore
        /\ OneRowPerTry
        /\ Tally
        /\ StrayInv

\* Resources of different roles have different names.
LEMMA DistinctResources ==
    ASSUME TypeOK, pc \in Stages \ {"next"}
    PROVE  /\ Instrument # "monitoring" /\ Instrument # "log-producer"
           /\ Instrument # "metrics-provider"
           /\ LoadSource # "monitoring" /\ LoadSource # Instrument
<1>1. Instrument \in Instruments
  BY StageFacts, ExperimentAssumption DEF Instrument
<1>2. QED
  BY <1>1, ExperimentAssumption DEF LoadSource

LEMMA IntervalGrows == \A n \in Nat : 1..(n + 1) = 1..n \cup {n + 1}
  OBVIOUS

\* The tries that rows belong to are pairs of numbers.
LEMMA RowFacts ==
    ASSUME TypeOK
    PROVE  \A k \in DOMAIN rows : rows[k].of \in Nat \X Nat
<1> DEFINE Row == [of : Tries, mon : MaybeTry, stack : MaybeTry,
                   load : MaybeTry]
<1>1. rows \in Seq(Row)
  BY DEF TypeOK
<1>2. \A row \in Row : row.of \in Tries
  OBVIOUS
<1> HIDE DEF Row
<1>3. \A k \in DOMAIN rows : rows[k] \in Row
  BY <1>1
<1>4. Tries \subseteq Nat \X Nat
  BY ExperimentAssumption DEF Tries
<1>5. QED
  BY <1>2, <1>3, <1>4

\* A step that leaves the table alone, and either gives the entry up or keeps
\* the loop where it is, keeps what relates the table to the loop.
LEMMA TableStep ==
    ASSUME IInv, UNCHANGED <<rows, proc>>,
           Abort \/ UNCHANGED <<entry, failed>>
    PROVE  RowsMeasureTheirTry' /\ RowsBefore' /\ OneRowPerTry' /\ Tally'
<1>1. RowsMeasureTheirTry' /\ OneRowPerTry'
  BY DEF IInv, RowsMeasureTheirTry, OneRowPerTry
<1>2. entry \in Nat /\ proc \in Nat /\ failed \in Nat
  BY ExperimentAssumption DEF IInv, TypeOK
<1>3. \A k \in DOMAIN rows : rows[k].of \in Nat \X Nat
  BY RowFacts DEF IInv
<1>4. CASE UNCHANGED <<entry, failed>>
  BY <1>1, <1>4 DEF IInv, RowsBefore, Tally, HasRow
<1>5. CASE Abort
  <2>1. RowsBefore'
    BY <1>2, <1>3, <1>5 DEF IInv, RowsBefore, Abort
  <2>2. failed' # 0
    BY <1>2, <1>5 DEF Abort
  <2>3. Tally'
    BY <2>2 DEF Tally
  <2>4. QED
    BY <1>1, <2>1, <2>3
<1>6. QED
  BY <1>4, <1>5

\* Before monitoring is up, and once the process has ended, the chain of
\* ownership claims nothing.
LEMMA ProvenanceIdle ==
    ASSUME pc' \in {"next", "monUninstall", "monUp"} \cup Final
    PROVE  Provenance'
  BY DEF Provenance, Final

\* While the loop stays at an entry, the try and its resources stay the same.
LEMMA SameTry ==
    ASSUME UNCHANGED <<proc, entry>>
    PROVE  /\ Try' = Try /\ Instrument' = Instrument
           /\ IsLogs' = IsLogs /\ LoadSource' = LoadSource
  BY DEF Try, Instrument, IsLogs, LoadSource

\* A step that leaves helm alone, begins no installation after Ctrl-C and stays
\* before the first of them, keeps what is known about helm.
LEMMA HelmStep ==
    ASSUME HelmInv, UNCHANGED <<cancelled, installing, interrupted>>,
           cancelled => pc' \notin {"monUp", "stackUp"},
           pc \in {"next", "monUninstall"} /\ cancelled
               => pc' \in {"next", "monUninstall"}
    PROVE  HelmInv'
<1>1. cancelled => UnderWay' = {}
  BY DEF UnderWay
<1>2. QED
  BY <1>1 DEF HelmInv

LEMMA HelmInductive == TypeOK /\ HelmInv /\ [Next]_vars => HelmInv'
<1> SUFFICES ASSUME TypeOK, HelmInv, [Next]_vars
             PROVE  HelmInv'
  OBVIOUS
<1>1. CASE StartEntry
  BY <1>1, HelmStep DEF StartEntry, Go, Abort, Remains
<1>2. CASE EndBatch
  BY <1>2, HelmStep DEF EndBatch, ExitCode, Go, HelmInv, UnderWay
<1>3. CASE MonUninstall \/ StackUninstall
  BY <1>3, HelmStep DEF MonUninstall, StackUninstall, Uninstall, Go, Abort, Remains
<1>4. CASE MonUp \/ StackUp
  <2> DEFINE r == IF pc = "monUp" THEN "monitoring" ELSE Instrument
  <2>1. /\ pc \in {"monUp", "stackUp"} /\ pc \in Stages \ {"next"}
        /\ installing = {} /\ UNCHANGED <<cancelled, interrupted>>
        /\ cancelled => <<r, Try>> \in interrupted
    BY <1>4 DEF MonUp, StackUp, Install, HelmInv, UnderWay, Stages
  <2>2. CASE UNCHANGED installing
    <3>1. pc' \in {"next", "stackUninstall", "loadPurge"}
      BY <1>4 DEF MonUp, StackUp, Install, Go, Abort
    <3>2. QED
      BY <2>1, <2>2, <3>1, HelmStep
  <2>3. CASE cancelled /\ Abort /\ installing' = installing \cup {<<r, Try>>}
    BY <2>1, <2>3 DEF HelmInv, Abort, UnderWay
  <2>4. QED
    BY <1>4, <2>2, <2>3 DEF MonUp, StackUp, Install
<1>5. CASE LoadPurge \/ LoadUp
  BY <1>5, HelmStep DEF LoadPurge, LoadUp, Go, Abort, Remains
<1>6. CASE Forward \/ ForwardFails \/ Query \/ StopLoad
  BY <1>6, HelmStep
     DEF Forward, ForwardFails, Query, StopLoad, LoadEnds, Go, Abort, Remains
<1>7. CASE CollectForward \/ CollectForwardFails \/ Collect
  BY <1>7, HelmStep
     DEF CollectForward, CollectForwardFails, Collect, Go, Abort, Remains
<1>8. CASE Save
  <2>1. /\ pc = "save" /\ pc' = "next" /\ UNCHANGED <<installing, interrupted>>
    BY <1>8 DEF Save, Abort
  <2>2. installing = {} /\ UnderWay' = {}
    BY <2>1 DEF HelmInv, UnderWay
  <2>3. QED
    BY <2>1, <2>2 DEF HelmInv
<1>9. CASE InstallGoesOn \/ PodsChange
  <2>1. UNCHANGED <<pc, entry, proc, cancelled, installing, interrupted>>
    BY <1>9 DEF InstallGoesOn, PodsChange, Remains
  <2>2. UnderWay' = UnderWay
    BY <2>1, SameTry DEF UnderWay
  <2>3. QED
    BY <2>1, <2>2 DEF HelmInv
<1>10. CASE Cancel
  <2>1. /\ ~cancelled /\ pc \in Stages /\ interrupted' = UnderWay
        /\ UNCHANGED <<pc, entry, proc, installing>>
    BY <1>10 DEF Cancel
  <2>2. UnderWay' = UnderWay /\ installing = {}
    BY <2>1, SameTry DEF UnderWay, HelmInv
  <2>3. \A i \in UnderWay : i[1] # "log-producer"
    BY <2>1, DistinctResources DEF UnderWay, Stages
  <2>4. QED
    BY <2>1, <2>2, <2>3 DEF HelmInv
<1>11. CASE Kill \/ Restart
  BY <1>11 DEF Kill, Restart, HelmInv, UnderWay, Final
<1>12. CASE Finished \/ UNCHANGED vars
  <2>1. UNCHANGED <<pc, entry, proc, cancelled, installing, interrupted>>
    BY <1>12 DEF Finished, vars
  <2>2. UnderWay' = UnderWay
    BY <2>1, SameTry DEF UnderWay
  <2>3. QED
    BY <2>1, <2>2 DEF HelmInv
<1>13. QED
  BY <1>1, <1>2, <1>3, <1>4, <1>5, <1>6, <1>7, <1>8, <1>9, <1>10, <1>11,
     <1>12 DEF Next, Step

(***************************************************************************)
(* The inductive invariant is preserved by every step.                     *)
(***************************************************************************)
LEMMA InvariantInductive == IInv /\ TypeOK' /\ HelmInv' /\ [Next]_vars => IInv'
<1> SUFFICES ASSUME IInv, TypeOK', HelmInv', [Next]_vars
             PROVE  IInv'
  OBVIOUS
<1> DEFINE Table == RowsMeasureTheirTry /\ RowsBefore /\ OneRowPerTry /\ Tally
<1>0. TypeOK
  BY DEF IInv
<1>1. CASE StartEntry
  <2>1. Table'
    BY <1>1, TableStep DEF StartEntry, Go, Remains, NotMeasuring
  <2>2. Provenance'
    BY <1>1, ProvenanceIdle DEF StartEntry, Go, Remains, NotMeasuring, Abort, Final
  <2>3. StrayInv'
    BY <1>1 DEF StartEntry, Go, Remains, NotMeasuring, IInv, StrayInv, Abort
  <2>4. QED
    BY <2>1, <2>2, <2>3 DEF IInv
<1>2. CASE EndBatch
  <2>1. Table'
    BY <1>2, TableStep DEF EndBatch, ExitCode, Go, NotMeasuring
  <2>2. Provenance'
    BY <1>2, ProvenanceIdle DEF EndBatch, ExitCode, Go, NotMeasuring, Abort, Final
  <2>3. StrayInv'
    BY <1>2 DEF EndBatch, ExitCode, Go, NotMeasuring, IInv, StrayInv, Abort
  <2>4. QED
    BY <2>1, <2>2, <2>3 DEF IInv
<1>3. CASE MonUninstall
  <2>1. Table'
    BY <1>3, TableStep DEF MonUninstall, Uninstall, Go, Remains, NotMeasuring
  <2>2. Provenance'
    BY <1>3, ProvenanceIdle DEF MonUninstall, Uninstall, Go, Remains, NotMeasuring, Abort, Final
  <2>3. StrayInv'
    BY <1>3, <1>0, SameTry, StageFacts, DistinctResources
       DEF MonUninstall, Uninstall, Go, Remains, NotMeasuring, IInv, StrayInv, Stages, TypeOK, Abort
  <2>4. QED
    BY <2>1, <2>2, <2>3 DEF IInv
<1>4. CASE MonUp
  <2>1. Table'
    BY <1>4, TableStep DEF MonUp, Install, Go, Remains, NotMeasuring
  <2>2. Provenance'
    <3>1. CASE Abort
      BY <3>1, ProvenanceIdle DEF Abort
    <3>2. CASE ~Abort
      BY <1>4, <1>0, <3>2, SameTry, StageFacts, DistinctResources
         DEF MonUp, Install, Go, Remains, NotMeasuring, IInv, Provenance, Stages, TypeOK
    <3>3. QED
      BY <3>1, <3>2
  <2>3. StrayInv'
    BY <1>4, <1>0, SameTry, StageFacts, DistinctResources
       DEF MonUp, Install, Go, Remains, NotMeasuring, IInv, StrayInv, Stages, TypeOK, Abort
  <2>4. QED
    BY <2>1, <2>2, <2>3 DEF IInv
<1>5. CASE StackUninstall
  <2>1. Table'
    BY <1>5, TableStep DEF StackUninstall, Uninstall, Go, Remains, NotMeasuring
  <2>2. Provenance'
    <3>1. CASE Abort
      BY <3>1, ProvenanceIdle DEF Abort
    <3>2. CASE ~Abort
      BY <1>5, <1>0, <3>2, SameTry, StageFacts, DistinctResources
         DEF StackUninstall, Uninstall, Go, Remains, NotMeasuring, IInv, Provenance, Stages, TypeOK
    <3>3. QED
      BY <3>1, <3>2
  <2>3. StrayInv'
    BY <1>5, <1>0, SameTry, StageFacts, DistinctResources
       DEF StackUninstall, Uninstall, Go, Remains, NotMeasuring, IInv, StrayInv, Stages, TypeOK, Abort
  <2>4. QED
    BY <2>1, <2>2, <2>3 DEF IInv
<1>6. CASE StackUp
  <2>1. Table'
    BY <1>6, TableStep DEF StackUp, Install, Go, Remains, NotMeasuring
  <2>2. Provenance'
    <3>1. CASE Abort
      BY <3>1, ProvenanceIdle DEF Abort
    <3>2. CASE ~Abort
      BY <1>6, <1>0, <3>2, SameTry, StageFacts, DistinctResources
         DEF StackUp, Install, Go, Remains, NotMeasuring, IInv, Provenance, Stages, TypeOK
    <3>3. QED
      BY <3>1, <3>2
  <2>3. StrayInv'
    BY <1>6, <1>0, SameTry, StageFacts, DistinctResources
       DEF StackUp, Install, Go, Remains, NotMeasuring, IInv, StrayInv, Stages, TypeOK, Abort
  <2>4. QED
    BY <2>1, <2>2, <2>3 DEF IInv
<1>7. CASE LoadPurge
  <2>1. Table'
    BY <1>7, TableStep DEF LoadPurge, Go, Remains, NotMeasuring
  <2>2. Provenance'
    <3>1. CASE Abort
      BY <3>1, ProvenanceIdle DEF Abort
    <3>2. CASE ~Abort
      BY <1>7, <1>0, <3>2, SameTry, StageFacts, DistinctResources
         DEF LoadPurge, Go, Remains, NotMeasuring, IInv, Provenance, Stages, TypeOK
    <3>3. QED
      BY <3>1, <3>2
  <2>3. StrayInv'
    BY <1>7, <1>0, SameTry, StageFacts, DistinctResources
       DEF LoadPurge, LoadSource, Go, Remains, NotMeasuring, IInv, StrayInv, Stages, TypeOK, Abort
  <2>4. QED
    BY <2>1, <2>2, <2>3 DEF IInv
<1>8. CASE LoadUp
  <2>1. Table'
    BY <1>8, TableStep DEF LoadUp, Go, Remains, NotMeasuring
  <2>2. Provenance'
    <3>1. CASE Abort
      BY <3>1, ProvenanceIdle DEF Abort
    <3>2. CASE ~Abort
      BY <1>8, <1>0, <3>2, SameTry, StageFacts, DistinctResources
         DEF LoadUp, Go, Remains, NotMeasuring, IInv, Provenance, Stages, TypeOK
    <3>3. QED
      BY <3>1, <3>2
  <2>3. StrayInv'
    BY <1>8, <1>0, SameTry, StageFacts, DistinctResources
       DEF LoadUp, LoadSource, Go, Remains, NotMeasuring, IInv, StrayInv, Stages, TypeOK, Abort
  <2>4. QED
    BY <2>1, <2>2, <2>3 DEF IInv
<1>9. CASE Forward
  <2>1. Table'
    BY <1>9, TableStep DEF Forward, Go, Remains, NotMeasuring
  <2>2. Provenance'
    <3>1. CASE Abort
      BY <3>1, ProvenanceIdle DEF Abort
    <3>2. CASE ~Abort
      BY <1>9, <1>0, <3>2, SameTry, StageFacts, DistinctResources
         DEF Forward, Go, Remains, NotMeasuring, IInv, Provenance, Stages, TypeOK
    <3>3. QED
      BY <3>1, <3>2
  <2>3. StrayInv'
    BY <1>9, <1>0, SameTry, StageFacts, DistinctResources
       DEF Forward, Go, Remains, NotMeasuring, IInv, StrayInv, Stages, TypeOK, Abort
  <2>4. QED
    BY <2>1, <2>2, <2>3 DEF IInv
<1>10. CASE ForwardFails
  <2>1. Table'
    BY <1>10, TableStep DEF ForwardFails, LoadEnds, Go, Remains, NotMeasuring
  <2>2. Provenance'
    <3>1. CASE Abort
      BY <3>1, ProvenanceIdle DEF Abort
    <3>2. CASE ~Abort
      BY <1>10, <1>0, <3>2, SameTry, StageFacts, DistinctResources
         DEF ForwardFails, LoadEnds, Go, Remains, NotMeasuring, IInv, Provenance, Stages, TypeOK
    <3>3. QED
      BY <3>1, <3>2
  <2>3. StrayInv'
    BY <1>10, <1>0, SameTry, StageFacts, DistinctResources
       DEF ForwardFails, LoadEnds, Go, Remains, NotMeasuring, IInv, StrayInv, Stages, TypeOK, Abort
  <2>4. QED
    BY <2>1, <2>2, <2>3 DEF IInv
<1>11. CASE Query
  <2>1. Table'
    BY <1>11, TableStep DEF Query, LoadEnds, Go, Remains, NotMeasuring
  <2>2. Provenance'
    <3>1. CASE Abort
      BY <3>1, ProvenanceIdle DEF Abort
    <3>2. CASE ~Abort
      BY <1>11, <1>0, <3>2, SameTry, StageFacts, DistinctResources
         DEF Query, LoadEnds, Go, Remains, NotMeasuring, IInv, Provenance, Stages, TypeOK
    <3>3. QED
      BY <3>1, <3>2
  <2>3. StrayInv'
    BY <1>11, <1>0, SameTry, StageFacts, DistinctResources
       DEF Query, LoadEnds, Go, Remains, NotMeasuring, IInv, StrayInv, Stages, TypeOK, Abort
  <2>4. QED
    BY <2>1, <2>2, <2>3 DEF IInv
<1>12. CASE StopLoad
  <2>1. Table'
    BY <1>12, TableStep DEF StopLoad, Go, Remains, NotMeasuring
  <2>2. Provenance'
    <3>1. CASE Abort
      BY <3>1, ProvenanceIdle DEF Abort
    <3>2. CASE ~Abort
      BY <1>12, <1>0, <3>2, SameTry, StageFacts, DistinctResources
         DEF StopLoad, Go, Remains, NotMeasuring, IInv, Provenance, Stages, TypeOK
    <3>3. QED
      BY <3>1, <3>2
  <2>3. StrayInv'
    BY <1>12, <1>0, SameTry, StageFacts, DistinctResources
       DEF StopLoad, Go, Remains, NotMeasuring, IInv, StrayInv, Stages, TypeOK, Abort
  <2>4. QED
    BY <2>1, <2>2, <2>3 DEF IInv
<1>13. CASE CollectForward
  <2>1. Table'
    BY <1>13, TableStep DEF CollectForward, Go, Remains, NotMeasuring
  <2>2. Provenance'
    <3>1. CASE Abort
      BY <3>1, ProvenanceIdle DEF Abort
    <3>2. CASE ~Abort
      BY <1>13, <1>0, <3>2, SameTry, StageFacts, DistinctResources
         DEF CollectForward, Go, Remains, NotMeasuring, IInv, Provenance, Stages, TypeOK
    <3>3. QED
      BY <3>1, <3>2
  <2>3. StrayInv'
    BY <1>13, <1>0, SameTry, StageFacts, DistinctResources
       DEF CollectForward, Go, Remains, NotMeasuring, IInv, StrayInv, Stages, TypeOK, Abort
  <2>4. QED
    BY <2>1, <2>2, <2>3 DEF IInv
<1>14. CASE CollectForwardFails
  <2>1. Table'
    BY <1>14, TableStep DEF CollectForwardFails, Go, Remains, NotMeasuring
  <2>2. Provenance'
    BY <1>14, ProvenanceIdle DEF CollectForwardFails, Go, Remains, NotMeasuring, Abort, Final
  <2>3. StrayInv'
    BY <1>14, <1>0, SameTry, StageFacts, DistinctResources
       DEF CollectForwardFails, Go, Remains, NotMeasuring, IInv, StrayInv, Stages, TypeOK, Abort
  <2>4. QED
    BY <2>1, <2>2, <2>3 DEF IInv
<1>15. CASE Collect
  <2>1. Table'
    BY <1>15, TableStep DEF Collect, Go, Remains, NotMeasuring
  <2>2. Provenance'
    <3>1. CASE Abort
      BY <3>1, ProvenanceIdle DEF Abort
    <3>2. CASE ~Abort
      BY <1>15, <1>0, <3>2, SameTry, StageFacts, DistinctResources
         DEF Collect, Go, Remains, NotMeasuring, IInv, Provenance, Stages, TypeOK
    <3>3. QED
      BY <3>1, <3>2
  <2>3. StrayInv'
    BY <1>15, <1>0, SameTry, StageFacts, DistinctResources
       DEF Collect, Go, Remains, NotMeasuring, IInv, StrayInv, Stages, TypeOK, Abort
  <2>4. QED
    BY <2>1, <2>2, <2>3 DEF IInv
<1>16. CASE Save /\ Abort /\ UNCHANGED rows
  <2>1. Table'
    BY <1>16, TableStep DEF Save
  <2>2. Provenance'
    BY <1>16, ProvenanceIdle DEF Abort
  <2>3. StrayInv'
    BY <1>16 DEF Save, IInv, StrayInv, Abort
  <2>4. QED
    BY <2>1, <2>2, <2>3 DEF IInv
<1>17. CASE /\ Save /\ rows' = Append(rows, NewRow) /\ pc' = "next"
            /\ entry' = entry + 1 /\ failed' \in {failed, failed + 1}
  <2> DEFINE row == [of |-> Try, mon |-> Try, stack |-> Try, load |-> Try]
  <2>1. /\ rows' = Append(rows, row) /\ entry' = entry + 1
        /\ failed' \in {failed, failed + 1} /\ UNCHANGED proc
    BY <1>17 DEF Save, IInv, Provenance, NewRow
  <2>2. entry \in Nat /\ proc \in Nat /\ failed \in Nat
    BY <1>0, ExperimentAssumption DEF TypeOK
  <2>3. Len(rows) \in Nat /\ DOMAIN rows = 1..Len(rows)
    BY <1>0 DEF TypeOK
  <2>4. /\ DOMAIN rows' = 1..(Len(rows) + 1)
        /\ \A k \in DOMAIN rows : rows'[k] = rows[k]
        /\ rows'[Len(rows) + 1] = row
    BY <1>0, <2>1, <2>3 DEF TypeOK
  <2>5. \A k \in DOMAIN rows : rows[k].of \in Nat \X Nat
    BY <1>0, RowFacts
  <2>6. \A k \in DOMAIN rows : rows[k].of # Try
    BY <2>2, <2>5 DEF IInv, RowsBefore, Try
  <2>7. RowsMeasureTheirTry'
    <3>1. ASSUME NEW k \in DOMAIN rows'
          PROVE  {rows'[k].mon, rows'[k].stack, rows'[k].load} = {rows'[k].of}
      <4>1. CASE k \in DOMAIN rows
        BY <2>4, <4>1 DEF IInv, RowsMeasureTheirTry
      <4>2. CASE k = Len(rows) + 1
        <5>1. /\ rows'[k].of = Try /\ rows'[k].mon = Try
              /\ rows'[k].stack = Try /\ rows'[k].load = Try
          BY <2>4, <4>2
        <5>2. QED
          BY <5>1
      <4>3. k \in DOMAIN rows \cup {Len(rows) + 1}
        BY <2>3, <2>4, IntervalGrows
      <4>4. QED
        BY <2>3, <4>1, <4>2, <4>3
    <3>2. QED
      BY <3>1 DEF RowsMeasureTheirTry
  <2>8. OneRowPerTry'
    BY <2>3, <2>4, <2>6 DEF IInv, OneRowPerTry
  <2>9. RowsBefore'
    BY <2>1, <2>2, <2>3, <2>4, <2>5 DEF IInv, RowsBefore, Try
  <2>10. Tally'
    <3>1. SUFFICES ASSUME failed' = 0, NEW e \in 1..(entry' - 1)
                   PROVE  \E k \in DOMAIN rows' : rows'[k].of = <<proc, e>>
      BY <2>1 DEF Tally, HasRow
    <3>2. failed = 0 /\ (e \in 1..(entry - 1) \/ e = entry)
      BY <2>1, <2>2, <3>1
    <3>3. CASE e \in 1..(entry - 1)
      <4>1. PICK k \in DOMAIN rows : rows[k].of = <<proc, e>>
        BY <3>2, <3>3 DEF IInv, Tally, HasRow
      <4>2. QED
        BY <2>3, <2>4, <4>1
    <3>4. CASE e = entry
      <4>1. rows'[Len(rows) + 1].of = <<proc, e>>
        BY <2>4, <3>4 DEF Try
      <4>2. QED
        BY <2>3, <2>4, <4>1
    <3>5. QED
      BY <3>2, <3>3, <3>4
  <2>11. Provenance'
    BY <1>17, ProvenanceIdle DEF Save, Abort
  <2>12. StrayInv'
    BY <1>17 DEF Save, IInv, StrayInv, Abort
  <2>13. QED
    BY <2>7, <2>8, <2>9, <2>10, <2>11, <2>12 DEF IInv
<1>18. CASE Cancel \/ PodsChange \/ Finished \/ UNCHANGED vars
  <2>1. UNCHANGED <<owner, rows, proc, pc, entry, failed, loadErr, ranOn,
                    measured, mayStray>>
    BY <1>18 DEF Cancel, PodsChange, Finished, vars
  <2>2. Table'
    BY <2>1, TableStep
  <2>3. Provenance' /\ StrayInv'
    BY <2>1, SameTry DEF IInv, Provenance, StrayInv
  <2>4. QED
    BY <2>2, <2>3 DEF IInv
<1>19. CASE Kill
  <2>1. Table'
    BY <1>19, TableStep DEF Kill
  <2>2. Provenance'
    BY <1>19, ProvenanceIdle DEF Kill, Final
  <2>3. StrayInv'
    BY <1>19 DEF Kill, StrayInv
  <2>4. QED
    BY <2>1, <2>2, <2>3 DEF IInv
<1>20. CASE Restart
  <2>1. UNCHANGED rows /\ entry' = 1 /\ proc' = proc + 1 /\ failed' = 0
    BY <1>20 DEF Restart
  <2>2. RowsMeasureTheirTry' /\ OneRowPerTry'
    BY <2>1 DEF IInv, RowsMeasureTheirTry, OneRowPerTry
  <2>3. RowsBefore'
    BY <1>0, <2>1, RowFacts DEF IInv, RowsBefore, TypeOK
  <2>4. Tally'
    BY <2>1 DEF Tally
  <2>5. Provenance'
    BY <1>20, ProvenanceIdle DEF Restart
  <2>6. StrayInv'
    BY <1>20 DEF Restart, IInv, StrayInv, Final
  <2>7. QED
    BY <2>2, <2>3, <2>4, <2>5, <2>6 DEF IInv
<1>21. CASE InstallGoesOn
  <2>1. UNCHANGED <<rows, proc, pc, entry, failed, loadErr, ranOn, measured,
                    mayStray>>
    BY <1>21 DEF InstallGoesOn, Remains, NotMeasuring
  <2>2. PICK i \in installing : owner' = [owner EXCEPT ![i[1]] = i[2]]
    BY <1>21 DEF InstallGoesOn
  <2>3. pc \in {"next", "monUninstall"} /\ i[1] # "log-producer"
    BY <2>2 DEF IInv, HelmInv
  <2>4. Table'
    BY <2>1, TableStep
  <2>5. Provenance'
    BY <2>1, <2>3, ProvenanceIdle
  <2>6. owner'["log-producer"] = owner["log-producer"]
    BY <1>0, <2>2, <2>3 DEF TypeOK, Resources
  <2>7. StrayInv'
    BY <2>1, <2>6, SameTry DEF IInv, StrayInv
  <2>8. QED
    BY <2>4, <2>5, <2>7 DEF IInv
<1>22. QED
  BY <1>1, <1>2, <1>3, <1>4, <1>5, <1>6, <1>7, <1>8, <1>9, <1>10, <1>11,
     <1>12, <1>13, <1>14, <1>15, <1>16, <1>17, <1>18, <1>19, <1>20, <1>21,
     SaveCases DEF Next, Step

LEMMA InvariantInit == Init => IInv
<1> SUFFICES ASSUME Init, TypeOK PROVE IInv
  BY TypeInit
<1>1. rows = <<>> /\ pc = "next" /\ failed = 0 /\ entry = 1
  BY DEF Init
<1>2. DOMAIN rows = {}
  BY <1>1
<1>3. Provenance
  BY <1>1 DEF Provenance
<1>4. RowsMeasureTheirTry /\ RowsBefore /\ OneRowPerTry
  BY <1>2 DEF RowsMeasureTheirTry, RowsBefore, OneRowPerTry
<1>5. Tally
  BY <1>1 DEF Tally
<1>6. StrayInv
  BY DEF Init, StrayInv, Resources
<1>7. HelmInv
  BY DEF Init, HelmInv
<1>8. QED
  BY <1>3, <1>4, <1>5, <1>6, <1>7 DEF IInv

THEOREM Invariant == Spec => []IInv
<1>1. IInv /\ [Next]_vars => IInv'
  BY InvariantInductive, TypeStep, HelmInductive DEF IInv
<1>2. QED
  BY <1>1, InvariantInit, PTL DEF Spec

(***************************************************************************)
(* Every saved row was measured on what its own try set up, for every      *)
(* batch file, number of processes and pattern of failures.                *)
(***************************************************************************)
THEOREM RowsFaithful == Spec => [](RowsMeasureTheirTry /\ OneRowPerTry)
<1>1. IInv => RowsMeasureTheirTry /\ OneRowPerTry
  BY DEF IInv
<1>2. QED
  BY <1>1, Invariant, PTL

(***************************************************************************)
(* Between experiments a log producer runs only for one of the three       *)
(* recorded reasons: this is about the defer of runLogExperiment.          *)
(***************************************************************************)
THEOREM StraysExcused == Spec => []StrayIsExcused
<1>1. IInv => StrayIsExcused
  BY DEF IInv, StrayInv, StrayIsExcused, Final
<1>2. QED
  BY <1>1, Invariant, PTL

(***************************************************************************)
(* Ctrl-C comes anywhere, the loop walks on through the remaining entries  *)
(* and helm's goroutine may go on beside it: whatever still appears in the *)
(* cluster belongs to the one installation that Ctrl-C came upon.          *)
(***************************************************************************)
THEOREM NothingNewAfterCancel == Spec => CancelStartsNothingNew
<1> DEFINE A == cancelled /\ cancelled' =>
                  /\ \A r \in Resources : \/ owner'[r] \in {owner[r], None}
                                          \/ <<r, owner'[r]>> \in interrupted
                  /\ rows' = rows
<1>1. IInv /\ [Next]_vars => A
  <2> SUFFICES ASSUME TypeOK, HelmInv, [Next]_vars, cancelled, cancelled'
               PROVE  A
    BY DEF IInv
  <2> USE DEF TypeOK
  <2>1. CASE MonUninstall \/ StackUninstall
    BY <2>1 DEF MonUninstall, StackUninstall, Uninstall, Remains
  <2>2. CASE MonUp
    BY <2>2 DEF MonUp, Install, HelmInv, UnderWay
  <2>3. CASE StackUp
    BY <2>3 DEF StackUp, Install, HelmInv, UnderWay
  <2>4. CASE InstallGoesOn
    <3>1. PICK i \in installing : owner' = [owner EXCEPT ![i[1]] = i[2]]
      BY <2>4 DEF InstallGoesOn
    <3>2. i \in interrupted /\ i = <<i[1], i[2]>> /\ i[1] \in Resources
      BY <3>1 DEF HelmInv
    <3>3. QED
      BY <2>4, <3>1, <3>2 DEF InstallGoesOn, Remains
  <2>5. CASE LoadPurge \/ LoadUp \/ StopLoad
    BY <2>5 DEF LoadPurge, LoadUp, StopLoad, Remains
  <2>6. CASE Forward \/ ForwardFails \/ Query \/ CollectForward
             \/ CollectForwardFails \/ Collect \/ StartEntry \/ EndBatch
    BY <2>6 DEF Forward, ForwardFails, Query, CollectForward, Remains,
                CollectForwardFails, Collect, StartEntry, EndBatch
  <2>7. CASE Save
    BY <2>7 DEF Save
  <2>8. CASE Cancel \/ Kill \/ Restart \/ PodsChange \/ Finished \/ UNCHANGED vars
    BY <2>8 DEF Cancel, Kill, Restart, PodsChange, Finished, vars
  <2>9. QED
    BY <2>1, <2>2, <2>3, <2>4, <2>5, <2>6, <2>7, <2>8 DEF Next, Step
<1>2. A => [A]_vars
  OBVIOUS
<1>3. QED
  BY <1>1, Invariant, PTL DEF Spec, CancelStartsNothingNew

(***************************************************************************)
(* Refinement.  The rows of the abstract batch are the rows of the table   *)
(* with the three owners folded into one.                                  *)
(***************************************************************************)
AbstractRows == [k \in DOMAIN rows |-> Measured(rows[k])]

LEMMA AppendMaps ==
    ASSUME TypeOK, RowsMeasureTheirTry, RowsMeasureTheirTry',
           NEW row, rows' = Append(rows, row), row.of = Try
    PROVE  AbstractRows' = Append(AbstractRows, [of |-> Try, on |-> Try])
<1> DEFINE new == [of |-> Try, on |-> Try]
           n == Len(rows)
           S == {Measured(rows[k]) : k \in DOMAIN rows} \cup {new}
<1>1. n \in Nat /\ DOMAIN rows = 1..n
  BY DEF TypeOK
<1>2. /\ DOMAIN rows' = 1..(n + 1)
      /\ \A k \in 1..n : rows'[k] = rows[k]
      /\ rows'[n + 1] = row
  BY <1>1 DEF TypeOK
<1>3. Measured(rows'[n + 1]) = new
  <2>1. n + 1 \in DOMAIN rows'
    BY <1>1, <1>2
  <2>2. {rows'[n + 1].mon, rows'[n + 1].stack, rows'[n + 1].load} = {rows'[n + 1].of}
    BY <2>1 DEF RowsMeasureTheirTry
  <2>3. rows'[n + 1].of = Try
    BY <1>2
  <2>4. QED
    BY <2>2, <2>3 DEF Measured
<1>4. AbstractRows \in [1..n -> S]
  BY <1>1 DEF AbstractRows
<1>5. AbstractRows \in Seq(S) /\ Len(AbstractRows) = n
  BY <1>1, <1>4, SeqDef
<1>6. AbstractRows' \in [1..(n + 1) -> S]
  BY <1>1, <1>2, <1>3, IntervalGrows DEF AbstractRows
<1>7. AbstractRows' \in Seq(S) /\ Len(AbstractRows') = n + 1
  BY <1>1, <1>6, SeqDef
<1>8. /\ Append(AbstractRows, new) \in Seq(S)
      /\ Len(Append(AbstractRows, new)) = n + 1
      /\ \A k \in 1..n : Append(AbstractRows, new)[k] = AbstractRows[k]
      /\ Append(AbstractRows, new)[n + 1] = new
  BY <1>5, AppendProperties
<1>9. \A k \in 1..(n + 1) : AbstractRows'[k] = Append(AbstractRows, new)[k]
  <2>1. \A k \in 1..n : AbstractRows'[k] = AbstractRows[k]
    BY <1>1, <1>2 DEF AbstractRows
  <2>2. AbstractRows'[n + 1] = new
    BY <1>1, <1>2, <1>3 DEF AbstractRows
  <2>3. QED
    BY <1>1, <1>8, <2>1, <2>2, IntervalGrows
<1>10. QED
  BY <1>7, <1>8, <1>9, SeqEqual

Outcome == IF pc \in Stages THEN "running" ELSE pc

\* A step of the command that neither saves nor ends anything stutters.
LEMMA StutterStep ==
    ASSUME UNCHANGED <<proc, entry, rows, failed>>, pc \in Stages, pc' \in Stages
    PROVE  UNCHANGED AbstractBatch!vars
<1>1. UNCHANGED AbstractRows
  BY DEF AbstractRows, Measured
<1>2. QED
  BY <1>1 DEF AbstractBatch!vars, AbstractRows

\* Giving an entry up is the abstract Skip.
LEMMA AbortStep ==
    ASSUME Abort, UNCHANGED <<proc, rows>>, pc \in Stages, entry <= Total
    PROVE  AbstractBatch!Skip
<1>1. UNCHANGED AbstractRows
  BY DEF AbstractRows, Measured
<1>2. pc' \in Stages
  BY DEF Abort, Stages
<1>3. QED
  BY <1>1, <1>2 DEF AbstractBatch!Skip, AbstractRows, Abort

LEMMA RefinementInit == Init => AbstractBatch!Init
<1> SUFFICES ASSUME Init PROVE AbstractBatch!Init
  OBVIOUS
<1>1. AbstractRows = <<>>
  BY DEF Init, AbstractRows
<1>2. QED
  BY <1>1 DEF Init, AbstractRows, AbstractBatch!Init, Stages

LEMMA RefinementStep ==
    IInv /\ IInv' /\ [Next]_vars => [AbstractBatch!Next]_(AbstractBatch!vars)
<1> SUFFICES ASSUME IInv, IInv', [Next]_vars
             PROVE  AbstractBatch!Next \/ UNCHANGED AbstractBatch!vars
  OBVIOUS
<1>0. TypeOK /\ (pc \in Stages \ {"next"} => entry \in 1..Total)
  BY StageFacts DEF IInv
<1>1. CASE \/ MonUninstall \/ MonUp \/ StackUninstall \/ StackUp \/ LoadPurge
           \/ LoadUp \/ Forward \/ ForwardFails \/ Query \/ StopLoad
           \/ CollectForward \/ CollectForwardFails \/ Collect
  <2>1. UNCHANGED <<rows, proc>> /\ pc \in Stages \ {"next"}
    BY <1>1 DEF MonUninstall, MonUp, StackUninstall, StackUp, LoadPurge, LoadUp,
                Forward, ForwardFails, Query, StopLoad, CollectForward,
                CollectForwardFails, Collect, Uninstall, Install, Remains, Stages
  <2>2. Abort \/ \E to \in Stages : Go(to)
    BY <1>1 DEF MonUninstall, MonUp, StackUninstall, StackUp, LoadPurge, LoadUp,
                Forward, ForwardFails, Query, StopLoad, CollectForward,
                CollectForwardFails, Collect, Uninstall, Install, LoadEnds, Stages
  <2>3. CASE Abort
    BY <1>0, <2>1, <2>3, AbortStep DEF AbstractBatch!Next
  <2>4. CASE \E to \in Stages : Go(to)
    BY <2>1, <2>4, StutterStep DEF Go
  <2>5. QED
    BY <2>2, <2>3, <2>4
<1>2. CASE StartEntry
  <2>1. entry <= Total /\ UNCHANGED <<rows, proc>> /\ pc \in Stages
    BY <1>2 DEF StartEntry, Remaining, Remains, Stages
  <2>2. CASE Abort
    BY <2>1, <2>2, AbortStep DEF AbstractBatch!Next
  <2>3. CASE Go("monUninstall")
    BY <2>1, <2>3, StutterStep DEF Go, Stages
  <2>4. QED
    BY <1>2, <2>2, <2>3 DEF StartEntry
<1>3. CASE EndBatch
  <2>1. /\ pc = "next" /\ entry > Total /\ entry = Total + 1
        /\ pc' = ExitCode /\ UNCHANGED <<entry, failed, proc, rows>>
    BY <1>0, <1>3, ExperimentAssumption
       DEF EndBatch, Remaining, Go, TypeOK
  <2>2. UNCHANGED AbstractRows
    BY <2>1 DEF AbstractRows, Measured
  <2>3. \A e : HasRow(e) <=> \E k \in DOMAIN AbstractRows :
                                AbstractRows[k].of = <<proc, e>>
    BY DEF HasRow, AbstractRows, Measured
  <2>4. failed \in Nat /\ (ExitCode = "ok" => \A e \in 1..Total : HasRow(e))
    <3>1. entry - 1 = Total /\ failed \in Nat /\ (ExitCode = "ok" => failed = 0)
      BY <1>0, <2>1, ExperimentAssumption DEF TypeOK, ExitCode
    <3>2. QED
      BY <3>1 DEF IInv, Tally
  <2>5. Outcome = "running" /\ Outcome' = ExitCode
    BY <2>1 DEF Outcome, Stages, ExitCode
  <2>6. \A e \in 1..Total : HasRow(e) => AbstractBatch!HasRow(e)
    BY <2>3 DEF AbstractBatch!HasRow, AbstractRows
  <2>7. CASE failed = 0
    BY <2>1, <2>2, <2>4, <2>5, <2>6, <2>7
       DEF AbstractBatch!Next, AbstractBatch!Finish, AbstractRows, Outcome, ExitCode
  <2>8. CASE failed > 0
    BY <2>1, <2>2, <2>5, <2>8
       DEF AbstractBatch!Next, AbstractBatch!Finish, AbstractRows, Outcome, ExitCode
  <2>9. QED
    BY <2>4, <2>7, <2>8
<1>4. CASE Save /\ Abort /\ UNCHANGED rows
  BY <1>0, <1>4, AbortStep DEF Save, Stages, AbstractBatch!Next
<1>5. CASE /\ Save /\ rows' = Append(rows, NewRow) /\ pc' = "next"
           /\ entry' = entry + 1 /\ failed' \in {failed, failed + 1}
  <2>1. /\ rows' = Append(rows, NewRow) /\ pc = "save" /\ pc' = "next"
        /\ entry' = entry + 1 /\ failed' \in {failed, failed + 1}
        /\ UNCHANGED proc
    BY <1>5 DEF Save
  <2>2. AbstractRows' = Append(AbstractRows, [of |-> Try, on |-> Try])
    BY <2>1, AppendMaps DEF IInv, NewRow
  <2>3. entry <= Total /\ pc \in Stages /\ pc' \in Stages
    BY <1>0, <2>1 DEF Stages
  <2>4. AbstractBatch!Record \/ AbstractBatch!RecordUnnoticed
    BY <2>1, <2>2, <2>3
       DEF AbstractBatch!Record, AbstractBatch!RecordUnnoticed, AbstractRows, Try
  <2>5. QED
    BY <2>4 DEF AbstractBatch!Next
<1>6. CASE Cancel \/ PodsChange \/ InstallGoesOn
  <2>1. UNCHANGED <<proc, entry, rows, failed, pc>>
    BY <1>6 DEF Cancel, PodsChange, InstallGoesOn, Remains
  <2>2. pc \in Stages
    BY <1>6 DEF Cancel, PodsChange, InstallGoesOn, IInv, HelmInv, Stages
  <2>3. QED
    BY <2>1, <2>2, StutterStep
<1>7. CASE Finished \/ UNCHANGED vars
  <2>1. UNCHANGED AbstractRows
    BY <1>7 DEF Finished, vars, AbstractRows, Measured
  <2>2. QED
    BY <1>7, <2>1 DEF Finished, vars, AbstractBatch!vars, AbstractRows
<1>8. CASE Kill
  <2>1. UNCHANGED AbstractRows
    BY <1>8 DEF Kill, AbstractRows, Measured
  <2>2. Outcome = "running" /\ Outcome' = "killed"
    BY <1>8 DEF Kill, Outcome, Stages
  <2>3. QED
    BY <1>8, <2>1, <2>2
       DEF Kill, AbstractBatch!Next, AbstractBatch!Kill, AbstractRows, Outcome
<1>9. CASE Restart
  <2>1. UNCHANGED AbstractRows
    BY <1>9 DEF Restart, AbstractRows, Measured
  <2>2. Outcome # "running" /\ Outcome' = "running"
    BY <1>9 DEF Restart, Outcome, Stages, Final
  <2>3. QED
    BY <1>9, <2>1, <2>2
       DEF Restart, AbstractBatch!Next, AbstractBatch!Restart, AbstractRows, Outcome
<1>10. QED
  BY <1>1, <1>2, <1>3, <1>4, <1>5, <1>6, <1>7, <1>8, <1>9, SaveCases
     DEF Next, Step

(***************************************************************************)
(* The command implements the abstract batch: for every batch file, each   *)
(* entry is recorded faithfully or counted as failed (by an interrupted    *)
(* save, both), and success is reported only when this process saved them  *)
(* all.                                                                    *)
(***************************************************************************)
THEOREM Refinement == Spec => ImplementsBatch
<1>1. QED
  BY RefinementInit, RefinementStep, Invariant, PTL
     DEF Spec, ImplementsBatch, AbstractBatch!Spec

=============================================================================
