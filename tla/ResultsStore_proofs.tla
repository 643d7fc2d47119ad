------------------------ MODULE ResultsStore_proofs ------------------------
(***************************************************************************)
(* The migration keeps every row, for any number of processes and rows.    *)
(* The invariant is about the window between the copy and the commit: the  *)
(* write lock keeps the copy equal to the table, and the legacy schema,    *)
(* under which nobody saves, keeps it so.                                  *)
(***************************************************************************)
EXTENDS ResultsStore, TLAPS

\* A migration that has come to its new table holds the lock, and nobody else does.
LockInv ==
    \A p \in Procs :
       /\ pc[p] \in InTx => lock = p
       /\ lock = p => pc[p] \in InTx \cup {"createNew"}

\* From the copy to the commit the copy is the table, in the legacy schema.
CopyInv ==
    \A p \in Procs :
       pc[p] \in {"dropOld", "rename", "commit"} => copied = rows /\ schema = "legacy"

\* Past the first statement the table exists.
ThereInv == \A p \in Procs : pc[p] \notin {"down", "err", "create"} => schema # "none"

\* Every row was there at the beginning or given to Save.
KnownInv == rows \subseteq given \cup tried

\* A migration that is going to fail has its excuse already.
ExcuseInv ==
    \A p \in Procs :
       /\ pc[p] \in {"dropNew", "createNew", "copy"} => schema # "new" \/ p \in excused
       /\ pc[p] = "createNew" /\ leftover /\ lock # p => p \in excused

IInv ==
    /\ TypeOK /\ LockInv /\ CopyInv /\ ThereInv /\ KnownInv /\ ExcuseInv
    /\ NoRowLost /\ OpenMeansNew /\ FailureExcused

LEMMA InitInv == Init => IInv
BY ResultsStoreAssumption
   DEF Init, IInv, TypeOK, Stages, InTx, LockInv, CopyInv, ThereInv, KnownInv, ExcuseInv,
       NoRowLost, OpenMeansNew, FailureExcused

\* What a step of p does to the stages: those of the others stay.
LEMMA GotoStage ==
    ASSUME TypeOK, NEW p \in Procs, NEW s \in Stages, Goto(p, s)
    PROVE  /\ pc' \in [Procs -> Stages] /\ pc'[p] = s
           /\ \A q \in Procs \ {p} : pc'[q] = pc[q]
BY DEF TypeOK, Goto

\* Steps that leave the database and the lock alone.
LEMMA QuietSteps ==
    ASSUME IInv, NEW p \in Procs,
           Start(p) \/ ListColumns(p) \/ DropOld(p) \/ Rename(p)
    PROVE  IInv'
<1> USE ResultsStoreAssumption DEF db, tx, hist
<1> DEFINE s == CASE Start(p) -> "create"
                  [] pc[p] = "dropOld" -> "rename"
                  [] pc[p] = "rename" -> "commit"
                  [] OTHER -> IF schema = "new" THEN "open" ELSE "dropNew"
<1>1. /\ s \in Stages /\ Goto(p, s)
      /\ UNCHANGED <<db, tx, given, tried, acked>>
  BY DEF Start, ListColumns, DropOld, Rename, Stages, InTx
<1>2. /\ pc' \in [Procs -> Stages] /\ pc'[p] = s
      /\ \A q \in Procs \ {p} : pc'[q] = pc[q]
  <2> HIDE DEF s
  <2> QED BY <1>1, GotoStage DEF IInv
<1>3. /\ excused' \subseteq Procs
      /\ \A q \in Procs \ {p} : q \in excused => q \in excused'
      /\ s # "create" => excused' = excused
  BY DEF Start, ListColumns, DropOld, Rename, IInv, TypeOK
<1>4. TypeOK' /\ KnownInv' /\ NoRowLost'
  BY <1>1, <1>2, <1>3 DEF IInv, TypeOK, KnownInv, NoRowLost
<1>5. LockInv' /\ CopyInv' /\ ThereInv'
  BY <1>1, <1>2
     DEF IInv, LockInv, CopyInv, ThereInv, Start, ListColumns, DropOld, Rename, InTx
<1>6. ExcuseInv' /\ OpenMeansNew' /\ FailureExcused'
  BY <1>1, <1>2, <1>3
     DEF IInv, ExcuseInv, OpenMeansNew, FailureExcused, Start, ListColumns, DropOld, Rename
<1> QED BY <1>4, <1>5, <1>6 DEF IInv

\* The steps that take the lock.
LEMMA LockSteps ==
    ASSUME IInv, NEW p \in Procs, DropNew(p) \/ CreateNew(p)
    PROVE  IInv'
<1> USE ResultsStoreAssumption DEF db, tx, hist
<1> DEFINE s == IF DropNew(p) THEN "createNew" ELSE "copy"
<1>1. s \in Stages /\ Goto(p, s) /\ UNCHANGED <<db, given, tried, acked>>
  BY DEF DropNew, CreateNew, Stages, InTx
<1>2. /\ pc' \in [Procs -> Stages] /\ pc'[p] = s
      /\ \A q \in Procs \ {p} : pc'[q] = pc[q]
  <2> HIDE DEF s
  <2> QED BY <1>1, GotoStage DEF IInv
<1>3. /\ lock' \in {lock, p} /\ (lock' # lock => lock = None)
      /\ s = "copy" => lock' = p
      /\ excused \subseteq excused' /\ excused' \subseteq Procs
  BY DEF DropNew, CreateNew, Unlocked, IInv, TypeOK
<1>4. TypeOK' /\ KnownInv' /\ NoRowLost'
  BY <1>1, <1>2, <1>3, <1>3 DEF IInv, TypeOK, KnownInv, NoRowLost, DropNew, CreateNew
<1>5. LockInv'
  BY <1>2, <1>3 DEF IInv, LockInv, DropNew, CreateNew, InTx, TypeOK
<1>6. CopyInv' /\ ThereInv'
  BY <1>1, <1>2, <1>3
     DEF IInv, LockInv, CopyInv, ThereInv, DropNew, CreateNew, InTx, Unlocked
<1>7. ExcuseInv' /\ OpenMeansNew' /\ FailureExcused'
  BY <1>1, <1>2, <1>3
     DEF IInv, LockInv, ExcuseInv, OpenMeansNew, FailureExcused, DropNew, CreateNew, InTx
<1> QED BY <1>4, <1>5, <1>6, <1>7 DEF IInv

\* A rollback to an excused error, and a crash.
LEMMA BackSteps ==
    ASSUME IInv, NEW p \in Procs, NEW s \in {"err", "down"},
           Goto(p, s), pc[p] # s,
           lock' = IF lock = p THEN None ELSE lock,
           copied' = IF lock = p THEN {} ELSE copied,
           excused \subseteq excused', excused' \subseteq Procs,
           s = "err" => p \in excused' \/ schema = "foreign",
           UNCHANGED <<db, given, tried, acked>>
    PROVE  IInv'
<1> USE ResultsStoreAssumption DEF db
<1>1. /\ pc' \in [Procs -> Stages] /\ pc'[p] = s
      /\ \A q \in Procs \ {p} : pc'[q] = pc[q]
  BY GotoStage DEF IInv, Stages
<1>2. TypeOK' /\ KnownInv' /\ NoRowLost' /\ ThereInv'
  BY <1>1 DEF IInv, TypeOK, KnownInv, NoRowLost, ThereInv
<1>3. LockInv' /\ CopyInv'
  BY <1>1 DEF IInv, TypeOK, LockInv, CopyInv, InTx
<1>4. ExcuseInv' /\ OpenMeansNew' /\ FailureExcused'
  BY <1>1 DEF IInv, ExcuseInv, OpenMeansNew, FailureExcused, LockInv, TypeOK
<1> QED BY <1>2, <1>3, <1>4 DEF IInv

\* Every way a start fails has its excuse.
LEMMA FailSteps ==
    ASSUME IInv, NEW p \in Procs,
           Disturbed(p) \/ Refused(p) \/ Crash(p) \/ (Copy(p) /\ schema # "legacy")
    PROVE  IInv'
<1> USE DEF db, tx, hist
<1>1. CASE Disturbed(p)
  BY <1>1, BackSteps DEF Disturbed, Rollback, IInv, TypeOK
<1>2. CASE Crash(p)
  BY <1>2, BackSteps DEF Crash, Goto, IInv, TypeOK
<1>3. CASE Refused(p)
  <2>1. p \in excused'
    BY <1>3 DEF Refused, Unlocked, IInv, ExcuseInv
  <2> QED BY <1>3, <2>1, BackSteps DEF Refused, Rollback, IInv, TypeOK
<1>4. CASE Copy(p) /\ schema # "legacy"
  <2>1. p \in excused \/ schema = "foreign"
    BY <1>4 DEF Copy, IInv, ExcuseInv, ThereInv, TypeOK
  <2> QED BY <1>4, <2>1, BackSteps DEF Copy, Rollback, IInv, TypeOK
<1> QED BY <1>1, <1>2, <1>3, <1>4

\* The copy, with the lock held.
LEMMA CopyStep ==
    ASSUME IInv, NEW p \in Procs, Copy(p), schema = "legacy"
    PROVE  IInv'
<1> USE ResultsStoreAssumption DEF db, hist
<1>1. /\ pc' \in [Procs -> Stages] /\ pc'[p] = "dropOld"
      /\ \A q \in Procs \ {p} : pc'[q] = pc[q]
  BY GotoStage DEF Copy, IInv, Stages, InTx
<1>2. copied' = rows /\ lock = p /\ UNCHANGED <<lock, db, hist>> /\ pc[p] = "copy"
  BY DEF Copy, IInv, LockInv, InTx
<1>3. TypeOK' /\ KnownInv' /\ NoRowLost' /\ ThereInv'
  BY <1>1, <1>2 DEF IInv, TypeOK, KnownInv, NoRowLost, ThereInv
<1>4. LockInv' /\ CopyInv'
  BY <1>1, <1>2 DEF IInv, LockInv, CopyInv, InTx
<1>5. ExcuseInv' /\ OpenMeansNew' /\ FailureExcused'
  BY <1>1, <1>2 DEF IInv, ExcuseInv, OpenMeansNew, FailureExcused
<1> QED BY <1>3, <1>4, <1>5 DEF IInv

\* The steps after which the table has the new schema.
LEMMA UpgradeSteps ==
    ASSUME IInv, NEW p \in Procs, CreateTable(p) \/ Commit(p)
    PROVE  IInv'
<1> USE ResultsStoreAssumption DEF db, tx
<1>1. CASE CreateTable(p)
  <2>1. /\ pc' \in [Procs -> Stages] /\ pc'[p] = "columns"
        /\ \A q \in Procs \ {p} : pc'[q] = pc[q]
    BY <1>1, GotoStage DEF CreateTable, IInv, Stages, InTx
  <2>2. /\ pc[p] = "create" /\ UNCHANGED <<rows, leftover, tx, given, tried, acked>>
        /\ \/ schema # "none" /\ UNCHANGED <<schema, excused>>
           \/ schema = "none" /\ schema' = "new" /\ excused' = excused \cup (Procs \ {p})
    BY <1>1 DEF CreateTable, Noticed
  <2>3. TypeOK' /\ KnownInv' /\ NoRowLost' /\ ThereInv'
    BY <2>1, <2>2 DEF IInv, TypeOK, KnownInv, NoRowLost, ThereInv
  <2>4. LockInv' /\ CopyInv'
    BY <2>1, <2>2 DEF IInv, LockInv, CopyInv, InTx
  <2>5. ExcuseInv' /\ OpenMeansNew' /\ FailureExcused'
    BY <2>1, <2>2 DEF IInv, ExcuseInv, OpenMeansNew, FailureExcused
  <2> QED BY <2>3, <2>4, <2>5 DEF IInv
<1>2. CASE Commit(p)
  <2>1. /\ pc' \in [Procs -> Stages] /\ pc'[p] = "open"
        /\ \A q \in Procs \ {p} : pc'[q] = pc[q]
    BY <1>2, GotoStage DEF Commit, IInv, Stages, InTx
  <2>2. /\ lock = p /\ rows' = rows /\ schema = "legacy" /\ schema' = "new"
        /\ leftover' = FALSE /\ lock' = None /\ copied' = {}
        /\ excused' = excused \cup (Procs \ {p})
        /\ UNCHANGED <<given, tried, acked>>
    BY <1>2 DEF Commit, Noticed, IInv, LockInv, CopyInv, InTx
  <2>3. TypeOK' /\ KnownInv' /\ NoRowLost' /\ ThereInv'
    BY <2>1, <2>2 DEF IInv, TypeOK, KnownInv, NoRowLost, ThereInv
  <2>4. LockInv' /\ CopyInv'
    BY <2>1, <2>2 DEF IInv, LockInv, CopyInv, InTx
  <2>5. ExcuseInv' /\ OpenMeansNew' /\ FailureExcused'
    BY <2>1, <2>2 DEF IInv, ExcuseInv, OpenMeansNew, FailureExcused
  <2> QED BY <2>3, <2>4, <2>5 DEF IInv
<1> QED BY <1>1, <1>2

\* While a row is inserted no copy is under way: the schema is new.
LEMMA SaveSteps ==
    ASSUME IInv, NEW p \in Procs, Save(p) \/ SaveFails(p)
    PROVE  IInv'
<1> USE ResultsStoreAssumption DEF tx
<1>1. PICK r \in Rows \ (given \cup tried) :
         /\ tried' = tried \cup {r} /\ rows' \in {rows, rows \cup {r}}
         /\ acked' \in {acked, acked \cup {r}}
         /\ acked' # acked => rows' = rows \cup {r}
  BY DEF Save, SaveFails
<1>2. schema = "new" /\ UNCHANGED <<schema, leftover, tx, pc, given, excused>>
  BY DEF Save, SaveFails, IInv, OpenMeansNew
<1>3. TypeOK' /\ KnownInv' /\ NoRowLost'
  BY <1>1, <1>2 DEF IInv, TypeOK, KnownInv, NoRowLost
<1>4. LockInv' /\ CopyInv' /\ ThereInv' /\ ExcuseInv' /\ OpenMeansNew' /\ FailureExcused'
  BY <1>2 DEF IInv, LockInv, CopyInv, ThereInv, ExcuseInv, OpenMeansNew, FailureExcused
<1> QED BY <1>3, <1>4 DEF IInv

LEMMA StepInv == IInv /\ [Next]_vars => IInv'
<1> SUFFICES ASSUME IInv, [Next]_vars PROVE IInv'
  OBVIOUS
<1>1. CASE Next
  <2> PICK p \in Procs : Step(p)
    BY <1>1 DEF Next
  <2>1. CASE Start(p) \/ ListColumns(p) \/ DropOld(p) \/ Rename(p)
    BY <2>1, QuietSteps
  <2>2. CASE DropNew(p) \/ CreateNew(p)
    BY <2>2, LockSteps
  <2>3. CASE Disturbed(p) \/ Refused(p) \/ Crash(p) \/ (Copy(p) /\ schema # "legacy")
    BY <2>3, FailSteps
  <2>4. CASE Copy(p) /\ schema = "legacy"
    BY <2>4, CopyStep
  <2>5. CASE CreateTable(p) \/ Commit(p)
    BY <2>5, UpgradeSteps
  <2>6. CASE Save(p) \/ SaveFails(p)
    BY <2>6, SaveSteps
  <2> QED BY <2>1, <2>2, <2>3, <2>4, <2>5, <2>6 DEF Step
<1>2. CASE UNCHANGED vars
  BY <1>2
     DEF vars, db, tx, hist, IInv, TypeOK, LockInv, CopyInv, ThereInv, KnownInv, ExcuseInv,
         NoRowLost, OpenMeansNew, FailureExcused
<1> QED BY <1>1, <1>2

(***************************************************************************)
(* The strengthened invariant, for any processes and rows.                 *)
(***************************************************************************)
THEOREM Invariant == Spec => []IInv
<1> QED BY InitInv, StepInv, PTL DEF Spec

(***************************************************************************)
(* Type correctness; every acknowledged row was given to Save.             *)
(***************************************************************************)
THEOREM TypeCorrect == Spec => []TypeOK
<1>1. IInv => TypeOK
  BY DEF IInv
<1> QED BY <1>1, Invariant, PTL

(***************************************************************************)
(* No migration, failed, crashed or raced, loses a row: what was there and *)
(* what Save acknowledged is found by every reader.                        *)
(***************************************************************************)
THEOREM RowsKept == Spec => []NoRowLost
<1>1. IInv => NoRowLost
  BY DEF IInv
<1> QED BY <1>1, Invariant, PTL

(***************************************************************************)
(* A process whose store is open writes to the new schema.                 *)
(***************************************************************************)
THEOREM OpenIsNew == Spec => []OpenMeansNew
<1>1. IInv => OpenMeansNew
  BY DEF IInv
<1> QED BY <1>1, Invariant, PTL

(***************************************************************************)
(* No crash or failed migration is the reason why a later start fails.     *)
(***************************************************************************)
THEOREM FailuresExcused == Spec => []FailureExcused
<1>1. IInv => FailureExcused
  BY DEF IInv
<1> QED BY <1>1, Invariant, PTL

LEMMA RefinementInit == Init => Table!Init
BY ResultsStoreAssumption DEF Init, Table!Init

LEMMA RefinementStep == IInv /\ [Next]_vars => [Table!Next]_Table!vars
<1> SUFFICES ASSUME IInv, [Next]_vars PROVE [Table!Next]_Table!vars
  OBVIOUS
<1> USE DEF db, tx, hist, Table!vars
<1>1. CASE UNCHANGED vars
  BY <1>1 DEF vars
<1>2. CASE Next
  <2> PICK p \in Procs : Step(p)
    BY <1>2 DEF Next
  <2>1. CASE CreateTable(p)
    BY <2>1 DEF CreateTable, Table!Next, Table!Upgrade
  <2>2. CASE Commit(p)
    BY <2>2 DEF Commit, IInv, CopyInv, Table!Next, Table!Upgrade
  <2>3. CASE Save(p) \/ SaveFails(p)
    BY <2>3 DEF Save, SaveFails, IInv, OpenMeansNew, KnownInv, Table!Next, Table!Add
  <2>4. CASE UNCHANGED <<schema, rows>>
    BY <2>4
  <2>5. \/ CreateTable(p) \/ Commit(p) \/ Save(p) \/ SaveFails(p)
        \/ UNCHANGED <<schema, rows>>
    BY DEF Step, Start, ListColumns, DropNew, CreateNew, Copy, DropOld, Rename,
           Disturbed, Refused, Crash
  <2> QED BY <2>1, <2>2, <2>3, <2>4, <2>5
<1> QED BY <1>1, <1>2

(***************************************************************************)
(* To its readers the store is a table that only grows and that changes    *)
(* its schema in one step.                                                 *)
(***************************************************************************)
THEOREM Refinement == Spec => ImplementsTable
<1> QED BY RefinementInit, RefinementStep, Invariant, PTL
        DEF Spec, ImplementsTable, Table!Spec

=============================================================================
