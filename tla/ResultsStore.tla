---------------------------- MODULE ResultsStore ----------------------------
(***************************************************************************)
(* The SQLite database of the results: how obs-bench opens it, migrates    *)
(* the legacy schema and saves rows.  Several processes may use the file;  *)
(* each statement outside a transaction is one atomic step, and what a     *)
(* transaction did is seen by nobody until it commits.                     *)
(***************************************************************************)
EXTENDS Naturals, FiniteSets

CONSTANTS
    Procs,     \* obs-bench processes on the same file
    Rows,      \* rows the table can come to hold
    Legacy,    \* those there at the beginning
    None

ASSUME ResultsStoreAssumption == Legacy \subseteq Rows /\ None \notin Procs

VARIABLES
    schema,    \* of resource_usage_info; foreign: neither legacy nor new
    rows,      \* its committed rows
    leftover,  \* a table resource_usage_info_new is committed
    lock,      \* the process whose transaction has written
    copied,    \* rows in the new table of that transaction
    pc,        \* stage of each process
    given,     \* history: rows there at the beginning
    tried,     \* history: rows given to Save
    acked,     \* history: rows for which Save returned nil
    excused    \* history: a call of this start was disturbed, or met another process

db   == <<schema, rows, leftover>>
tx   == <<lock, copied>>
hist == <<given, tried, acked, excused>>
vars == <<db, tx, pc, hist>>

InTx   == {"copy", "dropOld", "rename", "commit"}
Stages == {"down", "create", "columns", "dropNew", "createNew", "open", "err"} \cup InTx

TypeOK ==
    /\ schema \in {"none", "legacy", "foreign", "new"}
    /\ rows \subseteq Rows /\ leftover \in BOOLEAN
    /\ lock \in Procs \cup {None} /\ copied \subseteq Rows
    /\ pc \in [Procs -> Stages]
    /\ given \subseteq Rows /\ tried \subseteq Rows \ given /\ acked \subseteq tried
    /\ excused \subseteq Procs

Init ==
    /\ schema \in {"none", "legacy", "foreign", "new"}
    /\ given = IF schema = "none" THEN {} ELSE Legacy
    /\ rows = given
    /\ leftover \in BOOLEAN
    /\ lock = None /\ copied = {}
    /\ pc = [p \in Procs |-> "down"]
    /\ tried = {} /\ acked = {} /\ excused = {}

Goto(p, stage) == pc' = [pc EXCEPT ![p] = stage]

Unlocked(p) == lock \in {None, p}

\* Every process but p learns that the database changed under it.
Noticed(p) == excused' = excused \cup (Procs \ {p})

Start(p) ==
    /\ pc[p] \in {"down", "err"}
    /\ Goto(p, "create") /\ excused' = excused \ {p}
    /\ UNCHANGED <<db, tx, given, tried, acked>>

(***************************************************************************)
(* Opening.                                                                *)
(***************************************************************************)
CreateTable(p) ==
    /\ pc[p] = "create"
    /\ IF schema # "none" THEN UNCHANGED <<schema, excused>>
       ELSE Unlocked(p) /\ schema' = "new" /\ Noticed(p)
    /\ Goto(p, "columns")
    /\ UNCHANGED <<rows, leftover, tx, given, tried, acked>>

ListColumns(p) ==
    /\ pc[p] = "columns"
    /\ Goto(p, IF schema = "new" THEN "open" ELSE "dropNew")
    /\ UNCHANGED <<db, tx, hist>>

DropNewNever(p) ==
    /\ pc[p] = "dropNew" /\ Goto(p, "createNew")
    /\ UNCHANGED <<db, tx, hist>>

\* The error of this statement is ignored.
DropNew(p) ==
    /\ pc[p] = "dropNew"
    /\ \/ ~leftover /\ UNCHANGED <<lock, excused>>
       \/ leftover /\ Unlocked(p) /\ lock' = p /\ UNCHANGED excused
       \/ leftover /\ excused' = excused \cup {p} /\ UNCHANGED lock
    /\ Goto(p, "createNew")
    /\ UNCHANGED <<db, copied, given, tried, acked>>

\* Needs the write lock, and the table must not be there.
CreateNew(p) ==
    /\ pc[p] = "createNew" /\ Unlocked(p) /\ (leftover => lock = p)
    /\ Goto(p, "copy") /\ lock' = p /\ copied' = {}
    /\ UNCHANGED <<db, hist>>

\* The deferred Rollback.
Rollback(p) ==
    /\ Goto(p, "err")
    /\ lock' = IF lock = p THEN None ELSE lock
    /\ copied' = IF lock = p THEN {} ELSE copied

CopyInPart(p) ==
    /\ pc[p] = "copy"
    /\ IF schema = "legacy"
       THEN Goto(p, "dropOld") /\ copied' \in SUBSET rows /\ UNCHANGED lock
       ELSE Rollback(p)
    /\ UNCHANGED <<db, hist>>

\* Only the legacy schema has a column series.
Copy(p) ==
    /\ pc[p] = "copy"
    /\ IF schema = "legacy"
       THEN Goto(p, "dropOld") /\ copied' = rows /\ UNCHANGED lock
       ELSE Rollback(p)
    /\ UNCHANGED <<db, hist>>

\* As without a transaction.
DropOldAtOnce(p) ==
    /\ pc[p] = "dropOld" /\ Goto(p, "rename")
    /\ schema' = "none" /\ rows' = {}
    /\ UNCHANGED <<leftover, tx, hist>>

DropOld(p) == pc[p] = "dropOld" /\ Goto(p, "rename") /\ UNCHANGED <<db, tx, hist>>

Rename(p) == pc[p] = "rename" /\ Goto(p, "commit") /\ UNCHANGED <<db, tx, hist>>

Commit(p) ==
    /\ pc[p] = "commit"
    /\ Goto(p, "open")
    /\ schema' = "new" /\ rows' = copied /\ leftover' = FALSE
    /\ lock' = None /\ copied' = {}
    /\ Noticed(p) /\ UNCHANGED <<given, tried, acked>>

\* A statement fails: the context is done, the disk is full, the file is locked.
Disturbed(p) ==
    /\ pc[p] \notin {"down", "err", "open"}
    /\ Rollback(p)
    /\ excused' = excused \cup {p}
    /\ UNCHANGED <<db, given, tried, acked>>

\* What the code fails on by itself.
Refused(p) ==
    /\ \/ pc[p] = "create" /\ schema = "none" /\ ~Unlocked(p)
       \/ pc[p] = "createNew" /\ ~Unlocked(p)
       \/ pc[p] = "createNew" /\ leftover /\ lock # p
    /\ Rollback(p)
    /\ excused' = IF lock \notin {None, p} THEN excused \cup {p} ELSE excused
    /\ UNCHANGED <<db, given, tried, acked>>

Crash(p) ==
    /\ pc[p] # "down"
    /\ pc' = [pc EXCEPT ![p] = "down"]
    /\ lock' = IF lock = p THEN None ELSE lock
    /\ copied' = IF lock = p THEN {} ELSE copied
    /\ UNCHANGED <<db, hist>>

(***************************************************************************)
(* Saving.                                                                 *)
(***************************************************************************)
Save(p) ==
    /\ pc[p] = "open" /\ Unlocked(p)
    /\ \E r \in Rows \ (given \cup tried) :
          rows' = rows \cup {r} /\ tried' = tried \cup {r} /\ acked' = acked \cup {r}
    /\ UNCHANGED <<schema, leftover, tx, pc, given, excused>>

\* An interrupted insert may have been committed.
SaveFails(p) ==
    /\ pc[p] = "open"
    /\ \E r \in Rows \ (given \cup tried) :
          /\ tried' = tried \cup {r}
          /\ \/ UNCHANGED rows
             \/ Unlocked(p) /\ rows' = rows \cup {r}
    /\ UNCHANGED <<schema, leftover, tx, pc, given, acked, excused>>

Step(p) ==
    \/ Start(p) \/ CreateTable(p) \/ ListColumns(p)
    \/ DropNew(p) \/ CreateNew(p) \/ Copy(p) \/ DropOld(p) \/ Rename(p) \/ Commit(p)
    \/ Disturbed(p) \/ Refused(p) \/ Crash(p) \/ Save(p) \/ SaveFails(p)

Next == \E p \in Procs : Step(p)

Spec == Init /\ [][Next]_vars

(***************************************************************************)
(* Properties.                                                             *)
(***************************************************************************)
\* No row is lost, wherever a migration fails or crashes and whatever another
\* process does meanwhile: a reader always finds every row that was there at the
\* beginning and every row whose Save returned nil.
NoRowLost == given \cup acked \subseteq rows

\* Whoever has opened the store works on the new schema.
OpenMeansNew == \A p \in Procs : pc[p] = "open" => schema = "new"

\* A start fails only on a schema that is neither legacy nor new, or if it was
\* disturbed or met another process: never on what a crash left behind.
FailureExcused ==
    \A p \in Procs : pc[p] = "err" => p \in excused \/ schema = "foreign"

\* The store is a table whose rows only grow and that is migrated in one step.
Table == INSTANCE ResultsTable
ImplementsTable == Table!Spec

=============================================================================
