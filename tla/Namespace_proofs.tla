--------------------------- MODULE Namespace_proofs ---------------------------
(***************************************************************************)
(* Proofs about DeleteNamespace, for every content of the namespace, every *)
(* pair of timeouts and any number of calls in a row.                      *)
(***************************************************************************)
EXTENDS Namespace, TLAPS

(***************************************************************************)
(* The inductive invariant.                                                *)
(***************************************************************************)
\* What the phase implies: a namespace in use has its own finalizer, one that
\* is gone has not, and a client that waits has seen it leave "Active".
PhaseInv ==
    /\ phase = "Active" => nsFin
    /\ phase = "Gone" => ~nsFin
    /\ pc = "ok" => phase = "Gone"
    /\ pc = "created" => phase = "Active"
    /\ pc \in {"wait", "force", "lastget"} => phase # "Active"
    /\ pc = "delete" /\ phase # "Active" => rival

\* The forced passes of the current call.
PassInv ==
    /\ pc \in {"get", "delete"} => passes = 0 /\ ~forcedOnce /\ clock = 0
    /\ pc = "wait" => passes = IF forcedOnce THEN 1 ELSE 0
    /\ pc = "force" /\ via = "tick" => passes = 1 /\ forcedOnce
    /\ pc = "force" /\ via = "done" => CtxDone
    /\ pc = "lastget" => CtxDone
    /\ ForcedPatiently

\* The finalizers that the pass has dealt with so far, and those that must be
\* gone once the namespace has lost its own.
StripInv ==
    ~apiFailed =>
        /\ pc = "force" =>
              \A i \in 1..(pass - 1) : \A o \in held : KindOf[o] # StripOrder[i]
        /\ ~nsFin => \A o \in held : KindOf[o] \notin Stripped

DeleteInv ==
    /\ deletes <= 1
    /\ phase = "Active" => deletes = 0
    /\ pc = "delete" => deletes = 0

IInv == /\ TypeOK
        /\ PhaseInv
        /\ PassInv
        /\ StripInv
        /\ DeleteInv
        /\ ErrorIsExcused

LEMMA StripOrderFacts ==
    /\ Len(StripOrder) = 4
    /\ \A k \in Stripped : \E i \in 1..4 : StripOrder[i] = k
<1>1. /\ StripOrder[1] = "PersistentVolumeClaim" /\ StripOrder[2] = "Pod"
      /\ StripOrder[3] = "StatefulSet" /\ StripOrder[4] = "Deployment"
      /\ Len(StripOrder) = 4
  BY DEF StripOrder
<1>2. QED
  BY <1>1 DEF Stripped

LEMMA TypeStep ==
    ASSUME TypeOK, [Next]_vars
    PROVE  TypeOK'
<1> USE ConstantsAssumption DEF TypeOK, cluster, client, history, Return
<1>1. CASE CtxError
  BY <1>1 DEF CtxError
<1>2. CASE ApiError
  BY <1>2 DEF ApiError
<1>3. CASE GetNamespace
  BY <1>3 DEF GetNamespace
<1>4. CASE SendDelete
  <2>1. phase' \in {"Active", "Terminating", "Gone"} /\ deletes' \in Nat
    BY <1>4 DEF SendDelete
  <2>2. pc' \in {"wait", "err"} /\ apiFailed' \in BOOLEAN
    BY <1>4 DEF SendDelete
  <2>3. UNCHANGED <<nsFin, objs, held, via, pass, forcedOnce, clock, calls,
                    cancelled, passes, rival>>
    BY <1>4 DEF SendDelete
  <2>4. QED
    BY <2>1, <2>2, <2>3
<1>5. CASE TickGone
  BY <1>5 DEF TickGone
<1>6. CASE TickForce
  BY <1>6 DEF TickForce, BeginForce, MayForce
<1>7. CASE DoneForce
  BY <1>7 DEF DoneForce, BeginForce
<1>8. CASE LastGet
  BY <1>8 DEF LastGet
<1>9. CASE StripKind
  <2>1. pass' \in 1..5
    BY <1>9, StripOrderFacts DEF StripKind
  <2>2. held' \in SUBSET objs /\ apiFailed' \in BOOLEAN
    BY <1>9 DEF StripKind
  <2>3. UNCHANGED <<phase, nsFin, objs, pc, via, forcedOnce, clock, calls,
                    cancelled, passes, deletes, rival>>
    BY <1>9 DEF StripKind
  <2>4. QED
    BY <2>1, <2>2, <2>3
<1>10. CASE FinalizeNs
  BY <1>10 DEF FinalizeNs, AfterPass
<1>11. CASE CreateNamespace
  <2>1. \/ phase' = "Active" /\ nsFin' = TRUE /\ deletes' = 0
        \/ UNCHANGED <<phase, nsFin, deletes>>
    BY <1>11 DEF CreateNamespace
  <2>2. phase' \in {"Active", "Terminating", "Gone"} /\ deletes' \in Nat
    BY <2>1
  <2>3. nsFin' \in BOOLEAN
    BY <2>1, Zenon
  <2>4. pc' \in {"created", "err"} /\ apiFailed' \in BOOLEAN
    BY <1>11 DEF CreateNamespace
  <2>5. UNCHANGED <<objs, held, via, pass, forcedOnce, clock, calls, cancelled,
                    passes, rival>>
    BY <1>11 DEF CreateNamespace
  <2>6. QED
    BY <2>2, <2>3, <2>4, <2>5
<1>12. CASE NextCall
  <2>1. objs' \in SUBSET Objects /\ held' \in SUBSET objs'
    BY <1>12 DEF NextCall
  <2>2. /\ calls' \in 1..MaxCalls /\ pc' = "get" /\ pass' = 1 /\ via' = "tick"
        /\ forcedOnce' = FALSE /\ clock' = 0 /\ passes' = 0
        /\ UNCHANGED <<phase, nsFin, cancelled, apiFailed, deletes, rival>>
    BY <1>12 DEF NextCall
  <2>3. pass' \in 1..5 /\ clock' \in 0..Deadline /\ passes' \in 0..3
    BY <2>2
  <2>4. QED
    BY <2>1, <2>2, <2>3
<1>13. CASE Minute
  BY <1>13 DEF Minute, Waiting
<1>14. CASE Cancel
  BY <1>14 DEF Cancel
<1>15. CASE RivalDelete
  BY <1>15 DEF RivalDelete
<1>16. CASE \E o \in Objects : ReleaseFinalizer(o) \/ DeleteContent(o)
  BY <1>16 DEF ReleaseFinalizer, DeleteContent
<1>17. CASE ControllerFinalize \/ RemoveNamespace
  BY <1>17 DEF ControllerFinalize, RemoveNamespace
<1>18. CASE Finished \/ UNCHANGED vars
  BY <1>18 DEF Finished, vars
<1>19. QED
  BY <1>1, <1>2, <1>3, <1>4, <1>5, <1>6, <1>7, <1>8, <1>9,
     <1>10, <1>11, <1>12, <1>13, <1>14, <1>15, <1>16, <1>17, <1>18
     DEF Next, ClientStep, Controllers, Environment

LEMMA PhaseStep ==
    ASSUME TypeOK, PhaseInv, [Next]_vars
    PROVE  PhaseInv'
<1> USE ConstantsAssumption DEF TypeOK, cluster, client, history, Return, PhaseInv, CtxDone, NeedsDelete
<1>1. CASE CtxError
  BY <1>1 DEF CtxError
<1>2. CASE ApiError
  BY <1>2 DEF ApiError
<1>3. CASE GetNamespace
  BY <1>3 DEF GetNamespace
<1>4. CASE SendDelete
  BY <1>4 DEF SendDelete
<1>5. CASE TickGone
  BY <1>5 DEF TickGone
<1>6. CASE TickForce
  BY <1>6 DEF TickForce, BeginForce, MayForce
<1>7. CASE DoneForce
  BY <1>7 DEF DoneForce, BeginForce
<1>8. CASE LastGet
  BY <1>8 DEF LastGet
<1>9. CASE StripKind
  BY <1>9 DEF StripKind
<1>10. CASE FinalizeNs
  BY <1>10 DEF FinalizeNs, AfterPass
<1>11. CASE CreateNamespace
  BY <1>11 DEF CreateNamespace
<1>12. CASE NextCall
  BY <1>12 DEF NextCall
<1>13. CASE Minute
  BY <1>13 DEF Minute, Waiting
<1>14. CASE Cancel
  BY <1>14 DEF Cancel
<1>15. CASE RivalDelete
  BY <1>15 DEF RivalDelete
<1>16. CASE \E o \in Objects : ReleaseFinalizer(o) \/ DeleteContent(o)
  BY <1>16 DEF ReleaseFinalizer, DeleteContent
<1>17. CASE ControllerFinalize \/ RemoveNamespace
  BY <1>17 DEF ControllerFinalize, RemoveNamespace
<1>18. CASE Finished \/ UNCHANGED vars
  BY <1>18 DEF Finished, vars
<1>19. QED
  BY <1>1, <1>2, <1>3, <1>4, <1>5, <1>6, <1>7, <1>8, <1>9,
     <1>10, <1>11, <1>12, <1>13, <1>14, <1>15, <1>16, <1>17, <1>18
     DEF Next, ClientStep, Controllers, Environment

LEMMA PassStep ==
    ASSUME TypeOK, PhaseInv, PassInv, [Next]_vars
    PROVE  PassInv'
<1> USE ConstantsAssumption DEF TypeOK, cluster, client, history, Return, PhaseInv, PassInv, ForcedPatiently, CtxDone
<1>1. CASE CtxError
  BY <1>1 DEF CtxError
<1>2. CASE ApiError
  BY <1>2 DEF ApiError
<1>3. CASE GetNamespace
  BY <1>3 DEF GetNamespace
<1>4. CASE SendDelete
  BY <1>4 DEF SendDelete
<1>5. CASE TickGone
  BY <1>5 DEF TickGone
<1>6. CASE TickForce
  BY <1>6 DEF TickForce, BeginForce, MayForce
<1>7. CASE DoneForce
  BY <1>7 DEF DoneForce, BeginForce
<1>8. CASE LastGet
  BY <1>8 DEF LastGet
<1>9. CASE StripKind
  BY <1>9 DEF StripKind
<1>10. CASE FinalizeNs
  BY <1>10 DEF FinalizeNs, AfterPass
<1>11. CASE CreateNamespace
  BY <1>11 DEF CreateNamespace
<1>12. CASE NextCall
  BY <1>12 DEF NextCall
<1>13. CASE Minute
  BY <1>13 DEF Minute, Waiting
<1>14. CASE Cancel
  BY <1>14 DEF Cancel
<1>15. CASE RivalDelete
  BY <1>15 DEF RivalDelete
<1>16. CASE \E o \in Objects : ReleaseFinalizer(o) \/ DeleteContent(o)
  BY <1>16 DEF ReleaseFinalizer, DeleteContent
<1>17. CASE ControllerFinalize \/ RemoveNamespace
  BY <1>17 DEF ControllerFinalize, RemoveNamespace
<1>18. CASE Finished \/ UNCHANGED vars
  BY <1>18 DEF Finished, vars
<1>19. QED
  BY <1>1, <1>2, <1>3, <1>4, <1>5, <1>6, <1>7, <1>8, <1>9,
     <1>10, <1>11, <1>12, <1>13, <1>14, <1>15, <1>16, <1>17, <1>18
     DEF Next, ClientStep, Controllers, Environment

LEMMA StripStep ==
    ASSUME TypeOK, PhaseInv, StripInv, [Next]_vars
    PROVE  StripInv'
<1> USE ConstantsAssumption DEF TypeOK, cluster, client, history, Return, PhaseInv, StripInv
<1>1. CASE CtxError
  BY <1>1 DEF CtxError
<1>2. CASE ApiError
  BY <1>2 DEF ApiError
<1>3. CASE GetNamespace
  BY <1>3 DEF GetNamespace
<1>4. CASE SendDelete
  BY <1>4 DEF SendDelete
<1>5. CASE TickGone
  BY <1>5 DEF TickGone
<1>6. CASE TickForce
  BY <1>6 DEF TickForce, BeginForce, MayForce
<1>7. CASE DoneForce
  BY <1>7 DEF DoneForce, BeginForce
<1>8. CASE LastGet
  BY <1>8 DEF LastGet
<1>9. CASE StripKind
  <2> SUFFICES ASSUME ~apiFailed' PROVE StripInv'
    OBVIOUS
  <2>1. /\ ~apiFailed /\ pc = "force" /\ pass' = pass + 1 /\ nsFin' = nsFin
        /\ held' = held \ {o \in held : KindOf[o] = StripOrder[pass]}
    BY <1>9 DEF StripKind
  <2>2. \A i \in 1..(pass' - 1) : \A o \in held' : KindOf[o] # StripOrder[i]
    BY <2>1
  <2>3. QED
    BY <2>1, <2>2
<1>10. CASE FinalizeNs
  <2> SUFFICES ASSUME ~apiFailed' PROVE StripInv'
    OBVIOUS
  <2>1. ~apiFailed /\ pc = "force" /\ pass > 4 /\ pc' # "force" /\ held' = held
    BY <1>10, StripOrderFacts DEF FinalizeNs, AfterPass
  <2>2. \A o \in held : \A i \in 1..4 : KindOf[o] # StripOrder[i]
    BY <2>1
  <2>3. \A o \in held : KindOf[o] \notin Stripped
    BY <2>2, StripOrderFacts
  <2>4. QED
    BY <2>1, <2>3
<1>11. CASE CreateNamespace
  BY <1>11 DEF CreateNamespace
<1>12. CASE NextCall
  BY <1>12 DEF NextCall
<1>13. CASE Minute
  BY <1>13 DEF Minute, Waiting
<1>14. CASE Cancel
  BY <1>14 DEF Cancel
<1>15. CASE RivalDelete
  BY <1>15 DEF RivalDelete
<1>16. CASE \E o \in Objects : ReleaseFinalizer(o) \/ DeleteContent(o)
  BY <1>16 DEF ReleaseFinalizer, DeleteContent
<1>17. CASE ControllerFinalize \/ RemoveNamespace
  BY <1>17 DEF ControllerFinalize, RemoveNamespace
<1>18. CASE Finished \/ UNCHANGED vars
  BY <1>18 DEF Finished, vars
<1>19. QED
  BY <1>1, <1>2, <1>3, <1>4, <1>5, <1>6, <1>7, <1>8, <1>9,
     <1>10, <1>11, <1>12, <1>13, <1>14, <1>15, <1>16, <1>17, <1>18
     DEF Next, ClientStep, Controllers, Environment

LEMMA DeleteStep ==
    ASSUME TypeOK, PhaseInv, DeleteInv, [Next]_vars
    PROVE  DeleteInv'
<1> USE ConstantsAssumption DEF TypeOK, cluster, client, history, Return, PhaseInv, DeleteInv, NeedsDelete
<1>1. CASE CtxError
  BY <1>1 DEF CtxError
<1>2. CASE ApiError
  BY <1>2 DEF ApiError
<1>3. CASE GetNamespace
  BY <1>3 DEF GetNamespace
<1>4. CASE SendDelete
  BY <1>4 DEF SendDelete
<1>5. CASE TickGone
  BY <1>5 DEF TickGone
<1>6. CASE TickForce
  BY <1>6 DEF TickForce, BeginForce, MayForce
<1>7. CASE DoneForce
  BY <1>7 DEF DoneForce, BeginForce
<1>8. CASE LastGet
  BY <1>8 DEF LastGet
<1>9. CASE StripKind
  BY <1>9 DEF StripKind
<1>10. CASE FinalizeNs
  BY <1>10 DEF FinalizeNs, AfterPass
<1>11. CASE CreateNamespace
  BY <1>11 DEF CreateNamespace
<1>12. CASE NextCall
  BY <1>12 DEF NextCall
<1>13. CASE Minute
  BY <1>13 DEF Minute, Waiting
<1>14. CASE Cancel
  BY <1>14 DEF Cancel
<1>15. CASE RivalDelete
  BY <1>15 DEF RivalDelete
<1>16. CASE \E o \in Objects : ReleaseFinalizer(o) \/ DeleteContent(o)
  BY <1>16 DEF ReleaseFinalizer, DeleteContent
<1>17. CASE ControllerFinalize \/ RemoveNamespace
  BY <1>17 DEF ControllerFinalize, RemoveNamespace
<1>18. CASE Finished \/ UNCHANGED vars
  BY <1>18 DEF Finished, vars
<1>19. QED
  BY <1>1, <1>2, <1>3, <1>4, <1>5, <1>6, <1>7, <1>8, <1>9,
     <1>10, <1>11, <1>12, <1>13, <1>14, <1>15, <1>16, <1>17, <1>18
     DEF Next, ClientStep, Controllers, Environment

LEMMA ErrorStep ==
    ASSUME TypeOK, PhaseInv, PassInv, ErrorIsExcused, [Next]_vars
    PROVE  ErrorIsExcused'
<1> USE ConstantsAssumption DEF TypeOK, cluster, client, history, Return, PhaseInv, PassInv, ErrorIsExcused, CtxDone, NeedsDelete
<1>1. CASE CtxError
  BY <1>1 DEF CtxError
<1>2. CASE ApiError
  BY <1>2 DEF ApiError
<1>3. CASE GetNamespace
  BY <1>3 DEF GetNamespace
<1>4. CASE SendDelete
  BY <1>4 DEF SendDelete
<1>5. CASE TickGone
  BY <1>5 DEF TickGone
<1>6. CASE TickForce
  BY <1>6 DEF TickForce, BeginForce, MayForce
<1>7. CASE DoneForce
  BY <1>7 DEF DoneForce, BeginForce
<1>8. CASE LastGet
  BY <1>8 DEF LastGet
<1>9. CASE StripKind
  BY <1>9 DEF StripKind
<1>10. CASE FinalizeNs
  BY <1>10 DEF FinalizeNs, AfterPass
<1>11. CASE CreateNamespace
  BY <1>11 DEF CreateNamespace
<1>12. CASE NextCall
  BY <1>12 DEF NextCall
<1>13. CASE Minute
  BY <1>13 DEF Minute, Waiting
<1>14. CASE Cancel
  BY <1>14 DEF Cancel
<1>15. CASE RivalDelete
  BY <1>15 DEF RivalDelete
<1>16. CASE \E o \in Objects : ReleaseFinalizer(o) \/ DeleteContent(o)
  BY <1>16 DEF ReleaseFinalizer, DeleteContent
<1>17. CASE ControllerFinalize \/ RemoveNamespace
  BY <1>17 DEF ControllerFinalize, RemoveNamespace
<1>18. CASE Finished \/ UNCHANGED vars
  BY <1>18 DEF Finished, vars
<1>19. QED
  BY <1>1, <1>2, <1>3, <1>4, <1>5, <1>6, <1>7, <1>8, <1>9,
     <1>10, <1>11, <1>12, <1>13, <1>14, <1>15, <1>16, <1>17, <1>18
     DEF Next, ClientStep, Controllers, Environment

LEMMA InvariantInit == Init => IInv
<1> SUFFICES ASSUME Init PROVE IInv
  OBVIOUS
<1> USE ConstantsAssumption DEF Init
<1>1. TypeOK
  <2>1. phase \in {"Active", "Terminating", "Gone"} /\ nsFin \in BOOLEAN
    OBVIOUS
  <2>2. objs \in SUBSET Objects /\ held \in SUBSET objs
    OBVIOUS
  <2>3. clock \in 0..Deadline /\ calls \in 1..MaxCalls /\ pass \in 1..5
    OBVIOUS
  <2>4. /\ forcedOnce \in BOOLEAN /\ cancelled \in BOOLEAN
        /\ apiFailed \in BOOLEAN /\ rival \in BOOLEAN
    OBVIOUS
  <2>5. /\ pc = "get" /\ via = "tick" /\ passes \in 0..3 /\ deletes \in Nat
    OBVIOUS
  <2>6. QED
    BY <2>1, <2>2, <2>3, <2>4, <2>5 DEF TypeOK
<1>2. PhaseInv /\ PassInv
  BY DEF PhaseInv, PassInv, ForcedPatiently
<1>3. StripInv /\ DeleteInv /\ ErrorIsExcused
  BY DEF StripInv, DeleteInv, ErrorIsExcused
<1>4. QED
  BY <1>1, <1>2, <1>3 DEF IInv

(***************************************************************************)
(* The inductive invariant holds in every state.                           *)
(***************************************************************************)
THEOREM Invariant == Spec => []IInv
<1>1. IInv /\ [Next]_vars => IInv'
  BY TypeStep, PhaseStep, PassStep, StripStep, DeleteStep, ErrorStep DEF IInv
<1>2. QED
  BY <1>1, InvariantInit, PTL DEF Spec

(***************************************************************************)
(* Type correctness.                                                       *)
(***************************************************************************)
THEOREM TypeCorrect == Spec => []TypeOK
<1>1. IInv => TypeOK
  BY DEF IInv
<1>2. QED
  BY <1>1, Invariant, PTL

(***************************************************************************)
(* A nil result of DeleteNamespace means that the namespace is gone, and   *)
(* it stays so until CreateNamespace.                                      *)
(***************************************************************************)
THEOREM NilIsTruthful == Spec => []NilMeansGone
<1>1. IInv => NilMeansGone
  BY DEF IInv, PhaseInv, NilMeansGone
<1>2. QED
  BY <1>1, Invariant, PTL

(***************************************************************************)
(* Finalizers are not taken by force before their time, nor more than      *)
(* twice in a call.                                                        *)
(***************************************************************************)
THEOREM ForceIsPatient == Spec => []ForcedPatiently
<1>1. IInv => ForcedPatiently
  BY DEF IInv, PassInv
<1>2. QED
  BY <1>1, Invariant, PTL

(***************************************************************************)
(* When every request succeeds, the forced pass releases everything of the *)
(* kinds it handles before it lets the namespace go.                       *)
(***************************************************************************)
THEOREM OrphansAreReleased == Spec => []OrphansReleased
<1>1. IInv => OrphansReleased
  BY DEF IInv, PhaseInv, StripInv, OrphansReleased
<1>2. QED
  BY <1>1, Invariant, PTL

(***************************************************************************)
(* One incarnation of the namespace is deleted by this client at most once,*)
(* over any number of failed calls.                                        *)
(***************************************************************************)
THEOREM DeletedOnce == Spec => []DeleteOnce
<1>1. IInv => DeleteOnce
  BY DEF IInv, DeleteInv, DeleteOnce
<1>2. QED
  BY <1>1, Invariant, PTL

(***************************************************************************)
(* A call fails before its deadline only when a request failed, somebody   *)
(* else deleted the namespace or the run was interrupted.                  *)
(***************************************************************************)
THEOREM ErrorsAreExcused == Spec => []ErrorIsExcused
<1>1. IInv => ErrorIsExcused
  BY DEF IInv
<1>2. QED
  BY <1>1, Invariant, PTL

\* Every step of the client, the cluster and the environment, seen from the
\* services.
LEMMA DeletionStep ==
    ASSUME TypeOK, PhaseInv, [Next]_vars
    PROVE  [Deletion!Next]_(Deletion!vars)
<1> USE DEF TypeOK, PhaseInv, cluster, client, history, Return, Deletion!Next, Deletion!vars
<1>1. CASE CtxError
  BY <1>1 DEF CtxError, Deletion!Fail
<1>2. CASE ApiError
  BY <1>2 DEF ApiError, Deletion!Fail
<1>3. CASE GetNamespace
  BY <1>3 DEF GetNamespace, Deletion!Deleted
<1>4. CASE SendDelete
  BY <1>4 DEF SendDelete, Deletion!Delete, Deletion!Fail
<1>5. CASE TickGone
  BY <1>5 DEF TickGone, Deletion!Deleted
<1>6. CASE TickForce
  BY <1>6 DEF TickForce, BeginForce
<1>7. CASE DoneForce
  BY <1>7 DEF DoneForce, BeginForce
<1>8. CASE LastGet
  BY <1>8 DEF LastGet, Deletion!Deleted, Deletion!Fail
<1>9. CASE StripKind
  BY <1>9 DEF StripKind
<1>10. CASE FinalizeNs
  BY <1>10 DEF FinalizeNs, AfterPass
<1>11. CASE CreateNamespace
  BY <1>11 DEF CreateNamespace, Deletion!Create, Deletion!Fail
<1>12. CASE NextCall
  BY <1>12 DEF NextCall, Deletion!NextCall
<1>13. CASE Minute
  BY <1>13 DEF Minute
<1>14. CASE Cancel
  BY <1>14 DEF Cancel
<1>15. CASE RivalDelete
  BY <1>15 DEF RivalDelete, Deletion!Delete
<1>16. CASE \E o \in Objects : ReleaseFinalizer(o) \/ DeleteContent(o)
  BY <1>16 DEF ReleaseFinalizer, DeleteContent
<1>17. CASE ControllerFinalize \/ RemoveNamespace
  BY <1>17 DEF ControllerFinalize, RemoveNamespace, Deletion!Vanish
<1>18. CASE Finished \/ UNCHANGED vars
  BY <1>18 DEF Finished, vars
<1>19. QED
  BY <1>1, <1>2, <1>3, <1>4, <1>5, <1>6, <1>7, <1>8, <1>9,
     <1>10, <1>11, <1>12, <1>13, <1>14, <1>15, <1>16, <1>17, <1>18
     DEF Next, ClientStep, Controllers, Environment

(***************************************************************************)
(* The provider implements the deletion it promises to the services: each  *)
(* nil follows a complete deletion, and only CreateNamespace, after one,   *)
(* brings the namespace back.                                              *)
(***************************************************************************)
THEOREM Refinement == Spec => ImplementsDeletion
<1>1. Init => Deletion!Init
  BY DEF Init, Deletion!Init
<1>2. IInv /\ [Next]_vars => [Deletion!Next]_(Deletion!vars)
  BY DeletionStep DEF IInv
<1>3. QED
  BY <1>1, <1>2, Invariant, PTL DEF Spec, ImplementsDeletion, Deletion!Spec

=============================================================================
