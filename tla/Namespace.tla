----------------------------- MODULE Namespace -----------------------------
(***************************************************************************)
(* DeleteNamespace and forceFinalizeNamespaceResources of the Kubernetes   *)
(* provider, run against the cluster's own namespace controller.           *)
(*                                                                         *)
(* Every experiment begins by deleting the namespaces it is about to       *)
(* deploy into.  Deletion is asynchronous: the API server only marks the   *)
(* namespace Terminating; its content goes one object at a time, and an    *)
(* object that holds a finalizer stays until somebody releases it.  The    *)
(* client polls, strips the finalizers of four kinds itself once it has    *)
(* waited for ForceAfter minutes, and once more when its context ends.     *)
(*                                                                         *)
(* One client makes up to MaxCalls calls in a row, as a batch does: a call *)
(* that returned an error is followed by the call of the next experiment.  *)
(***************************************************************************)
EXTENDS Naturals, Sequences, FiniteSets

CONSTANTS
    Objects,      \* the objects the namespace may contain
    KindOf,       \* the kind of each of them
    ForceAfter,   \* minutes before the first forced pass (2 in the code)
    Deadline,     \* minutes before the context of the call ends (5)
    MaxCalls      \* bound: calls of DeleteNamespace that are explored

StripOrderShort == <<"PersistentVolumeClaim", "Pod", "StatefulSet">>

StripOrder == <<"PersistentVolumeClaim", "Pod", "StatefulSet", "Deployment">>

Stripped == {"PersistentVolumeClaim", "Pod", "StatefulSet", "Deployment"}

Kinds == Stripped \cup {"CustomResource"}

ASSUME ConstantsAssumption ==
    /\ KindOf \in [Objects -> Kinds]
    /\ ForceAfter \in Nat
    /\ Deadline \in Nat \ {0}
    /\ MaxCalls \in Nat \ {0}

VARIABLES
    phase,      \* phase of the namespace; "Gone" when the API says NotFound
    nsFin,      \* spec.finalizers of the namespace is not empty
    objs,       \* objects stored under the namespace's name
    held,       \* those that still hold a finalizer
    pc,         \* where the client is
    via,        \* the select branch that began the current forced pass
    pass,       \* the next kind of StripOrder in that pass
    forcedOnce, \* the local variable of DeleteNamespace
    clock,      \* whole minutes since the call began to wait
    cancelled,  \* the caller's context is cancelled (Ctrl-C)
    calls,      \* calls begun
    apiFailed,  \* history: some API call of the client had no success
    passes,     \* history: forced passes begun in this call (counted to 3)
    deletes,    \* history: Deletes accepted for this incarnation
    rival       \* history: someone else deleted the namespace

cluster == <<phase, nsFin, objs, held>>
client  == <<pc, via, pass, forcedOnce, clock, calls>>
history == <<apiFailed, passes, deletes, rival>>
vars    == <<cluster, client, cancelled, history>>

TypeOK ==
    /\ phase \in {"Active", "Terminating", "Gone"}
    /\ nsFin \in BOOLEAN
    /\ objs \in SUBSET Objects
    /\ held \in SUBSET objs
    /\ pc \in {"get", "delete", "wait", "force", "lastget", "ok", "err",
               "created"}
    /\ via \in {"tick", "done"}
    /\ pass \in 1..5
    /\ forcedOnce \in BOOLEAN
    /\ clock \in 0..Deadline
    /\ cancelled \in BOOLEAN
    /\ calls \in 1..MaxCalls
    /\ apiFailed \in BOOLEAN
    /\ passes \in 0..3
    /\ deletes \in Nat
    /\ rival \in BOOLEAN

\* The namespace may be missing, in use, or left Terminating by a run that
\* was interrupted.
Init ==
    /\ \/ phase = "Gone" /\ objs = {} /\ held = {} /\ nsFin = FALSE
       \/ /\ phase \in {"Active", "Terminating"}
          /\ objs = Objects
          /\ held \in SUBSET Objects
          /\ nsFin = TRUE
    /\ pc = "get" /\ via = "tick" /\ pass = 1 /\ forcedOnce = FALSE
    /\ clock = 0 /\ calls = 1 /\ cancelled = FALSE
    /\ apiFailed = FALSE /\ passes = 0 /\ deletes = 0 /\ rival = FALSE

(***************************************************************************)
(* Contexts.  The context of the call is the caller's with a timeout, so   *)
(* it is done when the caller cancels or when the deadline passes.         *)
(***************************************************************************)
CtxDone == cancelled \/ clock >= Deadline

MayForceAgain == phase = "Terminating" /\ clock >= ForceAfter

MayForce == /\ phase = "Terminating"
            /\ ~forcedOnce
            /\ clock >= ForceAfter

BeginForce(branch) ==
    /\ pc' = "force" /\ via' = branch /\ pass' = 1
    /\ passes' = IF passes < 3 THEN passes + 1 ELSE passes

Return(result) ==
    /\ pc' = result
    /\ UNCHANGED <<via, pass, forcedOnce, clock, calls>>

(***************************************************************************)
(* DeleteNamespace.                                                        *)
(***************************************************************************)
\* A request under a context that is done fails; any other may fail too.
\* Both branches of the select are ready when the context ends, so the Get
\* of the ticker branch may meet a context that is done.
CtxError ==
    /\ pc \in {"get", "delete", "wait"} /\ CtxDone
    /\ Return("err")
    /\ UNCHANGED <<cluster, cancelled, history>>

ApiError ==
    /\ pc \in {"get", "delete", "wait"} /\ ~CtxDone
    /\ Return("err")
    /\ apiFailed' = TRUE
    /\ UNCHANGED <<cluster, cancelled, passes, deletes, rival>>

NeedsDeleteAlways == TRUE
NeedsDelete == phase # "Terminating"

GetNamespaceBlind ==
    /\ pc = "get"
    /\ ~cancelled
    /\ Return(IF NeedsDelete THEN "delete" ELSE "wait")
    /\ UNCHANGED <<cluster, cancelled, history>>

GetNamespace ==
    /\ pc = "get"
    /\ ~cancelled
    /\ Return(IF phase = "Gone" THEN "ok"
              ELSE IF NeedsDelete THEN "delete" ELSE "wait")
    /\ UNCHANGED <<cluster, cancelled, history>>

\* The Delete request.  The API server accepts it, though its answer may be
\* lost; a request for a namespace that somebody else has deleted meanwhile
\* is answered with an error, or accepted again.
SendDelete ==
    /\ pc = "delete"
    /\ ~cancelled
    /\ IF phase = "Gone"
       THEN /\ Return("err")
            /\ UNCHANGED <<phase, deletes, apiFailed>>
       ELSE /\ phase' = "Terminating"
            /\ deletes' = deletes + 1
            /\ \/ Return("wait") /\ UNCHANGED apiFailed
               \/ Return("err") /\ apiFailed' = TRUE
    /\ UNCHANGED <<nsFin, objs, held, cancelled, passes, rival>>

\* The ticker branch of the select.
TickGoneEarly ==
    /\ pc = "wait" /\ ~CtxDone
    /\ objs = {}
    /\ Return("ok")
    /\ UNCHANGED <<cluster, cancelled, history>>

TickGone ==
    /\ pc = "wait" /\ ~CtxDone
    /\ phase = "Gone"
    /\ Return("ok")
    /\ UNCHANGED <<cluster, cancelled, history>>

TickForce ==
    /\ pc = "wait" /\ ~CtxDone
    /\ MayForce
    /\ forcedOnce' = TRUE
    /\ BeginForce("tick")
    /\ UNCHANGED <<cluster, clock, calls, cancelled, apiFailed, deletes, rival>>

\* The ctx.Done branch: a last forced pass under a context of its own.
DoneForce ==
    /\ pc = "wait" /\ CtxDone
    /\ BeginForce("done")
    /\ UNCHANGED <<cluster, forcedOnce, clock, calls, cancelled, apiFailed,
                   deletes, rival>>

LastGet ==
    /\ pc = "lastget"
    /\ IF phase = "Gone"
       THEN \/ Return("ok") /\ UNCHANGED apiFailed
            \/ Return("err") /\ apiFailed' = TRUE
       ELSE Return("err") /\ UNCHANGED apiFailed
    /\ UNCHANGED <<cluster, cancelled, passes, deletes, rival>>

(***************************************************************************)
(* forceFinalizeNamespaceResources.  Every failure is logged and ignored.  *)
(***************************************************************************)
\* The pass begun by the ticker runs under the call's context.
PassWorks == via = "done" \/ ~CtxDone

StripKind ==
    LET targets == {o \in held : KindOf[o] = StripOrder[pass]} IN
    /\ pc = "force" /\ pass <= Len(StripOrder)
    /\ \E S \in SUBSET targets :
          /\ S # {} => PassWorks
          /\ held' = held \ S
          /\ apiFailed' = (apiFailed \/ S # targets)
    /\ pass' = pass + 1
    /\ UNCHANGED <<phase, nsFin, objs, pc, via, forcedOnce, clock, calls,
                   cancelled, passes, deletes, rival>>

AfterPassWait == "wait"

AfterPass == IF via = "tick" THEN "wait" ELSE "lastget"

FinalizeNsWhenEmpty ==
    /\ pc = "force" /\ pass > Len(StripOrder)
    /\ nsFin' = (nsFin /\ objs # {})
    /\ Return(AfterPass)
    /\ UNCHANGED <<phase, objs, held, cancelled, history>>

FinalizeNs ==
    /\ pc = "force" /\ pass > Len(StripOrder)
    /\ \/ phase = "Gone" /\ UNCHANGED <<nsFin, apiFailed>>
       \/ phase # "Gone" /\ PassWorks /\ nsFin' = FALSE /\ UNCHANGED apiFailed
       \/ phase # "Gone" /\ apiFailed' = TRUE /\ UNCHANGED nsFin
    /\ Return(AfterPass)
    /\ UNCHANGED <<phase, objs, held, cancelled, passes, deletes, rival>>

(***************************************************************************)
(* The caller: CreateNamespace after a nil result, an experiment that      *)
(* fills the namespace, and the next experiment's call.                    *)
(***************************************************************************)
CreateNamespace ==
    /\ pc = "ok"
    /\ \/ /\ ~cancelled /\ phase = "Gone"
          /\ phase' = "Active" /\ nsFin' = TRUE /\ deletes' = 0
          /\ Return("created")
          /\ UNCHANGED apiFailed
       \/ /\ Return("err")
          /\ apiFailed' = (apiFailed \/ phase = "Gone")
          /\ UNCHANGED <<phase, nsFin, deletes>>
    /\ UNCHANGED <<objs, held, cancelled, passes, rival>>

NextCall ==
    /\ pc \in {"created", "err"} /\ calls < MaxCalls
    /\ calls' = calls + 1
    /\ IF pc = "created"
       THEN objs' = Objects /\ held' \in {H \in SUBSET Objects : held \subseteq H}
       ELSE UNCHANGED <<objs, held>>
    /\ pc' = "get" /\ pass' = 1 /\ via' = "tick"
    /\ forcedOnce' = FALSE /\ clock' = 0 /\ passes' = 0
    /\ UNCHANGED <<phase, nsFin, cancelled, apiFailed, deletes, rival>>

(***************************************************************************)
(* The environment: time, the operator's Ctrl-C, another client, and the   *)
(* cluster's controllers.                                                  *)
(***************************************************************************)
Waiting == pc \in {"wait", "force", "lastget"}

Minute ==
    /\ Waiting /\ clock < Deadline
    /\ clock' = clock + 1
    /\ UNCHANGED <<cluster, pc, via, pass, forcedOnce, calls, cancelled, history>>

Cancel ==
    /\ ~cancelled
    /\ cancelled' = TRUE
    /\ UNCHANGED <<cluster, client, history>>

\* The delete request of an interrupted earlier process, still in flight.
RivalDelete ==
    /\ phase = "Active" /\ ~rival /\ pc \in {"get", "delete"}
    /\ phase' = "Terminating" /\ rival' = TRUE
    /\ UNCHANGED <<nsFin, objs, held, client, cancelled, apiFailed, passes,
                   deletes>>

\* The controller that owns o's finalizer lets go of it; it need never do so.
ReleaseFinalizer(o) ==
    /\ phase = "Terminating" /\ o \in held
    /\ held' = held \ {o}
    /\ UNCHANGED <<phase, nsFin, objs, client, cancelled, history>>

DeleteContent(o) ==
    /\ phase = "Terminating" /\ o \in objs \ held
    /\ objs' = objs \ {o}
    /\ UNCHANGED <<phase, nsFin, held, client, cancelled, history>>

ControllerFinalize ==
    /\ phase = "Terminating" /\ nsFin /\ objs = {}
    /\ nsFin' = FALSE
    /\ UNCHANGED <<phase, objs, held, client, cancelled, history>>

RemoveNamespace ==
    /\ phase = "Terminating" /\ ~nsFin
    /\ phase' = "Gone"
    /\ UNCHANGED <<nsFin, objs, held, client, cancelled, history>>

\* The batch is over.
Finished ==
    /\ pc \in {"created", "err"} /\ calls = MaxCalls
    /\ UNCHANGED vars

\* What the client does without being told that a request failed.
ClientStep ==
    \/ CtxError \/ GetNamespace \/ SendDelete
    \/ TickGone \/ TickForce \/ DoneForce \/ LastGet
    \/ StripKind \/ FinalizeNs
    \/ CreateNamespace \/ NextCall

Controllers ==
    \/ ControllerFinalize \/ RemoveNamespace
    \/ \E o \in Objects : DeleteContent(o)

Environment ==
    \/ Minute \/ Cancel \/ RivalDelete
    \/ \E o \in Objects : ReleaseFinalizer(o)

Next == ClientStep \/ ApiError \/ Controllers \/ Environment \/ Finished

Spec == Init /\ [][Next]_vars

(***************************************************************************)
(* The client never blocks outside the select, time passes, and the        *)
(* namespace controller keeps working.  Nobody promises that a finalizer   *)
(* is ever released, nor that a request ever fails.                        *)
(***************************************************************************)
FairSpec ==
    /\ Spec
    /\ WF_vars(ClientStep)
    /\ WF_vars(Minute)
    /\ WF_vars(ControllerFinalize \/ RemoveNamespace)
    /\ \A o \in Objects : WF_vars(DeleteContent(o))

(***************************************************************************)
(* Properties.                                                             *)
(***************************************************************************)
\* A nil result means the namespace does not exist, whichever of the three
\* returns produced it, so that CreateNamespace cannot meet the old one.
NilMeansGone == pc = "ok" => phase = "Gone"

\* The calls, seen from the services: every nil comes after a deletion that
\* was complete, and nothing but CreateNamespace after a nil brings the
\* namespace back.
Deletion == INSTANCE NamespaceDeletion WITH
    call <- IF pc \in {"ok", "err", "created"} THEN pc ELSE "open"

ImplementsDeletion == Deletion!Spec

\* Finalizers are taken away by force only from a namespace that has had its
\* two minutes, unless the run was interrupted; once per call while waiting,
\* and a second time only because the context ended.
ForcedPatiently ==
    /\ passes > 0 => clock >= ForceAfter \/ CtxDone
    /\ passes > 1 => CtxDone
    /\ passes <= 2

\* What is left behind when the namespace goes with content in it never holds
\* a finalizer of a kind the forced pass handles, unless a request failed:
\* only custom resources can come back locked with the next namespace.
OrphansReleased ==
    phase = "Gone" /\ ~apiFailed => \A o \in held : KindOf[o] \notin Stripped

\* Over any sequence of failed and repeated calls, this client's Delete is
\* accepted at most once for one incarnation of the namespace, even when the
\* answer to it was lost.
DeleteOnce == deletes <= 1

\* A call nobody interrupts, whose requests all succeed, in a cluster where
\* nobody else deletes the namespace, fails only at its deadline.
ErrorIsExcused ==
    pc = "err" => apiFailed \/ cancelled \/ rival \/ clock >= Deadline

\* Every call returns, even when no finalizer is ever released.
CallReturns == pc = "get" ~> pc \in {"ok", "err"}

\* A forced pass whose requests all succeeded gets rid of the namespace,
\* whatever still holds a finalizer in it.
ForceUnsticks == (pc = "lastget" /\ ~apiFailed) ~> phase = "Gone"

=============================================================================
