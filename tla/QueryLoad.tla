------------------------------ MODULE QueryLoad ------------------------------
(***************************************************************************)
(* runQueryLoad: the read load of an experiment.  The main goroutine asks  *)
(* PortForwardService for a tunnel to the query API, waits for the API to  *)
(* answer, and then sends a query at every tick of a one-second ticker     *)
(* until a timer fires.  The tunnel belongs to a second goroutine, which   *)
(* talks to the first one over three channels: readyCh and stopCh, which   *)
(* are closed, and errCh, which holds one value.                           *)
(*                                                                         *)
(* Time goes in seconds and never passes while the main goroutine has      *)
(* something to do at once.                                                *)
(***************************************************************************)
EXTENDS Naturals

CONSTANTS
    Duration,       \* seconds of load
    SvcTimeout,     \* how long the service is waited for (120)
    ProbeTimeout,   \* how long the query API is waited for (90)
    QueryTimeout,   \* timeout of the HTTP client (300)
    MaxBackoff      \* longest pause between two probes (2)

ASSUME QueryLoadAssumption ==
    /\ Duration \in Nat \ {0}
    /\ SvcTimeout \in Nat
    /\ ProbeTimeout \in Nat
    /\ QueryTimeout \in Nat \ {0}
    /\ MaxBackoff \in Nat

VARIABLES
    pc,         \* the main goroutine
    clock,      \* seconds since the current wait or the load began
    busy,       \* seconds the current query or pause has taken
    tick,       \* a tick waits in the ticker's channel, which holds one
    fw,         \* the goroutine that runs ForwardPorts
    readyC,     \* readyCh is closed
    errC,       \* values in errCh
    stops,      \* times stopCh was closed
    cancelled,  \* the command's context is done
    podReady,   \* a pod behind the service is Running and Ready
    serverUp,   \* the query API behind the tunnel answers
    sent,       \* history: queries of the load phase
    answered    \* history: those that the stack answered

env  == <<podReady, serverUp>>
tunnel == <<fw, readyC, errC, stops>>
hist == <<sent, answered>>
vars == <<pc, clock, busy, tick, tunnel, cancelled, env, hist>>

TypeOK ==
    /\ pc \in {"svc", "pods", "select", "probe", "probing", "pause",
               "tick", "query", "ok", "err"}
    /\ clock \in Nat /\ busy \in Nat
    /\ tick \in BOOLEAN
    /\ fw \in {"none", "dialing", "listening", "ended"}
    /\ readyC \in BOOLEAN
    /\ errC \in 0..1
    /\ stops \in Nat
    /\ cancelled \in BOOLEAN /\ podReady \in BOOLEAN /\ serverUp \in BOOLEAN
    /\ sent \in Nat /\ answered \in 0..sent

Init ==
    /\ pc = "svc" /\ clock = 0 /\ busy = 0 /\ tick = FALSE
    /\ fw = "none" /\ readyC = FALSE /\ errC = 0 /\ stops = 0
    /\ cancelled = FALSE /\ podReady \in BOOLEAN /\ serverUp \in BOOLEAN
    /\ sent = 0 /\ answered = 0

(***************************************************************************)
(* PortForwardService.                                                     *)
(***************************************************************************)
\* Errors before the tunnel is handed over; nothing to close.
FailEarly == /\ pc' = "err"
             /\ UNCHANGED <<clock, busy, tick, fw, readyC, errC, stops,
                            cancelled, env, hist>>

SvcFound ==
    /\ pc = "svc" /\ ~cancelled
    /\ pc' = "pods"
    /\ UNCHANGED <<clock, busy, tick, tunnel, cancelled, env, hist>>

\* The wait is over, or the service has no selector to find pods with.
SvcMissing == pc = "svc" /\ (clock >= SvcTimeout \/ cancelled) /\ FailEarly

SvcUnusable == pc \in {"svc", "pods"} /\ ~cancelled /\ FailEarly

PodsWaitOn == pc = "pods" /\ cancelled /\ podReady /\ FailEarly

PodsCancelled == pc = "pods" /\ cancelled /\ FailEarly

\* The loop over the pods has no other bound than the context.
PodChosen ==
    /\ pc = "pods" /\ podReady /\ ~cancelled
    /\ pc' = "select" /\ fw' = "dialing"
    /\ UNCHANGED <<clock, busy, tick, readyC, errC, stops, cancelled, env, hist>>

\* The select: when several channels are ready, any of them may be taken.
SelectReady ==
    /\ pc = "select" /\ readyC
    /\ pc' = "probe" /\ clock' = 0
    /\ UNCHANGED <<busy, tick, tunnel, cancelled, env, hist>>

SelectError ==
    /\ pc = "select" /\ errC = 1
    /\ pc' = "err" /\ errC' = 0
    /\ UNCHANGED <<clock, busy, tick, fw, readyC, stops, cancelled, env, hist>>

SelectDoneHandsOver ==
    /\ pc = "select" /\ cancelled
    /\ pc' = "probe" /\ stops' = stops + 1
    /\ UNCHANGED <<clock, busy, tick, fw, readyC, errC, cancelled, env, hist>>

SelectDone ==
    /\ pc = "select" /\ cancelled
    /\ pc' = "err" /\ stops' = stops + 1
    /\ UNCHANGED <<clock, busy, tick, fw, readyC, errC, cancelled, env, hist>>

(***************************************************************************)
(* The goroutine around ForwardPorts.                                      *)
(***************************************************************************)
DialOK ==
    /\ fw = "dialing"
    /\ fw' = "listening" /\ readyC' = TRUE
    /\ UNCHANGED <<pc, clock, busy, tick, errC, stops, cancelled, env, hist>>

\* The dial fails, or the connection to the pod is lost.
TunnelLost ==
    /\ fw \in {"dialing", "listening"}
    /\ fw' = "ended" /\ errC' = errC + 1
    /\ UNCHANGED <<pc, clock, busy, tick, readyC, stops, cancelled, env, hist>>

\* stopCh is looked at once the listeners are open.
TunnelStopped ==
    /\ fw = "listening" /\ stops > 0
    /\ fw' = "ended" /\ errC' = errC + 1
    /\ UNCHANGED <<pc, clock, busy, tick, readyC, stops, cancelled, env, hist>>

(***************************************************************************)
(* Queries.  transientQueryErr takes refused and broken connections, and a *)
(* 404, for transient; a timeout of the client and a cancelled context are *)
(* not.  A dead tunnel refuses every connection.                           *)
(***************************************************************************)
Outcomes ==
    IF cancelled \/ busy >= QueryTimeout THEN {"fatal"}
    ELSE IF fw # "listening" THEN {"transient"}
    ELSE {"fatal", IF serverUp THEN "answer" ELSE "transient"}

LeaveOpenOnError(result) ==
    /\ pc' = result
    /\ stops' = IF result = "ok" THEN stops + 1 ELSE stops
    /\ UNCHANGED <<clock, busy, tick, fw, readyC, errC, cancelled, env>>

\* Every return of runQueryLoad from here on runs the deferred close(stopCh).
Leave(result) ==
    /\ pc' = result /\ stops' = stops + 1
    /\ UNCHANGED <<clock, busy, tick, fw, readyC, errC, cancelled, env>>

(***************************************************************************)
(* waitForQueryAPI.                                                        *)
(***************************************************************************)
ProbeExpired == clock >= ProbeTimeout

ProbeGivesUp ==
    /\ pc = "probe" /\ (ProbeExpired \/ cancelled)
    /\ Leave("err") /\ UNCHANGED hist

ProbeSends ==
    /\ pc = "probe" /\ ~ProbeExpired /\ ~cancelled
    /\ pc' = "probing" /\ busy' = 0
    /\ UNCHANGED <<clock, tick, tunnel, cancelled, env, hist>>

\* The first answer starts the timer and the ticker.
LoadBegins ==
    /\ pc = "probing" /\ "answer" \in Outcomes
    /\ pc' = "tick" /\ clock' = 0 /\ tick' = FALSE
    /\ UNCHANGED <<busy, tunnel, cancelled, env, hist>>

ProbeRetries ==
    /\ pc = "probing" /\ "transient" \in Outcomes
    /\ pc' = "pause" /\ busy' = 0
    /\ UNCHANGED <<clock, tick, tunnel, cancelled, env, hist>>

ProbeFails ==
    /\ pc = "probing" /\ "fatal" \in Outcomes
    /\ Leave("err") /\ UNCHANGED hist

PauseEnds ==
    /\ pc = "pause"
    /\ IF cancelled THEN Leave("err") /\ UNCHANGED hist
       ELSE /\ pc' = "probe"
            /\ UNCHANGED <<clock, busy, tick, tunnel, cancelled, env, hist>>

(***************************************************************************)
(* The load.                                                               *)
(***************************************************************************)
TimerFired == clock >= Duration

TickEnds ==
    /\ pc = "tick" /\ tick /\ TimerFired
    /\ Leave("ok") /\ UNCHANGED hist

TickSendsAgain ==
    /\ pc = "tick" /\ tick /\ ~TimerFired
    /\ pc' = "query" /\ busy' = 0 /\ sent' = sent + 1
    /\ UNCHANGED <<clock, tick, tunnel, cancelled, env, answered>>

TickSends ==
    /\ pc = "tick" /\ tick /\ ~TimerFired
    /\ pc' = "query" /\ busy' = 0 /\ tick' = FALSE
    /\ sent' = sent + 1
    /\ UNCHANGED <<clock, tunnel, cancelled, env, answered>>

QueryEndsLoad ==
    /\ pc = "query"
    /\ \/ /\ "answer" \in Outcomes
          /\ pc' = "tick" /\ answered' = answered + 1 /\ UNCHANGED stops
       \/ /\ "transient" \in Outcomes
          /\ pc' = "ok" /\ stops' = stops + 1 /\ UNCHANGED answered
    /\ UNCHANGED <<clock, busy, tick, fw, readyC, errC, cancelled, env, sent>>

QueryEnds ==
    /\ pc = "query"
    /\ \/ /\ "answer" \in Outcomes
          /\ pc' = "tick" /\ answered' = answered + 1
       \/ /\ "transient" \in Outcomes
          /\ pc' = "tick" /\ UNCHANGED answered
    /\ UNCHANGED <<clock, busy, tick, tunnel, cancelled, env, sent>>

QueryFails ==
    /\ pc = "query" /\ "fatal" \in Outcomes
    /\ Leave("err") /\ UNCHANGED hist

(***************************************************************************)
(* Time and the rest of the world.                                         *)
(***************************************************************************)
\* A second passes where the main goroutine is blocked: for the service, in a
\* query or a pause not longer than their limits, and for a tick.
Second ==
    /\ \/ pc = "svc" /\ clock < SvcTimeout
       \/ pc \in {"probing", "query"} /\ busy < QueryTimeout
       \/ pc = "pause" /\ busy < MaxBackoff
       \/ pc = "tick" /\ ~tick
    /\ clock' = clock + 1
    /\ busy' = IF pc \in {"probing", "query", "pause"} THEN busy + 1 ELSE busy
    /\ tick' = (tick \/ pc \in {"tick", "query"})
    /\ UNCHANGED <<pc, tunnel, cancelled, env, hist>>

Cancel ==
    /\ ~cancelled /\ pc \notin {"ok", "err"}
    /\ cancelled' = TRUE
    /\ UNCHANGED <<pc, clock, busy, tick, tunnel, env, hist>>

PodChanges ==
    /\ pc \notin {"ok", "err"}
    /\ podReady' = ~podReady
    /\ UNCHANGED <<pc, clock, busy, tick, tunnel, cancelled, serverUp, hist>>

ServerChanges ==
    /\ pc \notin {"ok", "err"}
    /\ serverUp' = ~serverUp
    /\ UNCHANGED <<pc, clock, busy, tick, tunnel, cancelled, podReady, hist>>

Returned ==
    /\ pc \in {"ok", "err"} /\ fw \in {"none", "ended"}
    /\ UNCHANGED vars

\* What the main goroutine does when nothing goes wrong outside it.
Main ==
    \/ SvcFound \/ SvcMissing \/ PodsCancelled \/ PodChosen
    \/ SelectReady \/ SelectError \/ SelectDone
    \/ ProbeGivesUp \/ ProbeSends \/ LoadBegins \/ ProbeRetries \/ ProbeFails
    \/ PauseEnds \/ TickEnds \/ TickSends \/ QueryEnds \/ QueryFails

Forwarder == DialOK \/ TunnelLost \/ TunnelStopped

Next ==
    \/ Main \/ SvcUnusable \/ Forwarder
    \/ Second \/ Cancel \/ PodChanges \/ ServerChanges \/ Returned

Spec == Init /\ [][Next]_vars

\* Both goroutines are scheduled, a dial comes to an end, time passes.  Nobody
\* promises a pod or an answer.
FairSpec ==
    /\ Spec
    /\ WF_vars(Main)
    /\ WF_vars(Second)
    /\ WF_vars(DialOK \/ (fw = "dialing" /\ TunnelLost))
    /\ WF_vars(TunnelStopped)

(***************************************************************************)
(* Properties.                                                             *)
(***************************************************************************)
\* stopCh is closed at most once (a second close panics), although the select
\* and the deferred call both close it; and every tunnel that was handed over
\* is told to stop by the time runQueryLoad has returned.
StopOnce ==
    /\ stops <= 1
    /\ pc \in {"ok", "err"} /\ fw \in {"dialing", "listening"} => stops = 1

\* Slow queries delay ticks and a tick may be dropped, but the load is never
\* more than one query per second of the load phase.
AtMostOneQps == sent > 0 => pc \in {"tick", "query", "ok", "err"} /\ sent <= clock

\* A nil result means the load lasted its whole duration, however often the
\* tunnel or the stack failed; and it came at most one query too late.
OkAfterDuration ==
    pc = "ok" => clock >= Duration /\ clock <= Duration + QueryTimeout

\* The wait for the query API can overshoot its 90 seconds by the last query and
\* the pause after it, not by more.
ProbeBounded ==
    pc \in {"probe", "probing", "pause"} =>
        clock < ProbeTimeout + QueryTimeout + MaxBackoff

\* When runQueryLoad has returned, the tunnel's goroutine ends too.
TunnelEnds == pc \in {"ok", "err"} ~> fw \in {"none", "ended"}

\* After Ctrl-C runQueryLoad returns, wherever it was.
CancelEnds == cancelled ~> pc \in {"ok", "err"}

\* The load generators call their one query per second a constant read load,
\* the same in every experiment: then each of them would be answered.
ReadLoadIsConstant == pc = "ok" => answered = sent

=============================================================================
