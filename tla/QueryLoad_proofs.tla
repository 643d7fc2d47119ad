-------------------------- MODULE QueryLoad_proofs --------------------------
(***************************************************************************)
(* The read load keeps its promises for every duration and every timeout.  *)
(* The invariant counts the closes of stopCh by the stage of the main      *)
(* goroutine, and ties the clock to the query or pause under way.          *)
(***************************************************************************)
EXTENDS QueryLoad, TLAPS

\* Once the tunnel is asked for, stopCh is closed exactly when the main
\* goroutine leaves, unless the tunnel's goroutine ended first.
StopInv ==
    /\ pc \notin {"ok", "err"} => stops = 0
    /\ pc \in {"svc", "pods"} => fw = "none"

\* The tunnel's goroutine sends its error as the last thing it does.
ErrInv == fw # "ended" => errC = 0

\* Nothing is counted before the load begins, and the query under way is not
\* answered yet.
IdleInv ==
    /\ pc \notin {"tick", "query", "ok", "err"} => sent = 0
    /\ pc = "query" => answered < sent

\* A tick that waits has its own second.
RateInv == pc \in {"tick", "query"} => (IF tick THEN sent + 1 ELSE sent) <= clock

\* How far a probe or a pause can take the wait.
ProbeInv ==
    /\ pc = "probe" => clock < ProbeTimeout + QueryTimeout + MaxBackoff
    /\ pc = "probing" => busy <= QueryTimeout /\ clock < ProbeTimeout + busy
    /\ pc = "pause" => busy <= MaxBackoff /\ clock < ProbeTimeout + QueryTimeout + busy

\* A query that takes no time is sent before the timer fires; any other leaves
\* a tick behind.
LoadInv ==
    /\ pc = "query" => /\ busy <= QueryTimeout /\ clock < Duration + busy
                       /\ busy > 0 => tick
    /\ pc = "tick" => /\ clock <= Duration + QueryTimeout
                      /\ ~tick => clock < Duration

IInv ==
    /\ TypeOK /\ StopInv /\ ErrInv /\ IdleInv /\ RateInv /\ ProbeInv /\ LoadInv
    /\ StopOnce /\ AtMostOneQps /\ OkAfterDuration

LEMMA InitInv == Init => IInv
<1> SUFFICES ASSUME Init PROVE IInv
  OBVIOUS
<1> USE QueryLoadAssumption DEF Init
<1>1. tick \in BOOLEAN /\ readyC \in BOOLEAN /\ cancelled \in BOOLEAN
  BY Zenon
<1>2. TypeOK
  BY <1>1 DEF TypeOK
<1>3. StopInv /\ ErrInv /\ IdleInv /\ RateInv /\ ProbeInv /\ LoadInv
  BY DEF StopInv, ErrInv, IdleInv, RateInv, ProbeInv, LoadInv
<1>4. StopOnce /\ AtMostOneQps /\ OkAfterDuration
  BY DEF StopOnce, AtMostOneQps, OkAfterDuration
<1> QED BY <1>2, <1>3, <1>4 DEF IInv

\* PortForwardService, up to the point where it returns.
LEMMA ForwardSteps ==
    ASSUME IInv,
           SvcFound \/ SvcMissing \/ SvcUnusable \/ PodsCancelled \/ PodChosen
             \/ SelectReady \/ SelectError \/ SelectDone
    PROVE  IInv'
<1> USE QueryLoadAssumption
    DEF env, tunnel, hist, FailEarly, SvcFound, SvcMissing, SvcUnusable, PodsCancelled,
        PodChosen, SelectReady, SelectError, SelectDone, IInv, TypeOK, StopInv, ErrInv, IdleInv
<1>5. /\ tick' \in BOOLEAN /\ readyC' \in BOOLEAN /\ cancelled' \in BOOLEAN
      /\ podReady' \in BOOLEAN /\ serverUp' \in BOOLEAN
  BY Zenon
<1>1. TypeOK'
  BY <1>5
<1>4. StopInv' /\ ErrInv' /\ IdleInv'
  OBVIOUS
<1>2. RateInv' /\ ProbeInv' /\ LoadInv'
  BY DEF RateInv, ProbeInv, LoadInv
<1>3. StopOnce' /\ AtMostOneQps' /\ OkAfterDuration'
  BY DEF StopOnce, AtMostOneQps, OkAfterDuration
<1> QED BY <1>1, <1>2, <1>3, <1>4

\* The goroutine around ForwardPorts.
LEMMA TunnelSteps ==
    ASSUME IInv, Forwarder
    PROVE  IInv'
<1> USE QueryLoadAssumption
    DEF env, tunnel, hist, Forwarder, DialOK, TunnelLost, TunnelStopped,
        IInv, TypeOK, StopInv, ErrInv, IdleInv
<1>5. /\ tick' \in BOOLEAN /\ readyC' \in BOOLEAN /\ cancelled' \in BOOLEAN
      /\ podReady' \in BOOLEAN /\ serverUp' \in BOOLEAN
  BY Zenon
<1>1. TypeOK'
  BY <1>5
<1>4. StopInv' /\ ErrInv' /\ IdleInv'
  OBVIOUS
<1>2. RateInv' /\ ProbeInv' /\ LoadInv'
  BY DEF RateInv, ProbeInv, LoadInv
<1>3. StopOnce' /\ AtMostOneQps' /\ OkAfterDuration'
  BY DEF StopOnce, AtMostOneQps, OkAfterDuration
<1> QED BY <1>1, <1>2, <1>3, <1>4

\* Only a query below its timeout has a transient outcome.
LEMMA TransientIsQuick == "transient" \in Outcomes => busy < QueryTimeout \/ busy \notin Nat
BY QueryLoadAssumption DEF Outcomes

LEMMA ProbeSteps ==
    ASSUME IInv, ProbeGivesUp \/ ProbeSends \/ ProbeRetries \/ ProbeFails \/ PauseEnds
    PROVE  IInv'
<1> USE QueryLoadAssumption
    DEF env, tunnel, hist, ProbeGivesUp, ProbeSends, ProbeRetries, ProbeFails, PauseEnds,
        Leave, IInv, TypeOK, StopInv, ErrInv, IdleInv
<1>5. /\ tick' \in BOOLEAN /\ readyC' \in BOOLEAN /\ cancelled' \in BOOLEAN
      /\ podReady' \in BOOLEAN /\ serverUp' \in BOOLEAN
  BY Zenon
<1>1. TypeOK'
  BY <1>5
<1>4. StopInv' /\ ErrInv' /\ IdleInv'
  OBVIOUS
<1>2. RateInv' /\ ProbeInv' /\ LoadInv'
  BY TransientIsQuick DEF RateInv, ProbeInv, LoadInv, ProbeExpired
<1>3. StopOnce' /\ AtMostOneQps' /\ OkAfterDuration'
  BY DEF StopOnce, AtMostOneQps, OkAfterDuration
<1> QED BY <1>1, <1>2, <1>3, <1>4

LEMMA LoadSteps ==
    ASSUME IInv, LoadBegins \/ TickEnds \/ TickSends \/ QueryEnds \/ QueryFails
    PROVE  IInv'
<1> USE QueryLoadAssumption
    DEF env, tunnel, hist, LoadBegins, TickEnds, TickSends, QueryEnds, QueryFails,
        Leave, TimerFired, IInv, TypeOK, StopInv, ErrInv, IdleInv
<1>5. /\ tick' \in BOOLEAN /\ readyC' \in BOOLEAN /\ cancelled' \in BOOLEAN
      /\ podReady' \in BOOLEAN /\ serverUp' \in BOOLEAN
  BY Zenon
<1>1. TypeOK'
  BY <1>5
<1>4. StopInv' /\ ErrInv' /\ IdleInv'
  OBVIOUS
<1>6. ProbeInv'
  BY DEF ProbeInv
<1>7. LoadBegins => RateInv' /\ LoadInv'
  BY DEF RateInv, LoadInv
<1>8. TickEnds \/ QueryFails => RateInv' /\ LoadInv'
  BY DEF RateInv, LoadInv
<1>9. TickSends => RateInv' /\ LoadInv'
  BY DEF RateInv, LoadInv
<1>10. QueryEnds => RateInv' /\ LoadInv'
  BY DEF RateInv, LoadInv
<1>2. RateInv' /\ ProbeInv' /\ LoadInv'
  BY <1>6, <1>7, <1>8, <1>9, <1>10
<1>3. StopOnce' /\ AtMostOneQps' /\ OkAfterDuration'
  BY DEF StopOnce, AtMostOneQps, OkAfterDuration, RateInv, LoadInv
<1> QED BY <1>1, <1>2, <1>3, <1>4

\* Time and the rest of the world.
LEMMA WorldSteps ==
    ASSUME IInv, Second \/ Cancel \/ PodChanges \/ ServerChanges \/ Returned
    PROVE  IInv'
<1> USE QueryLoadAssumption
    DEF env, tunnel, hist, vars, Second, Cancel, PodChanges, ServerChanges, Returned,
        IInv, TypeOK, StopInv, ErrInv, IdleInv
<1>5. /\ tick' \in BOOLEAN /\ readyC' \in BOOLEAN /\ cancelled' \in BOOLEAN
      /\ podReady' \in BOOLEAN /\ serverUp' \in BOOLEAN
  BY Zenon
<1>1. TypeOK'
  BY <1>5
<1>4. StopInv' /\ ErrInv' /\ IdleInv'
  OBVIOUS
<1>6. Second /\ pc \in {"tick", "query"} => tick'
  BY Zenon
<1>7. Second => RateInv' /\ ProbeInv' /\ LoadInv'
  BY <1>6 DEF RateInv, ProbeInv, LoadInv
<1>8. ~Second => RateInv' /\ ProbeInv' /\ LoadInv'
  BY DEF RateInv, ProbeInv, LoadInv
<1>2. RateInv' /\ ProbeInv' /\ LoadInv'
  BY <1>7, <1>8
<1>3. StopOnce' /\ AtMostOneQps' /\ OkAfterDuration'
  BY DEF StopOnce, AtMostOneQps, OkAfterDuration
<1> QED BY <1>1, <1>2, <1>3, <1>4

LEMMA StepInv == IInv /\ [Next]_vars => IInv'
<1> SUFFICES ASSUME IInv, [Next]_vars PROVE IInv'
  OBVIOUS
<1>1. CASE UNCHANGED vars
  BY <1>1
     DEF vars, env, tunnel, hist, IInv, TypeOK, StopInv, ErrInv, IdleInv, RateInv, ProbeInv,
         LoadInv, StopOnce, AtMostOneQps, OkAfterDuration
<1>2. CASE Next
  BY <1>2, ForwardSteps, TunnelSteps, ProbeSteps, LoadSteps, WorldSteps DEF Next, Main
<1> QED BY <1>1, <1>2

(***************************************************************************)
(* The strengthened invariant, for every duration and timeout.             *)
(***************************************************************************)
THEOREM Invariant == Spec => []IInv
<1> QED BY InitInv, StepInv, PTL DEF Spec

(***************************************************************************)
(* Type correctness; errCh never holds more than the one value it can.     *)
(***************************************************************************)
THEOREM TypeCorrect == Spec => []TypeOK
<1>1. IInv => TypeOK
  BY DEF IInv
<1> QED BY <1>1, Invariant, PTL

(***************************************************************************)
(* stopCh is never closed twice, and no tunnel is left without its close.  *)
(***************************************************************************)
THEOREM StoppedOnce == Spec => []StopOnce
<1>1. IInv => StopOnce
  BY DEF IInv
<1> QED BY <1>1, Invariant, PTL

(***************************************************************************)
(* The load sends at most one query in each second that it lasts.          *)
(***************************************************************************)
THEOREM RateKept == Spec => []AtMostOneQps
<1>1. IInv => AtMostOneQps
  BY DEF IInv
<1> QED BY <1>1, Invariant, PTL

(***************************************************************************)
(* Success means the whole duration, and at most one query more.           *)
(***************************************************************************)
THEOREM OkIsWholeLoad == Spec => []OkAfterDuration
<1>1. IInv => OkAfterDuration
  BY DEF IInv
<1> QED BY <1>1, Invariant, PTL

(***************************************************************************)
(* The wait for the query API ends within its time, a query and a pause.   *)
(***************************************************************************)
THEOREM ProbeIsBounded == Spec => []ProbeBounded
<1>1. IInv => ProbeBounded
  BY QueryLoadAssumption DEF IInv, TypeOK, ProbeInv, ProbeBounded
<1> QED BY <1>1, Invariant, PTL

=============================================================================
