-------------------------- MODULE Collector_proofs --------------------------
(***************************************************************************)
(* What the rows owe to the collector, for every duration, warm-up and     *)
(* timeout.  The invariant follows a round: what is already answered was   *)
(* evaluated after the tunnel was up and within the limit, and is not      *)
(* older than the last failure.                                            *)
(***************************************************************************)
EXTENDS Collector, TLAPS

\* The queries that the current round, or the row, has an answer to.
Answered == IF stage = "ok" THEN Queries ELSE IF stage = "query" THEN 1..(query - 1) ELSE {}

\* The order of the load's end, the tunnel and the query under way.
ClockInv ==
    /\ stage # "load" => duration <= loadEnd /\ loadEnd <= clock
    /\ stage \in {"select", "query", "ok"} => loadEnd <= up /\ up <= clock
    /\ stage = "query" => up + busy <= clock

RoundInv ==
    /\ \A q \in Answered : loadEnd <= at[q] /\ at[q] <= up + Timeout
    /\ Answered \cap stale = {}

IInv == TypeOK /\ ClockInv /\ RoundInv

\* The window, in whole seconds, is not longer than what follows the warm-up.
LEMMA WindowBound ==
    ASSUME duration \in Durations
    PROVE  /\ Window \in Nat
           /\ Window + (IF duration > Warmup THEN Warmup ELSE 0) <= duration
<1> USE CollectorAssumption
<1>1. CollectWindow \in Nat /\ duration \in Nat /\ Warmup \in Nat
  BY DEF CollectWindow
<1>2. CollectWindow + (IF duration > Warmup THEN Warmup ELSE 0) = duration
  BY <1>1 DEF CollectWindow
<1>3. CollectWindow % Second \in 0..(Second - 1)
  BY <1>1
<1>4. CollectWindow % Second <= CollectWindow
  BY <1>1
<1> QED BY <1>1, <1>2, <1>3, <1>4 DEF Window

LEMMA InitInv == Init => IInv
<1> SUFFICES ASSUME Init PROVE IInv
  OBVIOUS
<1>4. tick \in BOOLEAN /\ cancelled \in BOOLEAN
  BY Zenon DEF Init
<1>1. TypeOK
  BY <1>4, CollectorAssumption DEF Init, TypeOK, Queries, Disk, MemPeak
<1>2. ClockInv
  BY DEF Init, ClockInv
<1>3. RoundInv
  BY DEF Init, RoundInv, Answered
<1> QED BY <1>1, <1>2, <1>3 DEF IInv

\* From the load to the first round, and everything that ends in an error.
LEMMA StageSteps ==
    ASSUME IInv, LoadEnds \/ TunnelUp \/ NeverStarts \/ SelectDone \/ SelectTick
    PROVE  IInv'
<1> USE CollectorAssumption
    DEF IInv, LoadEnds, TunnelUp, NeverStarts, SelectDone, SelectTick
<1>5. tick' \in BOOLEAN /\ cancelled' \in BOOLEAN
  BY Zenon DEF TypeOK
<1>1. TypeOK'
  <2>1. Disk \in Queries
    BY DEF Disk, MemPeak, Queries
  <2>2. UNCHANGED <<duration, clock, at, stale>>
    OBVIOUS
  <2>3. {busy, loadEnd, up}' \subseteq Nat /\ query' \in Queries
    BY <2>1 DEF TypeOK
  <2> QED BY <1>5, <2>2, <2>3 DEF TypeOK
<1>2. ClockInv'
  BY DEF TypeOK, ClockInv
<1>3. Answered' = {}
  BY DEF Answered, Disk
<1>4. RoundInv'
  BY <1>3 DEF RoundInv
<1> QED BY <1>1, <1>2, <1>4

LEMMA AnswerSteps ==
    ASSUME IInv, Answer
    PROVE  IInv'
<1> USE CollectorAssumption DEF IInv
<1>1. PICK t \in (clock - busy)..clock : at' = [at EXCEPT ![query] = t]
  BY DEF Answer
<1>2. t \in Nat /\ loadEnd <= t /\ t <= up + Timeout
  BY <1>1 DEF Answer, TypeOK, ClockInv, Done
<1>3. TypeOK'
  BY <1>1, <1>2 DEF Answer, TypeOK, Queries, Disk, MemPeak
<1>4. ClockInv'
  BY DEF Answer, TypeOK, ClockInv, Done
<1>5. Answered' = Answered \cup {query}
  BY DEF Answer, Answered, TypeOK, Queries, Disk, MemPeak
<1>6. Answered \subseteq Queries /\ query \in Queries
  BY DEF Answered, TypeOK, Queries, Disk, MemPeak
<1>7. RoundInv'
  <2>1. \A q \in Answered' : loadEnd' <= at'[q] /\ at'[q] <= up' + Timeout
    BY <1>1, <1>2, <1>5, <1>6 DEF Answer, RoundInv, TypeOK
  <2>2. Answered' \cap stale' = {}
    BY <1>5 DEF Answer, RoundInv
  <2> QED BY <2>1, <2>2 DEF RoundInv
<1> QED BY <1>3, <1>4, <1>7

LEMMA FailSteps ==
    ASSUME IInv, Fail
    PROVE  IInv'
<1> USE CollectorAssumption DEF IInv, Fail
<1>1. TypeOK'
  BY DEF TypeOK, Queries, Disk, MemPeak
<1>2. ClockInv'
  BY DEF TypeOK, ClockInv
<1>3. RoundInv'
  BY DEF RoundInv, Answered
<1> QED BY <1>1, <1>2, <1>3

LEMMA WorldSteps ==
    ASSUME IInv, Pass \/ Cancel \/ UNCHANGED vars
    PROVE  IInv'
<1> USE CollectorAssumption DEF IInv, Pass, Cancel, vars
<1>1. tick' \in BOOLEAN /\ cancelled' \in BOOLEAN
  BY Zenon DEF TypeOK
<1>2. TypeOK'
  BY <1>1 DEF TypeOK
<1>3. ClockInv'
  BY DEF TypeOK, ClockInv
<1>4. RoundInv'
  BY DEF RoundInv, Answered
<1> QED BY <1>2, <1>3, <1>4

LEMMA StepInv == IInv /\ [Next]_vars => IInv'
BY StageSteps, AnswerSteps, FailSteps, WorldSteps DEF Next, Collector, Returned

(***************************************************************************)
(* The strengthened invariant, for every duration and timeout.             *)
(***************************************************************************)
THEOREM Invariant == Spec => []IInv
<1> QED BY InitInv, StepInv, PTL DEF Spec

(***************************************************************************)
(* Type correctness.                                                       *)
(***************************************************************************)
THEOREM TypeCorrect == Spec => []TypeOK
<1>1. IInv => TypeOK
  BY DEF IInv
<1> QED BY <1>1, Invariant, PTL

(***************************************************************************)
(* No window of a row reaches back into the warm-up.                       *)
(***************************************************************************)
THEOREM NoWarmup == Spec => []WarmupExcluded
<1>1. IInv => WarmupExcluded
  <2> SUFFICES ASSUME IInv, stage = "ok", NEW q \in Queries
               PROVE  at[q] >= Window + (IF duration > Warmup THEN Warmup ELSE 0)
    BY DEF WarmupExcluded
  <2>1. at[q] \in Nat /\ duration \in Nat /\ loadEnd \in Nat /\ duration \in Durations
    BY CollectorAssumption DEF IInv, TypeOK
  <2>2. duration <= loadEnd /\ loadEnd <= at[q]
    BY DEF IInv, ClockInv, RoundInv, Answered
  <2> QED BY <2>1, <2>2, WindowBound, CollectorAssumption
<1> QED BY <1>1, Invariant, PTL

(***************************************************************************)
(* A row is made of the answers of one round, and the idle end of a window *)
(* is the wait for the tunnel and ten minutes.                             *)
(***************************************************************************)
THEOREM OneRound == Spec => []RowOfOneRound
<1>1. IInv => RowOfOneRound
  <2>1. IInv /\ stage = "ok" => stale = {}
    BY DEF IInv, TypeOK, RoundInv, Answered
  <2>2. ASSUME IInv, stage = "ok", NEW q \in Queries
        PROVE  loadEnd <= at[q] /\ at[q] - loadEnd <= (up - loadEnd) + Timeout
    BY <2>2, CollectorAssumption DEF IInv, TypeOK, ClockInv, RoundInv, Answered
  <2> QED BY <2>1, <2>2 DEF RowOfOneRound
<1> QED BY <1>1, Invariant, PTL

=============================================================================
