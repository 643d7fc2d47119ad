--------------------------- MODULE Images_proofs ---------------------------
(***************************************************************************)
(* The two programs that obs-bench runs in the cluster as images of its own*)
(* and whose behaviour the rows depend on: the log load generator and the  *)
(* disk exporter with the query that reads it.  They share nothing but this*)
(* module.                                                                 *)
(***************************************************************************)
EXTENDS LogGenerator, DiskMetric, WellFoundedInduction, TLAPS

(***************************************************************************)
(* The log load keeps its rate for every Lps, batch size and timeout.  The *)
(* invariant ties the lines stored to the rounds begun and to the lines of *)
(* this round, the clock to the deadline of this round, and, as long as no *)
(* request failed, the lines sent to the time they took.                   *)
(***************************************************************************)
\* A request carries at most what the round still owes.
BatchInv == pc = "flush" => sent + batch <= Lps

\* Lines are acknowledged before they count, and counted once.
StoredInv == stored <= (rounds - 1) * Lps + sent + doubled

\* No round begins before its second.
StartInv == (rounds - 1) * Second <= start /\ start <= now

\* Where the clock can be in each stage of a round.
ClockInv ==
    /\ pc = "flush" => busy <= Timeout /\ now <= Deadline + busy
    /\ pc = "pause" => busy <= Pause /\ now <= Deadline + Timeout + busy
    /\ now <= Deadline + Timeout + Pause

\* A round without a failure has sent whole batches only, and none of them took
\* longer than the slowest: the time of the round is that of its requests.
FastInv ==
    ~failed /\ sent < Lps =>
        /\ pc # "pause"
        /\ pc = "flush" => batch = NextBatch
        /\ pc = "rest" => now >= Deadline
        /\ \E k \in Nat :
              /\ sent = k * WholeBatch
              /\ now - start <= k * slowest + (IF pc = "flush" THEN busy ELSE 0)

IInv == TypeOK /\ BatchInv /\ StoredInv /\ StartInv /\ ClockInv

\* A batch is a positive number of lines; the round owes no less than nothing.
LEMMA WholeBatchNat == WholeBatch \in Nat \ {0}
<1>1. Lps \div Parts \in Int
  BY LogGeneratorAssumption
<1> QED BY <1>1, LogGeneratorAssumption DEF WholeBatch

\* The next batch fits into what the round owes.
LEMMA NextBatchBound ==
    ASSUME TypeOK, More
    PROVE  NextBatch \in 0..Lps /\ sent + NextBatch <= Lps
BY WholeBatchNat, LogGeneratorAssumption DEF TypeOK, More, NextBatch

\* The generator begins with nothing sent.
LEMMA InitInv == Init => IInv
<1> SUFFICES ASSUME Init PROVE IInv
  OBVIOUS
<1> USE LogGeneratorAssumption DEF Init
<1>1. (rounds - 1) * Lps = 0 /\ (rounds - 1) * Second = 0
  OBVIOUS
<1>2. TypeOK
  <2>1. /\ 0 \in 0..Lps /\ 0 \in 0..Timeout /\ 0 \in 0..(Timeout + Pause)
        /\ 1 \in Nat \ {0}
    OBVIOUS
  <2> QED BY <2>1 DEF TypeOK
<1>3. BatchInv /\ StoredInv /\ StartInv
  BY <1>1 DEF BatchInv, StoredInv, StartInv
<1>4. ClockInv
  BY DEF ClockInv, Deadline
<1> QED BY <1>2, <1>3, <1>4 DEF IInv

\* Every step of the generator and of the clock keeps the invariant.
LEMMA StepInv == IInv /\ [Next]_vars => IInv'
<1> SUFFICES ASSUME IInv, [Next]_vars PROVE IInv'
  OBVIOUS
<1> USE LogGeneratorAssumption DEF IInv, TypeOK
<1>1. CASE SendBatch
  <2>1. NextBatch \in 0..Lps /\ sent + NextBatch <= Lps
    BY <1>1, NextBatchBound DEF SendBatch
  <2>2. TypeOK' /\ BatchInv'
    BY <1>1, <2>1 DEF SendBatch, BatchInv
  <2>3. StoredInv' /\ StartInv'
    BY <1>1 DEF SendBatch, StoredInv, StartInv
  <2>4. ClockInv'
    BY <1>1 DEF SendBatch, More, ClockInv, Deadline
  <2> QED BY <2>2, <2>3, <2>4
<1>2. CASE FlushOK
  <2>1. TypeOK' /\ BatchInv'
    BY <1>2 DEF FlushOK, BatchInv, ClockInv, Slowest
  <2>2. StoredInv' /\ StartInv'
    BY <1>2 DEF FlushOK, StoredInv, StartInv
  <2>3. ClockInv'
    BY <1>2 DEF FlushOK, ClockInv, Deadline
  <2> QED BY <2>1, <2>2, <2>3
<1>3. CASE FlushFails
  <2>1. TypeOK' /\ BatchInv'
    BY <1>3 DEF FlushFails, BatchInv, ClockInv, Slowest
  <2>2. StoredInv' /\ StartInv'
    BY <1>3 DEF FlushFails, StoredInv, StartInv
  <2>3. ClockInv'
    BY <1>3 DEF FlushFails, ClockInv, Deadline
  <2> QED BY <2>1, <2>2, <2>3
<1>4. CASE PauseEnds
  BY <1>4 DEF PauseEnds, BatchInv, StoredInv, StartInv, ClockInv, Deadline
<1>5. CASE RoundDone
  BY <1>5 DEF RoundDone, BatchInv, StoredInv, StartInv, ClockInv, Deadline
<1>6. CASE NextRound
  <2>0. rounds' \in Nat \ {0} /\ sent' \in 0..Lps /\ slowest' \in 0..Timeout
    BY <1>6 DEF NextRound
  <2>1. TypeOK' /\ BatchInv'
    BY <1>6, <2>0 DEF NextRound, BatchInv
  <2>2. (rounds' - 1) * Lps = (rounds - 1) * Lps + Lps
    BY <1>6 DEF NextRound
  <2>3. (rounds' - 1) * Second = (rounds - 1) * Second + Second
    BY <1>6 DEF NextRound
  <2>4. (rounds - 1) * Lps \in Nat /\ (rounds - 1) * Second \in Nat
    OBVIOUS
  <2>5. StoredInv'
    BY <1>6, <2>2, <2>4 DEF NextRound, StoredInv
  <2>6. StartInv'
    BY <1>6, <2>3, <2>4 DEF NextRound, StartInv, Rested, Deadline
  <2>7. ClockInv'
    BY <1>6 DEF NextRound, ClockInv, Deadline
  <2> QED BY <2>1, <2>5, <2>6, <2>7
<1>7. CASE TimePasses
  <2>1. TypeOK' /\ BatchInv'
    BY <1>7 DEF TimePasses, BatchInv, ClockInv
  <2>2. StoredInv' /\ StartInv'
    BY <1>7 DEF TimePasses, StoredInv, StartInv
  <2>3. ClockInv'
    BY <1>7 DEF TimePasses, ClockInv, Deadline
  <2> QED BY <2>1, <2>2, <2>3
<1>8. CASE Finished \/ UNCHANGED vars
  BY <1>8 DEF Finished, vars, BatchInv, StoredInv, StartInv, ClockInv, Deadline
<1> QED
  BY <1>1, <1>2, <1>3, <1>4, <1>5, <1>6, <1>7, <1>8 DEF Next, Loop

\* One more whole batch, one more request.
LEMMA FastFlush == IInv /\ FastInv /\ FlushOK => FastInv'
<1> SUFFICES ASSUME IInv, FastInv, FlushOK, ~failed, sent' < Lps
             PROVE  FastInv'
  BY DEF FlushOK, FastInv
<1> USE LogGeneratorAssumption, WholeBatchNat DEF IInv, TypeOK
<1> WholeBatch' = WholeBatch
  BY DEF WholeBatch
<1>1. sent' = sent + batch /\ sent < Lps
  BY DEF FlushOK
<1>2. batch = WholeBatch
  BY <1>1 DEF FlushOK, FastInv, NextBatch
<1>3. PICK k \in Nat : sent = k * WholeBatch /\ now - start <= k * slowest + busy
  BY <1>1 DEF FlushOK, FastInv
<1>4. slowest \in Nat /\ slowest' \in Nat /\ slowest <= slowest' /\ busy <= slowest'
  BY DEF FlushOK, Slowest
<1>5. \A n \in Nat : k * n \in Nat /\ (k + 1) * n = k * n + n
  BY <1>3
<1>6. \A m, n \in Nat : m <= n => k * m <= k * n
  BY <1>3
<1>7. sent' = (k + 1) * WholeBatch
  BY <1>1, <1>2, <1>3
<1>8. now' - start' <= (k + 1) * slowest'
  <2>1. k * slowest <= k * slowest'
    BY <1>4, <1>6
  <2>2. /\ k * slowest \in Nat /\ k * slowest' \in Nat
        /\ (k + 1) * slowest' = k * slowest' + slowest'
    BY <1>4, <1>5
  <2> QED BY <1>3, <1>4, <2>1, <2>2 DEF FlushOK
<1>9. k + 1 \in Nat /\ pc' = "check" /\ (k + 1) * slowest' + 0 = (k + 1) * slowest'
  BY <1>3, <1>4, <1>5 DEF FlushOK
<1> QED BY <1>7, <1>8, <1>9 DEF FastInv

\* Every other step keeps the batches whole.
LEMMA FastStep == IInv /\ FastInv /\ [Next]_vars => FastInv'
<1> SUFFICES ASSUME IInv, FastInv, [Next]_vars PROVE FastInv'
  OBVIOUS
<1> USE LogGeneratorAssumption, WholeBatchNat DEF IInv, TypeOK
<1> WholeBatch' = WholeBatch
  BY DEF WholeBatch
<1>1. CASE SendBatch
  BY <1>1 DEF SendBatch, FastInv, NextBatch
<1>2. CASE FlushOK
  BY <1>2, FastFlush
<1>3. CASE FlushFails
  BY <1>3 DEF FlushFails, FastInv
<1>4. CASE PauseEnds
  BY <1>4 DEF PauseEnds, FastInv
<1>5. CASE RoundDone
  BY <1>5 DEF RoundDone, More, Deadline, FastInv
<1>6. CASE NextRound
  <2>1. 0 * WholeBatch = 0 /\ 0 * 0 = 0
    OBVIOUS
  <2> QED BY <1>6, <2>1 DEF NextRound, FastInv
<1>7. CASE TimePasses
  <2>1. SUFFICES ASSUME ~failed, sent < Lps PROVE FastInv'
    BY <1>7 DEF TimePasses, FastInv
  <2>2. PICK k \in Nat : /\ sent = k * WholeBatch
                         /\ now - start <= k * slowest + (IF pc = "flush" THEN busy ELSE 0)
    BY <2>1 DEF FastInv
  <2>3. pc = "flush" /\ batch = NextBatch
    BY <1>7, <2>1 DEF TimePasses, FastInv, Deadline
  <2>4. k * slowest \in Nat
    BY <2>2
  <2>5. now' - start' <= k * slowest' + busy'
    BY <1>7, <2>2, <2>3, <2>4 DEF TimePasses
  <2>6. pc' = "flush" /\ sent' = sent /\ batch' = batch /\ NextBatch' = NextBatch
    BY <1>7, <2>3 DEF TimePasses, NextBatch
  <2> QED BY <2>2, <2>3, <2>5, <2>6 DEF FastInv
<1>8. CASE Finished \/ UNCHANGED vars
  BY <1>8 DEF Finished, vars, FastInv, Deadline, NextBatch
<1> QED
  BY <1>1, <1>2, <1>3, <1>4, <1>5, <1>6, <1>7, <1>8 DEF Next, Loop

\* The invariant of the generator.
THEOREM Invariant == Spec => []IInv
BY InitInv, StepInv, PTL DEF Spec

\* Types: in particular, a round never sends more than Lps lines, however the
\* batches divide them.
THEOREM TypeCorrect == Spec => []TypeOK
<1>1. IInv => TypeOK
  BY DEF IInv
<1> QED BY <1>1, Invariant, PTL

\* The load generator is never faster than LOGS_PER_SEC, whatever its backend
\* does, but for lines that failed requests stored.
THEOREM RateKept == Spec => []NeverFaster
<1>1. IInv => NeverFaster
  <2> SUFFICES ASSUME IInv PROVE NeverFaster
    OBVIOUS
  <2> USE LogGeneratorAssumption DEF IInv, TypeOK
  <2>1. rounds * Lps = (rounds - 1) * Lps + Lps /\ (rounds - 1) * Lps \in Nat
    OBVIOUS
  <2> QED BY <2>1 DEF StoredInv, StartInv, NeverFaster
<1> QED BY <1>1, Invariant, PTL

\* The requests of a round are at least one more than the whole batches that
\* leave lines over.
LEMMA RequestsBound ==
    ASSUME NEW k \in Nat, k * WholeBatch < Lps
    PROVE  Requests \in Nat /\ k + 1 <= Requests
<1> USE LogGeneratorAssumption, WholeBatchNat
<1>1. (k + 1) * WholeBatch = k * WholeBatch + WholeBatch /\ k * WholeBatch \in Nat
  OBVIOUS
<1>2. (k + 1) * WholeBatch <= Lps + WholeBatch - 1
  BY <1>1
<1>3. ASSUME NEW n \in Nat, NEW w \in Nat \ {0}, NEW j \in Nat, j * w <= n
      PROVE  n \div w \in Nat /\ j <= n \div w
  <2>1. n \div w \in Nat /\ n = w * (n \div w) + (n % w) /\ (n % w) < w
    OBVIOUS
  <2>2. CASE j > n \div w
    <3>1. j >= (n \div w) + 1
      BY <2>1, <2>2
    <3>2. w * j >= w * ((n \div w) + 1)
      BY <2>1, <3>1
    <3>3. w * ((n \div w) + 1) = w * (n \div w) + w /\ w * j = j * w
      BY <2>1
    <3>4. w * (n \div w) \in Nat /\ n % w \in Nat /\ w * j \in Nat
      BY <2>1
    <3> QED BY <1>3, <2>1, <3>2, <3>3, <3>4
  <2> QED BY <2>1, <2>2
<1>4. Lps + WholeBatch - 1 \in Nat /\ k + 1 \in Nat
  OBVIOUS
<1> QED BY <1>2, <1>3, <1>4 DEF Requests

\* The full rate is reached whatever the sizes, unless a request of the round
\* failed or took longer than its share of the second.
THEOREM FullRate == Spec => []FullUnlessSlow
<1>1. Init => FastInv
  <2>1. 0 * WholeBatch = 0 /\ 0 * 0 = 0
    BY WholeBatchNat
  <2> QED BY <2>1 DEF Init, FastInv
<1>2. IInv /\ FastInv => FullUnlessSlow
  <2> SUFFICES ASSUME IInv, FastInv, pc = "rest", ~failed, sent < Lps,
                      slowest * Requests <= Second
               PROVE  FALSE
    BY LogGeneratorAssumption DEF FullUnlessSlow, IInv, TypeOK
  <2> USE LogGeneratorAssumption DEF IInv, TypeOK
  <2>1. PICK k \in Nat : sent = k * WholeBatch /\ now - start <= k * slowest + 0
    BY DEF FastInv
  <2>2. Second <= k * slowest
    BY <2>1 DEF FastInv, Deadline
  <2>3. Requests \in Nat /\ k + 1 <= Requests
    BY <2>1, RequestsBound
  <2>4. slowest * (k + 1) <= slowest * Requests
    BY <2>1, <2>3
  <2>5. slowest * (k + 1) = k * slowest + slowest
    BY <2>1
  <2>6. slowest = 0
    BY <2>1, <2>2, <2>3, <2>4, <2>5
  <2> QED BY <2>1, <2>2, <2>6
<1> QED BY <1>1, <1>2, InitInv, StepInv, FastStep, PTL DEF Spec

\* A round ends at most one request and one pause after its second.
THEOREM RoundsBounded == Spec => []RoundBounded
<1>1. IInv => RoundBounded
  BY DEF IInv, ClockInv, RoundBounded
<1> QED BY <1>1, Invariant, PTL

(***************************************************************************)
(* The disk usage of a row, for all periods and limits.  The invariant names*)
(* for the value that the exporter answers, and for each sample, the       *)
(* measurement behind it, and bounds its age by the schedule of the ticker:*)
(* how long ago the last measurement began says when the next one ends.    *)
(***************************************************************************)
\* The value came from the measurement that began at x, or from its failure.
Measured(v, x) == v \in history[x] \/ (v = 0 /\ x \in failures)

\* The next measurement begins, or the one under way began, soon after x.
Recent(x) ==
    LET limit == x + CollectEvery + MaxDu
    IN  /\ col = "measuring" => clock - duFor <= limit
        /\ col = "idle" /\ due => clock <= limit
        /\ col = "idle" /\ ~due => clock + untilTick <= limit

\* The first measurement begins at once, and nothing is published before it ends.
FirstInv ==
    untilTick = 0 => /\ used = 0
                     /\ \/ col = "measuring" /\ clock = duFor
                        \/ col = "idle" /\ due /\ clock = 0

\* What the measurement under way saw.
ReadingInv ==
    /\ disk \in history[clock]
    /\ col = "measuring" => /\ duFor <= clock
                            /\ Measured(IF reading = NoValue THEN 0 ELSE reading,
                                        clock - duFor)

\* What the exporter answers, once it has measured.
UsedInv ==
    untilTick # 0 => \E x \in Times : x <= clock /\ Recent(x) /\ Measured(used, x)

\* What is behind a sample.
SampleInv ==
    \A t \in Times : samples[t] # NoValue =>
        /\ t <= clock
        /\ samples[t] = Stale => t \in failures
        /\ \/ samples[t] = Stale
           \/ samples[t] = 0 /\ t <= MaxDu
           \/ \E x \in Times : x <= t /\ t <= x + Lag /\ Measured(samples[t], x)

\* A scrape that is over and within reach of a query left a sample or failed.
ScrapeInv ==
    \A t \in Times :
        /\ t % ScrapeEvery = 0 /\ t <= clock /\ (t = clock => ~owed)
        /\ clock <= t + Window + LookbackDelta
        => samples[t] # NoValue \/ t \in failures

RowInv == RowWasReal /\ SustainedIsSeen

DiskInv == /\ DiskTypeOK /\ FirstInv /\ ReadingInv /\ UsedInv
           /\ SampleInv /\ ScrapeInv /\ RowInv

\* What the types say of numbers.
LEMMA Ranges ==
    ASSUME DiskTypeOK
    PROVE  /\ \A n \in Times : n \in Nat
           /\ clock \in Times /\ duFor \in 0..MaxDu /\ untilTick \in 0..CollectEvery
           /\ col \in {"idle", "measuring"} /\ due \in BOOLEAN
           /\ used \in Sizes /\ NoValue \notin Sizes /\ Stale \notin Sizes /\ Stale # NoValue
<1>1. MaxSize \in Nat /\ MaxTime \in Nat
  BY DiskMetricAssumption
<1>2. NoValue \notin Sizes /\ Stale \notin Sizes /\ Stale # NoValue
  BY <1>1 DEF Sizes, NoValue, Stale
<1>3. \A n \in Times : n \in Nat
  BY <1>1 DEF Times
<1> QED BY <1>2, <1>3 DEF DiskTypeOK

(***************************************************************************)
(* Numbers, for both the schedule and the query.                           *)
(***************************************************************************)
\* A set of naturals has a least member, and Min is it.
LEMMA MinFact ==
    ASSUME NEW S \in SUBSET Nat, S # {}
    PROVE  Min(S) \in S /\ \A n \in S : Min(S) <= n
<1>1. PICK m \in S : \A n \in S : <<n, m>> \notin OpToRel(<, Nat)
  BY NatLessThanWellFounded, WFMin, Zenon
<1>2. \A n \in S : ~ (n < m)
  BY <1>1 DEF OpToRel
<1>3. \A n \in S : m <= n
  BY <1>2
<1> QED BY <1>3 DEF Min

\* A bounded set of naturals has a greatest member, and Max is it.
LEMMA MaxFact ==
    ASSUME NEW k \in Nat, NEW S \in SUBSET (0..k), S # {}
    PROVE  Max(S) \in S /\ \A n \in S : n <= Max(S)
<1> DEFINE T == {k - n : n \in S}
<1>1. T \in SUBSET Nat /\ T # {}
  <2>1. \A n \in S : k - n \in Nat
    OBVIOUS
  <2> QED BY <2>1
<1>2. Min(T) \in T /\ \A n \in T : Min(T) <= n
  BY <1>1, MinFact
<1>3. PICK m \in S : Min(T) = k - m
  BY <1>2
<1>4. \A n \in S : k - m <= k - n
  BY <1>2, <1>3
<1>5. \A n \in S : m >= n
  BY <1>4
<1>6. Max(S) \in S /\ \A n \in S : Max(S) >= n
  BY <1>5 DEF Max
<1> QED BY <1>6

\* Among as many numbers as the period there is one of each phase.
LEMMA PhaseFact ==
    ASSUME NEW period \in Nat \ {0}, NEW low \in Nat, NEW phase \in 0..(period - 1)
    PROVE  \E n \in low..(low + period - 1) : n % period = phase
<1>1. PICK q \in Int, r \in 0..(period - 1) : low = period * q + r
  <2>1. /\ low \div period \in Int /\ low % period \in 0..(period - 1)
        /\ low = period * (low \div period) + (low % period)
    OBVIOUS
  <2> QED BY <2>1
<1>2. \A i \in Int : (period * i + phase) % period = phase
  OBVIOUS
<1>3. period * (q + 1) = period * q + period /\ period * q \in Int
  OBVIOUS
<1>4. CASE phase >= r
  <2>1. period * q + phase \in low..(low + period - 1)
    BY <1>1, <1>3, <1>4
  <2> QED BY <2>1, <1>2
<1>5. CASE phase < r
  <2>1. period * (q + 1) + phase \in low..(low + period - 1)
    BY <1>1, <1>3, <1>5
  <2>2. (period * (q + 1) + phase) % period = phase
    BY <1>1, <1>2
  <2> QED BY <2>1, <2>2
<1> QED BY <1>4, <1>5

(***************************************************************************)
(* The steps.                                                              *)
(***************************************************************************)
\* It holds before the first measurement.
LEMMA DiskInitInv == DiskInit => DiskInv
<1> SUFFICES ASSUME DiskInit PROVE DiskInv
  OBVIOUS
<1> USE DiskMetricAssumption DEF DiskInit
<1>1. 0 \in Times /\ \A t \in Times : t \in Nat /\ t <= MaxTime
  BY DEF Times
<1>2. /\ Sizes \subseteq 0..NoValue /\ 0 \in Sizes
      /\ NoValue \in 0..NoValue /\ NoValue \in 0..Stale
  BY DEF Sizes, NoValue, Stale
<1>3. /\ history \in [Times -> SUBSET Sizes]
      /\ samples \in [Times -> 0..Stale]
  BY <1>2
<1>4. 0 \in 0..CollectEvery /\ 0 \in 0..MaxDu
  OBVIOUS
<1>5. DiskTypeOK
  BY <1>1, <1>2, <1>3, <1>4 DEF DiskTypeOK
<1>6. FirstInv /\ ReadingInv /\ UsedInv
  BY <1>1 DEF FirstInv, ReadingInv, UsedInv
<1>7. SampleInv
  BY DEF SampleInv
<1>8. ScrapeInv
  BY <1>1 DEF ScrapeInv
<1>9. RowInv
  BY DEF RowInv, RowWasReal, SustainedIsSeen
<1> QED BY <1>5, <1>6, <1>7, <1>8, <1>9 DEF DiskInv

\* What was measured stays in the histories.
LEMMA MeasuredKept ==
    ASSUME DiskTypeOK, DiskNext, NEW x \in Times, x <= clock, NEW v, Measured(v, x)
    PROVE  v \in history'[x] \/ (v = 0 /\ x \in failures')
<1>1. failures \subseteq failures'
  BY DEF DiskNext, DiskChanges, MeasureBegins, MeasureEnds, Scrape, ScrapeFails,
         Query, ClockTicks, Failure
<1>2. CASE DiskChanges
  BY <1>1, <1>2 DEF DiskChanges, DiskTypeOK, Measured
<1>3. CASE ClockTicks
  <2>1. clock + 1 # x
    BY DiskMetricAssumption DEF DiskTypeOK, Times
  <2> QED BY <1>1, <1>3, <2>1 DEF ClockTicks, DiskTypeOK, Measured
<1>4. CASE ~DiskChanges /\ ~ClockTicks
  <2>1. history' = history
    BY <1>4 DEF DiskNext, MeasureBegins, MeasureEnds, Scrape, ScrapeFails, Query
  <2> QED BY <1>1, <2>1 DEF Measured
<1> QED BY <1>2, <1>3, <1>4

\* Types; the query has a lemma of its own, because its row is a maximum.
LEMMA DiskTypeStep == DiskTypeOK /\ (DiskNext /\ ~Query) => DiskTypeOK'
<1> SUFFICES ASSUME DiskTypeOK, DiskNext, ~Query PROVE DiskTypeOK'
  OBVIOUS
<1> USE DiskMetricAssumption DEF DiskTypeOK
<1>0. Sizes \subseteq 0..NoValue /\ 0 \in Sizes /\ {NoValue, Stale} \subseteq 0..Stale
      /\ NoValue \in 0..NoValue /\ 0..NoValue \subseteq 0..Stale
      /\ \A r \in 0..NoValue : r = NoValue \/ r \in Sizes
  BY DEF Sizes, NoValue, Stale
<1>1. CASE DiskChanges
  BY <1>1 DEF DiskChanges, exporter
<1>2. CASE MeasureBegins
  <2>1. failures' \subseteq Times /\ reading' \in 0..NoValue /\ duFor' \in 0..MaxDu
    BY <1>0, <1>2 DEF MeasureBegins, Failure
  <2> QED BY <1>2, <2>1 DEF MeasureBegins
<1>3. CASE MeasureEnds
  <2>1. used' \in Sizes
    BY <1>0, <1>3 DEF MeasureEnds, Published
  <2>2. untilTick' \in 0..CollectEvery /\ duFor' \in 0..MaxDu
    BY <1>3 DEF MeasureEnds
  <2> QED BY <1>0, <1>3, <2>1, <2>2 DEF MeasureEnds
<1>4. CASE Scrape
  <2>1. samples' \in [Times -> 0..Stale]
    BY <1>0, <1>4 DEF Scrape
  <2> QED BY <1>4, <2>1 DEF Scrape, exporter
<1>5. CASE ScrapeFails
  <2>1. samples' \in [Times -> 0..Stale]
    BY <1>0, <1>5 DEF ScrapeFails
  <2>2. failures' \subseteq Times
    BY <1>5 DEF ScrapeFails, Failure
  <2> QED BY <1>5, <2>1, <2>2 DEF ScrapeFails, exporter
<1>6. CASE ClockTicks
  <2>1. clock' \in Times
    BY <1>6 DEF ClockTicks, Times
  <2>2. samples' \in [Times -> 0..Stale] /\ history' \in [Times -> SUBSET Sizes]
    BY <1>0, <1>6 DEF ClockTicks
  <2>3. untilTick' \in 0..CollectEvery /\ duFor' \in 0..MaxDu
    BY <1>6 DEF ClockTicks
  <2>4. due' \in BOOLEAN /\ owed' \in BOOLEAN
    <3>1. (due \/ untilTick = 1) \in BOOLEAN /\ ((clock + 1) % ScrapeEvery = 0) \in BOOLEAN
      OBVIOUS
    <3> QED BY <1>6, <3>1 DEF ClockTicks
  <2> QED BY <1>6, <2>1, <2>2, <2>3, <2>4 DEF ClockTicks
<1> QED BY <1>1, <1>2, <1>3, <1>4, <1>5, <1>6 DEF DiskNext

\* The ticker is there from the first value on.
LEMMA FirstStep == DiskTypeOK /\ FirstInv /\ (DiskNext /\ ~Query) => FirstInv'
<1> SUFFICES ASSUME DiskTypeOK, FirstInv, DiskNext, ~Query PROVE FirstInv'
  OBVIOUS
<1> USE DiskMetricAssumption DEF DiskTypeOK, FirstInv
<1>1. CASE DiskChanges \/ Scrape \/ ScrapeFails
  BY <1>1 DEF DiskChanges, Scrape, ScrapeFails, exporter
<1>2. CASE MeasureBegins
  <2>1. /\ col = "idle" /\ col' = "measuring" /\ duFor' = 0
        /\ UNCHANGED <<clock, untilTick, used>>
    BY <1>2 DEF MeasureBegins
  <2> QED BY <2>1
<1>3. CASE MeasureEnds
  <2>1. untilTick' # 0
    BY <1>3 DEF MeasureEnds
  <2> QED BY <2>1
<1>4. CASE ClockTicks
  <2>1. untilTick' = 0 => untilTick = 0 \/ untilTick = 1
    BY <1>4 DEF ClockTicks
  <2>2. untilTick = 1 => untilTick' # 0
    BY <1>4 DEF ClockTicks
  <2>3. /\ ~(col = "idle" /\ due) /\ clock' = clock + 1 /\ UNCHANGED <<col, used>>
        /\ col = "measuring" => duFor' = duFor + 1
    BY <1>4 DEF ClockTicks
  <2> QED BY <2>1, <2>2, <2>3
<1> QED BY <1>1, <1>2, <1>3, <1>4 DEF DiskNext

\* The measurement under way keeps what it saw and when it began.
LEMMA ReadingStep ==
    DiskTypeOK /\ ReadingInv /\ (DiskNext /\ ~Query) => ReadingInv'
<1> SUFFICES ASSUME DiskTypeOK, ReadingInv, DiskNext, ~Query PROVE ReadingInv'
  OBVIOUS
<1> USE DiskMetricAssumption
<1>0. clock \in Nat /\ clock <= MaxTime /\ duFor \in Nat /\ NoValue \notin Sizes
  BY DEF DiskTypeOK, Times, Sizes, NoValue
<1>1. ASSUME col = "measuring", clock' - duFor' = clock - duFor, reading' = reading
      PROVE  Measured(IF reading = NoValue THEN 0 ELSE reading, clock - duFor)'
  <2>1. clock - duFor \in Times /\ clock - duFor <= clock
    BY <1>0, <1>1 DEF ReadingInv, Times
  <2>2. Measured(IF reading = NoValue THEN 0 ELSE reading, clock - duFor)
    BY <1>1 DEF ReadingInv
  <2> QED BY <1>1, <2>1, <2>2, MeasuredKept DEF Measured
<1>2. CASE DiskChanges
  <2>1. disk' \in history'[clock]
    BY <1>2 DEF DiskChanges, DiskTypeOK
  <2>2. UNCHANGED <<clock, col, duFor, reading>>
    BY <1>2 DEF DiskChanges, exporter
  <2> QED BY <1>1, <2>1, <2>2 DEF ReadingInv
<1>3. CASE MeasureBegins
  <2>1. disk' \in history'[clock'] /\ duFor' = 0 /\ clock' - 0 = clock /\ clock' = clock
    BY <1>0, <1>3 DEF MeasureBegins, ReadingInv
  <2>2. CASE reading' = disk
    BY <1>0, <1>3, <2>1, <2>2 DEF MeasureBegins, ReadingInv, Measured, DiskTypeOK
  <2>3. CASE reading' = NoValue /\ Failure
    BY <1>0, <1>3, <2>1, <2>3 DEF MeasureBegins, ReadingInv, Measured, Failure
  <2> QED BY <1>3, <2>2, <2>3 DEF MeasureBegins
<1>4. CASE MeasureEnds
  BY <1>4 DEF MeasureEnds, ReadingInv
<1>5. CASE Scrape \/ ScrapeFails
  <2>1. UNCHANGED <<clock, disk, history, col, duFor, reading>>
    BY <1>5 DEF Scrape, ScrapeFails, exporter
  <2> QED BY <1>1, <2>1 DEF ReadingInv
<1>6. CASE ClockTicks
  <2>0. clock + 1 \in Times
    BY <1>0, <1>6 DEF ClockTicks, Times
  <2>1. disk' \in history'[clock']
    BY <1>6, <2>0 DEF ClockTicks, DiskTypeOK
  <2>2. /\ clock' = clock + 1 /\ UNCHANGED <<col, reading>>
        /\ col = "measuring" => duFor' = duFor + 1
    BY <1>6 DEF ClockTicks
  <2>3. col = "measuring" => clock' - duFor' = clock - duFor /\ duFor' <= clock'
    BY <1>0, <2>2 DEF ReadingInv
  <2> QED BY <1>1, <2>1, <2>2, <2>3 DEF ReadingInv
<1> QED BY <1>2, <1>3, <1>4, <1>5, <1>6 DEF DiskNext

\* What is published was measured when the measurement began; ticks keep the age
\* of it within bounds.
LEMMA UsedStep ==
    DiskTypeOK /\ ReadingInv /\ UsedInv /\ (DiskNext /\ ~Query) => UsedInv'
<1> SUFFICES ASSUME DiskTypeOK, ReadingInv, UsedInv, DiskNext, ~Query PROVE UsedInv'
  OBVIOUS
<1> USE DiskMetricAssumption
<1>0. /\ \A t \in Times : t \in Nat
      /\ clock \in Times /\ duFor \in 0..MaxDu /\ untilTick \in 0..CollectEvery
      /\ col \in {"idle", "measuring"} /\ due \in BOOLEAN
  BY DEF DiskTypeOK, Times
<1>1. CASE MeasureEnds
  <2>1. PICK x \in Times : x = clock - duFor /\ x <= clock /\ clock <= x + MaxDu
    BY <1>0, <1>1 DEF MeasureEnds, ReadingInv, Times
  <2>2. used' = IF reading = NoValue THEN 0 ELSE reading
    BY <1>1 DEF MeasureEnds, Published
  <2>3. Measured(used', x)
    BY <1>1, <2>1, <2>2 DEF MeasureEnds, ReadingInv
  <2>4. Measured(used, x)'
    BY <1>1, <2>3 DEF MeasureEnds, Measured
  <2>5. untilTick' \in 0..CollectEvery /\ clock' = clock /\ col' = "idle" /\ due' = due
    BY <1>0, <1>1 DEF MeasureEnds
  <2>6. Recent(x)'
    BY <1>0, <2>1, <2>5 DEF Recent
  <2> QED BY <2>1, <2>4, <2>5, <2>6 DEF UsedInv
<1>2. CASE ~MeasureEnds
  <2> SUFFICES ASSUME untilTick' # 0
               PROVE  \E x \in Times : /\ x <= clock' /\ Recent(x)'
                                       /\ Measured(used, x)' /\ used' = used
    BY DEF UsedInv, Measured
  <2>1. used' = used /\ clock \in Nat /\ (clock' = clock \/ clock' = clock + 1)
    BY <1>0, <1>2 DEF DiskNext, DiskChanges, MeasureBegins, Scrape, ScrapeFails,
                      ClockTicks, exporter
  <2>2. untilTick # 0
    BY <1>2 DEF DiskNext, DiskChanges, MeasureBegins, Scrape, ScrapeFails,
                ClockTicks, exporter
  <2>3. PICK x \in Times : x <= clock /\ Recent(x) /\ Measured(used, x)
    BY <2>2 DEF UsedInv
  <2>4. Measured(used, x)'
    BY <2>1, <2>3, MeasuredKept DEF Measured
  <2>5. Recent(x)'
    <3>1. CASE DiskChanges \/ Scrape \/ ScrapeFails
      BY <2>3, <3>1 DEF DiskChanges, Scrape, ScrapeFails, exporter, Recent
    <3>2. CASE MeasureBegins
      BY <1>0, <2>3, <3>2 DEF MeasureBegins, Recent
    <3>3. CASE ClockTicks
      <4>1. CASE col = "measuring"
        BY <1>0, <2>3, <3>3, <4>1 DEF ClockTicks, Recent
      <4>2. CASE col = "idle"
        <5>1. ~due /\ clock + untilTick <= x + CollectEvery + MaxDu
          BY <1>0, <2>3, <3>3, <4>2 DEF ClockTicks, Recent
        <5>2. CASE untilTick = 1
          BY <1>0, <2>3, <3>3, <4>2, <5>1, <5>2 DEF ClockTicks, Recent
        <5>3. CASE untilTick # 1
          BY <1>0, <2>2, <2>3, <3>3, <4>2, <5>1, <5>3 DEF ClockTicks, Recent
        <5> QED BY <5>2, <5>3
      <4> QED BY <1>0, <4>1, <4>2
    <3> QED BY <1>2, <3>1, <3>2, <3>3 DEF DiskNext
  <2>6. x <= clock'
    <3>1. x \in Nat /\ x <= clock /\ clock \in Nat
      BY <1>0, <2>3
    <3> QED BY <2>1, <3>1
  <2> QED BY <2>1, <2>4, <2>5, <2>6
<1> QED BY <1>1, <1>2

\* A scrape takes what the exporter answers, and it is no older than Lag.
LEMMA SampleStep ==
    DiskTypeOK /\ FirstInv /\ UsedInv /\ SampleInv /\ (DiskNext /\ ~Query) => SampleInv'
<1> SUFFICES ASSUME DiskTypeOK, FirstInv, UsedInv, SampleInv, DiskNext, ~Query,
                    NEW t \in Times, samples'[t] # NoValue
             PROVE  /\ t <= clock'
                    /\ samples'[t] = Stale => t \in failures'
                    /\ \/ samples'[t] = Stale
                       \/ samples'[t] = 0 /\ t <= MaxDu
                       \/ \E x \in Times : x <= t /\ t <= x + Lag /\ Measured(samples[t], x)'
  BY DEF SampleInv, Measured, Lag
<1> USE DiskMetricAssumption
<1>0. /\ \A n \in Times : n \in Nat
      /\ clock \in Times /\ duFor \in 0..MaxDu /\ untilTick \in 0..CollectEvery
      /\ col \in {"idle", "measuring"} /\ due \in BOOLEAN /\ used \in Sizes
  BY Ranges
<1>1. clock <= clock' /\ failures \subseteq failures'
  BY <1>0 DEF DiskNext, DiskChanges, MeasureBegins, MeasureEnds, Scrape, ScrapeFails,
              ClockTicks, Failure
<1>2. CASE samples'[t] = samples[t]
  <2>1. /\ t <= clock
        /\ samples[t] = Stale => t \in failures
        /\ \/ samples[t] = Stale
           \/ samples[t] = 0 /\ t <= MaxDu
           \/ \E x \in Times : x <= t /\ t <= x + Lag /\ Measured(samples[t], x)
    BY <1>2 DEF SampleInv
  <2>2. t <= clock' /\ (samples'[t] = Stale => t \in failures')
    BY <1>0, <1>1, <1>2, <2>1 DEF DiskNext, DiskChanges, MeasureBegins, MeasureEnds,
                                  Scrape, ScrapeFails, ClockTicks
  <2>3. ASSUME NEW x \in Times, x <= t, t <= x + Lag, Measured(samples[t], x)
        PROVE  Measured(samples[t], x)'
    <3>1. x <= clock
      BY <1>0, <2>1, <2>3
    <3> QED BY <1>2, <2>3, <3>1, MeasuredKept DEF Measured
  <2> QED BY <1>2, <2>1, <2>2, <2>3
<1>3. CASE samples'[t] # samples[t]
  <2>1. Scrape \/ ScrapeFails
    BY <1>3 DEF DiskNext, DiskChanges, MeasureBegins, MeasureEnds, ClockTicks
  <2>2. t = clock /\ clock' = clock /\ history' = history
    BY <1>3, <2>1 DEF Scrape, ScrapeFails, DiskTypeOK
  <2>3. CASE ScrapeFails
    <3>1. samples'[t] = Stale /\ t \in failures'
      BY <1>0, <2>2, <2>3 DEF ScrapeFails, Failure, DiskTypeOK
    <3> QED BY <1>0, <2>2, <3>1
  <2>4. CASE Scrape
    <3>1. samples'[t] = used /\ failures' = failures
      BY <1>0, <2>2, <2>4 DEF Scrape, DiskTypeOK
    <3>2. used # Stale
      BY <1>0 DEF Sizes, Stale
    <3>3. CASE untilTick = 0
      <4>1. used = 0 /\ clock <= MaxDu
        BY <1>0, <3>3 DEF FirstInv
      <4> QED BY <1>0, <2>2, <3>1, <3>2, <4>1
    <3>4. CASE untilTick # 0
      <4>1. PICK x \in Times : x <= clock /\ Recent(x) /\ Measured(used, x)
        BY <3>4 DEF UsedInv
      <4>2. clock <= x + Lag
        BY <1>0, <4>1 DEF Recent, Lag
      <4>3. Measured(samples[t], x)'
        BY <2>2, <3>1, <4>1 DEF Measured
      <4> QED BY <1>0, <2>2, <3>1, <3>2, <4>1, <4>2, <4>3
    <3> QED BY <3>3, <3>4
  <2> QED BY <2>1, <2>3, <2>4
<1> QED BY <1>2, <1>3

\* No scrape is skipped, and none is forgotten that a query can reach.
LEMMA ScrapeStep == DiskTypeOK /\ ScrapeInv /\ (DiskNext /\ ~Query) => ScrapeInv'
<1> SUFFICES ASSUME DiskTypeOK, ScrapeInv, DiskNext, ~Query,
                    NEW t \in Times, t % ScrapeEvery = 0, t <= clock', t = clock' => ~owed',
                    clock' <= t + Window + LookbackDelta
             PROVE  samples'[t] # NoValue \/ t \in failures'
  BY DEF ScrapeInv
<1> USE DiskMetricAssumption
<1>0. /\ \A n \in Times : n \in Nat
      /\ clock \in Times /\ used \in Sizes /\ NoValue \notin Sizes /\ Stale # NoValue
  BY Ranges
<1>1. CASE DiskChanges \/ MeasureBegins \/ MeasureEnds
  BY <1>1 DEF DiskChanges, MeasureBegins, MeasureEnds, Failure, ScrapeInv
<1>2. CASE Scrape
  <2>1. t # clock => samples'[t] = samples[t]
    BY <1>2 DEF Scrape, DiskTypeOK
  <2>2. samples'[clock] = used
    BY <1>0, <1>2 DEF Scrape, DiskTypeOK
  <2> QED BY <1>0, <1>2, <2>1, <2>2 DEF Scrape, ScrapeInv
<1>3. CASE ScrapeFails
  <2>1. t # clock => samples'[t] = samples[t]
    BY <1>3 DEF ScrapeFails, DiskTypeOK
  <2>2. clock \in failures' /\ failures \subseteq failures'
    BY <1>3 DEF ScrapeFails, Failure
  <2> QED BY <1>0, <1>3, <2>1, <2>2 DEF ScrapeFails, ScrapeInv
<1>4. CASE ClockTicks
  <2>1. clock' = clock + 1 /\ ~owed
    BY <1>4 DEF ClockTicks
  <2>2. t # clock'
    <3>1. ASSUME t = clock' PROVE FALSE
      <4>1. owed' = (t % ScrapeEvery = 0)
        BY <1>4, <3>1 DEF ClockTicks
      <4> QED BY <3>1, <4>1
    <3> QED BY <3>1
  <2>3. t # clock' /\ t <= clock /\ clock <= t + Window + LookbackDelta
    BY <1>0, <2>1, <2>2
  <2>4. samples'[t] = samples[t] /\ failures' = failures
    BY <1>4, <2>1 DEF ClockTicks
  <2> QED BY <2>1, <2>3, <2>4 DEF ScrapeInv
<1> QED BY <1>1, <1>2, <1>3, <1>4 DEF DiskNext

(***************************************************************************)
(* The query.                                                              *)
(***************************************************************************)
\* The step takes a sample, the latest one that it can reach.
LEMMA StepTakes ==
    ASSUME DiskTypeOK, NEW s \in Times, InReach(s) # {}
    PROVE  /\ Max(InReach(s)) \in InReach(s) /\ AtStep(s) = samples[Max(InReach(s))]
           /\ \A t \in InReach(s) : t <= Max(InReach(s))
<1>1. s \in Nat /\ \A t \in Times : t \in Nat
  BY Ranges
<1>2. InReach(s) \in SUBSET (0..s)
  <2>1. ASSUME NEW t \in InReach(s) PROVE t \in 0..s
    BY <1>1 DEF InReach
  <2> QED BY <2>1
<1> QED BY <1>1, <1>2, MaxFact DEF AtStep

\* What a query sees are samples of its reach, and the row is the greatest.
LEMMA RowFact ==
    ASSUME DiskTypeOK, NEW phase, Seen(phase) # {}
    PROVE  /\ Seen(phase) \subseteq Sizes
           /\ Aggregate(phase) \in Seen(phase)
           /\ \A v \in Seen(phase) : v <= Aggregate(phase)
           /\ \A v \in Seen(phase) :
                 \E s \in Steps(phase) : \E t \in InReach(s) : v = samples[t]
<1>1. \A s \in Steps(phase) : s \in Times
  BY DEF Steps, WindowTimes
<1>2. ASSUME NEW v \in Seen(phase)
      PROVE  v \in Sizes /\ \E s \in Steps(phase) : \E t \in InReach(s) : v = samples[t]
  <2>1. PICK s \in Steps(phase) : v = AtStep(s) /\ v # NoValue /\ v # Stale
    BY DEF Seen
  <2>2. InReach(s) # {}
    BY <2>1 DEF AtStep
  <2>3. PICK t \in InReach(s) : v = samples[t]
    BY <1>1, <2>1, <2>2, StepTakes
  <2>4. v \in 0..Stale
    BY <2>3 DEF InReach, DiskTypeOK
  <2>5. v \in Sizes
    BY <2>1, <2>4, DiskMetricAssumption DEF Sizes, NoValue, Stale
  <2> QED BY <2>3, <2>5
<1>3. MaxSize \in Nat /\ Seen(phase) \in SUBSET (0..MaxSize)
  BY <1>2, DiskMetricAssumption DEF Sizes
<1>4. Max(Seen(phase)) \in Seen(phase) /\ \A v \in Seen(phase) : v <= Max(Seen(phase))
  BY <1>3, MaxFact
<1> QED BY <1>2, <1>4 DEF Aggregate

\* The row is a sample, and that a usage.
LEMMA QueryReal == DiskInv /\ Query => DiskTypeOK' /\ RowWasReal'
<1> SUFFICES ASSUME DiskInv, Query PROVE DiskTypeOK' /\ RowWasReal'
  OBVIOUS
<1> USE DiskMetricAssumption
<1>1. DiskTypeOK /\ SampleInv
  BY DEF DiskInv
<1>2. PICK phase \in 0..(StepEvery - 1) : Seen(phase) # {} /\ row' = Aggregate(phase)
  BY DEF Query
<1>3. UNCHANGED <<clock, disk, history, exporter, owed, samples, failures>>
  BY DEF Query
<1>4. PICK s \in Steps(phase) : \E t \in InReach(s) : row' = samples[t]
  BY <1>1, <1>2, RowFact
<1>5. PICK t \in InReach(s) : row' = samples[t]
  BY <1>4
<1>6. row' \in Sizes
  BY <1>1, <1>2, RowFact
<1>7. DiskTypeOK'
  <2>1. row' \in 0..NoValue
    BY <1>6 DEF Sizes, NoValue
  <2> QED BY <1>1, <1>3, <2>1 DEF DiskTypeOK, exporter
<1>8. RowWasReal'
  <2> SUFFICES ASSUME row' # 0
               PROVE  \E x \in Times : /\ x <= clock
                                       /\ clock <= x + Window + LookbackDelta + Lag
                                       /\ row' \in history[x]
    BY <1>3 DEF RowWasReal, Lag
  <2>1. /\ s \in Times /\ s <= clock /\ clock <= s + Window
        /\ t \in Times /\ t <= s /\ s <= t + LookbackDelta /\ samples[t] # NoValue
    BY DEF Steps, WindowTimes, InReach
  <2>2. row' # Stale
    BY <1>1, <1>6, Ranges
  <2>3. PICK x \in Times : x <= t /\ t <= x + Lag /\ row' \in history[x]
    BY <1>1, <1>5, <2>1, <2>2 DEF SampleInv, Measured
  <2>4. {x, s, t, clock} \subseteq Nat /\ Lag \in Nat
    BY <1>1, <2>1, Ranges DEF Lag
  <2> QED BY <2>1, <2>3, <2>4
<1> QED BY <1>7, <1>8

\* A long enough stretch has a step, the step a sample of a scrape in the stretch,
\* and the sample is of a measurement in it.
LEMMA QuerySustained == DiskInv /\ Query => SustainedIsSeen'
<1> SUFFICES ASSUME DiskInv, Query PROVE SustainedIsSeen'
  OBVIOUS
<1> SUFFICES ASSUME NEW a \in WindowTimes, NEW b \in WindowTimes,
                    b >= a + Lag + ScrapeEvery + StepEvery, failures \cap (a..b) = {}
             PROVE  row' >= Min(UNION {history[t] : t \in a..b})
  <2>1. UNCHANGED <<clock, disk, history, exporter, owed, samples, failures>>
    BY DEF Query
  <2> QED BY <2>1 DEF SustainedIsSeen, WindowTimes, Lag
<1> USE DiskMetricAssumption
<1> DEFINE usages == UNION {history[t] : t \in a..b}
<1>1. DiskTypeOK /\ SampleInv /\ ScrapeInv
  BY DEF DiskInv
<1>2. PICK phase \in 0..(StepEvery - 1) : Seen(phase) # {} /\ row' = Aggregate(phase)
  BY DEF Query
<1>3. /\ a \in Nat /\ b \in Nat /\ clock \in Nat /\ Lag \in Nat /\ Lag >= 1 + 2 * MaxDu
      /\ a \in Times /\ b \in Times /\ b <= clock /\ clock <= a + Window
      /\ \A n \in Nat : n <= b => n \in Times
      /\ \A n \in Times : n \in Nat
  <2>1. a \in Times /\ b \in Times /\ b <= clock /\ clock <= a + Window
    BY DEF WindowTimes
  <2>2. clock \in Times /\ \A n \in Times : n \in Nat
    BY <1>1, Ranges
  <2>3. \A n \in Nat : n <= b => n \in Times
    BY <2>1, <2>2 DEF Times
  <2> QED BY <2>1, <2>2, <2>3 DEF Lag
\* a step of the query
<1>4. PICK s \in Nat : /\ a + Lag + ScrapeEvery <= s /\ s < b
                       /\ s % StepEvery = phase
  <2>1. a + Lag + ScrapeEvery \in Nat
    BY <1>3
  <2>2. PICK n \in (a + Lag + ScrapeEvery)..(a + Lag + ScrapeEvery + StepEvery - 1) :
                n % StepEvery = phase
    BY <2>1, PhaseFact
  <2> QED BY <1>3, <2>2
<1>5. s \in Times /\ s \in Steps(phase)
  <2>1. s \in Times
    BY <1>3, <1>4
  <2>2. s <= clock /\ clock <= s + Window
    BY <1>3, <1>4
  <2> QED BY <1>4, <2>1, <2>2 DEF Steps, WindowTimes
\* a scrape before it, in the stretch
<1>6. PICK c \in Nat : /\ a + Lag < c /\ c <= s /\ s <= c + ScrapeEvery
                       /\ c % ScrapeEvery = 0
  <2>1. PICK low \in Nat : low = s - ScrapeEvery + 1
    BY <1>3, <1>4
  <2>2. 0 \in 0..(ScrapeEvery - 1)
    OBVIOUS
  <2>3. PICK n \in low..(low + ScrapeEvery - 1) : n % ScrapeEvery = 0
    BY <2>2, PhaseFact
  <2> QED BY <1>3, <1>4, <2>1, <2>3
<1>7. c \in InReach(s)
  <2>1. c \in Times /\ c < clock /\ clock <= c + Window + LookbackDelta /\ c \in a..b
    BY <1>3, <1>4, <1>6
  <2>2. samples[c] # NoValue \/ c \in failures
    BY <1>1, <1>6, <2>1, <1>3 DEF ScrapeInv
  <2>3. c \notin failures
    BY <2>1
  <2>4. s <= c + LookbackDelta
    BY <1>3, <1>4, <1>6
  <2> QED BY <1>6, <2>1, <2>2, <2>3, <2>4 DEF InReach
\* the sample that the step takes is of a measurement in the stretch
<1>8. PICK t \in InReach(s) : c <= t /\ AtStep(s) = samples[t]
  BY <1>1, <1>5, <1>7, StepTakes
<1>9. t \in Times /\ t <= s /\ samples[t] # NoValue /\ t \in Nat
  BY <1>3 DEF InReach
<1>10. samples[t] # Stale /\ ~(t <= MaxDu)
  <2>1. t \in a..b
    BY <1>3, <1>4, <1>6, <1>8, <1>9
  <2>2. t \notin failures
    BY <2>1
  <2>3. ~(t <= MaxDu)
    BY <1>3, <1>6, <1>8, <1>9
  <2> QED BY <1>1, <1>9, <2>2, <2>3 DEF SampleInv
<1>11. PICK x \in Times : x <= t /\ t <= x + Lag /\ Measured(samples[t], x)
  BY <1>1, <1>9, <1>10 DEF SampleInv
<1>12. x \in a..b
  BY <1>3, <1>4, <1>6, <1>8, <1>9, <1>11
<1>13. samples[t] \in history[x]
  BY <1>11, <1>12 DEF Measured
<1>14. samples[t] \in Seen(phase)
  BY <1>5, <1>8, <1>9, <1>10 DEF Seen
<1>15. samples[t] <= row' /\ row' \in Nat /\ samples[t] \in Nat
  BY <1>1, <1>2, <1>14, RowFact DEF Sizes
<1>16. samples[t] \in usages /\ usages \in SUBSET Nat
  <2>1. \A n \in a..b : n \in Times
    BY <1>3
  <2>2. \A n \in Times : history[n] \subseteq Nat
    BY <1>1 DEF DiskTypeOK, Sizes
  <2> QED BY <1>12, <1>13, <2>1, <2>2
<1>17. Min(usages) \in Nat /\ Min(usages) <= samples[t]
  BY <1>16, MinFact
<1> QED BY <1>15, <1>17

(***************************************************************************)
(* The theorems.                                                           *)
(***************************************************************************)
\* Every step keeps the invariant; once the row is written nothing moves.
LEMMA DiskStepInv == DiskInv /\ [DiskNext]_diskVars => DiskInv'
<1> SUFFICES ASSUME DiskInv, [DiskNext]_diskVars PROVE DiskInv'
  OBVIOUS
<1>1. CASE DiskNext /\ ~Query
  <2>1. /\ DiskTypeOK' /\ FirstInv' /\ ReadingInv' /\ UsedInv' /\ SampleInv' /\ ScrapeInv'
    BY <1>1, DiskTypeStep, FirstStep, ReadingStep, UsedStep, SampleStep, ScrapeStep DEF DiskInv
  <2>2. row' = NoValue
    BY <1>1 DEF DiskNext, DiskChanges, MeasureBegins, MeasureEnds, Scrape,
                ScrapeFails, ClockTicks
  <2>3. RowInv'
    BY <2>2 DEF RowInv, RowWasReal, SustainedIsSeen, NoValue
  <2> QED BY <2>1, <2>3 DEF DiskInv
<1>2. CASE Query
  <2>1. UNCHANGED <<clock, disk, history, exporter, owed, samples, failures>>
    BY <1>2 DEF Query
  <2>2. FirstInv' /\ ReadingInv' /\ UsedInv' /\ SampleInv' /\ ScrapeInv'
    BY <2>1 DEF DiskInv, exporter, FirstInv, ReadingInv, UsedInv, SampleInv, ScrapeInv,
                Measured, Recent, Lag, Stale, NoValue
  <2> QED BY <1>2, <2>2, QueryReal, QuerySustained DEF DiskInv, RowInv
<1>3. CASE UNCHANGED diskVars
  BY <1>3 DEF diskVars, exporter, DiskInv, DiskTypeOK, FirstInv, ReadingInv, UsedInv,
              SampleInv, ScrapeInv, RowInv, RowWasReal, SustainedIsSeen, WindowTimes,
              Measured, Recent, Lag, Stale, NoValue
<1> QED BY <1>1, <1>2, <1>3

\* The invariant of the disk metric.
THEOREM DiskInvariant == DiskSpec => []DiskInv
BY DiskInitInv, DiskStepInv, PTL DEF DiskSpec

\* Types: in particular, a row's disk usage is NoValue or a size of the volume.
THEOREM DiskTypeCorrect == DiskSpec => []DiskTypeOK
<1>1. DiskInv => DiskTypeOK
  BY DEF DiskInv
<1> QED BY <1>1, DiskInvariant, PTL

\* Whatever the periods of ticker, scrapes and steps and however long du takes
\* within its limit, the disk usage in a row is one that the volume had, and not
\* longer ago than window, lookback and measurements take.
THEOREM DiskValueIsReal == DiskSpec => []RowWasReal
<1>1. DiskInv => RowWasReal
  BY DEF DiskInv, RowInv
<1> QED BY <1>1, DiskInvariant, PTL

\* A usage that lasts for a measurement, a scrape and a step of the subquery is
\* never missing from the row.
THEOREM NothingLastingMissed == DiskSpec => []SustainedIsSeen
<1>1. DiskInv => SustainedIsSeen
  BY DEF DiskInv, RowInv
<1> QED BY <1>1, DiskInvariant, PTL

=============================================================================
