---------------------------- MODULE LogGenerator ----------------------------
(***************************************************************************)
(* The log-load-generator: once a second it sends Lps lines to Loki or to  *)
(* OpenSearch, in batches, one request after the other.  A request that    *)
(* fails is not counted, so its lines are sent again; a request that fails *)
(* may have been stored, and one that succeeds may have been stored in     *)
(* part.                                                                   *)
(*                                                                         *)
(* Time goes in units of a fraction of a second.                           *)
(***************************************************************************)
EXTENDS Integers

CONSTANTS
    Lps,        \* LOGS_PER_SEC
    Parts,      \* batches a second is divided into (10)
    MaxBatch,   \* largest batch (500)
    Second,     \* units of time in a second
    Timeout,    \* timeout of a request (10 s)
    Pause,      \* pause after a failure (50 ms)
    MaxRounds   \* bound: seconds of load that are begun

ASSUME LogGeneratorAssumption ==
    /\ {Lps, Parts, MaxBatch, Second, MaxRounds} \subseteq Nat \ {0}
    /\ {Timeout, Pause} \subseteq Nat

VARIABLES
    pc,       \* check, flush, pause or rest
    now,
    start,    \* start of this round
    busy,     \* how long the request or the pause has taken
    sent,     \* lines of this round that were acknowledged
    batch,    \* size of the request
    rounds,   \* rounds begun
    stored,   \* history: lines in the backend
    doubled,  \* history: lines stored by requests that failed
    failed,   \* history: a request of this round failed
    slowest   \* history: time of the slowest request of this round

vars == <<pc, now, start, busy, sent, batch, rounds, stored, doubled, failed, slowest>>

TypeOK ==
    /\ pc \in {"check", "flush", "pause", "rest"}
    /\ now \in Nat /\ start \in Nat /\ busy \in 0..(Timeout + Pause)
    /\ sent \in 0..Lps /\ batch \in 0..Lps
    /\ rounds \in Nat \ {0}
    /\ stored \in Nat /\ doubled \in Nat
    /\ failed \in BOOLEAN /\ slowest \in 0..Timeout

Init ==
    /\ pc = "check" /\ now = 0 /\ start = 0 /\ busy = 0
    /\ sent = 0 /\ batch = 0 /\ rounds = 1
    /\ stored = 0 /\ doubled = 0
    /\ failed = FALSE /\ slowest = 0

Deadline == start + Second

WholeBatch ==
    LET tenth == Lps \div Parts
    IN  IF tenth < 1 THEN 1 ELSE IF tenth > MaxBatch THEN MaxBatch ELSE tenth

NextBatch == IF sent + WholeBatch > Lps THEN Lps - sent ELSE WholeBatch

MoreWholeOnly == sent + WholeBatch <= Lps /\ now < Deadline

More == sent < Lps /\ now < Deadline

SendBatch ==
    /\ pc = "check" /\ More
    /\ pc' = "flush" /\ batch' = NextBatch /\ busy' = 0
    /\ UNCHANGED <<now, start, sent, rounds, stored, doubled, failed, slowest>>

Slowest == IF busy > slowest THEN busy ELSE slowest

\* OpenSearch answers a bulk request with 200 though documents in it failed.
FlushOK ==
    /\ pc = "flush"
    /\ pc' = "check" /\ sent' = sent + batch
    /\ \E n \in 0..batch : stored' = stored + n
    /\ slowest' = Slowest
    /\ UNCHANGED <<now, start, busy, batch, rounds, doubled, failed>>

\* An error status, a broken connection, or the timeout.
FlushFails ==
    /\ pc = "flush"
    /\ pc' = "pause" /\ busy' = 0 /\ failed' = TRUE
    /\ \E n \in 0..batch : stored' = stored + n /\ doubled' = doubled + n
    /\ slowest' = Slowest
    /\ UNCHANGED <<now, start, sent, batch, rounds>>

PauseEnds ==
    /\ pc = "pause" /\ busy = Pause
    /\ pc' = "check"
    /\ UNCHANGED <<now, start, busy, sent, batch, rounds, stored, doubled, failed, slowest>>

RoundDone ==
    /\ pc = "check" /\ ~More
    /\ pc' = "rest"
    /\ UNCHANGED <<now, start, busy, sent, batch, rounds, stored, doubled, failed, slowest>>

RestedAlready == TRUE

\* The sleep until the deadline, none if it has passed.
Rested == now >= Deadline

NextRound ==
    /\ pc = "rest" /\ Rested /\ rounds < MaxRounds
    /\ pc' = "check" /\ start' = now /\ sent' = 0
    /\ rounds' = rounds + 1
    /\ failed' = FALSE /\ slowest' = 0
    /\ UNCHANGED <<now, busy, batch, stored, doubled>>

TimePasses ==
    /\ \/ pc = "flush" /\ busy < Timeout
       \/ pc = "pause" /\ busy < Pause
       \/ pc = "rest" /\ now < Deadline
    /\ now' = now + 1
    /\ busy' = IF pc = "rest" THEN busy ELSE busy + 1
    /\ UNCHANGED <<pc, start, sent, batch, rounds, stored, doubled, failed, slowest>>

Finished == pc = "rest" /\ now >= Deadline /\ rounds = MaxRounds /\ UNCHANGED vars

Loop == SendBatch \/ FlushOK \/ FlushFails \/ PauseEnds \/ RoundDone \/ NextRound

Next == Loop \/ TimePasses \/ Finished

Spec == Init /\ [][Next]_vars

(***************************************************************************)
(* Properties.                                                             *)
(***************************************************************************)
\* The load never exceeds Lps lines per second begun, however requests fail,
\* but for the lines of failed requests that were stored all the same.
NeverFaster ==
    /\ stored <= rounds * Lps + doubled
    /\ (rounds - 1) * Second <= start /\ start <= now

Requests == (Lps + WholeBatch - 1) \div WholeBatch

\* A round falls short of Lps only if a request failed or took longer than its
\* share of the second.
FullUnlessSlow ==
    pc = "rest" /\ ~failed /\ slowest * Requests <= Second => sent = Lps

\* However the backend behaves, a round is over one request and one pause after
\* its second at the latest.
RoundBounded == now <= Deadline + Timeout + Pause

=============================================================================
