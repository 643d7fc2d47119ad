------------------------------ MODULE MCAdvisor ------------------------------
(***************************************************************************)
(* Loads, values and periods are powers of four and exponents multiples of *)
(* one half, so that every power the model takes is rational.  A day has   *)
(* four ticks; retentions of 1 and 4 days stand for 7 and 30.              *)
(***************************************************************************)
EXTENDS Advisor, Fractions, TLC

CONSTANTS prometheus, loki

Exponent(n) == CHOOSE e \in 0..20 : 2^e = n
MCLog(q)    == QWhole(Exponent(q.n) - Exponent(q.d))

MCPow(q, a) ==
    LET e == QMul(MCLog(q), a)
    IN  CASE e.d = 1 /\ e.n >= 0 -> QWhole(2^e.n)
          [] e.d = 1 /\ e.n < 0  -> Q(1, 2^(-e.n))

\* The fractions obey the laws of numbers, and these powers those of powers.
ASSUME MCNumbers ==
    /\ NumberLaws({Q(n, d) : n \in -3..3, d \in 1..3})
    /\ IntegerLaws(-3..3)
    /\ PowerLaws({QWhole(1), QWhole(4), Q(1, 4), Q(1, 64)}, {Q(n, 2) : n \in -1..3})

MCKeys     == {"mem_peak_bytes", "disk_bytes"}
Per(m, d)  == "mem_peak_bytes" :> m @@ "disk_bytes" :> d
MCAlphaFew == Per(Q(1, 2), QWhole(1))
MCAlphaMin == Per(QWhole(0), Q(1, 2))
MCAlphaMax == Per(QWhole(1), Q(3, 2))

Row(s, load, days, ticks, mem, disk) ==
    [of |-> s, load_value |-> load, retention_days |-> days,
     duration_seconds |-> ticks, use |-> Per(mem, disk)]

MCRows == {
    Row(prometheus,  1, 1,  1,  1,  1), Row(prometheus,  4, 1,  1,  4,  4),
    Row(prometheus, 16, 1,  1, 16,  1), Row(prometheus, 16, 4, 16,  4, 16),
    Row(prometheus,  4, 4,  4,  1,  1), Row(prometheus, 64, 1,  0, 16,  4),
    Row(prometheus,  1, 4, 16,  4,  0), Row(loki,        4, 1,  4,  4,  4),
    Row(prometheus,  8, 4,  1,  4, 16)}

MCLoads      == {0, 1, 2, 6, 100}
MCRetentions == {QWhole(1), QWhole(4)}

=============================================================================
