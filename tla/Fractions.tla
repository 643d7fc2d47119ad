------------------------------ MODULE Fractions ------------------------------
(***************************************************************************)
(* Exact fractions, in lowest terms and with a positive denominator.       *)
(***************************************************************************)
LOCAL INSTANCE Integers

RECURSIVE Gcd(_, _)
Gcd(m, n) == IF n = 0 THEN m ELSE Gcd(n, m % n)

AbsInt(n) == IF n < 0 THEN -n ELSE n

\* The fraction n/d, for d # 0.
Q(n, d) ==
    LET g == Gcd(AbsInt(n), AbsInt(d))
        s == IF d < 0 THEN -1 ELSE 1
    IN  [n |-> s * (n \div g), d |-> AbsInt(d) \div g]

QWhole(n)     == [n |-> n, d |-> 1]
QAdd(p, q)    == Q(p.n * q.d + q.n * p.d, p.d * q.d)
QSub(p, q)    == Q(p.n * q.d - q.n * p.d, p.d * q.d)
QMul(p, q)    == Q(p.n * q.n, p.d * q.d)
QDiv(p, q)    == Q(p.n * q.d, p.d * q.n)
QAtMost(p, q) == p.n * q.d <= q.n * p.d

=============================================================================
