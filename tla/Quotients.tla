------------------------------ MODULE Quotients ------------------------------
(***************************************************************************)
(* Non-negative quotients of integers in lowest terms, which stand for the *)
(* doubles of the program: two sums divided by two lengths are equal as    *)
(* quotients when they are equal as doubles, since a division of doubles   *)
(* is rounded correctly and the sums are small integers.                   *)
(***************************************************************************)
EXTENDS Integers, FiniteSetsExt

Zero == <<0, 1>>
Divisors(n, d) == {k \in 1 .. d : n % k = 0 /\ d % k = 0}
Quotient(n, d) == LET k == Max(Divisors(n, d)) IN <<n \div k, d \div k>>
Below(q, r) == q[1] * r[2] < r[1] * q[2]
AtMost(q, r) == q[1] * r[2] <= r[1] * q[2]
=============================================================================
