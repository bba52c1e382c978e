------------------------------- MODULE Backoff ------------------------------
(***************************************************************************)
(* Retry delays.  Numbers are whole milliseconds; what matters about the   *)
(* floating point arithmetic of the source is that it overflows: above     *)
(* MaxFinite a product is Infinity, and Infinity times zero is NaN.        *)
(***************************************************************************)
EXTENDS Integers

CONSTANT MaxFinite

ASSUME BackoffAssumption == MaxFinite \in Nat \ {0}

Infinity == MaxFinite + 1
NaN      == -1
isFinite(x) == x \in 0..MaxFinite

Times(a, b) == CASE a = 0 -> IF b = Infinity THEN NaN ELSE 0
                 [] b = 0 -> IF a = Infinity THEN NaN ELSE 0
                 [] a # 0 /\ b # 0 -> IF a > MaxFinite \div b THEN Infinity ELSE a * b

\* Math.pow
Growth(multiplier, n) ==
  LET power[k \in 0..n] == IF k = 0 THEN 1 ELSE Times(multiplier, power[k - 1])
  IN power[n]

Lesser(a, b) == IF a < b THEN a ELSE b

\* Mutant: the product is compared with the ceiling as it is.
baseDelayUnguarded(attempt, o) ==
  LET raw == Times(o.initialMs, Growth(o.multiplier, attempt - 1))
  IN IF raw = NaN THEN NaN ELSE Lesser(o.maxMs, raw)

baseDelayMs(attempt, o) ==
  IF attempt < 1 THEN 0
  ELSE LET raw == Times(o.initialMs, Growth(o.multiplier, attempt - 1))
       IN IF isFinite(raw) THEN Lesser(o.maxMs, raw) ELSE o.maxMs

\* The delays that some value of random() gives, as the ends of an interval.
nextDelayMs(attempt, o) ==
  LET base == baseDelayMs(attempt, o)
  IN [least |-> CASE o.jitter = "none"  -> base
                  [] o.jitter = "equal" -> (base + 1) \div 2
                  [] o.jitter = "full"  -> 0,
      most  |-> base]

\* The schedule of an attempt budget.
describeSchedule(maxAttempts, o) == [a \in 1..(maxAttempts - 1) |-> nextDelayMs(a, o)]
=============================================================================
