------------------------------- MODULE Floats -------------------------------
(***************************************************************************)
(* Counts converted to float and divided, and the quotient compared with a *)
(* configured float: IEEE 754 arithmetic, rounded to nearest and to even,  *)
(* at the end of CommandBuffer::scanIndices (layer/commandbuffer.cpp).     *)
(*                                                                         *)
(* The options compared with are 0.5, unless the configuration file says   *)
(* otherwise; config.cpp reads its numbers with stof.  They are floats     *)
(* though declared double, positive ones here: [mantissa, denominator],    *)
(* where the denominator is a power of two.  Quotients are far from the    *)
(* smallest and largest float.                                             *)
(***************************************************************************)
EXTENDS Naturals

CONSTANTS
    CountBits,      \* bits of a count
    FloatLimit      \* 2^24: a float's mantissa is less, and counts up to it are exact

ASSUME FloatAssumption == FloatLimit \in Nat /\ FloatLimit > 2 /\ CountBits \in Nat

FloatValues == [mantissa : FloatLimit \div 2 .. FloatLimit - 1, denominator : Nat \ {0}]

\* What lies between two floats goes to the nearer, the middle to the even mantissa.
Float(n) ==
    IF n <= FloatLimit THEN n
    ELSE LET unit == CHOOSE u \in {2 ^ e : e \in 1 .. CountBits} :
                         n \div u \in FloatLimit \div 2 .. FloatLimit - 1
             mantissa == n \div unit
             rest == n % unit
         IN  unit * (IF 2 * rest < unit \/ (2 * rest = unit /\ mantissa % 2 = 0)
                     THEN mantissa ELSE mantissa + 1)

\* The least mantissa is that of a power of two, below which floats are closer.
Halves(t) == IF t.mantissa = FloatLimit \div 2 THEN 4 ELSE 2

\* float(n) / float(m) < t: the quotient lies below the middle between t and the float
\* before it, or in the middle and is rounded down.
QuotientLess(n, m, t) ==
    LET quotient == Halves(t) * t.denominator * Float(n)
        middle == (Halves(t) * t.mantissa - 1) * Float(m)
    IN  quotient < middle \/ (quotient = middle /\ t.mantissa % 2 = 1)

\* float(n) / float(m) <= t: it lies below the middle between t and the float after
\* it, or in the middle and is rounded down.
QuotientAtMost(n, m, t) ==
    LET quotient == 2 * t.denominator * Float(n)
        middle == (2 * t.mantissa + 1) * Float(m)
    IN  quotient < middle \/ (quotient = middle /\ t.mantissa % 2 = 0)

\* n / m, not rounded, is less than t; and it is at most the float before t.
ReallyLess(n, m, t) == t.denominator * n < t.mantissa * m

AtMostPrevious(n, m, t) ==
    IF t.mantissa = FloatLimit \div 2
    THEN 2 * t.denominator * n <= (2 * t.mantissa - 1) * m
    ELSE t.denominator * n <= (t.mantissa - 1) * m
=============================================================================
