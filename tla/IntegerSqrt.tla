---------------------------- MODULE IntegerSqrt -----------------------------
(***************************************************************************)
(* AgentStakeRegistry._sqrt: a power-of-two guess, five Newton steps and a *)
(* final rounding.  TLC's integers end at 2^31 - 1, where the tests of     *)
(* 2^128, 2^64 and 2^32 are false, so the guess starts at the test of      *)
(* 2^16.                                                                   *)
(***************************************************************************)
EXTENDS Naturals

Guess(value) ==
  LET s16 == IF value >= 2^16 THEN [x |-> value \div 2^16, r |-> 2^8]
                              ELSE [x |-> value, r |-> 1]
      s8 == IF s16.x >= 2^8 THEN [x |-> s16.x \div 2^8, r |-> s16.r * 2^4] ELSE s16
      s4 == IF s8.x >= 2^4 THEN [x |-> s8.x \div 2^4, r |-> s8.r * 2^2] ELSE s8
  IN  IF s4.x >= 2^2 THEN s4.r * 2 ELSE s4.r

Newton(value, r) == (r + value \div r) \div 2


Sqrt(value) ==
  IF value = 0 THEN 0
  ELSE LET n(r) == Newton(value, r)
           result == n(n(n(n(n(Guess(value))))))
           rounded == value \div result
       IN  IF result < rounded THEN result ELSE rounded

-----------------------------------------------------------------------------
\* The capacity of an agent is computed from the largest integer whose square
\* is not above its stake units: five Newton steps and one correction suffice.
isFloorSqrt(value) ==
  Sqrt(value) * Sqrt(value) <= value /\ value < (Sqrt(value) + 1) * (Sqrt(value) + 1)

=============================================================================
