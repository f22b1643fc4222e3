------------------------------ MODULE Tenfold ------------------------------
(***************************************************************************)
(* How cojson builds an integer digit by digit (tenfold, cojson.hpp): the  *)
(* arithmetic of a C++ type t with the range t.low..t.high, under the      *)
(* three treatments of overflow a configuration can choose.                *)
(***************************************************************************)
EXTENDS Integers

OverflowIs == {"ignored", "error", "saturated"}   \* config::overflow_is

\* std::numeric_limits of an integral type, signed or not.
IsIntegral(t) ==
  /\ t.low \in Int /\ t.high \in Int
  /\ t.high >= 10 /\ t.low <= 0
  /\ t.low = 0 \/ t.low <= -10

\* C++ division and remainder truncate towards zero.
Quotient(n)  == IF n >= 0 THEN n \div 10 ELSE -((-n) \div 10)
Remainder(n) == n - 10 * Quotient(n)

\* What is left of a number in an integer of this width.
Wrapped(t, n) == ((n - t.low) % (t.high - t.low + 1)) + t.low

TooLow(t, val, digit) ==
  /\ t.low < 0
  /\ \/ val < Quotient(t.low)
     \/ val = Quotient(t.low) /\ digit < Remainder(t.low)

TooHigh_OffByOne(t, val, digit) ==
  \/ val > Quotient(t.high)
  \/ val = Quotient(t.high) /\ digit > Remainder(t.high) + 1

TooHigh(t, val, digit) ==
  \/ val > Quotient(t.high)
  \/ val = Quotient(t.high) /\ digit > Remainder(t.high)

\* An accumulator wider than the destination.
Times10_Wide(t, val, digit) == 10 * val + digit
\* An accumulator that stops at the end of the range.
Times10_Saturating(t, val, digit) ==
  LET n == 10 * val + digit IN IF n > t.high THEN t.high ELSE Wrapped(t, n)

Times10(t, val, digit) == Wrapped(t, 10 * val + digit)

\* tenfold; digit is negative after a minus sign.  ok = FALSE ends the number.
Tenfold(t, overflow, val, digit) ==
  IF overflow # "ignored" /\ TooLow(t, val, digit)
  THEN [ok |-> overflow = "saturated", val |-> t.low]
  ELSE IF overflow # "ignored" /\ TooHigh(t, val, digit)
  THEN [ok |-> overflow = "saturated", val |-> t.high]
  ELSE [ok |-> TRUE, val |-> Times10(t, val, digit)]

-----------------------------------------------------------------------------
InRange(t, n) == t.low <= n /\ n <= t.high

\* The number of the range that is nearest to n.
Clamp(t, n) == IF n < t.low THEN t.low ELSE IF n > t.high THEN t.high ELSE n
=============================================================================
