---------------------------- MODULE NumberReader ----------------------------
(***************************************************************************)
(* The loop of cojson's integer reader (reader<T>::read, cojson.hpp): one  *)
(* action per kind of character that may come next.  JsonReaders uses the  *)
(* same arithmetic on whole texts; here the text is whatever comes.        *)
(***************************************************************************)
EXTENDS Tenfold

CONSTANTS Types,      \* the integral types, records [low, high]
          MaxDigits   \* bound on the number of digits of a text

ASSUME NumberAssumption ==
  /\ \A t \in Types : t = [low |-> t.low, high |-> t.high] /\ IsIntegral(t)
  /\ MaxDigits \in Nat

VARIABLES type,      \* the type of the destination
          overflow,  \* what the configuration says of overflow
          val,       \* the destination, written while it is read
          sign,      \* 0 until the sign or a digit was seen
          status,    \* "reading", or how the loop ended
          errors,    \* error bits set in the stream
          digits,    \* number of digits so far
          exact      \* the number that was written in the text so far

setup == <<type, overflow>>
vars  == <<type, overflow, val, sign, status, errors, digits, exact>>

Init ==
  /\ type \in Types /\ overflow \in OverflowIs
  /\ val = 0 /\ sign = 0 /\ status = "reading" /\ errors = {}
  /\ digits = 0 /\ exact = 0

\* The value and the sign after a digit: the first digit settles the sign.
SignAfterDigit(s) == IF s = 0 THEN 1 ELSE s
Signed_Never(s, d) == d    \* the sign is forgotten
Signed(s, d) == IF SignAfterDigit(s) > 0 THEN d ELSE -d

Digit(d) ==
  /\ status = "reading" /\ digits < MaxDigits
  /\ LET t == Tenfold(type, overflow, val, Signed(sign, d)) IN
       /\ val'    = t.val
       /\ status' = IF t.ok THEN "reading" ELSE "overflow"
       /\ errors' = IF t.ok THEN errors ELSE errors \cup {"overflow"}
  /\ sign' = SignAfterDigit(sign)
  /\ digits' = digits + 1
  /\ exact' = 10 * exact + (IF sign < 0 THEN -d ELSE d)
  /\ UNCHANGED setup

Ended(how, bits) ==
  /\ status = "reading"
  /\ status' = how /\ errors' = errors \cup bits
  /\ UNCHANGED <<setup, val, sign, digits, exact>>

\* A minus is accepted once, before the first digit, by signed types only.
Minus ==
  /\ status = "reading" /\ type.low < 0 /\ sign = 0
  /\ sign' = -1
  /\ UNCHANGED <<setup, val, status, errors, digits, exact>>

RefusedSign ==
  \/ type.low < 0 /\ sign # 0 /\ Ended("failed", {"bad"})
  \/ type.low = 0 /\ sign # 0 /\ Ended("failed", {"bad"})
  \/ type.low = 0 /\ sign = 0 /\ Ended("failed", {"mismatch"})

\* A plus, a decimal point or an exponent, a character of no number; the end.
Plus      == Ended("failed", {"bad"})
Fraction  == Ended("failed", {"mismatch"})
Stranger  == Ended("failed", {"bad"})
Delimiter == Ended("read", {})

Next ==
  \/ \E d \in 0..9 : Digit(d)
  \/ Minus \/ RefusedSign \/ Plus \/ Fraction \/ Stranger \/ Delimiter

Spec == Init /\ [][Next]_vars

-----------------------------------------------------------------------------
\* Every variable holds a value of its type, the destination one of its width
\* (reader<T>::read never leaves the range of T).
TypeOK ==
  /\ type \in Types /\ overflow \in OverflowIs
  /\ val \in type.low..type.high
  /\ sign \in {-1, 0, 1} /\ (type.low = 0 => sign # -1)
  /\ status \in {"reading", "read", "failed", "overflow"}
  /\ errors \subseteq {"bad", "mismatch", "overflow"}
  /\ digits \in 0..MaxDigits
  /\ exact \in Int

\* With overflow_is::saturated the destination always holds the number of its type
\* that is nearest to what was written, whatever digits follow an overflow.
Saturates == overflow = "saturated" => val = Clamp(type, exact)

\* With overflow_is::error a number that does not fit is reported, one that fits is
\* not, and the value is exact as long as nothing is reported.
ReportsOverflow ==
  overflow = "error" =>
    /\ "overflow" \in errors <=> ~InRange(type, exact)
    /\ InRange(type, exact) => val = exact

\* With overflow_is::ignored the value is right modulo the width of its type.
WrapsAround == overflow = "ignored" => val = Wrapped(type, exact)
=============================================================================
