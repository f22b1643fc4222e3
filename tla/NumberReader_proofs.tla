------------------------ MODULE NumberReader_proofs ------------------------
(***************************************************************************)
(* The integer reader, for every width, sign and number of digits: its     *)
(* destination stays in the type, saturation yields the nearest number of  *)
(* the type, and an overflow is reported exactly when there is one.        *)
(***************************************************************************)
EXTENDS NumberReader, TLAPS

\* The two parts of a division by ten that truncates towards zero.
LEMMA DivideByTen ==
  ASSUME NEW n \in Int
  PROVE  /\ Quotient(n) \in Int /\ Remainder(n) \in Int
         /\ n = 10 * Quotient(n) + Remainder(n)
         /\ n >= 0 => Quotient(n) >= 0 /\ Remainder(n) \in 0..9
         /\ n <= 0 => Quotient(n) <= 0 /\ Remainder(n) \in -9..0
<1>1. CASE n >= 0
  BY <1>1, SMT DEF Quotient, Remainder
<1>2. CASE n < 0
  BY <1>2, SMT DEF Quotient, Remainder
<1> QED
  BY <1>1, <1>2

\* A number of the range is what is left of it.
LEMMA WrappedInRange ==
  ASSUME NEW t, IsIntegral(t), NEW n \in Int
  PROVE  /\ Wrapped(t, n) \in t.low..t.high
         /\ InRange(t, n) => Wrapped(t, n) = n
<1> DEFINE m == t.high - t.low + 1
<1>1. t.low \in Int /\ t.high \in Int /\ m \in Int /\ m > 0
  BY DEF IsIntegral
<1>2. (n - t.low) % m \in 0..(m - 1)
  BY <1>1, SMT
<1>3. InRange(t, n) => (n - t.low) % m = n - t.low
  BY <1>1, SMT DEF InRange
<1> QED
  BY <1>1, <1>2, <1>3 DEF Wrapped, InRange

\* The checks of tenfold are exact: they fire when the next number leaves the range.
LEMMA ChecksAreExact ==
  ASSUME NEW t, IsIntegral(t), NEW v \in t.low..t.high, NEW d \in -9..9,
         d < 0 => t.low < 0 /\ v <= 0, d > 0 => v >= 0
  PROVE  /\ TooLow(t, v, d) <=> 10 * v + d < t.low
         /\ TooHigh(t, v, d) <=> 10 * v + d > t.high
<1>1. t.low \in Int /\ t.high \in Int /\ t.low <= 0 /\ t.high >= 0
  BY DEF IsIntegral
<1>2. PICK lq \in Int, lr \in -9..0 :
        /\ lq = Quotient(t.low) /\ lr = Remainder(t.low)
        /\ t.low = 10 * lq + lr
  BY <1>1, DivideByTen
<1>3. PICK hq \in Int, hr \in 0..9 :
        /\ hq = Quotient(t.high) /\ hr = Remainder(t.high)
        /\ t.high = 10 * hq + hr
  <2>1. Quotient(t.high) \in Int /\ Remainder(t.high) \in 0..9
    BY <1>1, DivideByTen
  <2>2. t.high = 10 * Quotient(t.high) + Remainder(t.high)
    BY <1>1, DivideByTen
  <2> QED
    BY <2>1, <2>2
<1>4. t.low = 0 => v >= 0 /\ d >= 0
  BY <1>1
<1>5. TooLow(t, v, d) <=> t.low < 0 /\ (v < lq \/ (v = lq /\ d < lr))
  BY <1>2 DEF TooLow
<1>6. TooHigh(t, v, d) <=> (v > hq \/ (v = hq /\ d > hr))
  BY <1>3 DEF TooHigh
<1>7. v \in Int /\ d \in Int
  BY <1>1
<1>8. TooLow(t, v, d) <=> 10 * v + d < t.low
  BY <1>1, <1>2, <1>4, <1>5, <1>7, SMT
<1>9. TooHigh(t, v, d) <=> 10 * v + d > t.high
  BY <1>1, <1>3, <1>6, <1>7, SMT
<1> QED
  BY <1>8, <1>9

\* What one digit leaves in the destination under each treatment of overflow.
LEMMA TenfoldValue ==
  ASSUME NEW t, IsIntegral(t), NEW o \in OverflowIs,
         NEW v \in t.low..t.high, NEW d \in -9..9,
         o # "ignored" => (d < 0 => t.low < 0 /\ v <= 0) /\ (d > 0 => v >= 0)
  PROVE  /\ Tenfold(t, o, v, d).val \in t.low..t.high
         /\ o # "ignored" => Tenfold(t, o, v, d).val = Clamp(t, 10 * v + d)
         /\ o = "ignored" => Tenfold(t, o, v, d).val = Wrapped(t, 10 * v + d)
<1>1. PICK n \in Int : n = 10 * v + d
  BY DEF IsIntegral
<1>2. t.low \in Int /\ t.high \in Int /\ t.low <= t.high
  BY DEF IsIntegral
<1>3. ASSUME o # "ignored"
      PROVE  (TooLow(t, v, d) <=> n < t.low) /\ (TooHigh(t, v, d) <=> n > t.high)
  BY <1>1, <1>3, ChecksAreExact
<1>4. /\ Wrapped(t, n) \in t.low..t.high
      /\ InRange(t, n) => Wrapped(t, n) = n
  BY WrappedInRange
<1>5. CASE o # "ignored" /\ n < t.low
  <2>1. Tenfold(t, o, v, d).val = t.low
    BY <1>3, <1>5 DEF Tenfold
  <2> QED
    BY <1>1, <1>2, <1>5, <2>1 DEF Clamp
<1>6. CASE o # "ignored" /\ ~(n < t.low) /\ n > t.high
  <2> ~TooLow(t, v, d) /\ TooHigh(t, v, d)
    BY <1>3, <1>6
  <2>1. Tenfold(t, o, v, d).val = t.high
    BY <1>6 DEF Tenfold
  <2> QED
    BY <1>1, <1>2, <1>6, <2>1 DEF Clamp
<1>7. CASE o = "ignored" \/ (~(n < t.low) /\ ~(n > t.high))
  <2> o = "ignored" \/ (~TooLow(t, v, d) /\ ~TooHigh(t, v, d))
    BY <1>3, <1>7
  <2>1. Tenfold(t, o, v, d).val = Wrapped(t, n)
    BY <1>1 DEF Tenfold, Times10
  <2> QED
    BY <1>1, <1>2, <1>4, <1>7, <2>1 DEF Clamp, InRange
<1> QED
  BY <1>5, <1>6, <1>7

\* A digit ends the number only when overflow is an error and there is one.
LEMMA TenfoldFails ==
  ASSUME NEW t, IsIntegral(t), NEW o \in OverflowIs,
         NEW v \in t.low..t.high, NEW d \in -9..9,
         o # "ignored" => (d < 0 => t.low < 0 /\ v <= 0) /\ (d > 0 => v >= 0)
  PROVE  /\ o # "error" \/ InRange(t, 10 * v + d) => Tenfold(t, o, v, d).ok = TRUE
         /\ o = "error" /\ ~InRange(t, 10 * v + d) => Tenfold(t, o, v, d).ok = FALSE
<1>1. PICK n \in Int : n = 10 * v + d
  BY DEF IsIntegral
<1>2. t.low \in Int /\ t.high \in Int
  BY DEF IsIntegral
<1>3. ASSUME o # "ignored"
      PROVE  (TooLow(t, v, d) <=> n < t.low) /\ (TooHigh(t, v, d) <=> n > t.high)
  BY <1>1, <1>3, ChecksAreExact
<1>4. InRange(t, n) <=> ~(n < t.low) /\ ~(n > t.high)
  BY <1>1, <1>2 DEF InRange
<1>5. CASE o = "ignored"
  BY <1>5 DEF Tenfold
<1>6. CASE o = "saturated"
  BY <1>6 DEF Tenfold
<1>7. CASE o = "error" /\ InRange(t, n)
  BY <1>1, <1>3, <1>4, <1>7 DEF Tenfold
<1>8. CASE o = "error" /\ ~InRange(t, n)
  BY <1>1, <1>3, <1>4, <1>8 DEF Tenfold
<1> QED
  BY <1>1, <1>5, <1>6, <1>7, <1>8 DEF OverflowIs

\* Reducing modulo the width of a type commutes with adding multiples of it.
LEMMA ModOfMultiple ==
  ASSUME NEW m \in Int, m > 0, NEW n \in Int, NEW k \in Int
  PROVE  (n + k * m) % m = n % m
<1>1. PICK q1 \in Int, r1 \in 0..(m - 1) : n = m * q1 + r1 /\ r1 = n % m
  BY SMT
<1>2. n + k * m \in Int
  BY SMT
<1>3. PICK q2 \in Int, r2 \in 0..(m - 1) : n + k * m = m * q2 + r2 /\ r2 = (n + k * m) % m
  BY <1>2, SMT
<1>4. PICK j \in Int : j = q1 + k - q2
  BY SMT
<1>5. m * j = r2 - r1
  BY <1>1, <1>3, <1>4, SMT
<1>6. j = 0
  <2>1. j >= 1 => m * j >= m
    BY SMT
  <2>2. j <= -1 => m * j <= -m
    BY SMT
  <2> QED
    BY <1>5, <2>1, <2>2, SMT
<1> QED
  BY <1>1, <1>3, <1>5, <1>6, SMT

\* Wrapping before or after a digit makes no difference.
LEMMA WrapsStepwise ==
  ASSUME NEW t, IsIntegral(t), NEW x \in Int, NEW d \in Int
  PROVE  Wrapped(t, 10 * Wrapped(t, x) + d) = Wrapped(t, 10 * x + d)
<1>1. t.low \in Int /\ t.high \in Int /\ t.high - t.low + 1 \in Int /\ t.high - t.low + 1 > 0
  BY DEF IsIntegral
<1>2. PICK m \in Int : m = t.high - t.low + 1 /\ m > 0
  BY <1>1
<1>3. PICK k \in Int : Wrapped(t, x) = x + k * m
  <2>1. PICK a \in Int : a = x - t.low
    BY <1>1
  <2>2. a \div m \in Int /\ a % m \in Int /\ a = m * (a \div m) + (a % m)
    BY <1>2, <2>1, SMT
  <2>3. PICK q \in Int, r \in Int : a = m * q + r /\ r = a % m
    BY <2>2
  <2>4. Wrapped(t, x) = r + t.low
    BY <1>1, <1>2, <2>1, <2>3 DEF Wrapped
  <2>5. PICK k \in Int : k = -q
    BY SMT
  <2>6. k * m = -(m * q)
    BY <2>5, SMT
  <2>7. Wrapped(t, x) = x + k * m
    BY <1>1, <1>2, <2>1, <2>3, <2>4, <2>6, SMT
  <2> QED
    BY <2>7
<1>4. PICK a \in Int, b \in Int :
        a = 10 * x + d - t.low /\ b = 10 * Wrapped(t, x) + d - t.low
  BY <1>1, <1>2, <1>3
<1>5. PICK j \in Int : j = 10 * k
  BY SMT
<1>6. b = a + j * m
  BY <1>1, <1>2, <1>3, <1>4, <1>5, SMT
<1>7. b % m = a % m
  BY <1>2, <1>6, ModOfMultiple
<1> QED
  BY <1>1, <1>2, <1>4, <1>7 DEF Wrapped

\* Clamping before or after a digit makes no difference either, while the digits have
\* the sign of the number.
LEMMA ClampsStepwise ==
  ASSUME NEW t, IsIntegral(t), NEW x \in Int, NEW d \in -9..9,
         d < 0 => x <= 0, d > 0 => x >= 0
  PROVE  /\ Clamp(t, x) \in t.low..t.high
         /\ Clamp(t, 10 * Clamp(t, x) + d) = Clamp(t, 10 * x + d)
BY SMT DEF IsIntegral, Clamp

-----------------------------------------------------------------------------
\* What the loop keeps true: the number read so far has the sign that was read, and
\* the destination is related to it as the treatment of overflow says.
SignOfNumber ==
  /\ sign = 0 => exact = 0
  /\ sign > 0 => exact >= 0
  /\ sign < 0 => exact <= 0

NothingLost ==
  /\ Saturates /\ WrapsAround
  /\ overflow # "error" => status # "overflow" /\ "overflow" \notin errors
  /\ overflow = "error" /\ status # "overflow" =>
       val = exact /\ "overflow" \notin errors
  /\ overflow = "error" /\ status = "overflow" =>
       ~InRange(type, exact) /\ "overflow" \in errors

IInv == TypeOK /\ SignOfNumber /\ NothingLost

LEMMA TypesAreIntegral == \A t \in Types : IsIntegral(t)
BY NumberAssumption

LEMMA InitInvariant == Init => IInv
<1> SUFFICES ASSUME Init PROVE IInv
  OBVIOUS
<1>1. IsIntegral(type)
  BY TypesAreIntegral DEF Init
<1>2. TypeOK
  BY <1>1, NumberAssumption DEF Init, TypeOK, IsIntegral
<1>3. 0 \in Int /\ InRange(type, 0)
  BY <1>1 DEF IsIntegral, InRange
<1>4. Wrapped(type, 0) = 0
  BY <1>1, <1>3, WrappedInRange
<1>5. SignOfNumber
  BY DEF Init, SignOfNumber
<1>6. NothingLost
  BY <1>1, <1>4 DEF Init, NothingLost, Saturates, WrapsAround, Clamp, IsIntegral
<1> QED
  BY <1>2, <1>5, <1>6 DEF IInv

\* A digit keeps the invariant.
LEMMA DigitKeeps ==
  ASSUME IInv, NEW d \in 0..9, Digit(d)
  PROVE  IInv'
<1> DEFINE sd == IF sign < 0 THEN -d ELSE d
           r  == Tenfold(type, overflow, val, sd)
<1>1. IsIntegral(type) /\ type \in Types
  BY TypesAreIntegral DEF IInv, TypeOK
<1>2. PICK s \in -9..9 : s = sd /\ (s < 0 => sign < 0) /\ (s > 0 => sign # -1)
  BY DEF IInv, TypeOK
<1>3. Signed(sign, d) = s
  BY <1>2 DEF Signed, SignAfterDigit, IInv, TypeOK
<1>4. PICK n : n = 10 * val + s
  OBVIOUS
<1>5. val \in type.low..type.high /\ exact \in Int /\ overflow \in OverflowIs
      /\ type.low \in Int /\ type.high \in Int /\ type.low <= 0 /\ type.high >= 10
      /\ sign \in {-1, 0, 1} /\ digits \in 0..MaxDigits
  BY <1>1 DEF IInv, TypeOK, IsIntegral
<1>6. s < 0 => exact <= 0 /\ type.low < 0
  BY <1>1, <1>2, <1>5 DEF IInv, TypeOK, SignOfNumber, IsIntegral
<1>7. s > 0 => exact >= 0
  BY <1>2, <1>5 DEF IInv, SignOfNumber
<1>8. status = "reading"
  BY DEF Digit
<1>9. overflow = "saturated" => val = Clamp(type, exact)
  BY DEF IInv, NothingLost, Saturates
<1>10. overflow = "error" => val = exact /\ InRange(type, exact)
  BY <1>5, <1>8 DEF IInv, NothingLost, InRange
<1>11. overflow # "ignored" => (s < 0 => type.low < 0 /\ val <= 0) /\ (s > 0 => val >= 0)
  BY <1>5, <1>6, <1>7, <1>9, <1>10 DEF OverflowIs, Clamp
<1>12. /\ val' = Tenfold(type, overflow, val, s).val
       /\ exact' = 10 * exact + s
       /\ status' = IF Tenfold(type, overflow, val, s).ok THEN "reading" ELSE "overflow"
       /\ errors' = IF Tenfold(type, overflow, val, s).ok THEN errors
                    ELSE errors \cup {"overflow"}
       /\ UNCHANGED <<type, overflow>>
  BY <1>2, <1>3 DEF Digit, setup
<1>13. /\ val' \in type.low..type.high
       /\ overflow # "ignored" => val' = Clamp(type, n)
       /\ overflow = "ignored" => val' = Wrapped(type, n)
  BY <1>1, <1>4, <1>5, <1>11, <1>12, TenfoldValue
<1>22. /\ overflow # "error" => Tenfold(type, overflow, val, s).ok = TRUE
       /\ InRange(type, n) => Tenfold(type, overflow, val, s).ok = TRUE
       /\ overflow = "error" /\ ~InRange(type, n) => Tenfold(type, overflow, val, s).ok = FALSE
  BY <1>1, <1>4, <1>5, <1>11, TenfoldFails
<1>14. exact' \in Int /\ n \in Int
  BY <1>4, <1>5, <1>12
<1>15. /\ sign' = (IF sign = 0 THEN 1 ELSE sign) /\ digits' = digits + 1
       /\ digits < MaxDigits
  BY DEF Digit, SignAfterDigit
<1>16. TypeOK'
  BY <1>1, <1>5, <1>12, <1>13, <1>14, <1>15, <1>22, NumberAssumption DEF IInv, TypeOK
<1>17. SignOfNumber'
  <2>1. sign' \in {-1, 1} /\ (sign' = -1 => s <= 0) /\ (sign' = 1 => s >= 0)
    BY <1>2, <1>5, <1>15
  <2>2. (sign' = -1 => exact <= 0) /\ (sign' = 1 => exact >= 0)
    BY <1>5, <1>15 DEF IInv, SignOfNumber
  <2> QED
    BY <1>2, <1>5, <1>12, <2>1, <2>2 DEF SignOfNumber
<1>18. Saturates'
  <2>1. Clamp(type, 10 * Clamp(type, exact) + s) = Clamp(type, 10 * exact + s)
    BY <1>1, <1>5, <1>6, <1>7, ClampsStepwise
  <2> QED
    BY <1>4, <1>9, <1>12, <1>13, <2>1 DEF Saturates
<1>19. WrapsAround'
  <2>1. Wrapped(type, 10 * Wrapped(type, exact) + s) = Wrapped(type, 10 * exact + s)
    BY <1>1, <1>5, WrapsStepwise
  <2>2. overflow = "ignored" => val = Wrapped(type, exact)
    BY DEF IInv, NothingLost, WrapsAround
  <2> QED
    BY <1>4, <1>12, <1>13, <2>1, <2>2 DEF WrapsAround
<1>20. ASSUME overflow = "error"
       PROVE  /\ status' # "overflow" => val' = exact' /\ "overflow" \notin errors'
              /\ status' = "overflow" => ~InRange(type, exact') /\ "overflow" \in errors'
  <2>1. n = exact' /\ "overflow" \notin errors
    BY <1>4, <1>8, <1>10, <1>12, <1>20 DEF IInv, NothingLost
  <2>2. CASE InRange(type, n)
    <3>1. Tenfold(type, overflow, val, s).ok = TRUE
      BY <1>22, <2>2
    <3>2. status' = "reading" /\ errors' = errors
      BY <1>12, <3>1
    <3>3. val' = n
      BY <1>5, <1>13, <1>14, <1>20, <2>2 DEF InRange, Clamp
    <3> QED
      BY <2>1, <3>2, <3>3
  <2>3. CASE ~InRange(type, n)
    <3>1. Tenfold(type, overflow, val, s).ok = FALSE
      BY <1>22, <1>20, <2>3
    <3>2. status' = "overflow" /\ errors' = errors \cup {"overflow"}
      BY <1>12, <3>1
    <3> QED
      BY <2>1, <2>3, <3>2
  <2> QED
    BY <2>2, <2>3
<1>21. overflow # "error" => status' # "overflow" /\ "overflow" \notin errors'
  <2> SUFFICES ASSUME overflow # "error"
               PROVE  status' # "overflow" /\ "overflow" \notin errors'
    OBVIOUS
  <2>1. Tenfold(type, overflow, val, s).ok = TRUE
    BY <1>22
  <2>2. status' = "reading" /\ errors' = errors
    BY <1>12, <2>1
  <2> QED
    BY <2>2 DEF IInv, NothingLost
<1> QED
  BY <1>12, <1>16, <1>17, <1>18, <1>19, <1>20, <1>21 DEF IInv, NothingLost

\* The end of the number and the errors keep it: they touch the status only.
LEMMA EndKeeps ==
  ASSUME IInv, NEW how \in {"read", "failed"}, NEW bits \in SUBSET {"bad", "mismatch"},
         Ended(how, bits)
  PROVE  IInv'
<1>1. /\ status = "reading" /\ status' = how /\ errors' = errors \cup bits
      /\ UNCHANGED <<type, overflow, val, sign, digits, exact>>
  BY DEF Ended, setup
<1>2. TypeOK'
  BY <1>1 DEF IInv, TypeOK
<1>3. SignOfNumber'
  BY <1>1 DEF IInv, SignOfNumber
<1>4. Saturates' /\ WrapsAround'
  BY <1>1 DEF IInv, NothingLost, Saturates, WrapsAround
<1>5. how # "overflow" /\ ("overflow" \in errors' <=> "overflow" \in errors)
  BY <1>1
<1> QED
  BY <1>1, <1>2, <1>3, <1>4, <1>5 DEF IInv, NothingLost

LEMMA StepInvariant == IInv /\ [Next]_vars => IInv'
<1> SUFFICES ASSUME IInv, [Next]_vars PROVE IInv'
  OBVIOUS
<1>1. ASSUME NEW d \in 0..9, Digit(d) PROVE IInv'
  BY <1>1, DigitKeeps
<1>2. CASE Minus
  <2>1. /\ sign = 0 /\ type.low < 0 /\ sign' = -1
        /\ UNCHANGED <<type, overflow, val, status, errors, digits, exact>>
    BY <1>2 DEF Minus, setup
  <2>2. TypeOK'
    BY <2>1, TypesAreIntegral DEF IInv, TypeOK, IsIntegral
  <2>3. SignOfNumber'
    BY <2>1 DEF IInv, SignOfNumber
  <2>4. NothingLost'
    BY <2>1 DEF IInv, NothingLost, Saturates, WrapsAround
  <2> QED
    BY <2>2, <2>3, <2>4 DEF IInv
<1>3. CASE RefusedSign
  BY <1>3, EndKeeps DEF RefusedSign
<1>4. CASE Plus \/ Fraction \/ Stranger \/ Delimiter
  BY <1>4, EndKeeps DEF Plus, Fraction, Stranger, Delimiter
<1>5. CASE UNCHANGED vars
  BY <1>5 DEF vars, IInv, TypeOK, SignOfNumber, NothingLost, Saturates, WrapsAround
<1> QED
  BY <1>1, <1>2, <1>3, <1>4, <1>5 DEF Next

LEMMA Invariant == Spec => []IInv
BY InitInvariant, StepInvariant, PTL DEF Spec

-----------------------------------------------------------------------------
\* The destination of the reader never leaves the range of its type, whatever the
\* type and the text are (reader<T>::read).
THEOREM NumberTypeCorrect == Spec => []TypeOK
<1>1. IInv => TypeOK
  BY DEF IInv
<1> QED
  BY <1>1, Invariant, PTL

\* With saturation the destination is at every moment the number of the type nearest
\* to the one written so far (tenfold, overflow_is::saturated).
THEOREM NumberSaturates == Spec => []Saturates
<1>1. IInv => Saturates
  BY DEF IInv, NothingLost
<1> QED
  BY <1>1, Invariant, PTL

\* With overflow as an error, it is reported exactly when the number does not fit
\* (tenfold and its caller, overflow_is::error).
THEOREM NumberReportsOverflow == Spec => []ReportsOverflow
<1>1. IInv => ReportsOverflow
  <2> SUFFICES ASSUME IInv, overflow = "error" PROVE ReportsOverflow
    BY DEF ReportsOverflow
  <2>1. val \in type.low..type.high /\ type.low \in Int /\ type.high \in Int
    BY TypesAreIntegral DEF IInv, TypeOK, IsIntegral
  <2>2. CASE status = "overflow"
    BY <2>2 DEF IInv, NothingLost, ReportsOverflow
  <2>3. CASE status # "overflow"
    BY <2>1, <2>3 DEF IInv, NothingLost, ReportsOverflow, InRange
  <2> QED
    BY <2>2, <2>3
<1> QED
  BY <1>1, Invariant, PTL

\* When overflow is ignored the value is the number written, modulo the width of the
\* type (tenfold, overflow_is::ignored).
THEOREM NumberWrapsAround == Spec => []WrapsAround
<1>1. IInv => WrapsAround
  BY DEF IInv, NothingLost
<1> QED
  BY <1>1, Invariant, PTL
=============================================================================
