---------------------------- MODULE MdocValidity ----------------------------
(* The dates of an mdoc as their rows in the trace see them: ten bytes of     *)
(* "YYYY-MM-DD" text, parsed and compared inside of the constraints           *)
(* (eu-id-prover/src/mdoc_validity.rs), and the birth date's text or packed   *)
(* form (predicates/.../range_check/eval.rs). A byte is an integer.           *)
EXTENDS Integers, Sequences

P == 2147483647          \* the M31 prime
Dash == 45
DigitPositions == {1, 2, 3, 4, 6, 7, 9, 10}
TextLen == 10

(* Four bits b0..b3 with b3 * b2 = b3 * b1 = 0 recompose exactly 0..9.        *)
IsDateText(t) ==
    /\ t[5] = Dash /\ t[8] = Dash
    /\ \A i \in DigitPositions : t[i] - 48 \in 0 .. 9

Digit(t, i) == t[i] - 48
Year(t)  == 1000 * Digit(t, 1) + 100 * Digit(t, 2) + 10 * Digit(t, 3) + Digit(t, 4)
Month(t) == 10 * Digit(t, 6) + Digit(t, 7)
Day(t)   == 10 * Digit(t, 9) + Digit(t, 10)

DateKey(year, month, day) == year * 512 + month * 32 + day
PolicyKey(date) == DateKey(date[1], date[2], date[3])

(* A field element that is the sum of committed bits is below their bound.    *)
FitsBits(value, bound) == value % P < bound

(* MdocValidityEval::evaluate on one active row: the month and the day lie in *)
(* range, and the signed date and the policy's differ by 23 bits in the right *)
(* direction.                                                                 *)
DateInRange(t) ==
    /\ FitsBits(Month(t) - 1, 16) /\ FitsBits(12 - Month(t), 16)
    /\ FitsBits(Day(t) - 1, 32)   /\ FitsBits(31 - Day(t), 32)

TextKey(t) == DateKey(Year(t), Month(t), Day(t))

ValidFromRow(t, policy) ==
    /\ IsDateText(t) /\ DateInRange(t)
    /\ FitsBits(PolicyKey(policy) - TextKey(t), 8388608)

(* Mutant: the difference of the dates is not bounded.                        *)
ValidUntilRowUnchecked(t, policy) == IsDateText(t) /\ DateInRange(t)

ValidUntilRow(t, policy) ==
    /\ IsDateText(t) /\ DateInRange(t)
    /\ FitsBits(TextKey(t) - PolicyKey(policy), 8388608)

(* emit_dob_binding: the date that the age predicate's row holds, read from   *)
(* the bytes it requires, four packed or ten of text.                         *)
IsBirthBytes(b) == Len(b) = TextLen => IsDateText(b)
BirthDate(b) ==
    IF Len(b) = TextLen THEN <<Year(b), Month(b), Day(b)>>
                        ELSE <<256 * b[1] + b[2], b[3], b[4]>>

(* NationalityEval::evaluate: the code of the two bytes it requires.          *)
CountryCode(b) == 256 * b[1] + b[2]

-----------------------------------------------------------------------------
(* What the comparison is for, on dates and not on keys.                      *)

TextDate(t) == <<Year(t), Month(t), Day(t)>>

NotLater(d, e) ==
    \/ d[1] < e[1]
    \/ d[1] = e[1] /\ d[2] < e[2]
    \/ d[1] = e[1] /\ d[2] = e[2] /\ d[3] <= e[3]
=============================================================================
