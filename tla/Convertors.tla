------------------------------- MODULE Convertors ------------------------------
(***************************************************************************)
(* types/s4convertors.h and .cpp: integers, doubles and booleans to texts  *)
(* and back.                                                               *)
(***************************************************************************)
EXTENDS NumberText

CONSTANTS kIntBits,                     \* of a signed_int: 64
          kFixedBelow                   \* 10^-kFixedBelow is 0.0001

Given(value) == [ok |-> TRUE, value |-> value]
Refused == [ok |-> FALSE, value |-> 0]

-----------------------------------------------------------------------------
(* IntConvertor.  Two digits at a time from the end.  The lowest number is *)
(* negated within the word, and so stays what it is: its bits are those of *)
(* the unsigned number that is meant.                                      *)

AsSigned(n) == LET m == n % 2^kIntBits IN IF m >= 2^(kIntBits - 1) THEN m - 2^kIntBits ELSE m
UNSIGNED_VALUE_OF(t) == (IF t < 0 THEN -t ELSE t) % 2^kIntBits

DropsTheZero(number) == Padded(number, 1)            \* mutant: 105 becomes 15
DigitPair(number) == Padded(number, 2)

integer_to_string(t) ==
  LET Pairs[number \in Nat] ==
        IF number > 99 THEN Pairs[number \div 100] \o DigitPair(number % 100) ELSE Padded(number, 1)
  IN (IF t < 0 THEN <<"-">> ELSE <<>>) \o Pairs[UNSIGNED_VALUE_OF(t)]

digits10 == CHOOSE k \in 0..kIntBits : 10^k <= 2^(kIntBits - 1) /\ 10^(k + 1) > 2^(kIntBits - 1)

(* A text of more than fits wraps around and is not refused. *)
IntOfText(str) ==
  LET neg == StartsWith(str, {"-"})
      digits == IF neg THEN Tail(str) ELSE str
      x == FoldLeft(LAMBDA n, c : AsSigned(10 * n + DigitValue(c)), 0, digits)
  IN IF digits = <<>> \/ LeadingDigits(digits) # digits THEN Refused
     ELSE Given(IF neg THEN AsSigned(-x) ELSE x)

-----------------------------------------------------------------------------
(* DoubleConvertor. *)

fast_strtod(text) == StringToIeee(text)
fast_dtoa(x) == TrimTrailingZeros(ToPrecision(x, SIGNIFICANT_DIGITS))
fast_fixed_dtoa(x) == ToFixed(x, SIGNIFICANT_DIGITS)

(* The zeros are put behind the last character, whatever it is. *)
PaddedTo(text, padding) ==
  LET dotted == IF Find(text, <<".">>, 1) = 0 THEN Append(text, ".") ELSE text
  IN dotted \o Zeros(padding - (Len(dotted) - Find(dotted, <<".">>, 1)))

(* No more than most zeros are stripped from the end. *)
Stripped(text, most) == SubSeq(text, 1, Max({FindLastNotOf(text, {"0"}), Len(text) - most}))

WithPadding(text, padding) == IF padding > 0 /\ text # <<>> THEN PaddedTo(text, padding) ELSE text
WithoutZeros(text, padding) ==
  Stripped(text, IF padding > 0 THEN Max({0, SIGNIFICANT_DIGITS - padding}) ELSE Len(text))

TextOfDouble(x, padding) ==
  IF x.d = 0 \/ (x.d <= kInfinity /\ x.d > NearestDouble(1, 10^kFixedBelow))
  THEN WithPadding(fast_dtoa(x), padding) ELSE WithoutZeros(fast_fixed_dtoa(x), padding)

(* Digits, with a sign before and a point among them or beside them. *)
IsPlainNumber(text) ==
  LET u == IF StartsWith(text, {"-"}) THEN Tail(text) ELSE text
  IN /\ \E i \in DOMAIN u : IsDigit(u[i])
     /\ \A i, j \in DOMAIN u : /\ IsDigit(u[i]) \/ u[i] = "."
                               /\ u[i] = "." /\ u[j] = "." => i = j

UnlessNaN(x) == IF x.d = kNaN THEN Refused ELSE Given(x)
DoubleOfText(text) == IF IsPlainNumber(text) THEN UnlessNaN(fast_strtod(text)) ELSE Refused

-----------------------------------------------------------------------------
(* BoolConvertor. *)
TextOfBool(value) == IF value THEN <<"Y">> ELSE <<"N">>
BoolOfText(text) == IF text = <<"Y">> THEN Given(TRUE) ELSE IF text = <<"N">> THEN Given(FALSE) ELSE Refused

-----------------------------------------------------------------------------
(* What is checked. *)

(* Every integer is read back from its text, the lowest included, which    *)
(* just fits into convert's buffer.                                        *)
IntegerSurvives(n) ==
  /\ IntOfText(integer_to_string(n)) = Given(n)
  /\ Len(integer_to_string(n)) <= digits10 + 2

(* A decimal number of so many digits as are significant is given back by  *)
(* the double nearest to it, and padded with zeros where that is asked for.*)
DecimalText(neg, n, places) ==
  (IF neg THEN <<"-">> ELSE <<>>) \o Padded(n \div 10^places, 1)
    \o (IF places = 0 THEN <<>> ELSE <<".">> \o Padded(n % 10^places, places))
IsWritten(r, shortest, padding) ==
  /\ r.ok
  /\ TextOfDouble(r.value, 0) = shortest
  /\ TextOfDouble(r.value, padding) = WithPadding(shortest, padding)
DecimalSurvives(neg, n, places, padding) ==
  LET text == DecimalText(neg, n, places)
  IN IsWritten(DoubleOfText(text), IF places = 0 THEN text ELSE TrimTrailingZeros(text), padding)
===============================================================================
