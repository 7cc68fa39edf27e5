------------------------------ MODULE BignumDtoa ------------------------------
(***************************************************************************)
(* double-conversion/bignum-dtoa.cc: the decimal digits of a double, from  *)
(* exact arithmetic.  A result is the digits, with the place of the        *)
(* decimal point within or beside them.  v = num/den * 10^power throughout,*)
(* and minus/den and plus/den are the distances to the boundaries: what    *)
(* is between them is read back as v.                                      *)
(***************************************************************************)
EXTENDS Ieee

Ceiling(a, b) == -((-a) \div b)
EstimatePower(exponent) == Ceiling((exponent + p - 1) * 30103, 100000)
NormalizedExponent(significand, exponent) == exponent - (p - BitLength(significand))

InitialScaledStartValues(f, e, closer, power, deltas) ==
  LET s == IF e >= 0 THEN [num |-> f * 2^e, den |-> 10^power, plus |-> 2^e, minus |-> 2^e]
           ELSE IF power >= 0 THEN [num |-> f, den |-> 10^power * 2^(-e), plus |-> 1, minus |-> 1]
           ELSE [num |-> f * 10^(-power), den |-> 2^(-e), plus |-> 10^(-power), minus |-> 10^(-power)]
      t == [s EXCEPT !.num = 2 * @, !.den = 2 * @]
  IN IF ~deltas THEN [s EXCEPT !.plus = 0, !.minus = 0]
     ELSE IF closer THEN [t EXCEPT !.num = 2 * @, !.den = 2 * @, !.plus = 2 * @] ELSE t

Reaches(s, even) == s.num + s.plus > s.den \/ (even /\ s.num + s.plus = s.den)
Times10(s) == [s EXCEPT !.num = 10 * @, !.plus = 10 * @, !.minus = 10 * @]

(* The estimate may be too low by one. *)
FixupMultiply10(power, even, s) ==
  IF Reaches(s, even) THEN [point |-> power + 1, s |-> s] ELSE [point |-> power, s |-> Times10(s)]

-----------------------------------------------------------------------------
RECURSIVE GenerateShortestDigits(_, _), DigitsOf(_, _, _), Carried(_)

(* Digits until one is within the boundaries, rounded down or up.  If both *)
(* are, to the nearer, or from the middle to the even digit.               *)
GenerateShortestDigits(s, even) ==
  LET digit == s.num \div s.den
      rest == [s EXCEPT !.num = @ % s.den]
      down == rest.num < s.minus \/ (even /\ rest.num = s.minus)
      up == Reaches(rest, even)
      nearer == 2 * rest.num > s.den \/ (2 * rest.num = s.den /\ digit % 2 = 1)
  IN IF ~down /\ ~up THEN <<digit>> \o GenerateShortestDigits(Times10(rest), even)
     ELSE <<IF up /\ (~down \/ nearer) THEN digit + 1 ELSE digit>>

RoundDown(num, den) == 0                              \* mutant: the rest is cut off
RoundHalfUp(num, den) == IF 2 * num >= den THEN 1 ELSE 0

DigitsOf(num, den, count) ==
  IF count = 1 THEN <<num \div den + RoundHalfUp(num % den, den)>>
  ELSE <<num \div den>> \o DigitsOf(10 * (num % den), den, count - 1)

(* A last digit of 10 is carried to the left. *)
Carried(buffer) ==
  IF Len(buffer) > 1 /\ Last(buffer) = 10
  THEN Append(Carried([Front(buffer) EXCEPT ![Len(buffer) - 1] = @ + 1]), 0) ELSE buffer

GenerateCountedDigits(count, point, s) ==
  LET buffer == Carried(DigitsOf(s.num, s.den, count))
  IN IF buffer[1] = 10 THEN [digits |-> [buffer EXCEPT ![1] = 1], point |-> point + 1]
     ELSE [digits |-> buffer, point |-> point]

BignumToFixed(requested_digits, point, s) ==
  IF -point > requested_digits THEN [digits |-> <<>>, point |-> -requested_digits]
  ELSE IF -point = requested_digits
  THEN IF 2 * s.num >= 10 * s.den THEN [digits |-> <<1>>, point |-> point + 1]
       ELSE [digits |-> <<>>, point |-> point]
  ELSE GenerateCountedDigits(point + requested_digits, point, s)

BignumDtoa(v, mode, requested_digits) ==
  LET f == Significand(v)
      e == Exponent(v)
      even == f % 2 = 0
      power == EstimatePower(NormalizedExponent(f, e))
      fixed == FixupMultiply10(power, even,
                 InitialScaledStartValues(f, e, LowerBoundaryIsCloser(v), power, mode = "SHORTEST"))
  IN IF mode = "FIXED" /\ -power - 1 > requested_digits THEN [digits |-> <<>>, point |-> -requested_digits]
     ELSE CASE mode = "SHORTEST" -> [digits |-> GenerateShortestDigits(fixed.s, even), point |-> fixed.point]
            [] mode = "FIXED" -> BignumToFixed(requested_digits, fixed.point, fixed.s)
            [] mode = "PRECISION" -> GenerateCountedDigits(requested_digits, fixed.point, fixed.s)

-----------------------------------------------------------------------------
(* What is checked, against the definition of each mode.                   *)

Whole(digits) == FoldLeft(LAMBDA n, d : 10 * n + d, 0, digits)

(* A number of the sign of n * 10^k - f * 2^e. *)
Power10(k) == IF k > 0 THEN 10^k ELSE 1
Power2(k) == IF k > 0 THEN 2^k ELSE 1
Difference(n, k, f, e) == n * Power10(k) * Power2(-e) - f * Power2(e) * Power10(-k)

(* n * 10^k is read back as v. *)
Within(n, k, v) ==
  LET f == Significand(v)  e == Exponent(v)
      low == IF LowerBoundaryIsCloser(v) THEN Difference(n, k, 4 * f - 1, e - 2) ELSE Difference(n, k, 2 * f - 1, e - 1)
      high == Difference(n, k, 2 * f + 1, e - 1)
  IN IF f % 2 = 0 THEN low >= 0 /\ high <= 0 ELSE low > 0 /\ high < 0

(* The shortest digits are read back as v, no fewer digits are, and none   *)
(* as short is nearer to v.                                                *)
ShortestIsShortest(v) ==
  LET r == BignumDtoa(v, "SHORTEST", 0)
      n == Whole(r.digits)
      k == r.point - Len(r.digits)
      Distance(m) == LET x == Difference(m, k, Significand(v), Exponent(v)) IN IF x < 0 THEN -x ELSE x
  IN /\ Within(n, k, v) /\ r.digits[1] # 0 /\ \A i \in DOMAIN r.digits : r.digits[i] \in 0..9
     /\ \A m \in {n \div 10, n \div 10 + 1} : m = 0 \/ ~Within(m, k + 1, v)
     /\ \A m \in {n - 1, n + 1} : Within(m, k, v) => Distance(m) >= Distance(n)

(* What is left of v at the last place asked for is at most half of it,    *)
(* and less than half when it was rounded down.                            *)
Rounded(n, k, v) ==
  LET f == Significand(v)  e == Exponent(v)
  IN /\ Difference(2 * n - 1, k, f, e + 1) <= 0
     /\ Difference(2 * n + 1, k, f, e + 1) > 0
CountedIsRounded(v, count) ==
  LET r == BignumDtoa(v, "PRECISION", count)
  IN Len(r.digits) = count /\ r.digits[1] # 0 /\ Rounded(Whole(r.digits), r.point - count, v)
FixedIsRounded(v, places) ==
  LET r == BignumDtoa(v, "FIXED", places)
      k == r.point - Len(r.digits)
  IN /\ r.digits = <<>> \/ r.digits[1] # 0
     /\ IF r.digits = <<>> THEN Rounded(0, -places, v) ELSE k >= -places /\ Rounded(Whole(r.digits) * 10^(k + places), -places, v)
===============================================================================
