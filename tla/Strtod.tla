-------------------------------- MODULE Strtod --------------------------------
(***************************************************************************)
(* double-conversion/strtod.cc: the double for digits * 10^exponent, first *)
(* from doubles, then from DiyFps with a bound on their error, and if that *)
(* does not decide it, from a comparison in exact arithmetic.              *)
(***************************************************************************)
EXTENDS CachedPowers

CONSTANTS kMaxDecimalPower, kMinDecimalPower,      \* 309 and -324
          kMaxSignificantDecimalDigits             \* 780

kMaxExactDoubleIntegerDecimalDigits == CHOOSE k \in 0..p : 10^k < 2^p /\ 10^(k + 1) > 2^p
kExactPowersOfTenSize == 1 + CHOOSE k \in 0..p : 5^k < 2^p /\ 5^(k + 1) > 2^p
kMaxUint64 == 2^q - 1
kMaxUint64DecimalDigits == CHOOSE k \in 0..q : 10^k < 2^q /\ 10^(k + 1) > 2^q

-----------------------------------------------------------------------------
(* Digits. *)

FirstNonZero(buffer) == CHOOSE i \in 1..(Len(buffer) + 1) :
  (i = Len(buffer) + 1 \/ buffer[i] # 0) /\ \A j \in 1..(i - 1) : buffer[j] = 0
LastNonZero(buffer) == CHOOSE i \in 0..Len(buffer) :
  (i = 0 \/ buffer[i] # 0) /\ \A j \in (i + 1)..Len(buffer) : buffer[j] = 0

(* Digits beyond the last that matters are replaced by a 1, which keeps    *)
(* the number on its side of every boundary.                               *)
CutToMaxSignificantDigits(digits) == SubSeq(digits, 1, kMaxSignificantDecimalDigits - 1) \o <<1>>

TrimAndCut(buffer, exponent) ==
  LET left_trimmed == SubSeq(buffer, FirstNonZero(buffer), Len(buffer))
      trimmed == SubSeq(left_trimmed, 1, LastNonZero(left_trimmed))
  IN IF Len(trimmed) > kMaxSignificantDecimalDigits
     THEN [digits |-> CutToMaxSignificantDigits(trimmed),
           exponent |-> exponent + Len(left_trimmed) - kMaxSignificantDecimalDigits]
     ELSE [digits |-> trimmed, exponent |-> exponent + Len(left_trimmed) - Len(trimmed)]

(* As many digits as surely fit into a word. *)
ReadUint64(buffer) ==
  FoldLeft(LAMBDA r, d : IF r.i < r.read \/ r.n > kMaxUint64 \div 10 - 1 THEN [r EXCEPT !.i = @ + 1]
                         ELSE [n |-> 10 * r.n + d, read |-> r.read + 1, i |-> r.i + 1],
           [n |-> 0, read |-> 0, i |-> 0], buffer)

ReadDiyFp(buffer) ==
  LET r == ReadUint64(buffer)
      up == r.read < Len(buffer) /\ buffer[r.read + 1] >= 5
  IN [input |-> DiyFp(IF up THEN r.n + 1 ELSE r.n, 0), remaining |-> Len(buffer) - r.read]

-----------------------------------------------------------------------------
(* What the machine does with doubles: n / d to the nearest double, halves *)
(* to the even one, and beyond the last to infinity.                       *)

(* A number of the sign of n / d - f * 2^e. *)
Against(n, d, f, e) == n * 2^(IF e < 0 THEN -e ELSE 0) - f * d * 2^(IF e > 0 THEN e ELSE 0)
Above(n, d, v) ==
  LET up == UpperBoundary(v)
      side == Against(n, d, up.f, up.e)
  IN side > 0 \/ (side = 0 /\ Significand(v) % 2 = 1)
RECURSIVE Search(_, _, _, _)
Search(n, d, low, high) ==
  IF low = high THEN low
  ELSE LET mid == (low + high) \div 2
       IN IF Above(n, d, mid) THEN Search(n, d, mid + 1, high) ELSE Search(n, d, low, mid)
NearestDouble(n, d) == Search(n, d, 0, kInfinity)

ValueTimes(v, n) ==      \* v * n, for a double that is a whole number or below
  LET f == Significand(v)  e == Exponent(v)
  IN IF v = kInfinity THEN v ELSE IF e < 0 THEN NearestDouble(f * n, 2^(-e)) ELSE NearestDouble(f * 2^e * n, 1)

Unknown(guess) == [known |-> FALSE, guess |-> guess]
Known(guess) == [known |-> TRUE, guess |-> guess]

DoubleStrtod(trimmed, exponent) ==
  LET n == ReadUint64(trimmed).n
      remaining_digits == kMaxExactDoubleIntegerDecimalDigits - Len(trimmed)
  IN IF remaining_digits < 0 THEN Unknown(0)
     ELSE IF exponent < 0 /\ -exponent < kExactPowersOfTenSize THEN Known(NearestDouble(n, 10^(-exponent)))
     ELSE IF exponent >= 0 /\ exponent < kExactPowersOfTenSize THEN Known(NearestDouble(n * 10^exponent, 1))
     ELSE IF exponent >= 0 /\ exponent - remaining_digits < kExactPowersOfTenSize
     THEN Known(ValueTimes(NearestDouble(n * 10^remaining_digits, 1), 10^(exponent - remaining_digits)))
     ELSE Unknown(0)

-----------------------------------------------------------------------------
(* From DiyFps.  The error is counted in eighths of a unit.  A known       *)
(* result is right; one that is not is the right one or the one below.     *)

kDenominatorLog == 3
kDenominator == 2^kDenominatorLog

AdjustmentPowerOfTen(exponent) == CachedPower(exponent)

NoMargin(error) == 0                                          \* mutant: the error is taken for none
Margin(error) == error

Off(fp, error) == [fp |-> fp, error |-> error]

(* The small power that brings the exponent to one of the table is exact,  *)
(* but the product is not, unless all its digits fit.  A power of the      *)
(* table may be off by half a unit, and so may the product with it.        *)
Adjusted(read, adjustment, count) ==
  IF adjustment = 0 THEN read
  ELSE Off(Times(read.fp, AdjustmentPowerOfTen(adjustment)),
           IF kMaxUint64DecimalDigits - count >= adjustment THEN read.error
           ELSE read.error + kDenominator \div 2)
Scaled(adjusted, cached) ==
  Off(Times(adjusted.fp, CachedPower(cached)),
      adjusted.error + kDenominator + (IF adjusted.error = 0 THEN 0 ELSE 1))
ErrorAt(e, product) == product.error * 2^(product.fp.e - e)
Normal(product) ==
  LET normal == Normalize(product.fp) IN Off(normal, ErrorAt(normal.e, product))

(* The significant bits of a double, with the bits below them to decide.   *)
RoundedTo(count, input, error) ==
  LET precision_bits == (input.f % 2^count) * kDenominator
      half_way == 2^(count - 1) * kDenominator
      rounded == DiyFp(input.f \div 2^count + (IF precision_bits >= half_way + error THEN 1 ELSE 0),
                       input.e + count)
  IN [known |-> ~(half_way - error < precision_bits /\ precision_bits < half_way + error),
      guess |-> DiyFpToUint64(rounded)]
Rounding(v) ==
  LET count == q - SignificandSizeForOrderOfMagnitude(q + v.fp.e)
      shift == IF count + kDenominatorLog >= q THEN count + kDenominatorLog - q + 1 ELSE 0
  IN RoundedTo(count - shift, DiyFp(v.fp.f \div 2^shift, v.fp.e + shift),
               Margin(IF shift = 0 THEN v.error ELSE v.error \div 2^shift + 1 + kDenominator))

Read(r) ==
  LET read == Normalize(r.input)
  IN Off(read, IF r.remaining = 0 THEN 0 ELSE (kDenominator \div 2) * 2^(-read.e))
ToThe(exponent, cached, read, count) ==
  Rounding(Normal(Scaled(Adjusted(read, exponent - cached, count), cached)))
DiyFpTimes10(exponent, r, count) ==
  IF exponent < kMinDecimalExponent THEN Known(0)
  ELSE ToThe(exponent, GetCachedPowerForDecimalExponent(exponent), Read(r), count)
WithRemaining(r, exponent, count) == DiyFpTimes10(exponent + r.remaining, r, count)
DiyFpStrtod(buffer, exponent) == WithRemaining(ReadDiyFp(buffer), exponent, Len(buffer))

ValueOfDigits(digits) == FoldLeft(LAMBDA n, d : 10 * n + d, 0, digits)
CompareBufferWithDiyFp(buffer, exponent, a) ==
  Against(ValueOfDigits(buffer) * 10^(IF exponent > 0 THEN exponent ELSE 0),
          10^(IF exponent < 0 THEN -exponent ELSE 0), a.f, a.e)

OrElse(double, diy) ==
  IF double.known THEN double ELSE IF diy.guess = kInfinity THEN Known(kInfinity) ELSE diy
ComputeGuess(trimmed, exponent) ==
  IF trimmed = <<>> THEN Known(0)
  ELSE IF exponent + Len(trimmed) - 1 >= kMaxDecimalPower THEN Known(kInfinity)
  ELSE IF exponent + Len(trimmed) <= kMinDecimalPower THEN Known(0)
  ELSE OrElse(DoubleStrtod(trimmed, exponent), DiyFpStrtod(trimmed, exponent))

(* What may be the right one or the one below is compared with the middle. *)
Corrected(r, cut) ==
  LET comparison == CompareBufferWithDiyFp(cut.digits, cut.exponent, UpperBoundary(r.guess))
  IN IF r.known \/ comparison < 0 \/ (comparison = 0 /\ Significand(r.guess) % 2 = 0)
     THEN r.guess ELSE NextDouble(r.guess)
StrtodOfCut(cut) == Corrected(ComputeGuess(cut.digits, cut.exponent), cut)
StrtodOf(buffer, exponent) == StrtodOfCut(TrimAndCut(buffer, exponent))

-----------------------------------------------------------------------------
(* Whichever way it takes, digits * 10^exponent is read as the nearest     *)
(* double, and from the middle between two as the even one.  What is left  *)
(* of more digits than matter counts as half a unit of the last of them.   *)
(*                                                                         *)
(* At half of the smallest double DiyFpStrtod is right only if its product *)
(* happens not to fall below; with 64 bits and the table of the code it    *)
(* does not.                                                               *)
ReadsNearest(buffer, exponent) ==
  LET kept == SubSeq(buffer, 1, Least(Len(buffer), kMaxSignificantDecimalDigits))
      more == \E i \in (Len(kept) + 1)..Len(buffer) : buffer[i] # 0
      unit == exponent + Len(buffer) - Len(kept)
      n == ValueOfDigits(kept) * 10^(IF unit > 0 THEN unit ELSE 0)
      d == 10^(IF unit < 0 THEN -unit ELSE 0)
  IN StrtodOf(buffer, exponent) = IF more THEN NearestDouble(2 * n + 1, 2 * d) ELSE NearestDouble(n, d)
===============================================================================
