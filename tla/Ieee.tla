--------------------------------- MODULE Ieee ---------------------------------
(***************************************************************************)
(* double-conversion/ieee.h, diy-fp.h and .cc.  A double that is not       *)
(* negative is the number its bits make, so that the next double is the    *)
(* next number.  A DiyFp is a pair [f, e] for f * 2^e.                     *)
(*                                                                         *)
(* A double has p significant bits and w bits of exponent, a DiyFp q       *)
(* bits: 53, 11 and 64 in the code.                                        *)
(***************************************************************************)
EXTENDS Integers, Sequences, SequencesExt

CONSTANTS p, w, q

kHiddenBit == 2^(p - 1)
kExponentBias == 2^(w - 1) - 1 + p - 1
kDenormalExponent == 1 - kExponentBias
kMaxExponent == 2^w - 1 - kExponentBias
kInfinity == (2^w - 1) * kHiddenBit
kNaN == kInfinity + kHiddenBit \div 2

DiyFp(f, e) == [f |-> f, e |-> e]
BitLength(n) == CHOOSE k \in 0..30 : n < 2^k /\ (k = 0 \/ n >= 2^(k - 1))
Least(a, b) == IF a < b THEN a ELSE b

IsDenormal(d) == d < kHiddenBit
IsSpecial(d) == d >= kInfinity
Exponent(d) == IF IsDenormal(d) THEN kDenormalExponent ELSE d \div kHiddenBit - kExponentBias
Significand(d) == IF IsDenormal(d) THEN d ELSE (d % kHiddenBit) + kHiddenBit
AsDiyFp(d) == DiyFp(Significand(d), Exponent(d))
NextDouble(d) == IF d = kInfinity THEN d ELSE d + 1

(* The distance to the lower neighbour is half of that to the upper one at *)
(* a power of two, but for the smallest that is not denormal.              *)
LowerBoundaryIsCloser(d) == d % kHiddenBit = 0 /\ Exponent(d) # kDenormalExponent

SignificandSizeForOrderOfMagnitude(order) ==
  IF order >= kDenormalExponent + p THEN p
  ELSE IF order <= kDenormalExponent THEN 0 ELSE order - kDenormalExponent

(* Low bits that do not fit are dropped. *)
DiyFpToUint64(a) ==
  LET down == IF BitLength(a.f) > p THEN BitLength(a.f) - p ELSE 0
      f == a.f \div 2^down
      e == a.e + down
      up == Least(e - kDenormalExponent, p - BitLength(f))
      g == f * 2^up
  IN IF e >= kMaxExponent THEN kInfinity
     ELSE IF e < kDenormalExponent THEN 0
     ELSE IF g < kHiddenBit THEN g ELSE (e - up + kExponentBias) * kHiddenBit + (g % kHiddenBit)

-----------------------------------------------------------------------------
(* DiyFp. *)

Normalize(a) == LET s == q - BitLength(a.f) IN DiyFp(a.f * 2^s, a.e - s)
AsNormalizedDiyFp(d) == Normalize(AsDiyFp(d))
Minus(a, b) == DiyFp(a.f - b.f, a.e)

(* The upper half of the product, with halves rounded up, from the products*)
(* of the halves.                                                          *)
Times(x, y) ==
  LET h == 2^(q \div 2)
      a == x.f \div h   b == x.f % h
      c == y.f \div h   d == y.f % h
      tmp == (b * d) \div h + ((a * d) % h) + ((b * c) % h) + h \div 2
  IN DiyFp(a * c + (a * d) \div h + (b * c) \div h + tmp \div h, x.e + y.e + q)

UpperBoundary(d) == DiyFp(2 * Significand(d) + 1, Exponent(d) - 1)
NormalizedBoundaries(d) ==
  LET v == AsDiyFp(d)
      m_plus == Normalize(UpperBoundary(d))
      m_minus == IF LowerBoundaryIsCloser(d) THEN DiyFp(4 * v.f - 1, v.e - 2) ELSE DiyFp(2 * v.f - 1, v.e - 1)
  IN [plus |-> m_plus, minus |-> DiyFp(m_minus.f * 2^(m_minus.e - m_plus.e), m_plus.e)]
===============================================================================
