----------------------------- MODULE CachedPowers -----------------------------
(***************************************************************************)
(* double-conversion/cached-powers.cc: powers of ten as DiyFps, for every  *)
(* kDecimalExponentDistance-th exponent from kMinDecimalExponent on (8     *)
(* and -348).  The table is what it holds, each power to the nearest DiyFp.*)
(***************************************************************************)
EXTENDS Ieee

CONSTANTS kDecimalExponentDistance, kMinDecimalExponent

RECURSIVE Quotient(_, _)              \* of 2^n by d, with the rest
Quotient(n, d) ==
  IF n = 0 THEN <<1 \div d, 1 % d>>
  ELSE LET r == Quotient(n - 1, d) IN <<2 * r[1] + (2 * r[2]) \div d, (2 * r[2]) % d>>

CachedPower(k) ==
  LET ten == 10^(IF k < 0 THEN -k ELSE k)
      bits == BitLength(ten)
      r == Quotient(q - 1 + bits, ten)
      unit == 2^(bits - q)
  IN IF k < 0 THEN DiyFp(r[1] + (IF 2 * r[2] >= ten THEN 1 ELSE 0), 1 - q - bits)
     ELSE IF bits <= q THEN DiyFp(ten * 2^(q - bits), bits - q)
     ELSE DiyFp(ten \div unit + (IF 2 * (ten % unit) >= unit THEN 1 ELSE 0), bits - q)

Cached(index) == kMinDecimalExponent + kDecimalExponentDistance * index

(* The smallest power in the table whose exponent is min_exponent at least.*)
GetCachedPowerForBinaryExponentRange(min_exponent) ==
  LET k == -((-(min_exponent + q - 1) * 30103) \div 100000)
  IN Cached((k - kMinDecimalExponent - 1) \div kDecimalExponentDistance + 1)

(* The largest power in the table that is not above 10^requested_exponent. *)
GetCachedPowerForDecimalExponent(requested_exponent) ==
  Cached((requested_exponent - kMinDecimalExponent) \div kDecimalExponentDistance)
===============================================================================
