------------------------------- MODULE FastDtoa -------------------------------
(***************************************************************************)
(* double-conversion/fast-dtoa.cc (Grisu3): digits from DiyFps, which are  *)
(* off by a few units, so that the result may have to be given up: ok says *)
(* whether it was found.  Words are as long as a DiyFp, and wrap around.   *)
(***************************************************************************)
EXTENDS CachedPowers

CONSTANTS kMinimalTargetExponent, kMaximalTargetExponent     \* -60 and -32

Word(n) == n % 2^q
GivenUp == [ok |-> FALSE, digits |-> <<>>, kappa |-> 0]
Decided(digits, kappa) == [ok |-> TRUE, digits |-> digits, kappa |-> kappa]

-----------------------------------------------------------------------------
(* Rounding. *)

RECURSIVE Weeded(_, _, _, _), CarriedOn(_)

(* Whether one less in the last digit is nearer to what lies distance      *)
(* below too_high, and is still within the interval.                       *)
Nearer(rest, distance, interval, ten_kappa, orEqual) ==
  /\ rest < distance
  /\ interval - rest >= ten_kappa
  /\ \/ rest + ten_kappa < distance
     \/ distance - rest > rest + ten_kappa - distance
     \/ orEqual /\ distance - rest = rest + ten_kappa - distance

Weeded(rest, distance, interval, ten_kappa) ==
  IF Nearer(rest, distance, interval, ten_kappa, TRUE)
  THEN Weeded(rest + ten_kappa, distance, interval, ten_kappa) ELSE rest

(* The last digit goes down as long as that is surely nearer; the result   *)
(* is given up if it may be nearer still, or is not safely inside.         *)
AnyRest(rest, interval, unit) == rest <= interval                 \* mutant: the margins are left out
SafelyInside(rest, interval, unit) == 2 * unit <= rest /\ rest <= Word(interval - 4 * unit)

RoundWeed(digits, kappa, distance_too_high_w, interval, rest, ten_kappa, unit) ==
  LET lowered == Weeded(rest, Word(distance_too_high_w - unit), interval, ten_kappa)
      steps == (lowered - rest) \div ten_kappa
  IN IF \/ Nearer(lowered, Word(distance_too_high_w + unit), interval, ten_kappa, FALSE)
        \/ ~SafelyInside(lowered, interval, unit)
     THEN GivenUp
     ELSE Decided([digits EXCEPT ![Len(digits)] = @ - steps], kappa)

CarriedOn(buffer) ==
  IF Len(buffer) > 1 /\ Last(buffer) = 10
  THEN Append(CarriedOn([Front(buffer) EXCEPT ![Len(buffer) - 1] = @ + 1]), 0) ELSE buffer

RoundWeedCounted(digits, kappa, rest, ten_kappa, unit) ==
  LET up == CarriedOn([digits EXCEPT ![Len(digits)] = @ + 1])
  IN IF unit >= ten_kappa \/ ten_kappa - unit <= unit THEN GivenUp
     ELSE IF ten_kappa - rest > rest /\ ten_kappa - 2 * rest >= 2 * unit THEN Decided(digits, kappa)
     ELSE IF rest > unit /\ ten_kappa - (rest - unit) <= rest - unit
     THEN IF up[1] = 10 THEN Decided([up EXCEPT ![1] = 1], kappa + 1) ELSE Decided(up, kappa)
     ELSE GivenUp

-----------------------------------------------------------------------------
(* Digits: those of the whole part, from the biggest power of ten in it,   *)
(* and then those of the fraction, whose error grows with each.            *)

SmallPowerOfTen(n) == IF n = 0 THEN 0 ELSE 10^(n - 1)
BiggestPowerTen(number, number_bits) ==
  LET guess == ((number_bits + 1) * 1233) \div 4096 + 1
  IN IF number < SmallPowerOfTen(guess) THEN guess - 1 ELSE guess

One(a) == 2^(-a.e)
Integrals(a) == a.f \div One(a)
Fractionals(a) == a.f % One(a)
FirstKappa(a) == BiggestPowerTen(Integrals(a), q + a.e)

RECURSIVE WholeDigits(_, _, _, _, _), FractionDigits(_, _, _, _, _, _, _)
RECURSIVE WholeCounted(_, _, _, _, _), FractionCounted(_, _, _, _, _, _)

FractionDigits(one, fractionals, unit, interval, distance, kappa, digits) ==
  LET f == Word(10 * fractionals)
      u == Word(10 * unit)
      i == Word(10 * interval)
      generated == Append(digits, f \div one)
  IN IF f % one < i
     THEN RoundWeed(generated, kappa - 1, Word(distance * u), i, f % one, one, u)
     ELSE FractionDigits(one, f % one, u, i, distance, kappa - 1, generated)

WholeDigits(w_, too_high, interval, kappa, digits) ==
  LET one == One(too_high)
      divisor == 10^(kappa - 1)
      integrals == Integrals(too_high)
      generated == Append(digits, (integrals \div divisor) % 10)
      rest == (integrals % divisor) * one + Fractionals(too_high)
      distance == too_high.f - w_.f
  IN IF kappa = 0 THEN FractionDigits(one, Fractionals(too_high), 1, interval, distance, 0, digits)
     ELSE IF rest < interval
     THEN RoundWeed(generated, kappa - 1, distance, interval, rest, divisor * one, 1)
     ELSE WholeDigits(w_, too_high, interval, kappa - 1, generated)

DigitGen(low, w_, high) ==
  LET too_high == DiyFp(high.f + 1, high.e)
  IN WholeDigits(w_, too_high, too_high.f - (low.f - 1), FirstKappa(too_high), <<>>)

FractionCounted(one, fractionals, error, requested, kappa, digits) ==
  IF requested > 0 /\ fractionals > error
  THEN LET f == Word(10 * fractionals)
       IN FractionCounted(one, f % one, Word(10 * error), requested - 1, kappa - 1, Append(digits, f \div one))
  ELSE IF requested # 0 THEN GivenUp
  ELSE RoundWeedCounted(digits, kappa, fractionals, one, error)

WholeCounted(one, a, requested, kappa, digits) ==
  LET divisor == 10^(kappa - 1)
      integrals == Integrals(a)
      generated == Append(digits, (integrals \div divisor) % 10)
      rest == (integrals % divisor) * one + Fractionals(a)
  IN IF kappa = 0 THEN FractionCounted(one, Fractionals(a), 1, requested, 0, digits)
     ELSE IF requested = 1 THEN RoundWeedCounted(generated, kappa - 1, rest, divisor * one, 1)
     ELSE WholeCounted(one, a, requested - 1, kappa - 1, generated)

DigitGenCounted(a, requested_digits) == WholeCounted(One(a), a, requested_digits, FirstKappa(a), <<>>)

-----------------------------------------------------------------------------
(* The power of ten that brings w into the target range. *)
Scale(a) == GetCachedPowerForBinaryExponentRange(kMinimalTargetExponent - (a.e + q))

Result(r, mk) == [ok |-> r.ok, digits |-> r.digits, point |-> Len(r.digits) + r.kappa - mk]

Grisu3(v) ==
  LET a == AsNormalizedDiyFp(v)
      boundary == NormalizedBoundaries(v)
      mk == Scale(a)
      ten_mk == CachedPower(mk)
  IN Result(DigitGen(Times(boundary.minus, ten_mk), Times(a, ten_mk), Times(boundary.plus, ten_mk)), mk)

Grisu3Counted(v, requested_digits) ==
  LET a == AsNormalizedDiyFp(v)
      mk == Scale(a)
  IN Result(DigitGenCounted(Times(a, CachedPower(mk)), requested_digits), mk)

FastDtoa(v, mode, requested_digits) ==
  IF mode = "SHORTEST" THEN Grisu3(v) ELSE Grisu3Counted(v, requested_digits)
===============================================================================
