------------------------------- MODULE FixedDtoa ------------------------------
(***************************************************************************)
(* double-conversion/fixed-dtoa.cc: the digits of a double down to a place *)
(* behind the point, from integers of one word or two.                     *)
(*                                                                         *)
(* In the code a word has 64 bits and half a word 32, D is 17, T is 7, and *)
(* numbers with an exponent or a count of places above 20 are left to      *)
(* BignumDtoa.                                                             *)
(***************************************************************************)
EXTENDS Ieee

CONSTANTS kWordSize,          \* of an integer
          D,                  \* 10^D fits into a word, and is divided by when v does not
          T,                  \* a word is cut into parts of T digits
          MaxExponent, MaxCount

RECURSIVE FillDigits32FixedLength(_, _), FillDigits32(_), RoundUpAt(_, _), FillLoop(_, _, _, _, _)

FillDigits32FixedLength(number, length) ==
  IF length = 0 THEN <<>> ELSE Append(FillDigits32FixedLength(number \div 10, length - 1), number % 10)
FillDigits32(number) == IF number = 0 THEN <<>> ELSE Append(FillDigits32(number \div 10), number % 10)

FillDigits64FixedLength(number) ==
  FillDigits32FixedLength(number \div 10^(2 * T), D - 2 * T)
    \o FillDigits32FixedLength((number \div 10^T) % 10^T, T)
    \o FillDigits32FixedLength(number % 10^T, T)

FillDigits64(number) ==
  LET part2 == number % 10^T
      part1 == (number \div 10^T) % 10^T
      part0 == number \div 10^(2 * T)
  IN IF part0 # 0
     THEN FillDigits32(part0) \o FillDigits32FixedLength(part1, T) \o FillDigits32FixedLength(part2, T)
     ELSE IF part1 # 0 THEN FillDigits32(part1) \o FillDigits32FixedLength(part2, T)
     ELSE FillDigits32(part2)

(* A digit of 10 at i is carried to the left. *)
NotCarried(digits, i) == digits                       \* mutant
RoundUpAt(digits, i) ==
  IF i > 1 /\ digits[i] = 10 THEN RoundUpAt([digits EXCEPT ![i] = 0, ![i - 1] = @ + 1], i - 1) ELSE digits
CarryAt(digits, i) == RoundUpAt(digits, i)
RoundUp(digits, point) ==
  LET n == Len(digits)
      up == CarryAt([digits EXCEPT ![n] = @ + 1], n)
  IN IF n = 0 THEN [digits |-> <<1>>, point |-> 1]
     ELSE IF up[1] = 10 THEN [digits |-> [up EXCEPT ![1] = 1], point |-> point + 1]
     ELSE [digits |-> up, point |-> point]

(* fraction is a fixed-point number in a word of size bits, with bit binary*)
(* digits behind the point.  Instead of multiplying it by 10, it is        *)
(* multiplied by 5 and the point is moved.  When no bit is left, the code  *)
(* shifts 0 by -1, and whatever the machine makes of that is 0.            *)
FillLoop(fraction, bit, size, count, digits) ==
  IF count = 0 \/ fraction = 0
  THEN [digits |-> digits, up |-> bit > 0 /\ (fraction \div 2^(bit - 1)) % 2 = 1]
  ELSE LET f == (5 * fraction) % 2^size
       IN FillLoop(f % 2^(bit - 1), bit - 1, size, count - 1, Append(digits, f \div 2^(bit - 1)))

FillFractionals(fractionals, exponent, count, digits, point) ==
  LET r == IF -exponent <= kWordSize
           THEN FillLoop(fractionals, -exponent, kWordSize, count, digits)
           ELSE FillLoop((fractionals * 2^kWordSize) \div 2^(-exponent - kWordSize),
                         2 * kWordSize, 2 * kWordSize, count, digits)
  IN IF r.up THEN RoundUp(r.digits, point) ELSE [digits |-> r.digits, point |-> point]

(* Without the zeros at either end. *)
TrimZeros(r) ==
  LET Places == {i \in DOMAIN r.digits : r.digits[i] # 0}
      first == CHOOSE i \in Places : \A j \in Places : i <= j
      last == CHOOSE i \in Places : \A j \in Places : i >= j
  IN IF Places = {} THEN [r EXCEPT !.digits = <<>>]
     ELSE [digits |-> SubSeq(r.digits, first, last), point |-> r.point - (first - 1)]

(* The digits of v, if they can be found in this way. *)
FastFixedDtoa(v, count) ==
  LET f == Significand(v)
      e == Exponent(v)
      (* v = quotient * 10^D + remainder, without a number of more than a word *)
      dividend == IF e > D THEN f * 2^(e - D) ELSE f
      divisor == IF e > D THEN 5^D ELSE 5^D * 2^(D - e)
      large == FillDigits32(dividend \div divisor)
                 \o FillDigits64FixedLength((dividend % divisor) * 2^Least(e, D))
      integral == FillDigits64(f * 2^e)
      integrals == f \div 2^(-e)
      whole == FillDigits64(integrals)
      r == TrimZeros(IF e + p > kWordSize THEN [digits |-> large, point |-> Len(large)]
                     ELSE IF e >= 0 THEN [digits |-> integral, point |-> Len(integral)]
                     ELSE IF e > -p THEN FillFractionals(f % 2^(-e), e, count, whole, Len(whole))
                     ELSE IF e < -2 * kWordSize THEN [digits |-> <<>>, point |-> -count]
                     ELSE FillFractionals(f, e, count, <<>>, 0))
  IN [ok |-> e <= MaxExponent /\ count <= MaxCount,
      digits |-> r.digits, point |-> IF r.digits = <<>> THEN -count ELSE r.point]
===============================================================================
