------------------------------- MODULE NumberText ------------------------------
(***************************************************************************)
(* double-conversion/double-conversion.cc, with the flags and symbols that *)
(* types/s4convertors.cpp gives its two converters: doubles to texts and   *)
(* back.  A signed double is [neg, d]; a text that could not be made is    *)
(* empty.  No flag allows spaces, junk, octal or hexadecimal numbers.      *)
(***************************************************************************)
EXTENDS FastDtoa, FixedDtoa, BignumDtoa, Strtod, Text

CONSTANTS SIGNIFICANT_DIGITS,                             \* 15
          kMaxSignificantDigits,                          \* 772
          kMaxFixedDigits                                 \* 60, before the point

decimal_in_shortest_low == -SIGNIFICANT_DIGITS
decimal_in_shortest_high == SIGNIFICANT_DIGITS
max_leading_padding_zeroes == SIGNIFICANT_DIGITS - 1

Symbol_INF == <<"I", "N", "F">>
Symbol_NAN == <<"N", "A", "N">>

Signed(neg, d) == [neg |-> neg, d |-> d]
Zeros(n) == [i \in 1..n |-> "0"]
Chars(digits) == [i \in DOMAIN digits |-> Digits[digits[i] + 1]]
Sign(x) == IF x.neg THEN <<"-">> ELSE <<>>

-----------------------------------------------------------------------------
(* A double to a text. *)

FastOrBignum(fast, d, mode, requested) ==
  IF fast.ok THEN [digits |-> fast.digits, point |-> fast.point] ELSE BignumDtoa(d, mode, requested)

DoubleToAscii(d, mode, requested) ==
  IF d = 0 THEN [digits |-> <<0>>, point |-> 1]
  ELSE IF mode = "FIXED" THEN FastOrBignum(FastFixedDtoa(d, requested), d, mode, requested)
  ELSE FastOrBignum(FastDtoa(d, mode, requested), d, mode, requested)

CreateExponentialRepresentation(digits, exponent) ==
  Chars(SubSeq(digits, 1, 1))
    \o (IF Len(digits) = 1 THEN <<>> ELSE <<".">> \o Chars(Tail(digits)))
    \o <<"e">>
    \o (IF exponent < 0 THEN <<"-">> \o Padded(-exponent, 1) ELSE Padded(exponent, 1))

CreateDecimalRepresentation(digits, point, after) ==
  LET text == Chars(digits)
      fraction == IF point <= 0 THEN Zeros(-point) \o text \o Zeros(after + point - Len(text))
                  ELSE IF point >= Len(text) THEN Zeros(after)
                  ELSE SubSeq(text, point + 1, Len(text)) \o Zeros(after - (Len(text) - point))
      integer == IF point <= 0 THEN <<"0">>
                 ELSE SubSeq(text, 1, Least(point, Len(text))) \o Zeros(point - Len(text))
  IN IF after > 0 THEN integer \o <<".">> \o fraction ELSE integer

HandleSpecialValues(x) == IF x.d = kInfinity THEN Sign(x) \o Symbol_INF ELSE Symbol_NAN

ShortestText(r, exponent) ==
  IF decimal_in_shortest_low <= exponent /\ exponent < decimal_in_shortest_high
  THEN CreateDecimalRepresentation(r.digits, r.point, Max({0, Len(r.digits) - r.point}))
  ELSE CreateExponentialRepresentation(r.digits, exponent)
ShortestTextOf(r) == ShortestText(r, r.point - 1)
ToShortest(x) ==
  IF IsSpecial(x.d) THEN HandleSpecialValues(x)
  ELSE Sign(x) \o ShortestTextOf(DoubleToAscii(x.d, "SHORTEST", 0))

FixedText(r, requested) == CreateDecimalRepresentation(r.digits, r.point, requested)
ToFixed(x, requested) ==
  IF IsSpecial(x.d) THEN HandleSpecialValues(x)
  ELSE IF x.d >= NearestDouble(10^kMaxFixedDigits, 1) THEN <<>>
  ELSE Sign(x) \o FixedText(DoubleToAscii(x.d, "FIXED", requested), requested)

(* Digits that were not given are zeros. *)
Filled(digits, n) == digits \o [i \in 1..(n - Len(digits)) |-> 0]

(* With -1, as many digits as it takes. *)
ExponentialText(r, count) == CreateExponentialRepresentation(Filled(r.digits, count), r.point - 1)
ToExponential(x, requested) ==
  IF IsSpecial(x.d) THEN HandleSpecialValues(x)
  ELSE Sign(x) \o ExponentialText(IF requested = -1 THEN DoubleToAscii(x.d, "SHORTEST", 0)
                                  ELSE DoubleToAscii(x.d, "PRECISION", requested + 1), requested + 1)

PrecisionText(r, precision) ==
  IF -r.point + 1 > max_leading_padding_zeroes \/ r.point - precision > 0
  THEN ExponentialText(r, precision)
  ELSE CreateDecimalRepresentation(r.digits, r.point, Max({0, precision - r.point}))
ToPrecision(x, precision) ==
  IF IsSpecial(x.d) THEN HandleSpecialValues(x)
  ELSE Sign(x) \o PrecisionText(DoubleToAscii(x.d, "PRECISION", precision), precision)

(* StringBuilder: 1.23000 and 1.23000e15 lose the zeros, 1.23e10 does not. *)
TrimTrailingZeros(text) ==
  LET dot == Find(text, <<".">>, 1)
      e == Find(text, <<"e">>, dot + 1)
      head == Before(text, e)
      kept == SubSeq(head, 1, FindLastNotOf(head, {"0"}))
  IN IF dot = 0 THEN text
     ELSE (IF Last(kept) = "." THEN Front(kept) ELSE kept)
            \o (IF e = 0 THEN <<>> ELSE SubSeq(text, e, Len(text)))

-----------------------------------------------------------------------------
(* A text to a double. *)

Junk == Signed(FALSE, kNaN)

LeadingDigits(s) == SubSeq(s, 1, FindFirstNotOf(s, {Digits[i] : i \in 1..10}) - 1)
Behind(s, n) == SubSeq(s, n + 1, Len(s))
StartsWith(s, chars) == s # <<>> /\ s[1] \in chars

(* The exponent behind an e, or none; FALSE if something else stands there.*)
IsExponent(s) == LET u == IF StartsWith(Tail(s), {"+", "-"}) THEN Behind(s, 2) ELSE Tail(s)
                 IN u # <<>> /\ LeadingDigits(u) = u
ExponentOf(s) == IF s = <<>> THEN 0
                 ELSE IF s[2] = "-" THEN -Number(Behind(s, 2))
                 ELSE IF s[2] = "+" THEN Number(Behind(s, 2)) ELSE Number(Tail(s))

StringToIeee(s) ==
  LET neg == StartsWith(s, {"-"})
      u == IF StartsWith(s, {"+", "-"}) THEN Tail(s) ELSE s
      integer == LeadingDigits(u)
      rest == Behind(u, Len(integer))
      fraction == IF StartsWith(rest, {"."}) THEN LeadingDigits(Tail(rest)) ELSE <<>>
      behind == IF StartsWith(rest, {"."}) THEN Behind(rest, 1 + Len(fraction)) ELSE rest
      all == [i \in 1..Len(integer \o fraction) |-> DigitValue((integer \o fraction)[i])]
      significant == SubSeq(all, FirstNonZero(all), Len(all))
      kept == SubSeq(significant, 1, Least(Len(significant), kMaxSignificantDigits))
      dropped == Behind(significant, Len(kept))
      nonzero_digit_dropped == \E i \in DOMAIN dropped : dropped[i] # 0
      exponent == ExponentOf(behind) - Len(fraction) + Len(dropped)
  IN IF u = Symbol_INF THEN Signed(neg, kInfinity)
     ELSE IF \/ integer \o fraction = <<>>
             \/ behind # <<>> /\ ~(StartsWith(behind, {"e", "E"}) /\ IsExponent(behind))
     THEN Junk
     ELSE Signed(neg, IF nonzero_digit_dropped THEN StrtodOf(Append(kept, 1), exponent - 1)
                      ELSE StrtodOf(kept, exponent))

-----------------------------------------------------------------------------
(* What is checked. *)

(* Digits are those of the exact computation also where the fast one gives *)
(* them, and those are what each mode asks for.                            *)
AreDigits(digits) == \A i \in DOMAIN digits : digits[i] \in 0..9
SameDigits(fast, exact) == fast.ok => fast.digits = exact.digits /\ fast.point = exact.point
ShortestDigitsAreRight(d) ==
  ShortestIsShortest(d) /\ SameDigits(FastDtoa(d, "SHORTEST", 0), BignumDtoa(d, "SHORTEST", 0))
CountedDigitsAreRight(d, count) ==
  /\ CountedIsRounded(d, count) /\ AreDigits(BignumDtoa(d, "PRECISION", count).digits)
  /\ SameDigits(FastDtoa(d, "PRECISION", count), BignumDtoa(d, "PRECISION", count))
FixedDigitsAreRight(d, places) ==
  LET r == FastFixedDtoa(d, places)
      k == r.point - Len(r.digits)
  IN /\ FixedIsRounded(d, places) /\ AreDigits(BignumDtoa(d, "FIXED", places).digits)
     /\ r.ok => AreDigits(r.digits) /\ (IF r.digits = <<>> THEN Rounded(0, -places, d)
                ELSE r.digits[1] # 0 /\ k >= -places /\ Rounded(Whole(r.digits) * 10^(k + places), -places, d))

(* A double is read back from the shortest digits that identify it, with   *)
(* and without an exponent.                                                *)
IsReadBack(x) ==
  /\ StringToIeee(ToShortest(x)) = x
  /\ StringToIeee(ToExponential(x, -1)) = x
  /\ StringToIeee(TrimTrailingZeros(ToExponential(x, -1))) = x
===============================================================================
