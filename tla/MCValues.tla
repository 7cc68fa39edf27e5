------------------------------- MODULE MCValues -------------------------------
(***************************************************************************)
(* The functions of CommonValues, and double-conversion with s4convertors, *)
(* on bounded inputs: each state holds one call, and the calls on a bignum *)
(* follow each other.                                                      *)
(***************************************************************************)
EXTENDS Bignum, CommonValues

(* Doubles of 6 bits, with 4 bits of exponent for shortest and counted     *)
(* digits, and 6 for fixed ones, which have a fast path only beyond.       *)
Narrow == INSTANCE Convertors WITH p <- 6, w <- 4, q <- 14,
  kDecimalExponentDistance <- 1, kMinDecimalExponent <- -6,
  kMinimalTargetExponent <- -10, kMaximalTargetExponent <- -6,
  kWordSize <- 13, D <- 3, T <- 1, MaxExponent <- 10, MaxCount <- 4,
  kMaxDecimalPower <- 4, kMinDecimalPower <- -4, kMaxSignificantDecimalDigits <- 7,
  SIGNIFICANT_DIGITS <- 1, kMaxSignificantDigits <- 5, kMaxFixedDigits <- 3,
  kIntBits <- 8, kFixedBelow <- 1
Wide == INSTANCE Convertors WITH p <- 6, w <- 6, q <- 14,
  kDecimalExponentDistance <- 1, kMinDecimalExponent <- -6,
  kMinimalTargetExponent <- -10, kMaximalTargetExponent <- -6,
  kWordSize <- 13, D <- 3, T <- 1, MaxExponent <- 10, MaxCount <- 4,
  kMaxDecimalPower <- 4, kMinDecimalPower <- -4, kMaxSignificantDecimalDigits <- 7,
  SIGNIFICANT_DIGITS <- 1, kMaxSignificantDigits <- 5, kMaxFixedDigits <- 3,
  kIntBits <- 8, kFixedBelow <- 1
(* Doubles of 4 bits, so that small numbers have middles and long digits.  *)
Reader == INSTANCE Strtod WITH p <- 4, w <- 3, q <- 12,
  kDecimalExponentDistance <- 2, kMinDecimalExponent <- -6,
  kMaxDecimalPower <- 2, kMinDecimalPower <- -2, kMaxSignificantDecimalDigits <- 7
(* Two decimal digits are exact with 8 bits, as 15 are with 53.            *)
Text8 == INSTANCE Convertors WITH p <- 8, w <- 5, q <- 14,
  kDecimalExponentDistance <- 1, kMinDecimalExponent <- -8,
  kMinimalTargetExponent <- -10, kMaximalTargetExponent <- -6,
  kWordSize <- 15, D <- 4, T <- 1, MaxExponent <- 12, MaxCount <- 5,
  kMaxDecimalPower <- 6, kMinDecimalPower <- -7, kMaxSignificantDecimalDigits <- 7,
  SIGNIFICANT_DIGITS <- 2, kMaxSignificantDigits <- 5, kMaxFixedDigits <- 3,
  kIntBits <- 11, kFixedBelow <- 1

-----------------------------------------------------------------------------
(* Inputs. *)

PureCodes == (0..9999 \cup 99990..100010 \cup 158990..170010 \cup 299990..310010 \cup 389990..400010
              \cup 499990..519010 \cup 599990..610010 \cup 687990..689010 \cup 699990..700010)
SomeCodes == {c \in PureCodes : c % 7 = 0 \/ c % 1000 \in {0, 1, 998, 999}}
SomeMktCodes == {SH_PRB + c : c \in SomeCodes} \cup {SZ_PRB + c : c \in SomeCodes}

SomeDays == {97 * n : n \in -8000..2000} \cup (-141500..-141400) \cup (10950..11400) \cup (47480..47900)
SomeWorkdays == {29 * n : n \in 0..1639} \cup (10950..11400) \cup (47480..LastWorkday)
SomeDates == {0, 4017, 4018, LastWorkday} \cup {4100 + 1811 * n : n \in 0..23} \cup {4200 + 3617 * n : n \in 0..11}
SomeSeconds == {1, 3599, 57600, 86399}

Ab == UNION {[1..n -> {"a", "b"}] : n \in 0..6}
SomeOldValues == {<<"a">>, <<"a", "a">>, <<"a", "b">>}
SomeNewValues == {<<>>, <<"a">>, <<"b", "a">>}
NumberTexts ==
  {(IF neg THEN <<"-">> ELSE <<>>) \o Padded(n, 1) \o fraction :
     neg \in BOOLEAN, n \in {1, 12, 123, 1234, 123456, 1234567, 999999999},
     fraction \in {<<>>, <<".">>, <<".", "5">>, <<".", "1", "2", "3", "4">>}}
SomeUrls ==
  {u \in [protocol : {Protocols[i] : i \in 1..3}, domain : {<<"a">>, <<"A", ".", "b">>}, port : {0, 8, 8080, 65535},
          path : {<<>>, <<"/">>, <<"/", "a", "/", "b">>}, query : {<<>>, <<"a", "=", "b">>},
          fragment : {<<>>, <<"#", "a">>}] :
     u.path = <<>> => u.query = <<>> /\ u.fragment = <<>>}

Q == "\""
SomeObjects ==
  {<<"{", "}">>, <<"{", Q, "a", Q, ":", "1", "}">>, <<"{", Q, Q, ":", "{", "}", "}">>,
   <<"{", Q, "a", Escape, Q, Q, ":", "[", "1", ",", "{", "}", "]", "}">>,
   <<"{", Q, Escape, Escape, Q, ":", "[", "[", "]", ",", Q, Escape, Q, Q, "]", "}">>}
SomeOutside == {<<>>, <<" ">>, <<"a", "]", Q>>, <<"}">>, <<"{">>}
SomeLengths == 0..600

RECURSIVE DigitsOfNumber(_)
DigitsOfNumber(n) == IF n = 0 THEN <<>> ELSE Append(DigitsOfNumber(n \div 10), n % 10)
Middle == <<4, 5, 3, 1, 2, 5>>
LongDigits ==
  {Middle \o tail : tail \in {<<>>, <<0>>, <<0, 1>>, <<0, 0, 0, 1>>, <<0, 0, 0, 0>>}}
    \cup {<<4, 8, 4, 3, 7, 4, 9, 9, 9>>, <<0, 0>> \o <<4, 6, 8, 7, 5, 0, 0, 0, 0>>,
          <<0, 4, 6, 8, 7, 5, 0, 0, 0, 0, 2>>}

Bignums == <<"bignum">>

(* The fast path for fixed digits is meant for doubles below 2^(10 + 6);   *)
(* beneath 2^-22 the exact arithmetic of the check does not fit TLC.       *)
WideDoubles == {d \in 1..Wide!kInfinity - 1 : Wide!Exponent(d) \in -28..10}

Init ==
  /\ BignumInit
  /\ \/ CallInit
     \/ call = Bignums
     \/ call \in {"shortest"} \X (1..Narrow!kInfinity - 1)
     \/ call \in {"counted"} \X (1..Narrow!kInfinity - 1) \X (1..3)
     \/ call \in {"fixed"} \X WideDoubles \X (0..4)
     \/ \E n \in 0..2500, e \in -5..2 : call = <<"digits", DigitsOfNumber(n), e>>
     \/ \E digits \in LongDigits : call = <<"digits", digits, -Len(digits)>>
     \/ call \in {"integer"} \X (-1024..1023)
     \/ call \in {"decimal"} \X BOOLEAN \X (0..99) \X (0..2) \X (0..2)
     \/ call \in {"double"} \X BOOLEAN \X (0..Text8!kInfinity)

Next ==
  \/ CallNext /\ UNCHANGED bignumVars
  \/ call = Bignums /\ BignumNext /\ UNCHANGED call

Spec == Init /\ [][Next]_<<bignumVars, call>>

-----------------------------------------------------------------------------
(* bignum: a number is the number it should be after any operations.       *)
BignumsAreExact == call = Bignums => BignumsAreNumbers

(* fast-dtoa and bignum-dtoa: the digits are the ones asked for.           *)
DigitsAreRight ==
  /\ call[1] = "shortest" => Narrow!ShortestDigitsAreRight(call[2])
  /\ call[1] = "counted" => Narrow!CountedDigitsAreRight(call[2], call[3])

(* fixed-dtoa: so are those down to a place behind the point.              *)
FixedDigitsAreRight == call[1] = "fixed" => Wide!FixedDigitsAreRight(call[2], call[3])

(* strtod: every decimal number is read as the double nearest to it.       *)
NumbersAreRead == call[1] = "digits" => Reader!ReadsNearest(call[2], call[3])

(* s4convertors and double-conversion: values come back from their texts,  *)
(* and texts from the values they are read as.                             *)
ValuesSurvive ==
  /\ call[1] = "integer" => Text8!IntegerSurvives(call[2])
  /\ call[1] = "decimal" => Text8!DecimalSurvives(call[2], call[3], call[4], call[5])
  /\ call[1] = "double" => Text8!IsReadBack(Text8!Signed(call[2], call[3]))
===============================================================================
