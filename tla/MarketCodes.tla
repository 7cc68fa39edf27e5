----------------------------- MODULE MarketCodes ------------------------------
(***************************************************************************)
(* common/s4mktCode.h and .cpp: the number of a security within its market *)
(* (a pure code), and the same with its market, as a number (a market      *)
(* code) and as a text.  Where the code throws, the result is NoCode or    *)
(* NoText.                                                                 *)
(*                                                                         *)
(* The prefixes are constants because the real ones, 1700000000 and        *)
(* 3300000000, need 32 unsigned bits; only that the ranges of the markets  *)
(* do not meet is used.                                                    *)
(***************************************************************************)
EXTENDS Integers

CONSTANTS SH_PRB, SZ_PRB

SH_CODE_MIN == 600000
SH_CODE_MAX == 699999
SZ_CODE_MIN == 0
SZ_CODE_MAX == 399999
PRB_MK == 99999999

ASSUME CodeAssumption ==
  SH_PRB \in Nat /\ SZ_PRB \in Nat /\ SH_PRB > PRB_MK /\ SH_PRB + PRB_MK < SZ_PRB

NoCode == -1

InSH(mktCode) == mktCode >= SH_PRB /\ mktCode <= SH_PRB + PRB_MK
InSZ(mktCode) == mktCode >= SZ_PRB /\ mktCode <= SZ_PRB + PRB_MK
PureSH(pureCode) == pureCode >= SH_CODE_MIN /\ pureCode <= SH_CODE_MAX
PureSZ(pureCode) == pureCode >= SZ_CODE_MIN /\ pureCode <= SZ_CODE_MAX

pureCodeInt_to_mktCodeInt(pureCode) ==
  IF PureSH(pureCode) THEN SH_PRB + pureCode
  ELSE IF PureSZ(pureCode) THEN SZ_PRB + pureCode ELSE NoCode

mktCodeInt_to_pureCodeInt(mktCode) ==
  IF InSH(mktCode) THEN IF mktCode - SH_PRB < SH_CODE_MIN THEN NoCode ELSE mktCode - SH_PRB
  ELSE IF InSZ(mktCode) THEN IF mktCode - SZ_PRB >= SH_CODE_MIN THEN NoCode ELSE mktCode - SZ_PRB
  ELSE NoCode

-----------------------------------------------------------------------------
(* Classes of market codes. *)

isSHmkt(code) == code > SH_PRB /\ code < SH_PRB + PRB_MK
isSZmkt(code) == code > SZ_PRB /\ code < SZ_PRB + PRB_MK
isCYmkt(code) == code > SZ_PRB + 300000 /\ code < SZ_PRB + 310000
isKCmkt(code) == code > SH_PRB + 688000 /\ code < SH_PRB + 689000

Between(n, ranges) == \E r \in ranges : n >= r[1] /\ n <= r[2]

isStk(code) ==
  IF isSHmkt(code) THEN Between(code - SH_PRB, {<<600000, 609999>>})
  ELSE isSZmkt(code) /\ Between(code - SZ_PRB, {<<0, 9999>>, <<300000, 309999>>})

(* The upper bound of Shenzhen is that of Shanghai in the code. *)
isIdx(code) ==
  IF isSHmkt(code) THEN Between(code - SH_PRB, {<<0, 999>>})
  ELSE isSZmkt(code) /\ code >= SZ_PRB + 390000 /\ code <= SH_PRB + 399999

isFund(code) ==
  IF isSHmkt(code)
  THEN Between(code - SH_PRB, {<<501000, 502999>>, <<506000, 506099>>, <<510000, 513999>>,
                               <<515000, 516999>>, <<518000, 518999>>, <<560000, 563999>>,
                               <<588000, 588499>>})
  ELSE isSZmkt(code) /\ Between(code - SZ_PRB, {<<159000, 169999>>})

pureCodeIsStk(pureCode) == Between(pureCode, {<<600000, 609999>>, <<0, 9999>>, <<300000, 309999>>})

-----------------------------------------------------------------------------
(* A pure code comes back from its market code, and no two securities      *)
(* share a market code.                                                    *)
PureCodeSurvives(pureCode) ==
  LET mktCode == pureCodeInt_to_mktCodeInt(pureCode)
  IN mktCode # NoCode =>
       /\ mktCodeInt_to_pureCodeInt(mktCode) = pureCode
       /\ ~(InSH(mktCode) /\ InSZ(mktCode))

(* A code is a stock by its number alone exactly if it is one with its     *)
(* market; Shenzhen's number 0 is not a code.                              *)
StockEitherWay(pureCode) ==
  LET mktCode == pureCodeInt_to_mktCodeInt(pureCode)
  IN mktCode # NoCode /\ pureCode # 0 => (isStk(mktCode) <=> pureCodeIsStk(pureCode))

(* No market code is of two classes. *)
OneClass(mktCode) ==
  /\ ~(isStk(mktCode) /\ isIdx(mktCode))
  /\ ~(isStk(mktCode) /\ isFund(mktCode))
  /\ ~(isIdx(mktCode) /\ isFund(mktCode))
===============================================================================
