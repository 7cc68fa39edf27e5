----------------------------- MODULE MarketTexts ------------------------------
(* The conversions of s4mktCode from and to texts: "sh600997", "000001".     *)
EXTENDS MarketCodes, Text

NoText == <<"?">>
sh == <<"s", "h">>
sz == <<"s", "z">>
Market(text) == SubSeq(text, 1, 2)
Rest(text) == SubSeq(text, 3, Len(text))

pureCodeStr_to_mktCode(pureCode) == pureCodeInt_to_mktCodeInt(Number(pureCode))

pureCodeInt_to_mktCodeStr(pureCode) ==
  IF PureSH(pureCode) THEN sh \o Padded(pureCode, 6)
  ELSE IF PureSZ(pureCode) THEN sz \o Padded(pureCode, 6) ELSE NoText

pureCodeInt_to_pureCodeStr(pureCode) ==
  IF PureSH(pureCode) \/ PureSZ(pureCode) THEN Padded(pureCode, 6) ELSE NoText

(* The text of a Shenzhen code has eight digits here. *)
mktCodeInt_to_mktCodeStr(mktCode) ==
  IF InSH(mktCode) THEN sh \o Padded(mktCode - SH_PRB, 6)
  ELSE IF InSZ(mktCode) THEN sz \o Padded(mktCode - SZ_PRB, 8) ELSE NoText

(* Six characters are not looked at any further than the first. *)
pureCodeStr_to_mktCodeStr(pureCode) ==
  IF Len(pureCode) = 6 THEN (IF pureCode[1] = "6" THEN sh ELSE sz) \o pureCode
  ELSE mktCodeInt_to_mktCodeStr(pureCodeStr_to_mktCode(pureCode))

ByHundreds(text) == Number(SubSeq(text, 3, Len(text) - 2))   \* mutant: two digits are lost
NumberIn(text) == Number(Rest(text))

mktCodeStr_to_mktCodeInt(mktCode) ==
  IF Market(mktCode) = sh THEN SH_PRB + NumberIn(mktCode)
  ELSE IF Market(mktCode) = sz THEN SZ_PRB + NumberIn(mktCode) ELSE NoCode

mktCodeStr_to_pureCodeInt(mktCode) ==
  LET c == NumberIn(mktCode)
  IN IF Market(mktCode) = sh /\ c >= SH_CODE_MIN THEN c
     ELSE IF Market(mktCode) = sz /\ c < SH_CODE_MIN THEN c ELSE NoCode

(* The second digit is asked for the market, not the first. *)
mktCodeStr_to_pureCodeStr(mktCode) ==
  IF \/ Market(mktCode) = sh /\ mktCode[4] = "6"
     \/ Market(mktCode) = sz /\ mktCode[4] \in {"0", "3"}
  THEN Rest(mktCode) ELSE NoText

mktCodeInt_to_pureCodeStr(mktCode) ==
  IF mktCodeInt_to_pureCodeInt(mktCode) = NoCode THEN NoText
  ELSE Padded(mktCodeInt_to_pureCodeInt(mktCode), 6)

StartsWith(text, prefixes) == Len(text) = 8 /\ \E p \in prefixes : IsPrefix(p, text)

isStkStr(text) == StartsWith(text, {sz \o <<"0", "0">>, sz \o <<"3", "0">>, sh \o <<"6", "0">>})
isIdxStr(text) == StartsWith(text, {sz \o <<"3", "9", "9">>, sh \o <<"0", "0", "0">>, sz \o <<"9", "8">>})
isFundStr(text) ==
  \/ StartsWith(text, {sh \o Padded(n, 3) : n \in {501, 502, 510, 511, 512, 513, 515, 516, 518,
                                                   560, 561, 562, 563, 588}})
  \/ StartsWith(text, {sz \o <<"1", "6">>, sz \o <<"1", "5">>})

-----------------------------------------------------------------------------
(* Whichever way a code is converted, through texts or numbers, it arrives *)
(* at the same code, and is taken for a stock everywhere or nowhere, with  *)
(* two exceptions: mktCodeStr_to_pureCodeStr gives a code back only if its *)
(* second digit is the one it expects of the first, and a Shenzhen market  *)
(* code gets two zeros too many as a text, which is then taken for none.   *)
SecondDigit(pureCode) == (pureCode \div 10000) % 10
PathsAgree(pureCode) ==
  LET mktInt == pureCodeInt_to_mktCodeInt(pureCode)
      mktStr == pureCodeInt_to_mktCodeStr(pureCode)
      pureStr == pureCodeInt_to_pureCodeStr(pureCode)
      numbered == mktCodeInt_to_mktCodeStr(mktInt)
  IN mktInt # NoCode =>
       /\ mktCodeStr_to_mktCodeInt(mktStr) = mktInt
       /\ mktCodeStr_to_mktCodeInt(numbered) = mktInt
       /\ mktCodeStr_to_pureCodeInt(mktStr) = pureCode
       /\ mktCodeInt_to_pureCodeStr(mktInt) = pureStr
       /\ pureCodeStr_to_mktCode(pureStr) = mktInt
       /\ pureCodeStr_to_mktCodeStr(pureStr) = mktStr
       /\ mktCodeStr_to_pureCodeStr(mktStr)
            = IF SecondDigit(pureCode) \in (IF PureSH(pureCode) THEN {6} ELSE {0, 3}) THEN pureStr ELSE NoText
       /\ IF PureSH(pureCode) THEN numbered = mktStr
          ELSE numbered = sz \o (<<"0", "0">> \o pureStr) /\ ~isStkStr(numbered)
       /\ pureCode # 0 => (isStkStr(mktStr) <=> isStk(mktInt))
       /\ ~(isStkStr(mktStr) /\ (isIdxStr(mktStr) \/ isFundStr(mktStr)))
===============================================================================
