------------------------- MODULE CommonValuesProofs --------------------------
(***************************************************************************)
(* Theorems about the functions of CommonValues: s4mktCode, for every      *)
(* number and every pair of prefixes whose ranges do not meet; s4json_util *)
(* and chat_message, for every object, surrounding text and length;        *)
(* parse_url, for every URL; and the invariants of CommonValues, for every *)
(* set of inputs.                                                          *)
(***************************************************************************)
EXTENDS CommonValues, CommonProofs

-----------------------------------------------------------------------------
(* s4mktCode. *)

(* Every pure code, and no other number, has a market code; it is within   *)
(* the range of its market and leads back to the pure code.                *)
THEOREM PureCodesSurvive ==
  \A pureCode \in Nat : PureCodeSurvives(pureCode)
<1> SUFFICES ASSUME NEW pureCode \in Nat
             PROVE  PureCodeSurvives(pureCode)
  OBVIOUS
<1> DEFINE mktCode == pureCodeInt_to_mktCodeInt(pureCode)
<1>1. CASE PureSH(pureCode)
  <2>1. mktCode = SH_PRB + pureCode /\ InSH(mktCode) /\ ~InSZ(mktCode)
    BY <1>1, CodeAssumption DEF PureSH, InSH, InSZ, pureCodeInt_to_mktCodeInt, SH_CODE_MAX, SH_CODE_MIN, PRB_MK
  <2>2. mktCodeInt_to_pureCodeInt(mktCode) = pureCode
    BY <1>1, <2>1, CodeAssumption DEF PureSH, mktCodeInt_to_pureCodeInt, SH_CODE_MIN
  <2> QED BY <2>1, <2>2 DEF PureCodeSurvives
<1>2. CASE ~PureSH(pureCode) /\ PureSZ(pureCode)
  <2>1. mktCode = SZ_PRB + pureCode /\ ~InSH(mktCode) /\ InSZ(mktCode)
    BY <1>2, CodeAssumption DEF PureSZ, InSH, InSZ, pureCodeInt_to_mktCodeInt, SZ_CODE_MAX, SZ_CODE_MIN, PRB_MK
  <2>2. mktCodeInt_to_pureCodeInt(mktCode) = pureCode
    BY <1>2, <2>1, CodeAssumption DEF PureSZ, mktCodeInt_to_pureCodeInt, SZ_CODE_MAX, SH_CODE_MIN
  <2> QED BY <2>1, <2>2 DEF PureCodeSurvives
<1>3. CASE ~PureSH(pureCode) /\ ~PureSZ(pureCode)
  BY <1>3 DEF PureCodeSurvives, pureCodeInt_to_mktCodeInt
<1> QED BY <1>1, <1>2, <1>3

(* Two pure codes never share a market code.                               *)
THEOREM MarketCodesDiffer ==
  ASSUME NEW a \in Nat, NEW b \in Nat,
         pureCodeInt_to_mktCodeInt(a) = pureCodeInt_to_mktCodeInt(b),
         pureCodeInt_to_mktCodeInt(a) # NoCode
  PROVE  a = b
BY PureCodesSurvive DEF PureCodeSurvives

(* The test for a stock by the pure code and the one by the market code    *)
(* agree on every security but Shenzhen's number 0.                        *)
THEOREM StockIsStockEitherWay ==
  \A pureCode \in Nat : StockEitherWay(pureCode)
<1> SUFFICES ASSUME NEW pureCode \in Nat, pureCode # 0,
                    pureCodeInt_to_mktCodeInt(pureCode) # NoCode
             PROVE  isStk(pureCodeInt_to_mktCodeInt(pureCode)) <=> pureCodeIsStk(pureCode)
  BY DEF StockEitherWay
<1> DEFINE mktCode == pureCodeInt_to_mktCodeInt(pureCode)
<1>1. CASE PureSH(pureCode)
  <2>1. mktCode = SH_PRB + pureCode /\ isSHmkt(mktCode)
    BY <1>1, CodeAssumption DEF PureSH, isSHmkt, pureCodeInt_to_mktCodeInt, SH_CODE_MAX, SH_CODE_MIN, PRB_MK
  <2>2. mktCode - SH_PRB = pureCode
    BY <2>1, CodeAssumption
  <2>3. isStk(mktCode) <=> pureCode >= 600000 /\ pureCode <= 609999
    BY <2>1, <2>2 DEF isStk, Between
  <2>4. pureCodeIsStk(pureCode) <=> pureCode >= 600000 /\ pureCode <= 609999
    BY <1>1 DEF pureCodeIsStk, Between, PureSH, SH_CODE_MIN
  <2> QED BY <2>3, <2>4
<1>2. CASE ~PureSH(pureCode) /\ PureSZ(pureCode)
  <2>1. mktCode = SZ_PRB + pureCode /\ ~isSHmkt(mktCode) /\ isSZmkt(mktCode)
    BY <1>2, CodeAssumption
    DEF PureSZ, isSHmkt, isSZmkt, pureCodeInt_to_mktCodeInt, SZ_CODE_MAX, SZ_CODE_MIN, PRB_MK
  <2>2. mktCode - SZ_PRB = pureCode
    BY <2>1, CodeAssumption
  <2>3. isStk(mktCode) <=> \/ pureCode >= 0 /\ pureCode <= 9999
                           \/ pureCode >= 300000 /\ pureCode <= 309999
    BY <2>1, <2>2 DEF isStk, Between
  <2>4. pureCodeIsStk(pureCode) <=> \/ pureCode >= 0 /\ pureCode <= 9999
                                    \/ pureCode >= 300000 /\ pureCode <= 309999
    BY <1>2 DEF pureCodeIsStk, Between, PureSZ, SZ_CODE_MAX
  <2> QED BY <2>3, <2>4
<1>3. PureSH(pureCode) \/ PureSZ(pureCode)
  BY DEF pureCodeInt_to_mktCodeInt
<1> QED BY <1>1, <1>2, <1>3

(* A market code is of at most one of the classes stock, index and fund.   *)
THEOREM ClassesAreDisjoint ==
  \A mktCode \in Nat : OneClass(mktCode)
<1> SUFFICES ASSUME NEW mktCode \in Nat
             PROVE  OneClass(mktCode)
  OBVIOUS
<1>1. CASE isSHmkt(mktCode)
  BY <1>1, CodeAssumption DEF OneClass, isStk, isIdx, isFund, Between
<1>2. CASE ~isSHmkt(mktCode)
  BY <1>2, CodeAssumption DEF OneClass, isStk, isIdx, isFund, Between, PRB_MK
<1> QED BY <1>1, <1>2

-----------------------------------------------------------------------------
(* Market codes as texts. *)

(* The market and the six digits are found where they were put together. *)
LEMMA MarketAndRest ==
  ASSUME NEW T, NEW m \in Seq(T), Len(m) = 2, NEW p \in Seq(T)
  PROVE  /\ m \o p \in Seq(T) /\ Len(m \o p) = Len(p) + 2
         /\ Market(m \o p) = m /\ Rest(m \o p) = p
         /\ \A i \in 1..Len(p) : (m \o p)[i + 2] = p[i]
         /\ (m \o p)[1] = m[1] /\ (m \o p)[2] = m[2]
<1>1. m \o p \in Seq(T) /\ Len(m \o p) = 2 + Len(p) /\ Len(p) \in Nat
      /\ \A i \in 1..2 + Len(p) : (m \o p)[i] = IF i <= 2 THEN m[i] ELSE p[i - 2]
  <2>1. /\ m \o p \in Seq(T) /\ Len(m \o p) = Len(m) + Len(p)
        /\ \A i \in 1..Len(m) + Len(p) : (m \o p)[i] = IF i <= Len(m) THEN m[i] ELSE p[i - Len(m)]
    BY ConcatProperties
  <2>2. Len(p) \in Nat
    BY LenProperties
  <2> QED BY <2>1, <2>2
<1>2. /\ \A i \in 1..2 : (m \o p)[i] = m[i]
      /\ \A i \in 1..Len(p) : (m \o p)[i + 2] = p[i]
  <2>1. ASSUME NEW i \in 1..2 PROVE (m \o p)[i] = m[i]
    <3>1. i \in 1..2 + Len(p) /\ i <= 2
      BY <1>1
    <3> QED BY <1>1, <3>1
  <2>2. ASSUME NEW i \in 1..Len(p) PROVE (m \o p)[i + 2] = p[i]
    <3>1. i + 2 \in 1..2 + Len(p) /\ ~(i + 2 <= 2) /\ (i + 2) - 2 = i
      BY <1>1
    <3> QED BY <1>1, <3>1
  <2> QED BY <2>1, <2>2
<1>3. \A i \in 1..Len(m \o p) : (m \o p)[i] \in T
  BY <1>1, ElementOfSeq
<1>4. Market(m \o p) = m
  <2>1. 1 \in 1..Len(m) /\ Len(m) \in 1..Len(m)
    OBVIOUS
  <2>2. SubSeq(m \o p, 1, Len(m)) = SubSeq(m, 1, Len(m)) /\ SubSeq(m, 1, Len(m)) = m
    BY <2>1, SubSeqOfConcat1, SubSeqFull
  <2> QED BY <2>2 DEF Market
<1>5. Rest(m \o p) = p
  <2> DEFINE n == Len(p) + 2
             r == SubSeq(m \o p, 3, n)
  <2>1. r \in Seq(T) /\ Len(r) = Len(p) /\ \A i \in 1..Len(p) : r[i] = p[i]
    <3>1. n \in Int /\ n - 3 + 1 = Len(p) /\ (IF 3 <= n THEN n - 3 + 1 ELSE 0) = Len(p)
          /\ (\A i \in 1..Len(p) : 3 + i - 1 = i + 2) /\ 3..n \subseteq 1..Len(m \o p)
      BY <1>1
    <3>2. r \in Seq(T) /\ Len(r) = (IF 3 <= n THEN n - 3 + 1 ELSE 0)
          /\ \A i \in 1..n - 3 + 1 : r[i] = (m \o p)[3 + i - 1]
      <4> HIDE DEF n
      <4>1. \A i \in 3..n : (m \o p)[i] \in T
        BY <1>3, <3>1
      <4> QED BY <3>1, <4>1, SubSeqProperties
    <3> HIDE DEF r, n
    <3> QED BY <1>2, <3>1, <3>2
  <2> HIDE DEF r
  <2>2. r = p
    BY <2>1, SeqEqual
  <2> QED BY <1>1, <2>2 DEF Rest, r
<1> QED BY <1>1, <1>2, <1>4, <1>5

Chars == DigitChars \cup {"s", "h", "z"}

LEMMA Markets ==
  /\ sh \in Seq(Chars) /\ Len(sh) = 2 /\ sh[1] = "s" /\ sh[2] = "h"
  /\ sz \in Seq(Chars) /\ Len(sz) = 2 /\ sz[1] = "s" /\ sz[2] = "z" /\ sh # sz
<1>1. "s" \in Chars /\ "h" \in Chars /\ "z" \in Chars
  BY DEF Chars
<1>2. sh \in Seq(Chars) /\ Len(sh) = 2 /\ sh[1] = "s" /\ sh[2] = "h"
  BY <1>1 DEF sh
<1>3. sz \in Seq(Chars) /\ Len(sz) = 2 /\ sz[1] = "s" /\ sz[2] = "z"
  BY <1>1 DEF sz
<1>4. "h" # "z"
  OBVIOUS
<1> QED BY <1>2, <1>3, <1>4

(* The texts of a code of six digits and of its market. *)
LEMMA CodeText ==
  ASSUME NEW c \in Nat, c < TenTo(6), NEW m \in {sh, sz}, NEW w \in {6, 8}
  PROVE  /\ Padded(c, w) \in Seq(Chars) /\ Len(Padded(c, w)) = w /\ Number(Padded(c, w)) = c
         /\ m \o Padded(c, w) \in Seq(Chars) /\ Len(m \o Padded(c, w)) = w + 2
         /\ Market(m \o Padded(c, w)) = m /\ Rest(m \o Padded(c, w)) = Padded(c, w)
         /\ NumberIn(m \o Padded(c, w)) = c
         /\ \A i \in 1..w : (m \o Padded(c, w))[i + 2] = Padded(c, w)[i]
         /\ (m \o Padded(c, w))[1] = m[1] /\ (m \o Padded(c, w))[2] = m[2]
<1>1. m \in Seq(Chars) /\ Len(m) = 2
  BY Markets
<1> DEFINE P == Padded(c, w)
<1>2. P \in Seq(DigitChars) /\ Len(P) = w /\ Number(P) = c
  <2>1. w \in 1..9
    OBVIOUS
  <2>2. c < TenTo(9) /\ c < TenTo(w)
    <3>1. TenTo(6) <= TenTo(9) /\ TenTo(6) <= TenTo(8) /\ TenTo(6) \in Int /\ TenTo(8) \in Int
          /\ TenTo(9) \in Int
      BY PowersOfTen, SMT
    <3> QED BY <3>1
  <2> QED BY <2>1, <2>2, PaddedIs, NumberPadded
<1> HIDE DEF P
<1>3. P \in Seq(Chars)
  <2>1. DigitChars \subseteq Chars
    BY DEF Chars
  <2> QED BY <1>2, <2>1, SeqMonotonic
<1>4. /\ m \o P \in Seq(Chars) /\ Len(m \o P) = Len(P) + 2
      /\ Market(m \o P) = m /\ Rest(m \o P) = P
      /\ \A i \in 1..Len(P) : (m \o P)[i + 2] = P[i]
      /\ (m \o P)[1] = m[1] /\ (m \o P)[2] = m[2]
  BY <1>1, <1>3, MarketAndRest
<1> QED BY <1>2, <1>3, <1>4 DEF P, NumberIn

(* The digits of a text of six of them. *)
LEMMA SixDigits ==
  ASSUME NEW c \in Nat, c < TenTo(6), NEW i \in 1..6, NEW v \in 0..9
  PROVE  Padded(c, 6)[i] = Digits[v + 1] <=> v = (c \div TenTo(6 - i)) % 10
<1>1. c < TenTo(9) /\ 6 \in 1..9
  <2>1. TenTo(6) <= TenTo(9) /\ TenTo(6) \in Int /\ TenTo(9) \in Int
    BY PowersOfTen, SMT
  <2> QED BY <2>1
<1>2. Len(Padded(c, 6)) = 6 /\ \A j \in 1..6 : Padded(c, 6)[j] = DigitOf(c, 6 - j)
  <2>1. Len(Padded(c, 6)) = 6
    BY <1>1, PaddedIs
  <2>2. \A j \in 1..Len(Padded(c, 6)) : Padded(c, 6)[j] = DigitOf(c, Len(Padded(c, 6)) - j)
    BY <1>1, PaddedIs
  <2> QED BY <2>1, <2>2
<1>3. 6 - i \in 0..8
  OBVIOUS
<1>4. DigitValue(DigitOf(c, 6 - i)) = (c \div TenTo(6 - i)) % 10 /\ DigitOf(c, 6 - i) \in DigitChars
  BY <1>3, DigitOfIs
<1>5. Padded(c, 6)[i] = DigitOf(c, 6 - i)
  BY <1>2
<1>6. DigitOf(c, 6 - i) = Digits[v + 1] <=> v = DigitValue(DigitOf(c, 6 - i))
  BY <1>4, DigitFacts
<1> QED BY <1>4, <1>5, <1>6

LEMMA LetterChars ==
  /\ "s" \in Chars /\ "h" \in Chars /\ "z" \in Chars
  /\ "0" \in Chars /\ "1" \in Chars /\ "3" \in Chars /\ "5" \in Chars /\ "6" \in Chars
  /\ "8" \in Chars /\ "9" \in Chars
<1>1. Digits[1] = "0" /\ Digits[2] = "1" /\ Digits[4] = "3" /\ Digits[6] = "5" /\ Digits[7] = "6"
      /\ Digits[9] = "8" /\ Digits[10] = "9"
  BY DEF Digits
<1>2. \A i \in 1..10 : Digits[i] \in Chars
  BY DEF Chars, DigitChars
<1>3. "s" \in Chars /\ "h" \in Chars /\ "z" \in Chars
  BY DEF Chars
<1>4. /\ Digits[1] \in Chars /\ Digits[2] \in Chars /\ Digits[4] \in Chars /\ Digits[6] \in Chars
      /\ Digits[7] \in Chars /\ Digits[9] \in Chars /\ Digits[10] \in Chars
  BY <1>2
<1> QED BY <1>1, <1>3, <1>4

(* Two texts start alike if their first characters are the same. *)
LEMMA StartsAlike ==
  ASSUME NEW T, NEW s \in Seq(T), NEW t \in Seq(T), Len(s) <= Len(t)
  PROVE  SubSeq(s, 1, Len(s)) = SubSeq(t, 1, Len(s)) <=> \A i \in 1..Len(s) : t[i] = s[i]
<1> DEFINE n == Len(s)
           r == SubSeq(t, 1, n)
<1>1. n \in Nat /\ n \in Int /\ Len(t) \in Nat /\ SubSeq(s, 1, n) = s
  BY LenProperties, SubSeqFull
<1>2. r \in Seq(T) /\ Len(r) = n /\ \A i \in 1..n : r[i] = t[i]
  <2>1. \A i \in 1..n : t[i] \in T
    BY <1>1, ElementOfSeq
  <2>2. r \in Seq(T) /\ Len(r) = (IF 1 <= n THEN n - 1 + 1 ELSE 0)
        /\ \A i \in 1..n - 1 + 1 : r[i] = t[1 + i - 1]
    <3> HIDE DEF n
    <3> QED BY <1>1, <2>1, SubSeqProperties
  <2>3. n - 1 + 1 = n /\ (IF 1 <= n THEN n - 1 + 1 ELSE 0) = n /\ \A i \in 1..n : 1 + i - 1 = i
    BY <1>1
  <2> HIDE DEF n, r
  <2> QED BY <2>2, <2>3
<1> HIDE DEF r
<1>3. r = s <=> \A i \in 1..n : r[i] = s[i]
  BY <1>2, SeqEqual
<1> QED BY <1>1, <1>2, <1>3 DEF r

(* What a text begins with, character by character. *)
LEMMA StartOf ==
  ASSUME NEW t \in Seq(Chars), Len(t) = 8, NEW m \in {sh, sz},
         NEW q \in Seq(Chars), Len(q) \in {2, 3}, IsPrefix(m \o q, t)
  PROVE  t[1] = m[1] /\ t[2] = m[2] /\ \A i \in 1..Len(q) : t[i + 2] = q[i]
<1> DEFINE s == m \o q
<1>1. m \in Seq(Chars) /\ Len(m) = 2
  BY Markets
<1>2. /\ s \in Seq(Chars) /\ Len(s) = Len(q) + 2 /\ s[1] = m[1] /\ s[2] = m[2]
      /\ \A i \in 1..Len(q) : s[i + 2] = q[i]
  BY <1>1, MarketAndRest
<1>3. SubSeq(s, 1, Len(s)) = SubSeq(t, 1, Len(s))
  BY DEF IsPrefix
<1> HIDE DEF s
<1>4. Len(s) \in 1..Len(t) /\ Len(s) \in {4, 5}
  <2>1. Len(q) = 2 \/ Len(q) = 3
    OBVIOUS
  <2>2. Len(s) = 4 \/ Len(s) = 5
    <3>1. 2 + 2 = 4 /\ 3 + 2 = 5
      OBVIOUS
    <3>2. Len(q) = 2 => Len(s) = 2 + 2
      BY <1>2
    <3>3. Len(q) = 3 => Len(s) = 3 + 2
      BY <1>2
    <3> QED BY <2>1, <3>1, <3>2, <3>3
  <2> QED BY <2>2
<1>5. \A i \in 1..Len(s) : t[i] = s[i]
  BY <1>2, <1>3, <1>4, StartsAlike
<1> QED BY <1>2, <1>4, <1>5

LEMMA StartsSo ==
  ASSUME NEW t \in Seq(Chars), Len(t) = 8, NEW m \in {sh, sz},
         NEW q \in Seq(Chars), Len(q) = 2, t[1] = m[1], t[2] = m[2], t[3] = q[1], t[4] = q[2]
  PROVE  IsPrefix(m \o q, t)
<1> DEFINE s == m \o q
<1>1. m \in Seq(Chars) /\ Len(m) = 2
  BY Markets
<1>2. /\ s \in Seq(Chars) /\ Len(s) = 4 /\ s[1] = m[1] /\ s[2] = m[2]
      /\ \A i \in 1..2 : s[i + 2] = q[i]
  BY <1>1, MarketAndRest
<1>3. s[3] = q[1] /\ s[4] = q[2]
  <2>1. 1 \in 1..2 /\ 2 \in 1..2 /\ 1 + 2 = 3 /\ 2 + 2 = 4
    OBVIOUS
  <2> QED BY <1>2, <2>1
<1> HIDE DEF s
<1>4. \A i \in 1..Len(s) : t[i] = s[i]
  BY <1>2, <1>3
<1>5. SubSeq(s, 1, Len(s)) = SubSeq(t, 1, Len(s)) /\ Len(s) <= Len(t)
  BY <1>2, <1>4, StartsAlike
<1> QED BY <1>5 DEF IsPrefix, s

LEMMA TwoChars ==
  \A a, b \in Chars : <<a, b>> \in Seq(Chars) /\ Len(<<a, b>>) = 2 /\ <<a, b>>[1] = a /\ <<a, b>>[2] = b
OBVIOUS

LEMMA ThreeChars ==
  \A a, b, c \in Chars :
    /\ <<a, b, c>> \in Seq(Chars) /\ Len(<<a, b, c>>) = 3
    /\ <<a, b, c>>[1] = a /\ <<a, b, c>>[2] = b /\ <<a, b, c>>[3] = c
OBVIOUS

(* Two characters behind the market. *)
LEMMA StartsWithTwo ==
  ASSUME NEW t \in Seq(Chars), Len(t) = 8, NEW m \in {sh, sz}, NEW a \in Chars, NEW b \in Chars
  PROVE  IsPrefix(m \o <<a, b>>, t) <=> t[1] = m[1] /\ t[2] = m[2] /\ t[3] = a /\ t[4] = b
<1> DEFINE q == <<a, b>>
<1>1. q \in Seq(Chars) /\ Len(q) = 2 /\ q[1] = a /\ q[2] = b
  BY TwoChars
<1> HIDE DEF q
<1>2. ASSUME IsPrefix(m \o q, t) PROVE t[1] = m[1] /\ t[2] = m[2] /\ t[3] = a /\ t[4] = b
  <2>1. t[1] = m[1] /\ t[2] = m[2] /\ \A i \in 1..Len(q) : t[i + 2] = q[i]
    BY <1>1, <1>2, StartOf
  <2>2. 1 \in 1..2 /\ 2 \in 1..2 /\ 1 + 2 = 3 /\ 2 + 2 = 4
    OBVIOUS
  <2> QED BY <1>1, <2>1, <2>2
<1>3. ASSUME t[1] = m[1], t[2] = m[2], t[3] = a, t[4] = b PROVE IsPrefix(m \o q, t)
  BY <1>1, <1>3, StartsSo
<1> QED BY <1>2, <1>3 DEF q

LEMMA StartsWithThree ==
  ASSUME NEW t \in Seq(Chars), Len(t) = 8, NEW m \in {sh, sz},
         NEW q \in Seq(Chars), Len(q) = 3, IsPrefix(m \o q, t)
  PROVE  t[1] = m[1] /\ t[2] = m[2] /\ t[3] = q[1] /\ t[4] = q[2]
<1>1. t[1] = m[1] /\ t[2] = m[2] /\ \A i \in 1..Len(q) : t[i + 2] = q[i]
  BY StartOf
<1>2. 1 \in 1..3 /\ 2 \in 1..3 /\ 1 + 2 = 3 /\ 2 + 2 = 4
  OBVIOUS
<1> QED BY <1>1, <1>2

(* The classes of the texts, by the characters behind the market. *)
LEMMA StockText ==
  ASSUME NEW t \in Seq(Chars), Len(t) = 8
  PROVE  isStkStr(t) <=> \/ t[1] = "s" /\ t[2] = "z" /\ t[3] = "0" /\ t[4] = "0"
                         \/ t[1] = "s" /\ t[2] = "z" /\ t[3] = "3" /\ t[4] = "0"
                         \/ t[1] = "s" /\ t[2] = "h" /\ t[3] = "6" /\ t[4] = "0"
<1>1. /\ IsPrefix(sz \o <<"0", "0">>, t) <=> t[1] = "s" /\ t[2] = "z" /\ t[3] = "0" /\ t[4] = "0"
      /\ IsPrefix(sz \o <<"3", "0">>, t) <=> t[1] = "s" /\ t[2] = "z" /\ t[3] = "3" /\ t[4] = "0"
      /\ IsPrefix(sh \o <<"6", "0">>, t) <=> t[1] = "s" /\ t[2] = "h" /\ t[3] = "6" /\ t[4] = "0"
  BY LetterChars, Markets, StartsWithTwo
<1> QED BY <1>1 DEF isStkStr, StartsWith

LEMMA IndexText ==
  ASSUME NEW t \in Seq(Chars), Len(t) = 8, isIdxStr(t)
  PROVE  \/ t[1] = "s" /\ t[2] = "z" /\ t[3] = "3" /\ t[4] = "9"
         \/ t[1] = "s" /\ t[2] = "h" /\ t[3] = "0"
         \/ t[1] = "s" /\ t[2] = "z" /\ t[3] = "9"
<1>1. CASE IsPrefix(sz \o <<"3", "9", "9">>, t)
  <2> DEFINE q == <<"3", "9", "9">>
  <2>1. q \in Seq(Chars) /\ Len(q) = 3 /\ q[1] = "3" /\ q[2] = "9"
    BY LetterChars, ThreeChars
  <2> HIDE DEF q
  <2>2. IsPrefix(sz \o q, t)
    BY <1>1 DEF q
  <2> QED BY <2>1, <2>2, Markets, StartsWithThree
<1>2. CASE IsPrefix(sh \o <<"0", "0", "0">>, t)
  <2> DEFINE q == <<"0", "0", "0">>
  <2>1. q \in Seq(Chars) /\ Len(q) = 3 /\ q[1] = "0" /\ q[2] = "0"
    BY LetterChars, ThreeChars
  <2> HIDE DEF q
  <2>2. IsPrefix(sh \o q, t)
    BY <1>2 DEF q
  <2> QED BY <2>1, <2>2, Markets, StartsWithThree
<1>3. CASE IsPrefix(sz \o <<"9", "8">>, t)
  BY <1>3, LetterChars, Markets, StartsWithTwo
<1> QED BY <1>1, <1>2, <1>3 DEF isIdxStr, StartsWith

LEMMA FundText ==
  ASSUME NEW t \in Seq(Chars), Len(t) = 8, isFundStr(t)
  PROVE  \/ t[1] = "s" /\ t[2] = "z" /\ t[3] = "1"
         \/ t[1] = "s" /\ t[2] = "h" /\ t[3] = "5"
<1> DEFINE Funds == {501, 502, 510, 511, 512, 513, 515, 516, 518, 560, 561, 562, 563, 588}
<1>1. CASE \E n \in Funds : IsPrefix(sh \o Padded(n, 3), t)
  <2>1. PICK n \in Funds : IsPrefix(sh \o Padded(n, 3), t)
    BY <1>1
  <2>2. n \in Nat /\ n >= 500 /\ n < 600 /\ n < TenTo(3) /\ n < TenTo(9) /\ 3 \in 1..9
    BY PowersOfTen, SMT
  <2> HIDE DEF Funds
  <2> DEFINE P == Padded(n, 3)
  <2>3. P \in Seq(DigitChars) /\ Len(P) = 3 /\ P[1] = DigitOf(n, 2)
    <3>1. P \in Seq(DigitChars) /\ Len(P) = 3
      BY <2>2, PaddedIs
    <3>2. \A i \in 1..Len(P) : P[i] = DigitOf(n, Len(P) - i)
      BY <2>2, PaddedIs
    <3> HIDE DEF P
    <3>3. 1 \in 1..3 /\ 3 - 1 = 2
      OBVIOUS
    <3> QED BY <3>1, <3>2, <3>3
  <2>4. IsPrefix(sh \o P, t)
    BY <2>1
  <2> HIDE DEF P
  <2>5. P[1] = "5"
    <3>1. n \div 100 = 5 /\ (5 % 10) + 1 = 6
      BY <2>2
    <3>2. DigitOf(n, 2) = Digits[6]
      <4>1. TenTo(2) = 100
        BY PowersOfTen
      <4> QED BY <3>1, <4>1 DEF DigitOf
    <3> QED BY <2>3, <3>2 DEF Digits
  <2>6. P \in Seq(Chars)
    <3>1. DigitChars \subseteq Chars
      BY DEF Chars
    <3> QED BY <2>3, <3>1, SeqMonotonic
  <2> QED BY <2>3, <2>4, <2>5, <2>6, Markets, StartsWithThree
<1>2. CASE IsPrefix(sz \o <<"1", "6">>, t) \/ IsPrefix(sz \o <<"1", "5">>, t)
  BY <1>2, LetterChars, Markets, StartsWithTwo
<1>3. (\E n \in Funds : IsPrefix(sh \o Padded(n, 3), t))
      \/ IsPrefix(sz \o <<"1", "6">>, t) \/ IsPrefix(sz \o <<"1", "5">>, t)
  <2>1. \/ StartsWith(t, {sh \o Padded(n, 3) : n \in Funds})
        \/ StartsWith(t, {sz \o <<"1", "6">>, sz \o <<"1", "5">>})
    BY DEF isFundStr
  <2> HIDE DEF Funds
  <2> QED BY <2>1 DEF StartsWith
<1> QED BY <1>1, <1>2, <1>3

(* What the test of a text for a stock sees of a code. *)
LEMMA StockDigits ==
  ASSUME NEW c \in Nat, c < TenTo(6)
  PROVE  /\ Padded(c, 6)[1] = "0" <=> c < 100000
         /\ Padded(c, 6)[1] = "3" <=> c >= 300000 /\ c < 400000
         /\ Padded(c, 6)[1] = "6" <=> c >= 600000 /\ c < 700000
         /\ Padded(c, 6)[2] = "0" <=> c % 100000 < 10000
         /\ Padded(c, 6)[2] = "0" <=> SecondDigit(c) = 0
         /\ Padded(c, 6)[2] = "3" <=> SecondDigit(c) = 3
         /\ Padded(c, 6)[2] = "6" <=> SecondDigit(c) = 6
<1>1. /\ \A v \in 0..9 : Padded(c, 6)[1] = Digits[v + 1] <=> v = (c \div TenTo(5)) % 10
      /\ \A v \in 0..9 : Padded(c, 6)[2] = Digits[v + 1] <=> v = (c \div TenTo(4)) % 10
  <2>1. 1 \in 1..6 /\ 2 \in 1..6 /\ 6 - 1 = 5 /\ 6 - 2 = 4
    OBVIOUS
  <2>2. \A v \in 0..9 : Padded(c, 6)[1] = Digits[v + 1] <=> v = (c \div TenTo(6 - 1)) % 10
    BY <2>1, SixDigits
  <2>3. \A v \in 0..9 : Padded(c, 6)[2] = Digits[v + 1] <=> v = (c \div TenTo(6 - 2)) % 10
    BY <2>1, SixDigits
  <2> QED BY <2>1, <2>2, <2>3
<1>2. Digits[1] = "0" /\ Digits[4] = "3" /\ Digits[7] = "6"
  BY DEF Digits
<1>3. /\ Padded(c, 6)[1] = "0" <=> 0 = (c \div TenTo(5)) % 10
      /\ Padded(c, 6)[1] = "3" <=> 3 = (c \div TenTo(5)) % 10
      /\ Padded(c, 6)[1] = "6" <=> 6 = (c \div TenTo(5)) % 10
      /\ Padded(c, 6)[2] = "0" <=> 0 = (c \div TenTo(4)) % 10
      /\ Padded(c, 6)[2] = "3" <=> 3 = (c \div TenTo(4)) % 10
      /\ Padded(c, 6)[2] = "6" <=> 6 = (c \div TenTo(4)) % 10
  <2>1. 0 \in 0..9 /\ 3 \in 0..9 /\ 6 \in 0..9 /\ 0 + 1 = 1 /\ 3 + 1 = 4 /\ 6 + 1 = 7
    OBVIOUS
  <2> QED BY <1>1, <1>2, <2>1
<1>4. TenTo(4) = 10000 /\ TenTo(5) = 100000 /\ c < 1000000
  BY PowersOfTen, SMT
<1>5. /\ 0 = (c \div 100000) % 10 <=> c < 100000
      /\ 3 = (c \div 100000) % 10 <=> c >= 300000 /\ c < 400000
      /\ 6 = (c \div 100000) % 10 <=> c >= 600000 /\ c < 700000
      /\ 0 = (c \div 10000) % 10 <=> c % 100000 < 10000
  BY <1>4, SMT
<1>6. (c \div TenTo(4)) % 10 = SecondDigit(c)
  BY <1>4, SMT DEF SecondDigit
<1>7. /\ Padded(c, 6)[1] = "0" <=> c < 100000
      /\ Padded(c, 6)[1] = "3" <=> c >= 300000 /\ c < 400000
      /\ Padded(c, 6)[1] = "6" <=> c >= 600000 /\ c < 700000
      /\ Padded(c, 6)[2] = "0" <=> c % 100000 < 10000
  BY <1>3, <1>4, <1>5, SMT
<1> QED BY <1>3, <1>6, <1>7

(* %08d writes two zeros and what %06d writes. *)
LEMMA EightDigits ==
  ASSUME NEW c \in Nat, c < TenTo(6)
  PROVE  Padded(c, 8) = <<"0", "0">> \o Padded(c, 6)
<1>1. c < TenTo(9) /\ c < TenTo(8) /\ 6 \in 1..9 /\ 8 \in 1..9 /\ TenTo(6) = 1000000 /\ TenTo(7) = 10000000
  BY PowersOfTen, SMT
<1>2. Padded(c, 8) \in Seq(DigitChars) /\ Len(Padded(c, 8)) = 8
      /\ \A i \in 1..8 : Padded(c, 8)[i] = DigitOf(c, 8 - i)
  <2>1. Padded(c, 8) \in Seq(DigitChars) /\ Len(Padded(c, 8)) = 8
    BY <1>1, PaddedIs
  <2>2. \A i \in 1..Len(Padded(c, 8)) : Padded(c, 8)[i] = DigitOf(c, Len(Padded(c, 8)) - i)
    BY <1>1, PaddedIs
  <2> QED BY <2>1, <2>2
<1>3. Padded(c, 6) \in Seq(DigitChars) /\ Len(Padded(c, 6)) = 6
      /\ \A i \in 1..6 : Padded(c, 6)[i] = DigitOf(c, 6 - i)
  <2>1. Padded(c, 6) \in Seq(DigitChars) /\ Len(Padded(c, 6)) = 6
    BY <1>1, PaddedIs
  <2>2. \A i \in 1..Len(Padded(c, 6)) : Padded(c, 6)[i] = DigitOf(c, Len(Padded(c, 6)) - i)
    BY <1>1, PaddedIs
  <2> QED BY <2>1, <2>2
<1>4. ASSUME NEW k \in {6, 7} PROVE DigitOf(c, k) = "0"
  <2>1. k \in 0..8
    OBVIOUS
  <2>2. DigitValue(DigitOf(c, k)) = (c \div TenTo(k)) % 10 /\ DigitOf(c, k) \in DigitChars
    BY <2>1, DigitOfIs
  <2>3. (c \div TenTo(k)) % 10 = 0
    <3>1. c < 1000000
      BY <1>1
    <3>2. CASE k = 6
      BY <1>1, <3>1, <3>2, SMT
    <3>3. CASE k = 7
      BY <1>1, <3>1, <3>3, SMT
    <3> QED BY <3>2, <3>3
  <2>4. DigitOf(c, k) = Digits[0 + 1]
    <3>1. 0 \in 0..9
      OBVIOUS
    <3> QED BY <2>2, <2>3, <3>1, DigitFacts
  <2> QED BY <2>4 DEF Digits
<1>5. Padded(c, 8)[1] = "0" /\ Padded(c, 8)[2] = "0"
  <2>1. 1 \in 1..8 /\ 2 \in 1..8 /\ 8 - 1 = 7 /\ 8 - 2 = 6 /\ 6 \in {6, 7} /\ 7 \in {6, 7}
    OBVIOUS
  <2>2. Padded(c, 8)[1] = DigitOf(c, 8 - 1) /\ Padded(c, 8)[2] = DigitOf(c, 8 - 2)
    BY <1>2, <2>1
  <2> QED BY <1>4, <2>1, <2>2
<1>6. \A i \in 1..6 : Padded(c, 8)[i + 2] = Padded(c, 6)[i]
  <2> TAKE i \in 1..6
  <2>1. i + 2 \in 1..8 /\ 8 - (i + 2) = 6 - i
    OBVIOUS
  <2>2. Padded(c, 8)[i + 2] = DigitOf(c, 8 - (i + 2))
    BY <1>2, <2>1
  <2> QED BY <1>3, <2>1, <2>2
<1>7. \A P \in Seq(DigitChars), Q \in Seq(DigitChars), M \in Seq(DigitChars) :
        Len(P) = 8 /\ Len(Q) = 6 /\ Len(M) = 2 /\ P[1] = M[1] /\ P[2] = M[2] /\ (\A i \in 1..6 : P[i + 2] = Q[i])
          => P = M \o Q
  <2> TAKE P \in Seq(DigitChars), Q \in Seq(DigitChars), M \in Seq(DigitChars)
  <2> HAVE Len(P) = 8 /\ Len(Q) = 6 /\ Len(M) = 2 /\ P[1] = M[1] /\ P[2] = M[2] /\ (\A i \in 1..6 : P[i + 2] = Q[i])
  <2> DEFINE R == M \o Q
  <2>1. /\ R \in Seq(DigitChars) /\ Len(R) = 8 /\ R[1] = M[1] /\ R[2] = M[2]
        /\ \A i \in 1..6 : R[i + 2] = Q[i]
    <3>1. /\ M \o Q \in Seq(DigitChars) /\ Len(M \o Q) = Len(Q) + 2
          /\ \A i \in 1..Len(Q) : (M \o Q)[i + 2] = Q[i]
          /\ (M \o Q)[1] = M[1] /\ (M \o Q)[2] = M[2]
      <4>1. Len(M) = 2
        OBVIOUS
      <4> HIDE DEF R
      <4> QED BY ONLY <4>1, M \in Seq(DigitChars), Q \in Seq(DigitChars), MarketAndRest
    <3> HIDE DEF R
    <3> QED BY <3>1 DEF R
  <2> HIDE DEF R
  <2>2. \A i \in 1..8 : P[i] = R[i]
    <3> TAKE i \in 1..8
    <3>1. CASE i \in {1, 2}
      BY <2>1, <3>1
    <3>2. CASE i \in 3..8
      <4>1. i - 2 \in 1..6 /\ (i - 2) + 2 = i
        BY <3>2
      <4> QED BY <2>1, <4>1
    <3> QED BY <3>1, <3>2
  <2>3. P = R
    BY <2>1, <2>2, SeqEqual
  <2> QED BY <2>3 DEF R
<1>8. /\ <<"0", "0">> \in Seq(DigitChars) /\ Len(<<"0", "0">>) = 2
      /\ <<"0", "0">>[1] = "0" /\ <<"0", "0">>[2] = "0"
  <2>1. "0" \in DigitChars
    BY <1>4, DigitOfIs DEF DigitOf
  <2> QED BY <2>1
<1> QED BY <1>2, <1>3, <1>5, <1>6, <1>7, <1>8

(* Every conversion of a code that is taken for Shanghai's. *)
LEMMA ShanghaiCode ==
  ASSUME NEW c \in Nat, PureSH(c)
  PROVE  /\ pureCodeInt_to_mktCodeInt(c) = SH_PRB + c /\ SH_PRB + c # NoCode
         /\ mktCodeInt_to_pureCodeInt(SH_PRB + c) = c /\ c # NoCode
         /\ pureCodeInt_to_mktCodeStr(c) = sh \o Padded(c, 6)
         /\ pureCodeInt_to_pureCodeStr(c) = Padded(c, 6)
         /\ mktCodeInt_to_mktCodeStr(SH_PRB + c) = sh \o Padded(c, 6)
         /\ c < TenTo(6) /\ c >= 600000 /\ c < 700000 /\ c >= SH_CODE_MIN /\ c # 0
<1>1. InSH(SH_PRB + c) /\ (SH_PRB + c) - SH_PRB = c
  BY CodeAssumption, SMT DEF PureSH, InSH, SH_CODE_MIN, SH_CODE_MAX, PRB_MK
<1>2. c # NoCode /\ SH_PRB + c # NoCode
  BY CodeAssumption DEF NoCode
<1>3. c < TenTo(6) /\ c >= 600000 /\ c < 700000 /\ c >= SH_CODE_MIN /\ c # 0 /\ ~(c < SH_CODE_MIN)
  BY PowersOfTen, SMT DEF PureSH, SH_CODE_MIN, SH_CODE_MAX
<1>4. pureCodeInt_to_mktCodeInt(c) = SH_PRB + c /\ pureCodeInt_to_mktCodeStr(c) = sh \o Padded(c, 6)
      /\ pureCodeInt_to_pureCodeStr(c) = Padded(c, 6)
  BY DEF pureCodeInt_to_mktCodeInt, pureCodeInt_to_mktCodeStr, pureCodeInt_to_pureCodeStr
<1>5. mktCodeInt_to_pureCodeInt(SH_PRB + c) = c
  BY <1>1, <1>3 DEF mktCodeInt_to_pureCodeInt
<1>6. mktCodeInt_to_mktCodeStr(SH_PRB + c) = sh \o Padded(c, 6)
  BY <1>1 DEF mktCodeInt_to_mktCodeStr
<1> QED BY <1>2, <1>3, <1>4, <1>5, <1>6

(* Every conversion of a code that is taken for Shenzhen's. *)
LEMMA ShenzhenCode ==
  ASSUME NEW c \in Nat, ~PureSH(c), PureSZ(c)
  PROVE  /\ pureCodeInt_to_mktCodeInt(c) = SZ_PRB + c /\ SZ_PRB + c # NoCode
         /\ mktCodeInt_to_pureCodeInt(SZ_PRB + c) = c /\ c # NoCode
         /\ pureCodeInt_to_mktCodeStr(c) = sz \o Padded(c, 6)
         /\ pureCodeInt_to_pureCodeStr(c) = Padded(c, 6)
         /\ mktCodeInt_to_mktCodeStr(SZ_PRB + c) = sz \o Padded(c, 8)
         /\ c < TenTo(6) /\ c < 400000 /\ c < SH_CODE_MIN /\ ~(c >= SH_CODE_MIN)
<1>1. ~InSH(SZ_PRB + c) /\ InSZ(SZ_PRB + c) /\ (SZ_PRB + c) - SZ_PRB = c
  BY CodeAssumption, SMT DEF PureSZ, InSH, InSZ, SZ_CODE_MIN, SZ_CODE_MAX, PRB_MK
<1>2. c # NoCode /\ SZ_PRB + c # NoCode
  BY CodeAssumption DEF NoCode
<1>3. c < TenTo(6) /\ c < 400000 /\ c < SH_CODE_MIN /\ ~(c >= SH_CODE_MIN)
  BY PowersOfTen, SMT DEF PureSZ, SH_CODE_MIN, SZ_CODE_MAX
<1>4. pureCodeInt_to_mktCodeInt(c) = SZ_PRB + c /\ pureCodeInt_to_mktCodeStr(c) = sz \o Padded(c, 6)
      /\ pureCodeInt_to_pureCodeStr(c) = Padded(c, 6)
  BY DEF pureCodeInt_to_mktCodeInt, pureCodeInt_to_mktCodeStr, pureCodeInt_to_pureCodeStr
<1>5. mktCodeInt_to_pureCodeInt(SZ_PRB + c) = c
  BY <1>1, <1>3 DEF mktCodeInt_to_pureCodeInt
<1>6. mktCodeInt_to_mktCodeStr(SZ_PRB + c) = sz \o Padded(c, 8)
  BY <1>1 DEF mktCodeInt_to_mktCodeStr
<1> QED BY <1>2, <1>3, <1>4, <1>5, <1>6

(* Everything but the tests for a class. *)
LEMMA TextPaths ==
  ASSUME NEW c \in Nat, c < TenTo(6), NEW m \in {sh, sz}, NEW w \in {6, 8}, NEW mktInt \in Nat,
         mktInt = (IF m = sh THEN SH_PRB ELSE SZ_PRB) + c,
         m = sh <=> c >= SH_CODE_MIN,
         m = sh <=> Padded(c, 6)[1] = "6",
         mktCodeInt_to_pureCodeInt(mktInt) = c, pureCodeInt_to_mktCodeInt(c) = mktInt
  PROVE  /\ mktCodeStr_to_mktCodeInt(m \o Padded(c, w)) = mktInt
         /\ mktCodeStr_to_pureCodeInt(m \o Padded(c, 6)) = c
         /\ mktCodeInt_to_pureCodeStr(mktInt) = Padded(c, 6)
         /\ pureCodeStr_to_mktCode(Padded(c, 6)) = mktInt
         /\ pureCodeStr_to_mktCodeStr(Padded(c, 6)) = m \o Padded(c, 6)
         /\ mktCodeStr_to_pureCodeStr(m \o Padded(c, 6))
              = IF SecondDigit(c) \in (IF m = sh THEN {6} ELSE {0, 3}) THEN Padded(c, 6) ELSE NoText
<1>1. sh # sz
  BY Markets
<1>2. Market(m \o Padded(c, w)) = m /\ NumberIn(m \o Padded(c, w)) = c
  BY CodeText
<1>3. /\ Market(m \o Padded(c, 6)) = m /\ NumberIn(m \o Padded(c, 6)) = c
      /\ Rest(m \o Padded(c, 6)) = Padded(c, 6) /\ Number(Padded(c, 6)) = c /\ Len(Padded(c, 6)) = 6
  BY CodeText
<1>4. c # NoCode
  BY DEF NoCode
<1>5. mktCodeStr_to_mktCodeInt(m \o Padded(c, w)) = mktInt
  BY <1>1, <1>2 DEF mktCodeStr_to_mktCodeInt
<1>6. mktCodeStr_to_pureCodeInt(m \o Padded(c, 6)) = c
  <2>1. m = sh => c >= SH_CODE_MIN
    OBVIOUS
  <2>2. m = sz => c < SH_CODE_MIN
    <3>1. m = sz => ~(c >= SH_CODE_MIN)
      BY <1>1
    <3>2. SH_CODE_MIN \in Nat
      BY SMT DEF SH_CODE_MIN
    <3> QED BY <3>1, <3>2
  <2> QED BY <1>1, <1>3, <2>1, <2>2 DEF mktCodeStr_to_pureCodeInt
<1>7. mktCodeInt_to_pureCodeStr(mktInt) = Padded(c, 6)
  BY <1>4 DEF mktCodeInt_to_pureCodeStr
<1>8. pureCodeStr_to_mktCode(Padded(c, 6)) = mktInt
  BY <1>3 DEF pureCodeStr_to_mktCode
<1>9. pureCodeStr_to_mktCodeStr(Padded(c, 6)) = m \o Padded(c, 6)
  BY <1>1, <1>3 DEF pureCodeStr_to_mktCodeStr
<1>10. mktCodeStr_to_pureCodeStr(m \o Padded(c, 6))
         = IF SecondDigit(c) \in (IF m = sh THEN {6} ELSE {0, 3}) THEN Padded(c, 6) ELSE NoText
  <2>1. (m \o Padded(c, 6))[4] = Padded(c, 6)[2]
    <3>1. 2 \in 1..6 /\ 2 + 2 = 4 /\ 6 \in {6, 8}
      OBVIOUS
    <3>2. \A i \in 1..6 : (m \o Padded(c, 6))[i + 2] = Padded(c, 6)[i]
      BY <3>1, CodeText
    <3> QED BY <3>1, <3>2
  <2>2. /\ Padded(c, 6)[2] = "0" <=> SecondDigit(c) = 0
        /\ Padded(c, 6)[2] = "3" <=> SecondDigit(c) = 3
        /\ Padded(c, 6)[2] = "6" <=> SecondDigit(c) = 6
    BY StockDigits
  <2>3. CASE m = sh
    BY <1>1, <1>3, <2>1, <2>2, <2>3, Zenon DEF mktCodeStr_to_pureCodeStr
  <2>4. CASE m = sz
    BY <1>1, <1>3, <2>1, <2>2, <2>4, Zenon DEF mktCodeStr_to_pureCodeStr
  <2> QED BY <2>3, <2>4
<1> QED BY <1>5, <1>6, <1>7, <1>8, <1>9, <1>10

(* What the tests see of the text of a code. *)
LEMMA ClassText ==
  ASSUME NEW c \in Nat, c < TenTo(6), NEW m \in {sh, sz}
  PROVE  /\ isStkStr(m \o Padded(c, 6)) <=>
               /\ c % 100000 < 10000
               /\ IF m = sz THEN c < 100000 \/ (c >= 300000 /\ c < 400000) ELSE c >= 600000 /\ c < 700000
         /\ ~(isStkStr(m \o Padded(c, 6)) /\ (isIdxStr(m \o Padded(c, 6)) \/ isFundStr(m \o Padded(c, 6))))
<1> DEFINE p == Padded(c, 6)
           t == m \o p
<1>1. sh # sz /\ m[1] = "s" /\ (m = sh => m[2] = "h") /\ (m = sz => m[2] = "z")
  BY Markets
<1>2. /\ t \in Seq(Chars) /\ Len(t) = 8 /\ t[1] = "s" /\ t[2] = m[2]
      /\ t[3] = p[1] /\ t[4] = p[2]
  <2>1. /\ t \in Seq(Chars) /\ Len(t) = 6 + 2 /\ t[1] = m[1] /\ t[2] = m[2]
        /\ \A i \in 1..6 : t[i + 2] = p[i]
    BY CodeText
  <2>2. 1 \in 1..6 /\ 2 \in 1..6 /\ 1 + 2 = 3 /\ 2 + 2 = 4 /\ 6 + 2 = 8
    OBVIOUS
  <2> HIDE DEF t, p
  <2> QED BY <1>1, <2>1, <2>2
<1>3. /\ p[1] = "0" <=> c < 100000
      /\ p[1] = "3" <=> c >= 300000 /\ c < 400000
      /\ p[1] = "6" <=> c >= 600000 /\ c < 700000
      /\ p[2] = "0" <=> c % 100000 < 10000
  BY StockDigits
<1> HIDE DEF t, p
<1>4. isStkStr(t) <=> p[2] = "0" /\ IF m = sz THEN p[1] \in {"0", "3"} ELSE p[1] = "6"
  BY <1>1, <1>2, StockText
<1>5. ~(isStkStr(t) /\ isIdxStr(t))
  BY <1>1, <1>2, <1>4, IndexText
<1>6. ~(isStkStr(t) /\ isFundStr(t))
  BY <1>1, <1>2, <1>4, FundText
<1>7. p[1] \in {"0", "3"} <=> p[1] = "0" \/ p[1] = "3"
  OBVIOUS
<1> QED BY <1>3, <1>4, <1>5, <1>6, <1>7, SMT DEF t, p

(* Whichever way a code is converted, through texts or numbers, it arrives *)
(* at the same code and class, but for the codes that                      *)
(* mktCodeStr_to_pureCodeStr refuses, exactly those whose second digit is  *)
(* not the one it looks for, and for the texts that                        *)
(* mktCodeInt_to_mktCodeStr makes of Shenzhen's, which have two zeros too  *)
(* many and are no stock's.                                                *)
THEOREM EveryPathAgrees ==
  \A pureCode \in Nat : PathsAgree(pureCode)
<1> SUFFICES ASSUME NEW c \in Nat, pureCodeInt_to_mktCodeInt(c) # NoCode
             PROVE  PathsAgree(c)
  BY DEF PathsAgree
<1> DEFINE mktInt == pureCodeInt_to_mktCodeInt(c)
           p == Padded(c, 6)
<1>1. sh # sz
  BY Markets
<1>2. CASE PureSH(c)
  <2>1. /\ mktInt = SH_PRB + c /\ mktCodeInt_to_pureCodeInt(mktInt) = c
        /\ pureCodeInt_to_mktCodeStr(c) = sh \o p /\ pureCodeInt_to_pureCodeStr(c) = p
        /\ mktCodeInt_to_mktCodeStr(mktInt) = sh \o p /\ c < TenTo(6)
    BY <1>2, ShanghaiCode
  <2>2. c >= 600000 /\ c < 700000 /\ c >= SH_CODE_MIN /\ c # 0
    BY <1>2, ShanghaiCode
  <2>3. mktInt \in Nat
    BY <2>1, CodeAssumption
  <2>4. p[1] = "6"
    BY <2>1, <2>2, StockDigits
  <2>5. /\ mktCodeStr_to_mktCodeInt(sh \o p) = mktInt /\ mktCodeStr_to_pureCodeInt(sh \o p) = c
        /\ mktCodeInt_to_pureCodeStr(mktInt) = p /\ pureCodeStr_to_mktCode(p) = mktInt
        /\ pureCodeStr_to_mktCodeStr(p) = sh \o p
        /\ mktCodeStr_to_pureCodeStr(sh \o p) = IF SecondDigit(c) \in {6} THEN p ELSE NoText
    <3> HIDE DEF mktInt
    <3> QED BY <2>1, <2>2, <2>3, <2>4, TextPaths DEF mktInt
  <2>6. isStkStr(sh \o p) <=> isStk(mktInt)
    <3>1. isStkStr(sh \o p) <=> c % 100000 < 10000 /\ c >= 600000 /\ c < 700000
      BY <1>1, <2>1, ClassText
    <3>2. isStk(mktInt) <=> pureCodeIsStk(c)
      BY <2>2, StockIsStockEitherWay DEF StockEitherWay
    <3>3. pureCodeIsStk(c) <=> c <= 609999
      BY <2>2, SMT DEF pureCodeIsStk, Between
    <3>4. c % 100000 < 10000 <=> c <= 609999
      BY <2>2, SMT
    <3> HIDE DEF mktInt, p
    <3> QED BY <2>2, <3>1, <3>2, <3>3, <3>4, SMT
  <2>7. ~(isStkStr(sh \o p) /\ (isIdxStr(sh \o p) \/ isFundStr(sh \o p)))
    BY <2>1, ClassText
  <2> HIDE DEF mktInt, p
  <2> QED BY <1>2, <2>1, <2>5, <2>6, <2>7, Zenon DEF PathsAgree, mktInt
<1>3. CASE ~PureSH(c) /\ PureSZ(c)
  <2>1. /\ mktInt = SZ_PRB + c /\ mktCodeInt_to_pureCodeInt(mktInt) = c
        /\ pureCodeInt_to_mktCodeStr(c) = sz \o p /\ pureCodeInt_to_pureCodeStr(c) = p
        /\ mktCodeInt_to_mktCodeStr(mktInt) = sz \o Padded(c, 8) /\ c < TenTo(6)
    BY <1>3, ShenzhenCode
  <2>2. c < 400000 /\ ~(c >= SH_CODE_MIN)
    BY <1>3, ShenzhenCode
  <2>3. mktInt \in Nat
    BY <2>1, CodeAssumption
  <2>4. p[1] # "6"
    BY <2>1, <2>2, StockDigits, SMT
  <2>5. \A w \in {6, 8} :
        /\ mktCodeStr_to_mktCodeInt(sz \o Padded(c, w)) = mktInt /\ mktCodeStr_to_pureCodeInt(sz \o p) = c
        /\ mktCodeInt_to_pureCodeStr(mktInt) = p /\ pureCodeStr_to_mktCode(p) = mktInt
        /\ pureCodeStr_to_mktCodeStr(p) = sz \o p
        /\ mktCodeStr_to_pureCodeStr(sz \o p) = IF SecondDigit(c) \in {0, 3} THEN p ELSE NoText
    <3> HIDE DEF mktInt
    <3> QED BY <1>1, <2>1, <2>2, <2>3, <2>4, TextPaths DEF mktInt
  <2>6. c # 0 => (isStkStr(sz \o p) <=> isStk(mktInt))
    <3>1. isStkStr(sz \o p) <=> /\ c % 100000 < 10000
                                /\ c < 100000 \/ (c >= 300000 /\ c < 400000)
      BY <1>1, <2>1, ClassText
    <3>2. c # 0 => (isStk(mktInt) <=> pureCodeIsStk(c))
      BY StockIsStockEitherWay DEF StockEitherWay
    <3>3. pureCodeIsStk(c) <=> (c <= 9999 \/ (c >= 300000 /\ c <= 309999))
      BY <2>2, SMT DEF pureCodeIsStk, Between
    <3>4. c % 100000 < 10000 /\ (c < 100000 \/ (c >= 300000 /\ c < 400000))
            <=> (c <= 9999 \/ (c >= 300000 /\ c <= 309999))
      BY <2>2, SMT
    <3> HIDE DEF mktInt, p
    <3> QED BY <3>1, <3>2, <3>3, <3>4
  <2>7. ~(isStkStr(sz \o p) /\ (isIdxStr(sz \o p) \/ isFundStr(sz \o p)))
    BY <2>1, ClassText
  <2>8. /\ mktCodeStr_to_mktCodeInt(sz \o p) = mktInt
        /\ mktCodeStr_to_mktCodeInt(sz \o Padded(c, 8)) = mktInt
    <3>1. 6 \in {6, 8} /\ 8 \in {6, 8}
      OBVIOUS
    <3> HIDE DEF mktInt
    <3> QED BY <2>5, <3>1
  <2>9. Padded(c, 8) = <<"0", "0">> \o p
    BY <2>1, EightDigits
  <2>10. ~isStkStr(sz \o Padded(c, 8))
    <3>1. Len(sz \o Padded(c, 8)) = 8 + 2
      BY <2>1, CodeText
    <3>2. ~(8 + 2 = 8)
      OBVIOUS
    <3> QED BY <3>1, <3>2, Zenon DEF isStkStr, StartsWith
  <2> HIDE DEF mktInt, p
  <2> QED BY <1>3, <2>1, <2>5, <2>6, <2>7, <2>8, <2>9, <2>10, Zenon DEF PathsAgree, mktInt
<1>4. PureSH(c) \/ PureSZ(c)
  BY DEF pureCodeInt_to_mktCodeInt
<1> QED BY <1>2, <1>3, <1>4

-----------------------------------------------------------------------------
(* chat_message. *)

LEMMA DigitsListed ==
  ASSUME NEW c \in DigitChars
  PROVE  c \in {"0", "1", "2", "3", "4", "5", "6", "7", "8", "9"}
<1>1. PICK i \in 1..10 : c = Digits[i]
  BY DEF DigitChars
<1>2. \/ i = 1 \/ i = 2 \/ i = 3 \/ i = 4 \/ i = 5 \/ i = 6 \/ i = 7 \/ i = 8 \/ i = 9 \/ i = 10
  OBVIOUS
<1>3. /\ Digits[1] = "0" /\ Digits[2] = "1" /\ Digits[3] = "2" /\ Digits[4] = "3" /\ Digits[5] = "4"
      /\ Digits[6] = "5" /\ Digits[7] = "6" /\ Digits[8] = "7" /\ Digits[9] = "8" /\ Digits[10] = "9"
  BY DEF Digits
<1> QED BY <1>1, <1>2, <1>3

IsSign(c) == c \in {"-", "+"}

LEMMA BlanksAndSigns ==
  /\ " " \in Blanks
  /\ \A c \in DigitChars : c \notin Blanks /\ ~IsSign(c)
<1>1. " " \in Blanks
  BY Zenon DEF Blanks
<1>2. \A c \in {"0", "1", "2", "3", "4", "5", "6", "7", "8", "9"} : c \notin Blanks /\ ~IsSign(c)
  BY Zenon DEF Blanks, IsSign
<1> QED BY <1>1, <1>2, DigitsListed, Zenon

(* atoi skips blanks and reads the digits behind them. *)
LEMMA BlanksSkipped ==
  ASSUME NEW S, NEW X \in Seq(S), NEW P \in Seq(S)
  PROVE  /\ \A i \in 1..Len(X) : X[i] \in Blanks
         /\ \A i \in 1..Len(P) : P[i] \in DigitChars
         /\ Len(P) > 0
         => atoi(X \o P) = Number(P)
<1>1. SUFFICES ASSUME \A i \in 1..Len(X) : X[i] \in Blanks, \A i \in 1..Len(P) : P[i] \in DigitChars, Len(P) > 0
               PROVE  atoi(X \o P) = Number(P)
  OBVIOUS
<1>2. PICK k \in Nat, p \in Nat : k = Len(X) /\ p = Len(P) /\ p > 0
  BY <1>1
<1>3. PICK text \in Seq(S) : text = X \o P /\ Len(text) = k + p
                             /\ (\A i \in 1..k : text[i] = X[i]) /\ (\A j \in 1..p : text[k + j] = P[j])
  <2>1. Beside(X, P) \in Seq(S) /\ AreBeside(X, P, Beside(X, P))
    BY JoinedTexts
  <2> QED BY <1>2, <2>1 DEF AreBeside, Beside
<1>4. \A i \in 1..k : text[i] \in Blanks
  BY <1>1, <1>2, <1>3
<1>5. \A i \in (k + 1)..(k + p) : text[i] \in DigitChars
  <2> TAKE i \in (k + 1)..(k + p)
  <2>1. i - k \in 1..p /\ k + (i - k) = i
    OBVIOUS
  <2> QED BY <1>1, <1>2, <1>3, <2>1
<1>6. FindFirstNotOf(text, Blanks) = k + 1
  <2> DEFINE F == {Len(text) + 1} \cup {i \in DOMAIN text : text[i] \notin Blanks}
  <2>1. k + 1 \in F
    <3>1. k + 1 \in 1..(k + p) /\ k + 1 \in (k + 1)..(k + p) /\ DOMAIN text = 1..(k + p)
      BY <1>2, <1>3
    <3> QED BY <1>5, <3>1, BlanksAndSigns
  <2>2. F \subseteq Nat /\ \A i \in F : k + 1 <= i
    <3>1. ASSUME NEW i \in F PROVE i \in Nat /\ k + 1 <= i
      <4>1. i = k + p + 1 \/ (i \in 1..(k + p) /\ text[i] \notin Blanks)
        BY <1>3
      <4>2. i \in 1..(k + p) /\ text[i] \notin Blanks => i > k
        BY <1>4
      <4> QED BY <1>2, <4>1, <4>2
    <3> QED BY <3>1
  <2> HIDE DEF F
  <2>3. Min(F) \in F /\ Min(F) <= k + 1
    BY <2>1, <2>2, MinOf
  <2>4. Min(F) = k + 1
    <3>1. PICK z \in Nat : z = Min(F) /\ z <= k + 1 /\ z \in F
      BY <2>2, <2>3
    <3>2. k + 1 <= z
      BY <2>2, <3>1
    <3> QED BY <3>1, <3>2
  <2> QED BY <2>4 DEF FindFirstNotOf, F
<1>7. ~IsSign(text[k + 1])
  <2>1. k + 1 \in (k + 1)..(k + p)
    BY <1>2
  <2> QED BY <1>5, <2>1, BlanksAndSigns
<1> DEFINE E == {i \in (k + 1)..(Len(text) + 1) : i = Len(text) + 1 \/ ~IsDigit(text[i])}
<1>8. Min(E) = k + p + 1
  <2>1. E \subseteq Nat /\ k + p + 1 \in E
    BY <1>3
  <2>2. \A i \in E : i = k + p + 1
    <3> TAKE i \in E
    <3>1. i \in (k + 1)..(k + p + 1) /\ (i = k + p + 1 \/ ~IsDigit(text[i]))
      BY <1>3
    <3>2. i \in (k + 1)..(k + p) => IsDigit(text[i])
      BY <1>5, DigitFacts
    <3> QED BY <3>1, <3>2
  <2> HIDE DEF E
  <2>3. Min(E) \in E
    BY <2>1, MinOf
  <2> QED BY <2>2, <2>3
<1>9. SubSeq(text, k + 1, k + p) = P
  <2>1. \A i \in (k + 1)..(k + p) : text[i] \in S
    <3> TAKE i \in (k + 1)..(k + p)
    <3>1. i \in 1..Len(text)
      BY <1>3
    <3> QED BY <3>1, ElementOfSeq
  <2>2. PICK a \in Nat, b \in Nat : a = k + 1 /\ b = k + p /\ b - a + 1 = p /\ a <= b
    <3>1. k + 1 \in Nat /\ k + p \in Nat /\ (k + p) - (k + 1) + 1 = p /\ k + 1 <= k + p
      BY <1>2
    <3> QED BY <3>1
  <2>3. /\ SubSeq(text, a, b) \in Seq(S) /\ Len(SubSeq(text, a, b)) = (IF a <= b THEN b - a + 1 ELSE 0)
        /\ \A i \in 1..b - a + 1 : SubSeq(text, a, b)[i] = text[a + i - 1]
    BY <2>1, <2>2, SubSeqProperties
  <2>4. Len(SubSeq(text, a, b)) = p
    BY <2>2, <2>3
  <2>5. \A i \in 1..p : SubSeq(text, a, b)[i] = P[i]
    <3> TAKE i \in 1..p
    <3>1. a + i - 1 = k + i /\ i \in 1..b - a + 1
      BY <2>2
    <3> QED BY <1>3, <2>3, <3>1
  <2>6. SubSeq(text, a, b) = P
    BY <1>2, <2>3, <2>4, <2>5, SeqEqual
  <2> QED BY <2>2, <2>6
<1>10. atoi(text) = Number(SubSeq(text, k + 1, Min(E) - 1))
  <2>1. k + 1 <= Len(text) /\ ~(text[k + 1] \in {"-", "+"})
    BY <1>2, <1>3, <1>7 DEF IsSign
  <2> QED BY <1>6, <2>1, Zenon DEF atoi, E
<1>11. Min(E) - 1 = k + p
  BY <1>8
<1> QED BY <1>3, <1>9, <1>10, <1>11

(* What encode_header writes for a length, and what atoi reads. *)
HeaderOf(n) == [i \in 1..(header_length - Len(Padded(n, 1))) |-> " "] \o Padded(n, 1)

(* A header of at most four digits is read as the number it was written    *)
(* from.                                                                   *)
LEMMA HeaderRead ==
  ASSUME NEW n \in Nat
  PROVE  n <= max_body_length => atoi(HeaderOf(n)) = n
<1>1. SUFFICES ASSUME n <= max_body_length PROVE atoi(HeaderOf(n)) = n
  OBVIOUS
<1>2. n < TenTo(9) /\ 1 \in 1..9
  BY <1>1, PowersOfTen, SMT DEF max_body_length
<1>3. Padded(n, 1) \in Seq(DigitChars) /\ Len(Padded(n, 1)) \in 1..9 /\ Number(Padded(n, 1)) = n
  BY <1>2, PaddedIs, NumberPadded
<1>4. PICK P \in Seq(DigitChars) : P = Padded(n, 1) /\ Len(P) > 0 /\ Number(P) = n
  <2>1. Len(Padded(n, 1)) > 0
    <3>1. \A z \in 1..9 : z > 0
      OBVIOUS
    <3> QED BY <1>3, <3>1, Zenon
  <2> QED BY <1>3, <2>1, Zenon
<1>5. PICK blank : blank = " " /\ blank \in Blanks
  BY BlanksAndSigns, Zenon
<1>6. blank \in Blanks
  BY <1>5, Zenon
<1> DEFINE S == DigitChars \cup {blank}
           k == 4 - Len(P)
           X == [i \in 1..k |-> blank]
<1>7. PICK z \in Nat : z = (IF k >= 0 THEN k ELSE 0)
  BY <1>4
<1>8. 1..k = 1..z
  BY <1>4, <1>7
<1>9. X \in Seq(S) /\ Len(X) = z /\ \A i \in 1..Len(X) : X[i] \in Blanks
  <2> HIDE DEF k
  <2>1. X = [i \in 1..z |-> blank]
    BY <1>8
  <2>2. [i \in 1..z |-> blank] \in Seq(S)
    OBVIOUS
  <2>3. Len([i \in 1..z |-> blank]) = z
    OBVIOUS
  <2> QED BY <1>6, <2>1, <2>2, <2>3
<1>10. P \in Seq(S) /\ \A i \in 1..Len(P) : P[i] \in DigitChars
  OBVIOUS
<1>11. HeaderOf(n) = X \o P
  BY <1>4, <1>5, Zenon DEF HeaderOf, header_length
<1> HIDE DEF S, X
<1>12. atoi(X \o P) = Number(P)
  BY <1>4, <1>9, <1>10, BlanksSkipped
<1> QED BY <1>4, <1>11, <1>12

(* A message, and what is made of it on both ends. *)
Message(h, x, m) == [header |-> h, body |-> x, body_length_ |-> m]

LEMMA MessageFields ==
  ASSUME NEW h, NEW x, NEW m, NEW z
  PROVE  /\ Message(h, x, m).header = h /\ Message(h, x, m).body = x /\ Message(h, x, m).body_length_ = m
         /\ [Message(h, x, m) EXCEPT !.header = z] = Message(z, x, m)
         /\ [Message(h, x, m) EXCEPT !.body = z] = Message(h, z, m)
         /\ [Message(h, x, m) EXCEPT !.body_length_ = z] = Message(h, x, z)
BY DEF Message

Cut(n) == IF n > max_body_length THEN max_body_length ELSE n

(* What a message that is framed consists of. *)
LEMMA MessageSent ==
  ASSUME NEW h, NEW x, NEW n \in Nat
  PROVE  encode_header(body_length(Message(h, x, 0), n)) = Message(HeaderOf(Cut(n)), x, Cut(n))
<1>1. body_length(Message(h, x, 0), n) = Message(h, x, Cut(n))
  BY MessageFields DEF body_length, Cut
<1>2. PICK msg : msg = Message(h, x, Cut(n))
  OBVIOUS
<1>3. encode_header(msg) = [msg EXCEPT !.header = HeaderOf(msg.body_length_)]
  BY Zenon DEF encode_header, HeaderOf
<1>4. PICK z : z = HeaderOf(Cut(n))
  OBVIOUS
<1>5. msg.body_length_ = Cut(n) /\ [msg EXCEPT !.header = z] = Message(z, x, Cut(n))
  BY <1>2, MessageFields
<1> QED BY <1>1, <1>2, <1>3, <1>4, <1>5

(* A header that was written by encode_header is accepted. *)
LEMMA MessageReceived ==
  ASSUME NEW x, NEW m \in Nat, NEW z
  PROVE  m <= max_body_length
         => decode_header(Message(HeaderOf(m), x, z)) = [ok |-> TRUE, msg |-> Message(HeaderOf(m), x, m)]
<1>1. SUFFICES ASSUME m <= max_body_length
               PROVE  decode_header(Message(HeaderOf(m), x, z)) = [ok |-> TRUE, msg |-> Message(HeaderOf(m), x, m)]
  OBVIOUS
<1>2. PICK h : h = HeaderOf(m) /\ atoi(h) = m
  BY <1>1, HeaderRead
<1>3. PICK msg : msg = Message(h, x, z)
  OBVIOUS
<1>4. msg.header = h /\ [msg EXCEPT !.body_length_ = m] = Message(h, x, m)
  BY <1>3, MessageFields
<1>5. Fits(m)
  BY <1>1 DEF Fits
<1>6. decode_header(msg) = [ok |-> TRUE, msg |-> [msg EXCEPT !.body_length_ = m]]
  BY <1>2, <1>4, <1>5 DEF decode_header
<1> QED BY <1>2, <1>3, <1>4, <1>6

LEMMA CutFits == ASSUME NEW n \in Nat PROVE Cut(n) \in Nat /\ Cut(n) <= max_body_length
BY DEF Cut, max_body_length

LEMMA EmptyIs == \E h : Empty = Message(h, <<>>, 0)
BY Zenon DEF Empty, Message

(* Any length a body is given arrives as it is, or as the longest one.     *)
THEOREM LengthsArrive ==
  ASSUME NEW n \in Nat
  PROVE  LengthArrives(n)
<1>1. PICK h, x : Empty = Message(h, x, 0)
  BY EmptyIs
<1>2. PICK sent : sent = Message(HeaderOf(Cut(n)), x, Cut(n))
  OBVIOUS
<1>3. encode_header(body_length(Empty, n)) = sent
  BY <1>1, <1>2, MessageSent
<1>4. decode_header(sent) = [ok |-> TRUE, msg |-> sent]
  BY <1>2, CutFits, MessageReceived
<1> QED BY <1>3, <1>4, Zenon DEF LengthArrives

-----------------------------------------------------------------------------
(* s4json_util. *)

(***************************************************************************)
(* searchJson.                                                             *)
(***************************************************************************)

LEMMA TheBrackets ==
  /\ LeftBrace # Quote /\ LeftBrace # LeftBracket /\ Quote # LeftBracket
  /\ RightBrace \notin {LeftBrace, LeftBracket, Quote, RightBracket}
  /\ RightBracket \notin {LeftBrace, LeftBracket, Quote}
BY Zenon DEF LeftBrace, LeftBracket, RightBrace, RightBracket, Quote

LEMMA EscapeIs ==
  Escape \notin {LeftBrace, LeftBracket, RightBrace, RightBracket, Quote}
BY Zenon DEF LeftBrace, LeftBracket, RightBrace, RightBracket, Quote, Escape

LEMMA OneLong ==
  ASSUME NEW S, NEW x \in Seq(S), Len(x) = 1
  PROVE  x = <<x[1]>>
<1>1. x[1] \in S
  <2>1. 1 \in 1..Len(x)
    OBVIOUS
  <2> QED BY <2>1, ElementOfSeq
<1>2. PICK y \in Seq(S) : y = <<x[1]>> /\ Len(y) = 1 /\ y[1] = x[1]
  <2>1. <<x[1]>> \in Seq(S)
    BY <1>1
  <2> QED BY <2>1
<1>3. \A i \in 1..Len(x) : x[i] = y[i]
  <2> TAKE i \in 1..Len(x)
  <2>1. i = 1
    OBVIOUS
  <2> QED BY <1>2, <2>1
<1>4. x = y
  BY <1>2, <1>3, SeqEqual
<1> QED BY <1>2, <1>4

(* std::string::find of one character. *)
IsPlaceOf(pos, text, c) ==
  \/ pos = 0 /\ \A i \in 1..Len(text) : text[i] # c
  \/ pos \in 1..Len(text) /\ text[pos] = c /\ \A i \in 1..(pos - 1) : text[i] # c

(* Find finds the first place of a character, or none. *)
LEMMA CharacterFound ==
  ASSUME NEW S, NEW text \in Seq(S), NEW c
  PROVE  IsPlaceOf(Find(text, <<c>>, 1), text, c)
<1> DEFINE Places == {i \in 1..(Len(text) - Len(<<c>>) + 1) : SubSeq(text, i, i + Len(<<c>>) - 1) = <<c>>}
<1>1. PICK n \in Nat : n = Len(text)
  OBVIOUS
<1>2. \A i \in 1..n : SubSeq(text, i, i) = <<text[i]>>
  <2> TAKE i \in 1..n
  <2>1. \A j \in i..i : text[j] \in S
    BY <1>1
  <2>2. /\ SubSeq(text, i, i) \in Seq(S) /\ Len(SubSeq(text, i, i)) = (IF i <= i THEN i - i + 1 ELSE 0)
        /\ \A j \in 1..i - i + 1 : SubSeq(text, i, i)[j] = text[i + j - 1]
    BY <2>1, SubSeqProperties
  <2>3. Len(SubSeq(text, i, i)) = 1 /\ SubSeq(text, i, i)[1] = text[i]
    <3>1. (IF i <= i THEN i - i + 1 ELSE 0) = 1 /\ 1 \in 1..i - i + 1 /\ i + 1 - 1 = i
      OBVIOUS
    <3> QED BY <2>2, <3>1
  <2> QED BY <2>2, <2>3, OneLong
<1>3. Places = {i \in 1..n : text[i] = c}
  <2>1. Len(<<c>>) = 1 /\ n - 1 + 1 = n /\ \A i \in 1..n : i + 1 - 1 = i
    OBVIOUS
  <2>2. Places = {i \in 1..n : SubSeq(text, i, i) = <<c>>}
    BY <1>1, <2>1
  <2>3. \A x : <<x>> = <<c>> <=> x = c
    OBVIOUS
  <2> QED BY <1>2, <2>2, <2>3
<1> HIDE DEF Places
<1>4. Find(text, <<c>>, 1) = IF Places = {} THEN 0 ELSE Min(Places)
  BY Zenon DEF Find, Places
<1>5. CASE Places = {}
  BY <1>1, <1>3, <1>4, <1>5 DEF IsPlaceOf
<1>6. CASE Places # {}
  <2>1. Places \subseteq Nat
    BY <1>3
  <2>2. PICK z : z = Min(Places) /\ z \in Places /\ \A i \in Places : z <= i
    BY <1>6, <2>1, MinOf
  <2>3. z \in 1..n /\ text[z] = c /\ \A i \in 1..(z - 1) : text[i] # c
    <3>1. z \in 1..n /\ text[z] = c
      BY <1>3, <2>2
    <3>2. ASSUME NEW i \in 1..(z - 1) PROVE text[i] # c
      <4>1. i \in 1..n /\ ~(z <= i)
        BY <3>1
      <4> QED BY <1>3, <2>2, <4>1
    <3> QED BY <3>1, <3>2
  <2> QED BY <1>1, <1>4, <1>6, <2>2, <2>3 DEF IsPlaceOf
<1> QED BY <1>5, <1>6

(***************************************************************************)
(* The stack is never empty: the first '{' stays at its bottom.            *)
(***************************************************************************)
Stacks == {o \in Seq({LeftBrace, LeftBracket, Quote}) : Len(o) > 0 /\ o[Len(o)] = LeftBrace}
Verdicts == {"found", "JSON_WAITING_STOP", "JSON_ILLEGAL_STOP"}
Scans == [open : Stacks, stop : Int, skip : BOOLEAN, ec : Verdicts]

LEMMA StackPushed ==
  ASSUME NEW o \in Stacks, NEW c \in {LeftBrace, LeftBracket, Quote}
  PROVE  <<c>> \o o \in Stacks
<1> DEFINE T == {LeftBrace, LeftBracket, Quote}
<1>1. o \in Seq(T) /\ Len(o) > 0 /\ o[Len(o)] = LeftBrace
  BY DEF Stacks
<1>2. <<c>> \in Seq(T) /\ Len(<<c>>) = 1
  OBVIOUS
<1> HIDE DEF T
<1>3. PICK x \in Seq(T) : x = <<c>> /\ Len(x) = 1
  BY <1>2
<1>4. Beside(x, o) \in Seq(T) /\ AreBeside(x, o, Beside(x, o))
  BY <1>1, <1>3, JoinedTexts
<1>5. PICK n \in Nat : n = Len(o) /\ n > 0
  BY <1>1
<1>6. Len(Beside(x, o)) = n + 1 /\ Beside(x, o)[1 + n] = o[n]
  BY <1>3, <1>4, <1>5 DEF AreBeside
<1>7. Len(Beside(x, o)) > 0 /\ Beside(x, o)[Len(Beside(x, o))] = LeftBrace
  BY <1>1, <1>5, <1>6
<1> QED BY <1>3, <1>4, <1>7 DEF Stacks, Beside, T

(* What is taken away is never the first '{'. *)
LEMMA StackPopped ==
  ASSUME NEW o \in Stacks
  PROVE  (o[1] # LeftBrace \/ o # <<LeftBrace>>) => Tail(o) \in Stacks
<1> DEFINE T == {LeftBrace, LeftBracket, Quote}
<1>1. o \in Seq(T) /\ Len(o) > 0 /\ o[Len(o)] = LeftBrace
  BY DEF Stacks
<1> HIDE DEF T
<1>2. PICK n \in Nat : n = Len(o) /\ n > 0
  BY <1>1
<1>3. o[1] # LeftBrace \/ o # <<LeftBrace>> => n > 1
  <2>1. n = 1 => o = <<o[1]>> /\ o[1] = LeftBrace
    BY <1>1, <1>2, OneLong
  <2> QED BY <1>2, <2>1
<1>4. Tail(o) \in Seq(T) /\ Len(Tail(o)) = n - 1 /\ \A i \in 1..(n - 1) : Tail(o)[i] = o[i + 1]
  BY <1>1, <1>2, HeadTailProperties
<1>5. n > 1 => Len(Tail(o)) > 0 /\ Tail(o)[Len(Tail(o))] = o[n]
  BY <1>4
<1> QED BY <1>1, <1>2, <1>3, <1>4, <1>5 DEF Stacks, T

Waiting(s) == s.ec = "JSON_WAITING_STOP"
Scan(o, n, k, e) == [open |-> o, stop |-> n, skip |-> k, ec |-> e]

LEMMA ScanFields ==
  ASSUME NEW o, NEW n, NEW k, NEW e
  PROVE  /\ Scan(o, n, k, e).open = o /\ Scan(o, n, k, e).stop = n
         /\ Scan(o, n, k, e).skip = k /\ Scan(o, n, k, e).ec = e
BY DEF Scan
LEMMA ScanStep ==
  ASSUME NEW o, NEW n, NEW k, NEW e
  PROVE  Go(Scan(o, n, k, e)) = Scan(o, n + 1, k, e)
BY DEF Scan, Go
LEMMA ScanOpens ==
  ASSUME NEW o, NEW n, NEW k, NEW e, NEW p
  PROVE  [Scan(o, n, k, e) EXCEPT !.open = p] = Scan(p, n, k, e)
BY DEF Scan
LEMMA ScanSkips ==
  ASSUME NEW o, NEW n, NEW k, NEW e, NEW x
  PROVE  [Scan(o, n, k, e) EXCEPT !.skip = x] = Scan(o, n, x, e)
BY DEF Scan
LEMMA ScanEnds ==
  ASSUME NEW o, NEW n, NEW k, NEW e, NEW x
  PROVE  Ends(Scan(o, n, k, e), x) = Scan(o, n, k, x)
BY DEF Scan, Ends
LEMMA ScanPush ==
  ASSUME NEW o, NEW n, NEW k, NEW e, NEW b
  PROVE  Push(Scan(o, n, k, e), b) = Scan(<<b>> \o o, n + 1, k, e)
<1>1. Go(Scan(o, n, k, e)) = Scan(o, n + 1, k, e)
  BY ScanStep
<1>2. PICK g : g = Scan(o, n + 1, k, e)
  OBVIOUS
<1>3. PICK p : p = <<b>> \o o
  OBVIOUS
<1>4. g.open = o
  BY <1>2, ScanFields
<1>5. Push(Scan(o, n, k, e), b) = [g EXCEPT !.open = p]
  BY <1>1, <1>2, <1>3, <1>4, Zenon DEF Push
<1>6. [g EXCEPT !.open = p] = Scan(p, n + 1, k, e)
  BY <1>2, ScanOpens
<1> QED BY <1>3, <1>5, <1>6
LEMMA ScanPop ==
  ASSUME NEW o, NEW n, NEW k, NEW e
  PROVE  Pop(Scan(o, n, k, e)) = Scan(Tail(o), n + 1, k, e)
<1>1. Go(Scan(o, n, k, e)) = Scan(o, n + 1, k, e)
  BY ScanStep
<1>2. PICK g : g = Scan(o, n + 1, k, e)
  OBVIOUS
<1>3. PICK p : p = Tail(o)
  OBVIOUS
<1>4. g.open = o
  BY <1>2, ScanFields
<1>5. Pop(Scan(o, n, k, e)) = [g EXCEPT !.open = p]
  BY <1>1, <1>2, <1>3, <1>4, Zenon DEF Pop
<1>6. [g EXCEPT !.open = p] = Scan(p, n + 1, k, e)
  BY <1>2, ScanOpens
<1> QED BY <1>3, <1>5, <1>6
LEMMA ScanSkip ==
  ASSUME NEW o, NEW n, NEW k, NEW e
  PROVE  Skip(Scan(o, n, k, e)) = Scan(o, n + 1, TRUE, e)
<1>1. Go(Scan(o, n, k, e)) = Scan(o, n + 1, k, e)
  BY ScanStep
<1>2. PICK g : g = Scan(o, n + 1, k, e)
  OBVIOUS
<1>3. \A x : [g EXCEPT !.skip = x] = Scan(o, n + 1, x, e)
  BY <1>2, ScanSkips
<1> QED BY <1>1, <1>2, <1>3, Zenon DEF Skip
LEMMA ScanSkipped ==
  ASSUME NEW o, NEW n, NEW k, NEW e
  PROVE  Skipped(Scan(o, n, k, e)) = Scan(o, n + 1, FALSE, e)
<1>1. Go(Scan(o, n, k, e)) = Scan(o, n + 1, k, e)
  BY ScanStep
<1>2. PICK g : g = Scan(o, n + 1, k, e)
  OBVIOUS
<1>3. \A x : [g EXCEPT !.skip = x] = Scan(o, n + 1, x, e)
  BY <1>2, ScanSkips
<1> QED BY <1>1, <1>2, <1>3, Zenon DEF Skipped

Awaiting == "JSON_WAITING_STOP"

(* What a character makes of a scan, wherever in a text that is. *)
Outcomes == {r \in Scans : r.stop = IF r.ec = Awaiting THEN 1 ELSE 0}
From(r, n) == Scan(r.open, n + r.stop, r.skip, r.ec)
TakenAs(o, k, c, r) == \A n \in Int : Take(Scan(o, n, k, Awaiting), c) = From(r, n)

LEMMA OutcomeOf ==
  ASSUME NEW o \in Stacks, NEW k \in BOOLEAN, NEW e \in Verdicts, NEW d \in Int
  PROVE  d = (IF e = Awaiting THEN 1 ELSE 0) => Scan(o, d, k, e) \in Outcomes
BY DEF Scan, Scans, Outcomes

LEMMA FromOutcome ==
  ASSUME NEW o, NEW k, NEW e, NEW d, NEW n
  PROVE  From(Scan(o, d, k, e), n) = Scan(o, n + d, k, e)
BY ScanFields DEF From

LEMMA VerdictsAre ==
  /\ Awaiting \in Verdicts /\ "found" \in Verdicts /\ "JSON_ILLEGAL_STOP" \in Verdicts
  /\ Awaiting # "found" /\ Awaiting # "JSON_ILLEGAL_STOP"
BY DEF Awaiting, Verdicts

(* Reads on with another stack, or ends with a verdict. *)
LEMMA ReadsOn ==
  ASSUME NEW o \in Stacks, NEW k \in BOOLEAN, NEW c, NEW p \in Stacks, NEW q \in BOOLEAN,
         \A n \in Int : Take(Scan(o, n, k, Awaiting), c) = Scan(p, n + 1, q, Awaiting)
  PROVE  \E r \in Outcomes : TakenAs(o, k, c, r)
<1>1. Scan(p, 1, q, Awaiting) \in Outcomes
  BY OutcomeOf, VerdictsAre
<1>2. \A n \in Int : From(Scan(p, 1, q, Awaiting), n) = Scan(p, n + 1, q, Awaiting)
  BY FromOutcome
<1>3. TakenAs(o, k, c, Scan(p, 1, q, Awaiting))
  BY <1>2 DEF TakenAs
<1> QED BY <1>1, <1>3

LEMMA EndsWith ==
  ASSUME NEW o \in Stacks, NEW k \in BOOLEAN, NEW c, NEW e \in Verdicts, e # Awaiting,
         \A n \in Int : Take(Scan(o, n, k, Awaiting), c) = Scan(o, n, k, e)
  PROVE  \E r \in Outcomes : TakenAs(o, k, c, r)
<1>1. Scan(o, 0, k, e) \in Outcomes
  BY OutcomeOf
<1>2. \A n \in Int : From(Scan(o, 0, k, e), n) = Scan(o, n, k, e)
  <2> TAKE n \in Int
  <2>1. n + 0 = n
    OBVIOUS
  <2> QED BY <2>1, FromOutcome
<1>3. TakenAs(o, k, c, Scan(o, 0, k, e))
  BY <1>2 DEF TakenAs
<1> QED BY <1>1, <1>3

(* The cases of Bracket. *)
LEMMA BracketCases ==
  ASSUME NEW s, NEW c
  PROVE  /\ c \in {LeftBrace, LeftBracket} => Bracket(s, c) = Push(s, c)
         /\ c = Quote => Bracket(s, c) = IF Open(s) = Quote THEN Pop(s) ELSE Push(s, Quote)
         /\ c = RightBracket => Bracket(s, c) = Close(s, LeftBracket)
         /\ c = RightBrace => Bracket(s, c) = IF s.open = <<LeftBrace>> THEN Ends(s, "found") ELSE Close(s, LeftBrace)
         /\ c \notin {LeftBrace, LeftBracket, Quote, RightBracket, RightBrace} => Bracket(s, c) = Go(s)
<1>1. c \in {LeftBrace, LeftBracket} => Bracket(s, c) = Push(s, c)
  BY TheBrackets DEF Bracket
<1>2. c = Quote => Bracket(s, c) = IF Open(s) = Quote THEN Pop(s) ELSE Push(s, Quote)
  BY TheBrackets DEF Bracket
<1>3. c = RightBracket => Bracket(s, c) = Close(s, LeftBracket)
  BY TheBrackets DEF Bracket
<1>4. c = RightBrace => Bracket(s, c) = IF s.open = <<LeftBrace>> THEN Ends(s, "found") ELSE Close(s, LeftBrace)
  BY TheBrackets DEF Bracket
<1>5. c \notin {LeftBrace, LeftBracket, Quote, RightBracket, RightBrace} => Bracket(s, c) = Go(s)
  BY TheBrackets DEF Bracket
<1> QED BY <1>1, <1>2, <1>3, <1>4, <1>5

(* Whatever a character is, it moves the scan by one place or ends it      *)
(* there, and what it does depends on the open brackets and the skip only, *)
(* never on the place.                                                     *)
LEMMA TakeIs ==
  ASSUME NEW o \in Stacks, NEW k \in BOOLEAN, NEW c
  PROVE  \E r \in Outcomes : TakenAs(o, k, c, r)
<1> DEFINE s(n) == Scan(o, n, k, Awaiting)
<1>1. \A n \in Int : s(n).open = o /\ Open(s(n)) = o[1] /\ s(n).skip = k /\ s(n).ec = Awaiting
  BY ScanFields DEF Open
<1>2. \A n \in Int : Go(s(n)) = Scan(o, n + 1, k, Awaiting)
  BY ScanStep
<1>3. /\ \A n \in Int : Skip(s(n)) = Scan(o, n + 1, TRUE, Awaiting)
      /\ \A n \in Int : Skipped(s(n)) = Scan(o, n + 1, FALSE, Awaiting)
  <2>1. \A n \in Int : Skip(s(n)) = Scan(o, n + 1, TRUE, Awaiting)
    BY ScanSkip, Zenon
  <2>2. \A n \in Int : Skipped(s(n)) = Scan(o, n + 1, FALSE, Awaiting)
    BY ScanSkipped, Zenon
  <2> QED BY <2>1, <2>2
<1>4. \A n \in Int : Pop(s(n)) = Scan(Tail(o), n + 1, k, Awaiting)
  BY ScanPop
<1>5. \A n \in Int : \A b : Push(s(n), b) = Scan(<<b>> \o o, n + 1, k, Awaiting)
  BY ScanPush, ZenonT(40)
<1>6. \A n \in Int : \A e : Ends(s(n), e) = Scan(o, n, k, e)
  BY ScanEnds
<1> HIDE DEF s
<1>7. \A n \in Int : Take(s(n), c) = IF k THEN Skipped(s(n)) ELSE IF c = Escape THEN Skip(s(n)) ELSE Bracket(s(n), c)
  BY <1>1 DEF Take, Awaiting
<1>8. ASSUME NEW p \in Stacks, NEW q \in BOOLEAN, \A n \in Int : Take(s(n), c) = Scan(p, n + 1, q, Awaiting)
      PROVE  \E r \in Outcomes : TakenAs(o, k, c, r)
  BY <1>8, ReadsOn DEF s
<1>9. ASSUME NEW e \in Verdicts, e # Awaiting, \A n \in Int : Take(s(n), c) = Scan(o, n, k, e)
      PROVE  \E r \in Outcomes : TakenAs(o, k, c, r)
  BY <1>9, EndsWith DEF s
<1>10. CASE k
  <2>1. \A n \in Int : Take(s(n), c) = Scan(o, n + 1, FALSE, Awaiting)
    BY <1>3, <1>7, <1>10
  <2> QED BY <1>8, <2>1
<1>11. CASE ~k /\ c = Escape
  <2>1. \A n \in Int : Take(s(n), c) = Scan(o, n + 1, TRUE, Awaiting)
    BY <1>3, <1>7, <1>11
  <2> QED BY <1>8, <2>1
<1>12. CASE ~k /\ c # Escape
  <2>1. \A n \in Int : Take(s(n), c) = Bracket(s(n), c)
    BY <1>7, <1>12
  <2>2. CASE c \in {LeftBrace, LeftBracket}
    <3>1. \A n \in Int : Take(s(n), c) = Scan(<<c>> \o o, n + 1, k, Awaiting)
      BY <1>5, <2>1, <2>2, BracketCases
    <3>2. <<c>> \o o \in Stacks
      BY <2>2, StackPushed
    <3> QED BY <1>8, <3>1, <3>2
  <2>3. CASE c = Quote /\ o[1] # Quote
    <3>1. \A n \in Int : Take(s(n), c) = Scan(<<Quote>> \o o, n + 1, k, Awaiting)
      BY <1>1, <1>5, <2>1, <2>3, BracketCases
    <3>2. <<Quote>> \o o \in Stacks
      BY StackPushed
    <3> QED BY <1>8, <3>1, <3>2
  <2>4. ASSUME \A n \in Int : Take(s(n), c) = Pop(s(n)), o[1] # LeftBrace \/ o # <<LeftBrace>>
        PROVE  \E r \in Outcomes : TakenAs(o, k, c, r)
    <3>1. Tail(o) \in Stacks
      BY <2>4, StackPopped
    <3>2. \A n \in Int : Take(s(n), c) = Scan(Tail(o), n + 1, k, Awaiting)
      BY <1>4, <2>4
    <3> QED BY <1>8, <3>1, <3>2
  <2>5. ASSUME NEW e \in Verdicts, e # Awaiting, \A n \in Int : Take(s(n), c) = Ends(s(n), e)
        PROVE  \E r \in Outcomes : TakenAs(o, k, c, r)
    <3>1. \A n \in Int : Take(s(n), c) = Scan(o, n, k, e)
      BY <1>6, <2>5
    <3> QED BY <1>9, <2>5, <3>1
  <2>6. CASE c = Quote /\ o[1] = Quote
    <3>1. \A n \in Int : Take(s(n), c) = Pop(s(n))
      BY <1>1, <2>1, <2>6, BracketCases
    <3> QED BY <2>4, <2>6, <3>1, TheBrackets
  <2>7. ASSUME NEW b, \A n \in Int : Take(s(n), c) = Close(s(n), b), b # LeftBrace \/ o # <<LeftBrace>>
        PROVE  \E r \in Outcomes : TakenAs(o, k, c, r)
    <3>1. CASE o[1] = b
      <4>1. \A n \in Int : Take(s(n), c) = Pop(s(n))
        BY <1>1, <2>7, <3>1 DEF Close
      <4> QED BY <2>4, <2>7, <3>1, <4>1
    <3>2. CASE o[1] # b
      <4>1. \A n \in Int : Take(s(n), c) = Ends(s(n), "JSON_ILLEGAL_STOP")
        BY <1>1, <2>7, <3>2 DEF Close
      <4> QED BY <2>5, <4>1, VerdictsAre
    <3> QED BY <3>1, <3>2
  <2>8. CASE c = RightBracket
    <3>1. \A n \in Int : Take(s(n), c) = Close(s(n), LeftBracket)
      BY <2>1, <2>8, BracketCases
    <3> QED BY <2>7, <3>1, TheBrackets
  <2>9. CASE c = RightBrace /\ o = <<LeftBrace>>
    <3>1. \A n \in Int : Take(s(n), c) = Ends(s(n), "found")
      BY <1>1, <2>1, <2>9, BracketCases
    <3> QED BY <2>5, <3>1, VerdictsAre
  <2>10. CASE c = RightBrace /\ o # <<LeftBrace>>
    <3>1. \A n \in Int : Take(s(n), c) = Close(s(n), LeftBrace)
      BY <1>1, <2>1, <2>10, BracketCases
    <3> QED BY <2>7, <2>10, <3>1
  <2>11. CASE c \notin {LeftBrace, LeftBracket, Quote, RightBracket, RightBrace}
    <3>1. \A n \in Int : Take(s(n), c) = Scan(o, n + 1, k, Awaiting)
      BY <1>2, <2>1, <2>11, BracketCases
    <3> QED BY <1>8, <3>1
  <2> QED BY <2>2, <2>3, <2>6, <2>8, <2>9, <2>10, <2>11
<1> QED BY <1>10, <1>11, <1>12

(* A scan whose text begins b places later. *)
Shift(s, b) == Scan(s.open, s.stop + b, s.skip, s.ec)

LEMMA ScanOf ==
  ASSUME NEW s \in Scans
  PROVE  /\ s = Scan(s.open, s.stop, s.skip, s.ec) /\ s.open \in Stacks /\ s.stop \in Int
         /\ s.skip \in BOOLEAN /\ s.ec \in Verdicts
BY DEF Scan, Scans

(* What one character makes of a scan. *)
TakenWell(s, t) ==
  /\ t \in Scans /\ t.stop <= s.stop + 1
  /\ s.ec # Awaiting => t = s
  /\ s.ec = Awaiting /\ t.ec # Awaiting => t.stop = s.stop

(* A character keeps a scan well-formed, and an ended scan takes no more. *)
LEMMA TakeKeeps ==
  ASSUME NEW s \in Scans, NEW c
  PROVE  TakenWell(s, Take(s, c))
<1>1. CASE s.ec # Awaiting
  <2>1. Take(s, c) = s
    BY <1>1 DEF Take, Awaiting
  <2> QED BY <1>1, <2>1, ScanOf DEF TakenWell
<1>2. CASE s.ec = Awaiting
  <2>1. PICK o \in Stacks, n \in Int, k \in BOOLEAN : s = Scan(o, n, k, Awaiting)
    BY <1>2, ScanOf
  <2>2. PICK r \in Outcomes : TakenAs(o, k, c, r)
    BY TakeIs
  <2>3. Take(s, c) = Scan(r.open, n + r.stop, r.skip, r.ec)
    BY <2>1, <2>2 DEF TakenAs, From
  <2>4. s.stop = n
    BY <2>1, ScanFields
  <2>5. r.open \in Stacks /\ r.stop \in {0, 1} /\ r.skip \in BOOLEAN /\ r.ec \in Verdicts /\ (r.ec # Awaiting => r.stop = 0)
    BY DEF Outcomes, Scans
  <2>6. PICK t : t = Scan(r.open, n + r.stop, r.skip, r.ec)
    OBVIOUS
  <2>7. t \in Scans /\ t.stop = n + r.stop /\ t.ec = r.ec
    BY <2>5, <2>6 DEF Scan, Scans
  <2> QED BY <1>2, <2>3, <2>4, <2>5, <2>6, <2>7 DEF TakenWell
<1> QED BY <1>1, <1>2

(* Scanning the same characters elsewhere gives the same, shifted. *)
LEMMA TakeShifts ==
  ASSUME NEW s \in Scans, NEW c, NEW b \in Int
  PROVE  Take(Shift(s, b), c) = Shift(Take(s, c), b)
<1>1. CASE s.ec # Awaiting
  <2>1. Shift(s, b).ec # Awaiting
    BY <1>1, ScanFields DEF Shift
  <2>2. Take(s, c) = s /\ Take(Shift(s, b), c) = Shift(s, b)
    BY <1>1, <2>1 DEF Take, Awaiting
  <2> QED BY <2>2
<1>2. CASE s.ec = Awaiting
  <2>1. PICK o \in Stacks, n \in Int, k \in BOOLEAN : s = Scan(o, n, k, Awaiting)
    BY <1>2, ScanOf
  <2>2. PICK r \in Outcomes : TakenAs(o, k, c, r)
    BY TakeIs
  <2>3. Take(s, c) = Scan(r.open, n + r.stop, r.skip, r.ec)
    BY <2>1, <2>2 DEF TakenAs, From
  <2>4. Shift(s, b) = Scan(o, n + b, k, Awaiting)
    BY <2>1, ScanFields DEF Shift
  <2>5. Take(Shift(s, b), c) = Scan(r.open, (n + b) + r.stop, r.skip, r.ec)
    <3>1. n + b \in Int
      OBVIOUS
    <3> QED BY <2>2, <2>4, <3>1 DEF TakenAs, From
  <2>6. Shift(Take(s, c), b) = Scan(r.open, (n + r.stop) + b, r.skip, r.ec)
    BY <2>3, ScanFields DEF Shift
  <2>7. (n + b) + r.stop = (n + r.stop) + b
    BY DEF Outcomes, Scans
  <2> QED BY <2>5, <2>6, <2>7
<1> QED BY <1>1, <1>2

(* The states the loop goes through, for the m characters behind a start. *)
IsRun(g, str, start, m) ==
  /\ g \in [0..m -> Scans] /\ g[0] = Begun(start)
  /\ \A i \in 1..m : g[i] = Take(g[i - 1], str[start + i])

LEMMA BegunIs ==
  ASSUME NEW start \in Int
  PROVE  Begun(start) \in Scans /\ Begun(start) = Scan(<<LeftBrace>>, start + 1, FALSE, Awaiting)
<1> DEFINE T == {LeftBrace, LeftBracket, Quote}
<1>1. <<LeftBrace>> \in Seq(T) /\ Len(<<LeftBrace>>) = 1 /\ <<LeftBrace>>[1] = LeftBrace
  OBVIOUS
<1>2. <<LeftBrace>> \in Stacks
  BY <1>1 DEF Stacks
<1>3. PICK o \in Stacks : o = <<LeftBrace>>
  BY <1>2
<1>4. Begun(start) = Scan(o, start + 1, FALSE, Awaiting)
  BY <1>3 DEF Begun, Scan, Awaiting
<1>5. Scan(o, start + 1, FALSE, Awaiting) \in Scans
  BY VerdictsAre DEF Scan, Scans
<1> QED BY <1>3, <1>4, <1>5

(* Scanned, as the states of its loop. *)
LEMMA RunOf ==
  ASSUME NEW str, NEW start \in Int, NEW m \in Nat, m = Len(str) - start
  PROVE  \E g : IsRun(g, str, start, m) /\ Scanned(str, start) = g[m]
<1> DEFINE F == [x \in Scans \X (1..m) |-> Take(x[1], str[start + x[2]])]
           s == CHOOSE s : s = [i \in 0..m |-> IF i = 0 THEN Begun(start) ELSE Take(s[i - 1], str[start + i])]
<1>1. F \in Passes(Scans, m) /\ Begun(start) \in Scans
  <2>1. \A x \in Scans, i \in 1..m : Take(x, str[start + i]) \in Scans
    BY TakeKeeps DEF TakenWell
  <2> QED BY <2>1, BegunIs DEF Passes
<1>2. \A x \in Scans, i \in 1..m : F[<<x, i>>] = Take(x, str[start + i])
  OBVIOUS
<1> HIDE DEF F
<1>3. PICK g : g \in States(Scans, m, Begun(start), F)
  BY <1>1, LoopStates
<1>4. g \in [0..m -> Scans] /\ g[0] = Begun(start)
      /\ \A i \in 1..m : g[i - 1] \in Scans /\ g[i] = F[<<g[i - 1], i>>]
  BY <1>3, SMTT(30) DEF States
<1>5. \A i \in 0..m : i # 0 => i \in 1..m
  OBVIOUS
<1>6. \A i \in 1..m : g[i] = Take(g[i - 1], str[start + i])
  BY <1>2, <1>4
<1>7. g = [i \in 0..m |-> IF i = 0 THEN Begun(start) ELSE Take(g[i - 1], str[start + i])]
  BY <1>4, <1>5, <1>6
<1>8. s = [i \in 0..m |-> IF i = 0 THEN Begun(start) ELSE Take(s[i - 1], str[start + i])]
  BY <1>7
<1>9. Scanned(str, start) = s[m]
  BY DEF Scanned
<1> HIDE DEF s
<1>10. s[0] = Begun(start) /\ \A i \in 1..m : s[i] = Take(s[i - 1], str[start + i])
  <2>1. 0 \in 0..m /\ \A i \in 1..m : i \in 0..m /\ i # 0
    OBVIOUS
  <2> QED BY <1>8, <2>1
<1>11. Follows(s, Scans, m, Begun(start), F)
  <2>1. s = [i \in 0..m |-> s[i]]
    BY <1>8
  <2> QED BY <1>2, <1>10, <2>1 DEF Follows
<1>12. s \in States(Scans, m, Begun(start), F)
  BY <1>1, <1>11, LoopFollows
<1> QED BY <1>9, <1>10, <1>12 DEF IsRun, States

LEMMA ScanShifts ==
  ASSUME NEW o, NEW n, NEW k, NEW e, NEW b
  PROVE  Shift(Scan(o, n, k, e), b) = Scan(o, n + b, k, e)
BY ScanFields DEF Shift

LEMMA RunBegins ==
  ASSUME NEW g, NEW x, NEW p \in Int, NEW m \in Nat, IsRun(g, x, p, m)
  PROVE  g[0].stop = p + 1 /\ g[0].ec = Awaiting
<1>1. PICK o, n, k : g[0] = Scan(o, n, k, Awaiting) /\ n = p + 1
  BY BegunIs DEF IsRun
<1>2. g[0].stop = n /\ g[0].ec = Awaiting
  BY <1>1, ScanFields
<1> QED BY <1>1, <1>2

(* The same characters give the same run, wherever they stand. *)
Alike(x, p, y, q, k) == \A i \in 1..k : x[p + i] = y[q + i]
ShiftedRun(g, h, k, b) == \A i \in 0..k : h[i] = Shift(g[i], b)

(* Two texts that are alike for k characters are scanned alike for k       *)
(* characters.                                                             *)
LEMMA RunsAgree ==
  ASSUME NEW g, NEW h, NEW x, NEW y, NEW p \in Int, NEW q \in Int, NEW m \in Nat, NEW n \in Nat, NEW k \in Nat,
         IsRun(g, x, p, m), IsRun(h, y, q, n), k <= m, k <= n, Alike(x, p, y, q, k)
  PROVE  ShiftedRun(g, h, k, q - p)
<1> DEFINE T == {i \in Nat : i <= k => h[i] = Shift(g[i], q - p)}
<1>1. 0 \in T
  <2>1. g[0] = Scan(<<LeftBrace>>, p + 1, FALSE, Awaiting) /\ h[0] = Scan(<<LeftBrace>>, q + 1, FALSE, Awaiting)
    BY BegunIs DEF IsRun
  <2>2. PICK o, f : o = <<LeftBrace>> /\ f = FALSE
    OBVIOUS
  <2>3. PICK a \in Int, b \in Int : a = p + 1 /\ b = q - p /\ a + b = q + 1
    OBVIOUS
  <2>4. Shift(Scan(o, a, f, Awaiting), b) = Scan(o, a + b, f, Awaiting)
    BY ScanShifts
  <2>5. g[0] = Scan(o, a, f, Awaiting) /\ h[0] = Scan(o, q + 1, f, Awaiting)
    BY <2>1, <2>2, <2>3, Zenon
  <2>6. h[0] = Shift(g[0], b)
    BY <2>3, <2>4, <2>5, Zenon
  <2> QED BY <2>3, <2>6
<1>2. ASSUME NEW i \in Nat, i \in T, i + 1 <= k PROVE h[i + 1] = Shift(g[i + 1], q - p)
  <2>1. h[i] = Shift(g[i], q - p) /\ g[i] \in Scans
    BY <1>2 DEF IsRun
  <2>2. i + 1 \in 1..m /\ i + 1 \in 1..n /\ i + 1 \in 1..k /\ (i + 1) - 1 = i
    BY <1>2
  <2>3. g[i + 1] = Take(g[i], x[p + (i + 1)]) /\ h[i + 1] = Take(h[i], y[q + (i + 1)])
    BY <2>2 DEF IsRun
  <2>4. x[p + (i + 1)] = y[q + (i + 1)]
    BY <2>2 DEF Alike
  <2>5. PICK c : c = x[p + (i + 1)]
    OBVIOUS
  <2> DEFINE b == q - p
  <2>6. b \in Int
    OBVIOUS
  <2> HIDE DEF b
  <2>7. Take(Shift(g[i], b), c) = Shift(Take(g[i], c), b)
    BY <2>1, <2>6, TakeShifts
  <2> QED BY <2>1, <2>3, <2>4, <2>5, <2>7 DEF b
<1>3. Nat \subseteq T
  <2>1. \A i \in Nat : i \in T => i + 1 \in T
    BY <1>2
  <2> HIDE DEF T
  <2> QED BY <1>1, <2>1, Induction
<1> QED BY <1>3 DEF ShiftedRun

(* A verdict stays, and falls at a place that has been read. *)
LEMMA RunEnds ==
  ASSUME NEW g, NEW x, NEW p \in Int, NEW m \in Nat, IsRun(g, x, p, m)
  PROVE  /\ \A i \in 0..m : g[i].stop <= p + 1 + i /\ (g[i].ec # Awaiting => g[i].stop <= p + i)
         /\ \A i \in 0..m : g[i].ec # Awaiting => g[m] = g[i]
<1>1. \A i \in 0..m : g[i] \in Scans
  BY DEF IsRun
<1>2. \A i \in 1..m : TakenWell(g[i - 1], g[i])
  <2> TAKE i \in 1..m
  <2>1. g[i - 1] \in Scans /\ g[i] = Take(g[i - 1], x[p + i])
    BY DEF IsRun
  <2> QED BY <2>1, TakeKeeps
<1> DEFINE T == {i \in Nat : i <= m => g[i].stop <= p + 1 + i /\ (g[i].ec # Awaiting => g[i].stop <= p + i)}
<1>3. 0 \in T
  <2>1. g[0].stop = p + 1 /\ g[0].ec = Awaiting
    BY RunBegins
  <2> QED BY <2>1
<1>4. \A i \in Nat : i \in T => i + 1 \in T
  <2> SUFFICES ASSUME NEW i \in Nat, i \in T, i + 1 <= m PROVE i + 1 \in T
    OBVIOUS
  <2>1. i + 1 \in 1..m /\ (i + 1) - 1 = i /\ i \in 0..m /\ i + 1 \in 0..m
    OBVIOUS
  <2>2. PICK s \in Scans, t \in Scans : s = g[i] /\ t = g[i + 1]
    BY <1>1, <2>1
  <2>3. TakenWell(s, t)
    BY <1>2, <2>1, <2>2
  <2>4. s.stop \in Int /\ t.stop \in Int
    BY ScanOf
  <2>5. s.stop <= p + 1 + i /\ (s.ec # Awaiting => s.stop <= p + i)
    BY <2>2
  <2>6. t.stop <= p + 1 + (i + 1) /\ (t.ec # Awaiting => t.stop <= p + (i + 1))
    BY <2>3, <2>4, <2>5 DEF TakenWell
  <2> QED BY <2>2, <2>6
<1>5. Nat \subseteq T
  <2> HIDE DEF T
  <2> QED BY <1>3, <1>4, Induction
<1>6. ASSUME NEW i \in 0..m, g[i].ec # Awaiting PROVE g[m] = g[i]
  <2> DEFINE V == {j \in Nat : i + j <= m => g[i + j] = g[i]}
  <2>1. 0 \in V
    OBVIOUS
  <2>2. ASSUME NEW j \in Nat, j \in V, i + (j + 1) <= m PROVE g[i + (j + 1)] = g[i]
    <3>1. i + (j + 1) \in 1..m /\ (i + (j + 1)) - 1 = i + j /\ g[i + j] = g[i]
      BY <2>2
    <3> QED BY <1>2, <1>6, <3>1 DEF TakenWell
  <2>3. Nat \subseteq V
    <3>1. \A j \in Nat : j \in V => j + 1 \in V
      BY <2>2
    <3> HIDE DEF V
    <3> QED BY <2>1, <3>1, Induction
  <2>4. m - i \in Nat /\ i + (m - i) = m
    OBVIOUS
  <2> QED BY <2>3, <2>4
<1> QED BY <1>5, <1>6

(* A text that is an object and nothing more. *)
IsObject(object) == searchJson(object) = Found(1, Len(object))

(* searchJson, by the first brace and the scan from there. *)
LEMMA SearchIs ==
  ASSUME NEW str, NEW start, NEW s
  PROVE  start = Find(str, <<LeftBrace>>, 1) /\ s = Scanned(str, start)
         => searchJson(str) = IF start = 0 \/ s.skip THEN Failed("undefined")
                              ELSE IF s.ec = "found" THEN Found(start, s.stop) ELSE Failed(s.ec)
BY DEF searchJson

LEMMA ObjectFacts ==
  ASSUME NEW S, NEW object \in Seq(S), IsObject(object)
  PROVE  /\ Len(object) > 1 /\ object[1] = LeftBrace
         /\ Scanned(object, 1).ec = "found" /\ Scanned(object, 1).stop = Len(object) /\ ~Scanned(object, 1).skip
<1>1. PICK start, s : start = Find(object, <<LeftBrace>>, 1) /\ s = Scanned(object, start)
  OBVIOUS
<1>2. searchJson(object) = IF start = 0 \/ s.skip THEN Failed("undefined")
                           ELSE IF s.ec = "found" THEN Found(start, s.stop) ELSE Failed(s.ec)
  BY <1>1, SearchIs
<1>3. Found(1, Len(object)).ec = "found" /\ \A e : Failed(e).ec = e
  BY DEF Found, Failed
<1>4. start # 0 /\ ~s.skip /\ s.ec = "found" /\ Found(start, s.stop) = Found(1, Len(object))
  BY <1>2, <1>3 DEF IsObject
<1>5. start = 1 /\ s.stop = Len(object)
  BY <1>4 DEF Found
<1>6. IsPlaceOf(1, object, LeftBrace)
  BY <1>1, <1>5, CharacterFound
<1>7. Len(object) > 0 /\ object[1] = LeftBrace
  BY <1>6 DEF IsPlaceOf
<1>8. Len(object) > 1
  <2>1. SUFFICES ASSUME Len(object) = 1 PROVE FALSE
    <3>1. PICK z \in Nat : z = Len(object)
      OBVIOUS
    <3>2. z > 0 /\ z # 1 => z > 1
      OBVIOUS
    <3> QED BY <1>7, <3>1, <3>2
  <2>2. PICK m \in Nat, p \in Int : m = 0 /\ p = 1 /\ m = Len(object) - p
    <3>1. 0 \in Nat /\ 1 \in Int /\ 0 = Len(object) - 1
      BY <2>1
    <3> QED BY <3>1
  <2>3. PICK g : IsRun(g, object, p, m) /\ Scanned(object, p) = g[m]
    BY <2>2, RunOf
  <2>4. Scanned(object, 1).ec = Awaiting
    BY <2>2, <2>3, RunBegins
  <2> QED BY <1>1, <1>4, <1>5, <2>4, VerdictsAre
<1> QED BY <1>1, <1>4, <1>5, <1>7, <1>8

(* The first brace behind a text without braces is where Find says it is. *)
LEMMA FirstBrace ==
  ASSUME NEW S, NEW str \in Seq(S), NEW b \in Nat, b + 1 <= Len(str),
         str[b + 1] = LeftBrace, \A i \in 1..b : str[i] # LeftBrace
  PROVE  Find(str, <<LeftBrace>>, 1) = b + 1
<1>1. PICK pos : pos = Find(str, <<LeftBrace>>, 1)
  OBVIOUS
<1>2. IsPlaceOf(pos, str, LeftBrace)
  BY <1>1, CharacterFound
<1>3. PICK n \in Nat : n = Len(str) /\ b + 1 \in 1..n
  <2>1. Len(str) \in Nat
    OBVIOUS
  <2> QED BY <2>1
<1>4. pos \in 1..n /\ str[pos] = LeftBrace /\ \A i \in 1..(pos - 1) : str[i] # LeftBrace
  BY <1>2, <1>3 DEF IsPlaceOf
<1>5. ~(pos < b + 1)
  BY <1>4
<1>6. ~(b + 1 < pos)
  <2>1. b + 1 < pos => b + 1 \in 1..(pos - 1)
    BY <1>4
  <2> QED BY <1>4, <2>1
<1>7. pos = b + 1
  BY <1>4, <1>5, <1>6
<1> QED BY <1>1, <1>7

(* A text in which the object, or the first k characters of it, stands     *)
(* behind b characters that are no '{'.                                    *)
StandsIn(str, b, object, k) ==
  /\ b + k <= Len(str) /\ \A i \in 1..b : str[i] # LeftBrace
  /\ \A j \in 1..k : str[b + j] = object[j]

AreRuns(g, h, str, b, object, k) ==
  /\ IsRun(g, object, 1, Len(object) - 1) /\ Scanned(object, 1) = g[Len(object) - 1]
  /\ IsRun(h, str, b + 1, Len(str) - (b + 1)) /\ Scanned(str, b + 1) = h[Len(str) - (b + 1)]
  /\ ShiftedRun(g, h, k - 1, b)

LEMMA RunWithin ==
  ASSUME NEW S, NEW str \in Seq(S), NEW object \in Seq(S), IsObject(object),
         NEW b \in Nat, NEW k \in Nat, k > 0, k <= Len(object), StandsIn(str, b, object, k)
  PROVE  /\ Find(str, <<LeftBrace>>, 1) = b + 1
         /\ \E g, h : AreRuns(g, h, str, b, object, k)
<1>1. /\ Len(object) > 1 /\ object[1] = LeftBrace
      /\ Scanned(object, 1).ec = "found" /\ Scanned(object, 1).stop = Len(object) /\ ~Scanned(object, 1).skip
  BY ObjectFacts
<1>2. Find(str, <<LeftBrace>>, 1) = b + 1
  <2>1. b + 1 <= Len(str)
    BY DEF StandsIn
  <2>2. str[b + 1] = LeftBrace /\ \A i \in 1..b : str[i] # LeftBrace
    BY <1>1 DEF StandsIn
  <2> QED BY <2>1, <2>2, FirstBrace
<1>3. PICK m \in Nat, p \in Int : p = 1 /\ m = Len(object) - p
  <2>1. Len(object) - 1 \in Nat /\ 1 \in Int
    BY <1>1
  <2> QED BY <2>1
<1>4. PICK g : IsRun(g, object, p, m) /\ Scanned(object, p) = g[m]
  BY <1>3, RunOf
<1>5. PICK n \in Nat, q \in Int : q = b + 1 /\ n = Len(str) - q
  <2>1. Len(str) - (b + 1) \in Nat /\ b + 1 \in Int
    BY DEF StandsIn
  <2> QED BY <2>1
<1>6. PICK h : IsRun(h, str, q, n) /\ Scanned(str, q) = h[n]
  BY <1>5, RunOf
<1>7. PICK l \in Nat : l = k - 1 /\ l <= m /\ l <= n
  <2>1. k - 1 \in Nat /\ k - 1 <= m /\ k - 1 <= n
    BY <1>3, <1>5 DEF StandsIn
  <2> QED BY <2>1
<1>8. Alike(object, p, str, q, l)
  <2> SUFFICES ASSUME NEW i \in 1..l PROVE object[p + i] = str[q + i]
    BY DEF Alike
  <2>1. p + i \in 1..k /\ q + i = b + (p + i)
    BY <1>3, <1>5, <1>7
  <2> QED BY <2>1 DEF StandsIn
<1>9. ShiftedRun(g, h, l, q - p)
  BY <1>4, <1>6, <1>7, <1>8, RunsAgree
<1>10. q - p = b
  BY <1>3, <1>5
<1>11. IsRun(g, object, 1, Len(object) - 1) /\ Scanned(object, 1) = g[Len(object) - 1]
  BY <1>3, <1>4
<1>12. IsRun(h, str, b + 1, Len(str) - (b + 1)) /\ Scanned(str, b + 1) = h[Len(str) - (b + 1)]
  BY <1>5, <1>6
<1>13. ShiftedRun(g, h, k - 1, b)
  BY <1>7, <1>9, <1>10
<1>14. AreRuns(g, h, str, b, object, k)
  BY <1>11, <1>12, <1>13 DEF AreRuns
<1> QED BY <1>2, <1>14

(* An object is found wherever it stands behind a text without braces. *)
LEMMA ObjectWithin ==
  ASSUME NEW S, NEW str \in Seq(S), NEW object \in Seq(S), IsObject(object),
         NEW b \in Nat, StandsIn(str, b, object, Len(object))
  PROVE  searchJson(str) = Found(b + 1, b + Len(object))
<1>1. /\ Len(object) > 1 /\ Scanned(object, 1).ec = "found" /\ Scanned(object, 1).stop = Len(object)
      /\ ~Scanned(object, 1).skip
  BY ObjectFacts
<1>2. PICK k \in Nat : k = Len(object) /\ k > 0
  BY <1>1
<1>3. Find(str, <<LeftBrace>>, 1) = b + 1 /\ \E g, h : AreRuns(g, h, str, b, object, k)
  BY <1>2, RunWithin
<1>4. PICK g, h : AreRuns(g, h, str, b, object, k)
  BY <1>3
<1>5. PICK n \in Nat, l \in Nat : n = Len(str) - (b + 1) /\ l = k - 1 /\ l <= n
  <2>1. Len(str) - (b + 1) \in Nat /\ k - 1 \in Nat /\ k - 1 <= Len(str) - (b + 1)
    BY <1>2 DEF StandsIn
  <2> QED BY <2>1
<1>6. Scanned(object, 1) = g[l] /\ h[l] = Shift(g[l], b)
  BY <1>2, <1>4, <1>5 DEF AreRuns, ShiftedRun
<1>7. IsRun(h, str, b + 1, n) /\ Scanned(str, b + 1) = h[n]
  BY <1>4, <1>5 DEF AreRuns
<1>8. h[l].ec = "found" /\ h[l].stop = k + b /\ ~h[l].skip
  BY <1>1, <1>2, <1>6, ScanFields DEF Shift
<1>9. h[n] = h[l]
  <2>1. PICK q \in Int : q = b + 1
    OBVIOUS
  <2>2. IsRun(h, str, q, n)
    BY <1>7, <2>1
  <2>3. \A i \in 0..n : h[i].ec # Awaiting => h[n] = h[i]
    BY <2>2, RunEnds
  <2> QED BY <1>5, <1>8, <2>3, VerdictsAre
<1>10. PICK s, start : s = Scanned(str, b + 1) /\ start = b + 1
  OBVIOUS
<1>11. searchJson(str) = Found(start, s.stop)
  <2>1. start = Find(str, <<LeftBrace>>, 1) /\ s = Scanned(str, start) /\ start # 0
    BY <1>3, <1>10
  <2>2. ~s.skip /\ s.ec = "found"
    BY <1>7, <1>8, <1>9, <1>10
  <2> QED BY <2>1, <2>2, SearchIs
<1>12. s.stop = b + Len(object)
  BY <1>2, <1>7, <1>8, <1>9, <1>10
<1> QED BY <1>10, <1>11, <1>12

(* While a part of it is missing the scan has not ended. *)
LEMMA PartWithin ==
  ASSUME NEW S, NEW str \in Seq(S), NEW object \in Seq(S), IsObject(object),
         NEW b \in Nat, NEW k \in Nat, k > 0, k < Len(object), StandsIn(str, b, object, k), Len(str) = b + k
  PROVE  searchJson(str).ec \in {Awaiting, "undefined"}
<1>1. /\ Len(object) > 1 /\ Scanned(object, 1).ec = "found" /\ Scanned(object, 1).stop = Len(object)
  BY ObjectFacts
<1>2. Find(str, <<LeftBrace>>, 1) = b + 1 /\ \E g, h : AreRuns(g, h, str, b, object, k)
  BY RunWithin, SMTT(30)
<1>3. PICK g, h : AreRuns(g, h, str, b, object, k)
  BY <1>2
<1>4. PICK l \in Nat, m \in Nat : l = k - 1 /\ l = Len(str) - (b + 1) /\ m = Len(object) - 1 /\ l < m
  <2>1. k - 1 \in Nat /\ k - 1 = Len(str) - (b + 1) /\ Len(object) - 1 \in Nat /\ k - 1 < Len(object) - 1
    OBVIOUS
  <2> QED BY <2>1
<1>5. Scanned(str, b + 1) = h[l] /\ h[l] = Shift(g[l], b)
  BY <1>3, <1>4 DEF AreRuns, ShiftedRun
<1>6. Scanned(object, 1) = g[m] /\ IsRun(g, object, 1, m)
  BY <1>3, <1>4 DEF AreRuns
<1>7. g[l].ec = Awaiting
  <2>1. PICK p \in Int : p = 1
    OBVIOUS
  <2>2. IsRun(g, object, p, m)
    BY <1>6, <2>1
  <2>3. l \in 0..m
    BY <1>4
  <2>4. /\ g[l].stop <= p + 1 + l /\ (g[l].ec # Awaiting => g[l].stop <= p + l)
        /\ (g[l].ec # Awaiting => g[m] = g[l])
    BY <2>2, <2>3, RunEnds
  <2>5. ~(Len(object) <= p + l)
    BY <1>4, <2>1
  <2> QED BY <1>1, <1>6, <2>4, <2>5
<1>8. PICK s, start : s = Scanned(str, b + 1) /\ start = b + 1
  OBVIOUS
<1>9. s.ec = Awaiting
  BY <1>5, <1>7, <1>8, ScanFields DEF Shift
<1>10. searchJson(str) = IF start = 0 \/ s.skip THEN Failed("undefined")
                         ELSE IF s.ec = "found" THEN Found(start, s.stop) ELSE Failed(s.ec)
  BY <1>2, <1>8, SearchIs
<1>11. \A e : Failed(e).ec = e
  BY DEF Failed
<1> QED BY <1>9, <1>10, <1>11, VerdictsAre

NoBrace(text) == \A i \in 1..Len(text) : text[i] # LeftBrace

LEMMA NoBraceFound ==
  ASSUME NEW S, NEW before \in Seq(S), Find(before, <<LeftBrace>>, 1) = 0
  PROVE  NoBrace(before)
<1>1. IsPlaceOf(0, before, LeftBrace)
  BY CharacterFound
<1> QED BY <1>1 DEF IsPlaceOf, NoBrace

(* An object, or its first k characters, behind a text and before another. *)
IsBetween(str, S, before, part, behind, object) ==
  /\ str \in Seq(S) /\ Len(str) = Len(before) + Len(part) + Len(behind)
  /\ StandsIn(str, Len(before), object, Len(part))

(* Where the parts of before, part and behind stand when they are put      *)
(* together.                                                               *)
LEMMA StandsBetween ==
  ASSUME NEW S, NEW before \in Seq(S), NEW part \in Seq(S), NEW behind \in Seq(S), NEW object \in Seq(S),
         NoBrace(before), \A j \in 1..Len(part) : part[j] = object[j]
  PROVE  IsBetween(before \o part \o behind, S, before, part, behind, object)
<1>1. PICK x \in Seq(S) : x = before \o part /\ AreBeside(before, part, x)
  BY JoinedTexts DEF Beside
<1>2. PICK y \in Seq(S) : y = x \o behind /\ AreBeside(x, behind, y)
  BY JoinedTexts DEF Beside
<1>3. PICK b \in Nat, k \in Nat, n \in Nat : b = Len(before) /\ k = Len(part) /\ n = Len(behind)
  <2>1. Len(before) \in Nat /\ Len(part) \in Nat /\ Len(behind) \in Nat
    OBVIOUS
  <2> QED BY <2>1
<1>4. Len(x) = b + k /\ Len(y) = b + k + n
  BY <1>1, <1>2, <1>3 DEF AreBeside
<1>5. \A i \in 1..b : y[i] = before[i]
  <2> TAKE i \in 1..b
  <2>1. i \in 1..Len(x) /\ i \in 1..Len(before)
    BY <1>3, <1>4
  <2> QED BY <1>1, <1>2, <2>1 DEF AreBeside
<1>6. \A j \in 1..k : y[b + j] = object[j]
  <2> TAKE j \in 1..k
  <2>1. b + j \in 1..Len(x) /\ j \in 1..Len(part) /\ Len(before) + j = b + j
    BY <1>3, <1>4
  <2>2. y[b + j] = x[b + j]
    BY <1>2, <2>1 DEF AreBeside
  <2>3. x[Len(before) + j] = part[j]
    BY <1>1, <2>1 DEF AreBeside
  <2> QED BY <2>1, <2>2, <2>3
<1>7. StandsIn(y, b, object, k)
  <2>1. b + k <= Len(y)
    BY <1>4
  <2>2. \A i \in 1..b : y[i] # LeftBrace
    BY <1>3, <1>5 DEF NoBrace
  <2> QED BY <1>6, <2>1, <2>2 DEF StandsIn
<1>8. y = before \o part \o behind
  BY <1>1, <1>2, Zenon
<1> QED BY <1>2, <1>3, <1>4, <1>7, <1>8 DEF IsBetween

(* ObjectIsFound, for every object that is found when it stands alone. *)
LEMMA ObjectFound ==
  ASSUME NEW S, NEW before \in Seq(S), NEW object \in Seq(S), NEW behind \in Seq(S),
         IsObject(object), NoBrace(before)
  PROVE  ObjectIsFound(before, object, behind)
<1>1. PICK str : str = before \o object \o behind
  OBVIOUS
<1>2. str \in Seq(S) /\ StandsIn(str, Len(before), object, Len(object))
  <2>1. \A j \in 1..Len(object) : object[j] = object[j]
    OBVIOUS
  <2>2. IsBetween(str, S, before, object, behind, object)
    BY <1>1, <2>1, StandsBetween, Zenon
  <2> QED BY <2>2 DEF IsBetween
<1>3. PICK b \in Nat : b = Len(before)
  OBVIOUS
<1>4. searchJson(str) = Found(b + 1, b + Len(object))
  BY <1>2, <1>3, ObjectWithin
<1> QED BY <1>1, <1>3, <1>4, Zenon DEF ObjectIsFound

(* WaitsForTheRest, likewise. *)
LEMMA RestAwaited ==
  ASSUME NEW S, NEW before \in Seq(S), NEW object \in Seq(S), IsObject(object), NoBrace(before)
  PROVE  WaitsForTheRest(before, object)
<1>1. SUFFICES ASSUME NEW k \in 1..(Len(object) - 1)
               PROVE  searchJson(before \o SubSeq(object, 1, k)).ec \in {Awaiting, "undefined"}
  BY Zenon DEF WaitsForTheRest, Awaiting
<1>2. PICK n \in Nat : n = Len(object) /\ k \in Nat /\ k > 0 /\ k < n
  <2>1. Len(object) \in Nat /\ k \in Nat /\ k > 0 /\ k < Len(object)
    OBVIOUS
  <2> QED BY <2>1
<1>3. PICK part \in Seq(S) : part = SubSeq(object, 1, k) /\ Len(part) = k /\ \A j \in 1..k : part[j] = object[j]
  <2>1. \A i \in 1..k : object[i] \in S
    <3> TAKE i \in 1..k
    <3>1. i \in 1..Len(object)
      BY <1>2
    <3> QED BY <3>1, ElementOfSeq
  <2>2. /\ SubSeq(object, 1, k) \in Seq(S) /\ Len(SubSeq(object, 1, k)) = (IF 1 <= k THEN k - 1 + 1 ELSE 0)
        /\ \A i \in 1..k - 1 + 1 : SubSeq(object, 1, k)[i] = object[1 + i - 1]
    BY <1>2, <2>1, SubSeqProperties
  <2>3. Len(SubSeq(object, 1, k)) = k
    BY <1>2, <2>2
  <2>4. \A j \in 1..k : SubSeq(object, 1, k)[j] = object[j]
    <3> TAKE j \in 1..k
    <3>1. j \in 1..k - 1 + 1 /\ 1 + j - 1 = j
      BY <1>2
    <3> QED BY <2>2, <3>1
  <2> QED BY <2>2, <2>3, <2>4
<1>4. <<>> \in Seq(S) /\ Len(<<>>) = 0
  OBVIOUS
<1>5. PICK empty \in Seq(S) : empty = <<>> /\ Len(empty) = 0
  BY <1>4
<1>6. PICK str : str = before \o part \o empty
  OBVIOUS
<1>7. str \in Seq(S) /\ Len(str) = Len(before) + Len(part) + Len(empty) /\ StandsIn(str, Len(before), object, Len(part))
  <2>1. \A j \in 1..Len(part) : part[j] = object[j]
    BY <1>3
  <2>2. IsBetween(str, S, before, part, empty, object)
    BY <1>6, <2>1, StandsBetween, Zenon
  <2> QED BY <2>2 DEF IsBetween
<1>8. str = before \o part
  <2>1. before \o part \in Seq(S)
    BY ConcatProperties
  <2>2. \A x \in Seq(S) : x \o <<>> = x
    BY ConcatEmptySeq
  <2> QED BY <1>5, <1>6, <2>1, <2>2, Zenon
<1>9. PICK b \in Nat : b = Len(before)
  OBVIOUS
<1>10. searchJson(str).ec \in {Awaiting, "undefined"}
  <2>1. Len(str) = b + k /\ StandsIn(str, b, object, k)
    BY <1>3, <1>5, <1>7, <1>9
  <2> QED BY <1>2, <1>7, <1>9, <2>1, PartWithin
<1> QED BY <1>3, <1>8, <1>10, Zenon

LEMMA PartOf ==
  ASSUME NEW S, NEW str \in Seq(S), NEW b \in Nat, NEW object \in Seq(S), StandsIn(str, b, object, Len(object)),
         Len(object) > 0
  PROVE  SubSeq(str, b + 1, b + Len(object)) = object
<1>1. PICK k \in Nat, p \in Nat, q \in Nat : k = Len(object) /\ p = b + 1 /\ q = b + k /\ p <= q /\ q - p + 1 = k
  <2>1. PICK k \in Nat : k = Len(object) /\ k > 0
    OBVIOUS
  <2>2. b + 1 \in Nat /\ b + k \in Nat /\ b + 1 <= b + k /\ (b + k) - (b + 1) + 1 = k
    BY <2>1
  <2> QED BY <2>1, <2>2, Zenon
<1>2. \A i \in p..q : str[i] \in S
  <2> TAKE i \in p..q
  <2>1. i \in 1..Len(str)
    BY <1>1 DEF StandsIn
  <2> QED BY <2>1, ElementOfSeq
<1>3. /\ SubSeq(str, p, q) \in Seq(S) /\ Len(SubSeq(str, p, q)) = (IF p <= q THEN q - p + 1 ELSE 0)
      /\ \A i \in 1..q - p + 1 : SubSeq(str, p, q)[i] = str[p + i - 1]
  BY <1>1, <1>2, SubSeqProperties
<1>4. Len(SubSeq(str, p, q)) = k
  BY <1>1, <1>3
<1>5. \A i \in 1..k : SubSeq(str, p, q)[i] = object[i]
  <2> TAKE i \in 1..k
  <2>1. i \in 1..q - p + 1 /\ p + i - 1 = b + i /\ i \in 1..Len(object)
    BY <1>1
  <2> QED BY <1>3, <2>1 DEF StandsIn
<1>6. SubSeq(str, p, q) = object
  BY <1>1, <1>3, <1>4, <1>5, SeqEqual
<1> QED BY <1>1, <1>6

LEMMA FirstPart ==
  ASSUME NEW S, NEW x \in Seq(S), NEW y \in Seq(S), Len(x) > 0
  PROVE  SubSeq(x \o y, 1, Len(x)) = x
<1>1. PICK z \in Seq(S) : z = x \o y /\ AreBeside(x, y, z)
  BY JoinedTexts DEF Beside
<1>2. StandsIn(z, 0, x, Len(x))
  <2>1. 0 + Len(x) <= Len(z)
    BY <1>1 DEF AreBeside
  <2>2. \A j \in 1..Len(x) : z[0 + j] = x[j]
    BY <1>1 DEF AreBeside
  <2>3. \A i \in 1..0 : z[i] # LeftBrace
    OBVIOUS
  <2> QED BY <2>1, <2>2, <2>3 DEF StandsIn
<1>3. SubSeq(z, 0 + 1, 0 + Len(x)) = x
  BY <1>2, PartOf
<1>4. 0 + 1 = 1 /\ 0 + Len(x) = Len(x)
  OBVIOUS
<1> QED BY <1>1, <1>3, <1>4

(* ObjectArrives, likewise, when the body is not cut. *)
LEMMA ObjectReceived ==
  ASSUME NEW S, NEW before \in Seq(S), NEW object \in Seq(S), NEW next \in Seq(S), IsObject(object), NoBrace(before),
         Len(before) + Len(object) <= max_body_length
  PROVE  ObjectArrives(before, object, next)
<1>1. PICK text \in Seq(S) : text = before \o object /\ Len(text) = Len(before) + Len(object)
  BY ConcatProperties
<1>2. PICK n \in Nat : n = Len(text) /\ n <= max_body_length /\ n > 0
  <2>1. Len(text) \in Nat /\ Len(object) > 0
    BY ObjectFacts
  <2> QED BY <1>1, <2>1
<1>3. PICK h, x : Empty = Message(h, x, 0)
  BY EmptyIs
<1>4. [Empty EXCEPT !.body = text] = Message(h, text, 0)
  BY <1>3, MessageFields
<1>5. Cut(n) = n
  BY <1>2 DEF Cut, max_body_length
<1>6. Sent(text) = Message(HeaderOf(n), text, n)
  <2>1. encode_header(body_length(Message(h, text, 0), n)) = Message(HeaderOf(n), text, n)
    BY <1>5, MessageSent
  <2> QED BY <1>2, <1>4, <2>1, Zenon DEF Sent
<1>7. PICK head, body : head = HeaderOf(n) /\ body = text \o next
  OBVIOUS
<1>8. Sent(text).header = head /\ Sent(text).body = text
  BY <1>6, <1>7, MessageFields
<1>9. decode_header(Message(head, body, 0)) = [ok |-> TRUE, msg |-> Message(head, body, n)]
  BY <1>2, <1>7, MessageReceived
<1>10. PICK msg : msg = Message(head, body, n) /\ msg.body = body /\ msg.body_length_ = n
  BY MessageFields
<1>11. SubSeq(body, 1, n) = text
  BY <1>2, <1>7, FirstPart
<1>12. PICK b \in Nat : b = Len(before)
  OBVIOUS
<1>13. StandsIn(text, b, object, Len(object))
  <2>1. Beside(before, object) \in Seq(S) /\ AreBeside(before, object, Beside(before, object))
    BY JoinedTexts
  <2>2. AreBeside(before, object, text)
    BY <1>1, <2>1 DEF Beside
  <2>3. \A i \in 1..b : text[i] # LeftBrace
    BY <1>12, <2>2 DEF AreBeside, NoBrace
  <2>4. \A j \in 1..Len(object) : text[b + j] = object[j]
    BY <1>12, <2>2 DEF AreBeside
  <2> QED BY <1>1, <1>12, <2>3, <2>4, SMTT(30) DEF StandsIn
<1>14. PICK r : r = Found(b + 1, b + Len(object)) /\ searchJson(text) = r
  BY <1>13, ObjectWithin
<1>15. r.ec = "found" /\ r.start = b + 1 /\ r.stop = b + Len(object)
  BY <1>14 DEF Found
<1>16. SubSeq(text, b + 1, b + Len(object)) = object
  <2>1. Len(object) > 0
    BY ObjectFacts
  <2> QED BY <1>13, <2>1, PartOf
<1>17. body_json(msg) = object
  BY <1>10, <1>11, <1>14, <1>15, <1>16, Zenon DEF body_json
<1>18. PICK received : received = [ok |-> TRUE, msg |-> msg] /\ received.ok /\ received.msg = msg
  <2> DEFINE y == [ok |-> TRUE, msg |-> msg]
  <2>1. y.ok
    OBVIOUS
  <2>2. y.msg = msg
    OBVIOUS
  <2> HIDE DEF y
  <2>3. y = [ok |-> TRUE, msg |-> msg]
    BY Zenon DEF y
  <2> QED BY <2>1, <2>2, <2>3, Zenon
<1>19. decode_header([header |-> Sent(text).header, body |-> Sent(text).body \o next, body_length_ |-> 0]) = received
  BY <1>7, <1>8, <1>9, <1>10, <1>18 DEF Message
<1> QED BY <1>1, <1>17, <1>18, <1>19, Zenon DEF ObjectArrives

(* Scanning a text from a state leads to a state. *)
Leads(g, s, x, t) ==
  /\ g \in [0..Len(x) -> Scans] /\ g[0] = s /\ g[Len(x)] = t
  /\ \A i \in 1..Len(x) : g[i] = Take(g[i - 1], x[i])
Reach(s, x, t) == \E g : Leads(g, s, x, t)

LEMMA ReachNothing ==
  ASSUME NEW s \in Scans
  PROVE  Reach(s, <<>>, s)
<1> DEFINE g == [i \in 0..0 |-> s]
<1>1. Leads(g, s, <<>>, s)
  <2>1. Len(<<>>) = 0 /\ 1..0 = {}
    OBVIOUS
  <2>2. g \in [0..0 -> Scans] /\ g[0] = s
    OBVIOUS
  <2> HIDE DEF g
  <2> QED BY <2>1, <2>2 DEF Leads
<1> QED BY <1>1 DEF Reach

(* A text of one character is taken in one step. *)
LEMMA ReachOne ==
  ASSUME NEW s \in Scans, NEW c, NEW t, t = Take(s, c)
  PROVE  Reach(s, <<c>>, t)
<1> DEFINE g == [i \in 0..1 |-> IF i = 0 THEN s ELSE t]
<1>1. t \in Scans
  BY TakeKeeps DEF TakenWell
<1>2. Leads(g, s, <<c>>, t)
  <2>1. Len(<<c>>) = 1 /\ <<c>>[1] = c
    OBVIOUS
  <2>2. g \in [0..1 -> Scans] /\ g[0] = s /\ g[1] = t
    BY <1>1
  <2> HIDE DEF g
  <2>3. \A i \in 1..1 : g[i] = Take(g[i - 1], <<c>>[i])
    <3> TAKE i \in 1..1
    <3>1. i = 1 /\ i - 1 = 0
      OBVIOUS
    <3> QED BY <2>1, <2>2, <3>1
  <2> QED BY <2>1, <2>2, <2>3 DEF Leads
<1> QED BY <1>2 DEF Reach

(* Scanning two texts one after the other is scanning both together. *)
LEMMA ReachBoth ==
  ASSUME NEW S, NEW x \in Seq(S), NEW y \in Seq(S), NEW s, NEW t, NEW u, Reach(s, x, t), Reach(t, y, u)
  PROVE  Reach(s, x \o y, u)
<1>1. PICK z \in Seq(S) : z = x \o y /\ AreBeside(x, y, z)
  BY JoinedTexts DEF Beside
<1>2. PICK a \in Nat, b \in Nat : a = Len(x) /\ b = Len(y)
  OBVIOUS
<1>3. Len(z) = a + b
  BY <1>1, <1>2 DEF AreBeside
<1>4. PICK g : Leads(g, s, x, t)
  BY DEF Reach
<1>5. PICK h : Leads(h, t, y, u)
  BY DEF Reach
<1>6. g \in [0..a -> Scans] /\ g[0] = s /\ g[a] = t /\ \A i \in 1..a : g[i] = Take(g[i - 1], x[i])
  BY <1>2, <1>4 DEF Leads
<1>7. h \in [0..b -> Scans] /\ h[0] = t /\ h[b] = u /\ \A i \in 1..b : h[i] = Take(h[i - 1], y[i])
  BY <1>2, <1>5 DEF Leads
<1> DEFINE k == [i \in 0..(a + b) |-> IF i <= a THEN g[i] ELSE h[i - a]]
<1>8. k \in [0..(a + b) -> Scans]
  <2>1. ASSUME NEW i \in 0..(a + b) PROVE (IF i <= a THEN g[i] ELSE h[i - a]) \in Scans
    <3>1. i <= a => i \in 0..a
      OBVIOUS
    <3>2. ~(i <= a) => i - a \in 0..b
      OBVIOUS
    <3> QED BY <1>6, <1>7, <3>1, <3>2
  <2> QED BY <2>1
<1>9. \A i \in 0..a : k[i] = g[i]
  OBVIOUS
<1>10. \A j \in 0..b : k[a + j] = h[j]
  <2> TAKE j \in 0..b
  <2>1. a + j \in 0..(a + b) /\ (a + j <= a => j = 0) /\ (a + j) - a = j
    OBVIOUS
  <2>2. k[a + j] = IF a + j <= a THEN g[a + j] ELSE h[(a + j) - a]
    BY <2>1
  <2>3. j = 0 => a + j = a
    OBVIOUS
  <2> QED BY <1>6, <1>7, <2>1, <2>2, <2>3
<1> HIDE DEF k
<1>11. \A i \in 1..(a + b) : k[i] = Take(k[i - 1], z[i])
  <2> TAKE i \in 1..(a + b)
  <2>1. CASE i <= a
    <3>1. i \in 0..a /\ i - 1 \in 0..a /\ i \in 1..a
      BY <2>1
    <3>2. z[i] = x[i]
      BY <1>1, <1>2, <3>1 DEF AreBeside
    <3> QED BY <1>6, <1>9, <3>1, <3>2
  <2>2. CASE ~(i <= a)
    <3>1. PICK j \in 1..b : j = i - a
      BY <2>2
    <3>2. j \in 0..b /\ j - 1 \in 0..b /\ a + j = i /\ a + (j - 1) = i - 1
      BY <3>1
    <3>3. z[i] = y[j]
      BY <1>1, <1>2, <3>2 DEF AreBeside
    <3>4. k[i] = h[j] /\ k[i - 1] = h[j - 1]
      BY <1>10, <3>2
    <3> QED BY <1>7, <3>3, <3>4
  <2> QED BY <2>1, <2>2
<1>12. k[0] = s /\ k[a + b] = u
  <2>1. 0 \in 0..a /\ b \in 0..b
    OBVIOUS
  <2> QED BY <1>6, <1>7, <1>9, <1>10, <2>1
<1>13. Leads(k, s, z, u)
  BY <1>3, <1>8, <1>11, <1>12 DEF Leads
<1> QED BY <1>1, <1>13 DEF Reach

(* The loop of searchJson goes the same way. *)
LEMMA ReachIsRun ==
  ASSUME NEW g, NEW str, NEW p \in Int, NEW m \in Nat, IsRun(g, str, p, m),
         NEW y, NEW t, Reach(Begun(p), y, t), Len(y) = m, \A i \in 1..m : str[p + i] = y[i]
  PROVE  g[m] = t
<1>1. PICK h : Leads(h, Begun(p), y, t)
  BY DEF Reach
<1> DEFINE T == {i \in Nat : i <= m => g[i] = h[i]}
<1>2. 0 \in T
  BY <1>1 DEF Leads, IsRun
<1>3. \A i \in Nat : i \in T => i + 1 \in T
  <2> SUFFICES ASSUME NEW i \in Nat, i \in T, i + 1 <= m PROVE g[i + 1] = h[i + 1]
    OBVIOUS
  <2>1. i + 1 \in 1..m /\ (i + 1) - 1 = i /\ g[i] = h[i]
    OBVIOUS
  <2>2. g[i + 1] = Take(g[i], str[p + (i + 1)]) /\ h[i + 1] = Take(h[i], y[i + 1])
    BY <1>1, <2>1 DEF Leads, IsRun
  <2>3. str[p + (i + 1)] = y[i + 1]
    BY <2>1
  <2> QED BY <2>1, <2>2, <2>3
<1>4. Nat \subseteq T
  <2> HIDE DEF T
  <2> QED BY <1>2, <1>3, Induction
<1> QED BY <1>1, <1>4 DEF Leads

(* Reading on with a stack. *)
Over(o, n) == Scan(o, n, FALSE, Awaiting)
PassesOver(x, o) == \A n \in Int : Reach(Over(o, n), x, Over(o, n + Len(x)))

Plain(c) == c \notin {LeftBrace, RightBrace, LeftBracket, RightBracket, Quote, Escape}

LEMMA OverIs ==
  ASSUME NEW o \in Stacks, NEW n \in Int
  PROVE  Over(o, n) \in Scans
<1>1. PICK f \in BOOLEAN : f = FALSE
  OBVIOUS
<1>2. Scan(o, n, f, Awaiting) \in Scans
  BY VerdictsAre DEF Scan, Scans
<1> QED BY <1>1, <1>2 DEF Over

LEMMA OverTakes ==
  ASSUME NEW o \in Stacks, NEW n \in Int, NEW c, c # Escape
  PROVE  Take(Over(o, n), c) = Bracket(Over(o, n), c)
<1>1. PICK f : f = FALSE
  OBVIOUS
<1>2. PICK s : s = Scan(o, n, f, Awaiting) /\ s.ec = Awaiting /\ s.skip = f
  BY ScanFields
<1>3. Take(s, c) = Bracket(s, c)
  BY <1>1, <1>2 DEF Take, Awaiting
<1> QED BY <1>1, <1>2, <1>3 DEF Over

LEMMA OverFields ==
  ASSUME NEW o \in Stacks, NEW n \in Int
  PROVE  Over(o, n).open = o /\ Open(Over(o, n)) = o[1]
<1>1. PICK f : f = FALSE
  OBVIOUS
<1>2. Scan(o, n, f, Awaiting).open = o
  BY ScanFields
<1> QED BY <1>1, <1>2 DEF Over, Open

(* What opens, closes and is passed over. *)
LEMMA OverPlain ==
  ASSUME NEW o \in Stacks, NEW n \in Int, NEW c, Plain(c)
  PROVE  Take(Over(o, n), c) = Over(o, n + 1)
<1>1. Take(Over(o, n), c) = Go(Over(o, n))
  BY OverTakes, BracketCases DEF Plain
<1>2. PICK f : f = FALSE
  OBVIOUS
<1>3. Go(Scan(o, n, f, Awaiting)) = Scan(o, n + 1, f, Awaiting)
  BY ScanStep
<1> QED BY <1>1, <1>2, <1>3 DEF Over

LEMMA OverPushed ==
  ASSUME NEW o \in Stacks, NEW n \in Int, NEW c
  PROVE  Push(Over(o, n), c) = Over(<<c>> \o o, n + 1)
<1>1. PICK f : f = FALSE
  OBVIOUS
<1>2. Push(Scan(o, n, f, Awaiting), c) = Scan(<<c>> \o o, n + 1, f, Awaiting)
  BY ScanPush
<1> QED BY <1>1, <1>2 DEF Over

LEMMA OverPopped ==
  ASSUME NEW o \in Stacks, NEW n \in Int, NEW c
  PROVE  Pop(Over(<<c>> \o o, n)) = Over(o, n + 1)
<1>1. PICK f, p : f = FALSE /\ p = <<c>> \o o
  OBVIOUS
<1>2. Pop(Scan(p, n, f, Awaiting)) = Scan(Tail(p), n + 1, f, Awaiting)
  BY ScanPop
<1>3. Tail(p) = o
  <2> DEFINE T == {LeftBrace, LeftBracket, Quote, c}
  <2>1. o \in Seq(T)
    BY DEF Stacks
  <2>2. <<c>> \in Seq(T) /\ Len(<<c>>) = 1
    OBVIOUS
  <2> HIDE DEF T
  <2>3. PICK x \in Seq(T) : x = <<c>> /\ Len(x) = 1
    BY <2>2
  <2>4. p \in Seq(T) /\ AreBeside(x, o, p)
    BY <1>1, <2>1, <2>3, JoinedTexts DEF Beside
  <2>5. PICK n_ \in Nat : n_ = Len(o)
    BY <2>1
  <2>6. Len(p) = 1 + n_ /\ \A j \in 1..n_ : p[1 + j] = o[j]
    BY <2>3, <2>4, <2>5 DEF AreBeside
  <2>7. Tail(p) \in Seq(T) /\ Len(Tail(p)) = n_ /\ \A i \in 1..n_ : Tail(p)[i] = p[i + 1]
    <3>1. p # <<>>
      BY <2>4, <2>6
    <3>2. Tail(p) \in Seq(T) /\ Len(Tail(p)) = Len(p) - 1 /\ \A i \in 1..Len(Tail(p)) : Tail(p)[i] = p[i + 1]
      BY <2>4, <3>1, HeadTailProperties
    <3> QED BY <2>6, <3>2
  <2>8. \A i \in 1..n_ : Tail(p)[i] = o[i]
    <3> TAKE i \in 1..n_
    <3>1. i + 1 = 1 + i
      OBVIOUS
    <3> QED BY <2>6, <2>7, <3>1
  <2> QED BY <2>1, <2>5, <2>7, <2>8, SeqEqual
<1> QED BY <1>1, <1>2, <1>3 DEF Over

(* A bracket or quote that is open is not the end of the stack below it. *)
LEMMA OpenIs ==
  ASSUME NEW o \in Stacks, NEW c
  PROVE  (<<c>> \o o)[1] = c /\ \A d : <<c>> \o o # <<d>>
<1> DEFINE T == {LeftBrace, LeftBracket, Quote, c}
<1>1. o \in Seq(T) /\ Len(o) > 0
  BY DEF Stacks
<1>2. <<c>> \in Seq(T) /\ Len(<<c>>) = 1 /\ <<c>>[1] = c
  OBVIOUS
<1> HIDE DEF T
<1>3. PICK x \in Seq(T) : x = <<c>> /\ Len(x) = 1 /\ x[1] = c
  BY <1>2
<1>4. PICK p \in Seq(T) : p = x \o o /\ AreBeside(x, o, p)
  BY <1>1, JoinedTexts DEF Beside
<1>5. p[1] = c /\ Len(p) = 1 + Len(o)
  BY <1>3, <1>4 DEF AreBeside
<1>6. \A d : Len(<<d>>) = 1
  OBVIOUS
<1>7. Len(p) # 1
  BY <1>1, <1>5
<1> QED BY <1>3, <1>4, <1>5, <1>6, <1>7

(* A bracket or a quote is put on the stack, and its partner takes it      *)
(* away.                                                                   *)
LEMMA OverOpens ==
  ASSUME NEW o \in Stacks, NEW n \in Int, NEW c
  PROVE  c \in {LeftBrace, LeftBracket} \/ (c = Quote /\ o[1] # Quote)
         => Take(Over(o, n), c) = Over(<<c>> \o o, n + 1) /\ <<c>> \o o \in Stacks
<1>1. SUFFICES ASSUME c \in {LeftBrace, LeftBracket} \/ (c = Quote /\ o[1] # Quote)
               PROVE  Take(Over(o, n), c) = Over(<<c>> \o o, n + 1) /\ <<c>> \o o \in Stacks
  OBVIOUS
<1>2. Take(Over(o, n), c) = Bracket(Over(o, n), c)
  BY <1>1, OverTakes, EscapeIs
<1>3. Bracket(Over(o, n), c) = Push(Over(o, n), c)
  BY <1>1, BracketCases, OverFields
<1>4. <<c>> \o o \in Stacks
  BY <1>1, StackPushed
<1> QED BY <1>2, <1>3, <1>4, OverPushed

LEMMA OverCloses ==
  ASSUME NEW o \in Stacks, NEW n \in Int, NEW c, NEW d
  PROVE  \/ c = Quote /\ d = Quote
         \/ c = LeftBracket /\ d = RightBracket
         \/ c = LeftBrace /\ d = RightBrace
         => Take(Over(<<c>> \o o, n), d) = Over(o, n + 1)
<1>1. SUFFICES ASSUME \/ c = Quote /\ d = Quote
                      \/ c = LeftBracket /\ d = RightBracket
                      \/ c = LeftBrace /\ d = RightBrace
               PROVE  Take(Over(<<c>> \o o, n), d) = Over(o, n + 1)
  OBVIOUS
<1>2. PICK p \in Stacks : p = <<c>> \o o
  BY <1>1, StackPushed
<1>3. p[1] = c /\ p # <<LeftBrace>>
  BY <1>2, OpenIs
<1>4. PICK s : s = Over(p, n) /\ Open(s) = c /\ s.open = p
  BY <1>3, OverFields
<1>5. Take(s, d) = Bracket(s, d)
  BY <1>1, <1>4, OverTakes, EscapeIs
<1>6. Bracket(s, d) = Pop(s)
  <2>1. CASE c = Quote /\ d = Quote
    BY <1>4, <2>1, BracketCases
  <2>2. CASE c = LeftBracket /\ d = RightBracket
    BY <1>4, <2>2, BracketCases DEF Close
  <2>3. CASE c = LeftBrace /\ d = RightBrace
    BY <1>3, <1>4, <2>3, BracketCases DEF Close
  <2> QED BY <1>1, <2>1, <2>2, <2>3
<1> QED BY <1>2, <1>4, <1>5, <1>6, OverPopped

(* A text passes over a stack of open brackets when its scan, from         *)
(* anywhere, ends behind it with the same stack: nothing, plain            *)
(* characters, and texts one after the other do.                           *)
LEMMA PassesNothing ==
  ASSUME NEW o \in Stacks
  PROVE  PassesOver(<<>>, o)
<1>1. SUFFICES ASSUME NEW n \in Int PROVE Reach(Over(o, n), <<>>, Over(o, n + Len(<<>>)))
  BY DEF PassesOver
<1>2. n + Len(<<>>) = n
  OBVIOUS
<1>3. Over(o, n) \in Scans
  BY OverIs
<1> QED BY <1>2, <1>3, ReachNothing

LEMMA PassesPlain ==
  ASSUME NEW o \in Stacks, NEW c, Plain(c)
  PROVE  PassesOver(<<c>>, o)
<1>1. SUFFICES ASSUME NEW n \in Int PROVE Reach(Over(o, n), <<c>>, Over(o, n + Len(<<c>>)))
  BY DEF PassesOver
<1>2. n + Len(<<c>>) = n + 1
  OBVIOUS
<1>3. Over(o, n) \in Scans /\ Take(Over(o, n), c) = Over(o, n + 1)
  BY OverIs, OverPlain
<1> QED BY <1>2, <1>3, ReachOne

LEMMA PassesBoth ==
  ASSUME NEW S, NEW x \in Seq(S), NEW y \in Seq(S), NEW o, PassesOver(x, o), PassesOver(y, o)
  PROVE  PassesOver(x \o y, o)
<1>1. SUFFICES ASSUME NEW n \in Int PROVE Reach(Over(o, n), x \o y, Over(o, n + Len(x \o y)))
  BY DEF PassesOver
<1>2. PICK m \in Int : m = n + Len(x) /\ m + Len(y) = n + Len(x \o y)
  <2>1. Len(x \o y) = Len(x) + Len(y) /\ Len(x) \in Nat /\ Len(y) \in Nat
    BY ConcatProperties
  <2>2. n + Len(x) \in Int /\ (n + Len(x)) + Len(y) = n + Len(x \o y)
    BY <2>1
  <2> QED BY <2>2
<1>3. Reach(Over(o, n), x, Over(o, m)) /\ Reach(Over(o, m), y, Over(o, m + Len(y)))
  BY <1>2 DEF PassesOver
<1> QED BY <1>2, <1>3, ReachBoth

(* An escape and what it escapes. *)
LEMMA PassesEscaped ==
  ASSUME NEW o \in Stacks, NEW c
  PROVE  PassesOver(<<Escape>> \o <<c>>, o)
<1>1. SUFFICES ASSUME NEW n \in Int
               PROVE  Reach(Over(o, n), <<Escape>> \o <<c>>, Over(o, n + Len(<<Escape>> \o <<c>>)))
  BY DEF PassesOver
<1> DEFINE T == {Escape, c}
<1>2. <<Escape>> \in Seq(T) /\ <<c>> \in Seq(T) /\ Len(<<Escape>>) = 1 /\ Len(<<c>>) = 1
  OBVIOUS
<1> HIDE DEF T
<1>3. n + Len(<<Escape>> \o <<c>>) = n + 1 + 1
  BY <1>2, ConcatProperties
<1>4. PICK f, t \in BOOLEAN : f = FALSE /\ t = TRUE
  OBVIOUS
<1>5. PICK s : s = Scan(o, n, f, Awaiting) /\ s.ec = Awaiting /\ s.skip = f
  BY ScanFields
<1>6. PICK u : u = Scan(o, n + 1, t, Awaiting) /\ u.ec = Awaiting /\ u.skip = t
  BY ScanFields
<1>7. Take(s, Escape) = u
  <2>1. Take(s, Escape) = Skip(s)
    BY <1>4, <1>5 DEF Take, Awaiting
  <2>2. Skip(Scan(o, n, f, Awaiting)) = Scan(o, n + 1, TRUE, Awaiting)
    BY ScanSkip
  <2> QED BY <1>4, <1>5, <1>6, <2>1, <2>2
<1>8. Take(u, c) = Scan(o, n + 1 + 1, f, Awaiting)
  <2>1. Take(u, c) = Skipped(u)
    BY <1>4, <1>6 DEF Take, Awaiting
  <2>2. Skipped(Scan(o, n + 1, t, Awaiting)) = Scan(o, n + 1 + 1, FALSE, Awaiting)
    BY ScanSkipped, ZenonT(30)
  <2> QED BY <1>4, <1>6, <2>1, <2>2
<1>9. s \in Scans /\ u \in Scans
  BY <1>4, <1>5, <1>6, VerdictsAre DEF Scan, Scans
<1>10. Reach(s, <<Escape>>, u) /\ Reach(u, <<c>>, Scan(o, n + 1 + 1, f, Awaiting))
  BY <1>7, <1>8, <1>9, ReachOne
<1>11. Reach(s, <<Escape>> \o <<c>>, Scan(o, n + 1 + 1, f, Awaiting))
  BY <1>2, <1>10, ReachBoth
<1> QED BY <1>3, <1>4, <1>5, <1>11 DEF Over

(* What is enclosed: by quotes or brackets that match. *)
Enclose(c, x, d) == (<<c>> \o x) \o <<d>>
Match(c, d) ==
  \/ c = Quote /\ d = Quote
  \/ c = LeftBracket /\ d = RightBracket
  \/ c = LeftBrace /\ d = RightBrace

LEMMA EncloseIs ==
  ASSUME NEW S, NEW c \in S, NEW d \in S, NEW x \in Seq(S)
  PROVE  Enclose(c, x, d) \in Seq(S) /\ Len(Enclose(c, x, d)) = Len(x) + 2
<1>1. <<c>> \in Seq(S) /\ <<d>> \in Seq(S) /\ Len(<<c>>) = 1 /\ Len(<<d>>) = 1
  OBVIOUS
<1>2. PICK y \in Seq(S) : y = <<c>> \o x /\ Len(y) = 1 + Len(x)
  <2>1. <<c>> \o x \in Seq(S) /\ Len(<<c>> \o x) = Len(<<c>>) + Len(x)
    BY <1>1, ConcatProperties
  <2> QED BY <1>1, <2>1
<1>3. y \o <<d>> \in Seq(S) /\ Len(y \o <<d>>) = Len(y) + 1
  BY <1>1, ConcatProperties
<1>4. Len(y) + 1 = Len(x) + 2
  BY <1>2
<1> QED BY <1>2, <1>3, <1>4 DEF Enclose

(* A text between a bracket and its partner passes if it does within them. *)
LEMMA PassesEnclosed ==
  ASSUME NEW S, NEW c \in S, NEW d \in S, NEW x \in Seq(S), NEW o \in Stacks,
         Match(c, d), c # Quote \/ o[1] # Quote, PassesOver(x, <<c>> \o o)
  PROVE  PassesOver(Enclose(c, x, d), o)
<1>1. SUFFICES ASSUME NEW n \in Int
               PROVE  Reach(Over(o, n), Enclose(c, x, d), Over(o, n + Len(Enclose(c, x, d))))
  BY DEF PassesOver
<1>2. PICK p \in Stacks : p = <<c>> \o o /\ Take(Over(o, n), c) = Over(p, n + 1)
  BY OverOpens DEF Match
<1>3. PICK m \in Int : m = n + 1 + Len(x) /\ m + 1 = n + Len(Enclose(c, x, d))
  <2>1. Len(x) \in Nat /\ Len(Enclose(c, x, d)) = Len(x) + 2
    BY EncloseIs
  <2>2. n + 1 + Len(x) \in Int /\ (n + 1 + Len(x)) + 1 = n + Len(Enclose(c, x, d))
    BY <2>1
  <2> QED BY <2>2
<1>4. Take(Over(p, m), d) = Over(o, m + 1)
  BY <1>2, OverCloses DEF Match
<1>5. Over(o, n) \in Scans /\ Over(p, m) \in Scans
  BY OverIs
<1>6. Reach(Over(o, n), <<c>>, Over(p, n + 1))
  BY <1>2, <1>5, ReachOne
<1>7. Reach(Over(p, n + 1), x, Over(p, m))
  <2>1. PICK k \in Int : k = n + 1 /\ m = k + Len(x)
    BY <1>3
  <2>2. PassesOver(x, p)
    BY <1>2
  <2>3. Reach(Over(p, k), x, Over(p, k + Len(x)))
    BY <2>2 DEF PassesOver
  <2> QED BY <2>1, <2>3
<1>8. Reach(Over(p, m), <<d>>, Over(o, m + 1))
  BY <1>4, <1>5, ReachOne
<1>9. <<c>> \in Seq(S) /\ <<d>> \in Seq(S)
  OBVIOUS
<1>10. PICK y \in Seq(S) : y = <<c>> \o x
  BY <1>9, ConcatProperties
<1>11. Reach(Over(o, n), y, Over(p, m))
  BY <1>6, <1>7, <1>9, <1>10, ReachBoth
<1>12. Reach(Over(o, n), y \o <<d>>, Over(o, m + 1))
  BY <1>8, <1>9, <1>11, ReachBoth
<1> QED BY <1>3, <1>10, <1>12 DEF Enclose

(* The texts of JSON, as the smallest sets that hold what is written so:   *)
(* within a string, any character that is neither bracket nor quote, and   *)
(* any at all behind an escape; within brackets, such characters, strings  *)
(* and what stands in brackets, one behind the other.                      *)
Within(T, S) ==
  /\ <<>> \in T
  /\ \A x \in T, y \in T : x \o y \in T
  /\ \A c \in S : Plain(c) => <<c>> \in T
StringTexts(S) ==
  {T \in SUBSET Seq(S) : Within(T, S) /\ \A c \in S : <<Escape>> \o <<c>> \in T}
JsonString(x, S) == x \in Seq(S) /\ \A T \in StringTexts(S) : x \in T
ValueTexts(S) ==
  {T \in SUBSET Seq(S) :
     /\ Within(T, S)
     /\ \A x \in Seq(S) : JsonString(x, S) => Enclose(Quote, x, Quote) \in T
     /\ \A x \in T : Enclose(LeftBracket, x, RightBracket) \in T /\ Enclose(LeftBrace, x, RightBrace) \in T}
JsonText(x, S) == x \in Seq(S) /\ \A T \in ValueTexts(S) : x \in T

Special == {LeftBrace, RightBrace, LeftBracket, RightBracket, Quote, Escape}

(* Texts that pass are closed under what a string is made from. *)
LEMMA WithinPasses ==
  ASSUME NEW S, NEW O \in SUBSET Stacks
  PROVE  Within({x \in Seq(S) : \A o \in O : PassesOver(x, o)}, S)
<1> DEFINE T == {x \in Seq(S) : \A o \in O : PassesOver(x, o)}
<1>1. <<>> \in T
  <2>1. <<>> \in Seq(S)
    OBVIOUS
  <2>2. \A o \in O : PassesOver(<<>>, o)
    BY PassesNothing
  <2> QED BY <2>1, <2>2
<1>2. \A x \in T, y \in T : x \o y \in T
  <2> TAKE x \in T, y \in T
  <2>1. x \o y \in Seq(S)
    BY ConcatProperties
  <2>2. \A o \in O : PassesOver(x \o y, o)
    <3> TAKE o \in O
    <3>1. PassesOver(x, o) /\ PassesOver(y, o)
      OBVIOUS
    <3> QED BY <3>1, PassesBoth
  <2> QED BY <2>1, <2>2
<1>3. ASSUME NEW c \in S, Plain(c) PROVE <<c>> \in T
  <2>1. <<c>> \in Seq(S)
    OBVIOUS
  <2>2. \A o \in O : PassesOver(<<c>>, o)
    BY <1>3, PassesPlain
  <2> QED BY <2>1, <2>2
<1> QED BY <1>1, <1>2, <1>3 DEF Within

(* So every string passes over every stack, *)
LEMMA StringPasses ==
  ASSUME NEW S, Special \subseteq S, NEW x, JsonString(x, S), NEW o \in Stacks
  PROVE  PassesOver(x, o)
<1> DEFINE T == {y \in Seq(S) : \A p \in Stacks : PassesOver(y, p)}
<1>1. Within(T, S)
  BY WithinPasses
<1>2. \A c \in S : <<Escape>> \o <<c>> \in T
  <2> TAKE c \in S
  <2>1. Escape \in S
    BY DEF Special
  <2>2. <<Escape>> \in Seq(S) /\ <<c>> \in Seq(S)
    BY <2>1
  <2>3. <<Escape>> \o <<c>> \in Seq(S)
    BY <2>2, ConcatProperties
  <2>4. \A p \in Stacks : PassesOver(<<Escape>> \o <<c>>, p)
    BY PassesEscaped
  <2> QED BY <2>3, <2>4
<1>3. T \in StringTexts(S)
  <2>1. T \subseteq Seq(S)
    OBVIOUS
  <2> HIDE DEF T
  <2> QED BY <1>1, <1>2, <2>1 DEF StringTexts
<1>4. x \in T
  <2> HIDE DEF T
  <2> QED BY <1>3 DEF JsonString
<1> QED BY <1>4

(* and every value over every stack but that of a string. *)
LEMMA TextPasses ==
  ASSUME NEW S, Special \subseteq S, NEW x, JsonText(x, S), NEW o \in Stacks, o[1] # Quote
  PROVE  PassesOver(x, o)
<1> DEFINE O == {p \in Stacks : p[1] # Quote}
           T == {y \in Seq(S) : \A p \in O : PassesOver(y, p)}
<1>1. Within(T, S)
  BY WithinPasses
<1>2. Quote \in S /\ LeftBrace \in S /\ RightBrace \in S /\ LeftBracket \in S /\ RightBracket \in S
  BY DEF Special
<1>3. ASSUME NEW y \in Seq(S), JsonString(y, S) PROVE Enclose(Quote, y, Quote) \in T
  <2>1. Enclose(Quote, y, Quote) \in Seq(S)
    BY <1>2, EncloseIs
  <2>2. ASSUME NEW p \in O PROVE PassesOver(Enclose(Quote, y, Quote), p)
    <3>1. <<Quote>> \o p \in Stacks
      BY StackPushed
    <3>2. PassesOver(y, <<Quote>> \o p)
      BY <1>3, <3>1, StringPasses
    <3>3. Match(Quote, Quote)
      BY DEF Match
    <3> QED BY <1>2, <3>2, <3>3, PassesEnclosed
  <2> QED BY <2>1, <2>2
<1>4. ASSUME NEW c \in {LeftBracket, LeftBrace}, NEW d \in S, Match(c, d), NEW y \in T
      PROVE  Enclose(c, y, d) \in T
  <2>1. c \in S /\ c # Quote
    BY <1>2, TheBrackets
  <2>2. Enclose(c, y, d) \in Seq(S)
    BY <2>1, EncloseIs
  <2>3. ASSUME NEW p \in O PROVE PassesOver(Enclose(c, y, d), p)
    <3>1. <<c>> \o p \in Stacks
      BY StackPushed
    <3>2. <<c>> \o p \in O
      BY <2>1, <3>1, OpenIs
    <3>3. PassesOver(y, <<c>> \o p)
      BY <3>2
    <3> QED BY <1>4, <2>1, <3>3, PassesEnclosed
  <2> QED BY <2>2, <2>3
<1>5. Match(LeftBracket, RightBracket) /\ Match(LeftBrace, RightBrace)
  BY DEF Match
<1>6. T \in ValueTexts(S)
  <2>1. T \subseteq Seq(S)
    OBVIOUS
  <2> HIDE DEF T
  <2> QED BY <1>1, <1>2, <1>3, <1>4, <1>5, <2>1 DEF ValueTexts
<1>7. x \in T
  <2> HIDE DEF T
  <2> QED BY <1>6 DEF JsonText
<1> QED BY <1>7

(* A JSON object is found as a whole. *)
THEOREM JsonObjectsAreFound ==
  ASSUME NEW S, Special \subseteq S, NEW x, JsonText(x, S)
  PROVE  IsObject(Enclose(LeftBrace, x, RightBrace))
<1>1. PICK object : object = Enclose(LeftBrace, x, RightBrace)
  OBVIOUS
<1>2. x \in Seq(S) /\ LeftBrace \in S /\ RightBrace \in S
  BY DEF JsonText, Special
<1>3. object \in Seq(S) /\ Len(object) = Len(x) + 2
  BY <1>1, <1>2, EncloseIs
<1>4. PICK m \in Nat : m = Len(x) + 1 /\ m = Len(object) - 1
  <2>1. PICK k \in Nat : k = Len(x)
    BY <1>2
  <2> QED BY <1>3, <2>1
<1> DEFINE y == x \o <<RightBrace>>
<1>5. <<LeftBrace>> \in Seq(S) /\ <<RightBrace>> \in Seq(S) /\ Len(<<LeftBrace>>) = 1 /\ Len(<<RightBrace>>) = 1
      /\ <<LeftBrace>>[1] = LeftBrace
  BY <1>2
<1>6. y \in Seq(S) /\ Len(y) = m
  <2>1. x \o <<RightBrace>> \in Seq(S) /\ Len(x \o <<RightBrace>>) = Len(x) + Len(<<RightBrace>>)
    BY <1>2, <1>5, ConcatProperties
  <2> QED BY <1>4, <1>5, <2>1
<1>7. object[1] = LeftBrace /\ \A i \in 1..m : object[1 + i] = y[i]
  <2>1. PICK z \in Seq(S) : z = <<LeftBrace>> /\ Len(z) = 1 /\ z[1] = LeftBrace
    BY <1>5
  <2>2. object = Beside(z, y)
    <3>1. (<<LeftBrace>> \o x) \o <<RightBrace>> = <<LeftBrace>> \o (x \o <<RightBrace>>)
      BY <1>2, <1>5, ConcatAssociative
    <3> QED BY <1>1, <2>1, <3>1, Zenon DEF Enclose, Beside, y
  <2> HIDE DEF y
  <2>3. AreBeside(z, y, object)
    BY <1>6, <2>1, <2>2, JoinedTexts
  <2> QED BY <1>6, <2>1, <2>3 DEF AreBeside
<1> HIDE DEF y
<1>8. PICK o \in Stacks : o = <<LeftBrace>> /\ o[1] = LeftBrace
  <2> DEFINE Q == {LeftBrace, LeftBracket, Quote}
  <2>1. <<LeftBrace>> \in Seq(Q) /\ Len(<<LeftBrace>>) = 1 /\ <<LeftBrace>>[1] = LeftBrace
    OBVIOUS
  <2>2. <<LeftBrace>> \in Stacks
    BY <2>1 DEF Stacks
  <2> QED BY <2>1, <2>2
<1>9. PICK p \in Int, n \in Int : p = 1 /\ n = p + 1 /\ n + Len(x) = Len(object)
  <2>1. 1 \in Int /\ 1 + 1 \in Int /\ 1 + 1 + Len(x) = Len(object)
    BY <1>3
  <2> QED BY <2>1
<1>10. Begun(p) = Over(o, n)
  BY <1>8, <1>9, BegunIs DEF Over
<1>11. PICK q \in Int : q = Len(object)
  BY <1>3
<1>12. PassesOver(x, o)
  BY <1>8, TextPasses, TheBrackets
<1>13. Reach(Over(o, n), x, Over(o, q))
  BY <1>9, <1>11, <1>12 DEF PassesOver
<1>14. PICK t : t = Take(Over(o, q), RightBrace) /\ t.ec = "found" /\ t.stop = q /\ ~t.skip
  <2>1. Take(Over(o, q), RightBrace) = Bracket(Over(o, q), RightBrace)
    BY OverTakes, EscapeIs
  <2>2. Bracket(Over(o, q), RightBrace) = Ends(Over(o, q), "found")
    BY <1>8, OverFields, BracketCases
  <2>3. PICK f : f = FALSE
    OBVIOUS
  <2>4. Ends(Scan(o, q, f, Awaiting), "found") = Scan(o, q, f, "found")
    BY ScanEnds
  <2>5. PICK t : t = Scan(o, q, f, "found") /\ t.ec = "found" /\ t.stop = q /\ t.skip = f
    BY ScanFields
  <2> QED BY <2>1, <2>2, <2>3, <2>4, <2>5 DEF Over
<1>15. Reach(Over(o, q), <<RightBrace>>, t)
  BY <1>14, OverIs, ReachOne
<1>16. Reach(Begun(p), y, t)
  BY <1>2, <1>5, <1>10, <1>13, <1>15, ReachBoth DEF y
<1>17. m = Len(object) - p
  BY <1>4, <1>9
<1>18. PICK g : IsRun(g, object, p, m) /\ Scanned(object, p) = g[m]
  BY <1>17, RunOf
<1>19. g[m] = t
  <2>1. \A i \in 1..m : object[p + i] = y[i]
    BY <1>7, <1>9
  <2> QED BY <1>6, <1>16, <1>18, <2>1, ReachIsRun
<1>20. Find(object, <<LeftBrace>>, 1) = p
  <2>1. PICK b \in Nat : b = 0 /\ b + 1 = 1 /\ b + 1 <= Len(object)
    BY <1>3, <1>4
  <2>2. \A i \in 1..b : object[i] # LeftBrace
    BY <2>1
  <2> QED BY <1>3, <1>7, <1>9, <2>1, <2>2, FirstBrace
<1>21. searchJson(object) = Found(p, q)
  <2>1. p # 0
    BY <1>9
  <2> QED BY <1>14, <1>18, <1>19, <1>20, <2>1, SearchIs
<1> QED BY <1>1, <1>9, <1>11, <1>21 DEF IsObject

-----------------------------------------------------------------------------
(* parse_url. *)

(* The characters a URL is held together by. *)
LEMMA UrlMarks ==
  /\ ColonChar # Slash /\ QuestionMark # Hash /\ Slash # Hash /\ Slash # QuestionMark
  /\ ColonChar # "s" /\ "h" # "f" /\ "h" \notin Blanks /\ "f" \notin Blanks
  /\ \A c \in DigitChars : c # Slash
<1>1. ColonChar # Slash /\ QuestionMark # Hash /\ Slash # Hash /\ Slash # QuestionMark
  BY Zenon DEF ColonChar, Slash, QuestionMark, Hash
<1>2. ColonChar # "s" /\ "h" # "f"
  BY Zenon DEF ColonChar
<1>3. "h" \notin Blanks /\ "f" \notin Blanks
  BY Zenon DEF Blanks
<1>4. \A c \in {"0", "1", "2", "3", "4", "5", "6", "7", "8", "9"} : c # Slash
  BY Zenon DEF Slash
<1> QED BY <1>1, <1>2, <1>3, <1>4, DigitsListed, Zenon

AllBlank(x) == \A i \in 1..Len(x) : x[i] \in Blanks

(* Blanks around a text are stripped. *)
LEMMA BlanksStripped ==
  ASSUME NEW S, NEW x \in Seq(S), AllBlank(x), NEW y \in Seq(S), AllBlank(y),
         NEW t \in Seq(S), Len(t) > 0, t[1] \notin Blanks, t[Len(t)] \notin Blanks
  PROVE  string_strip(Beside(x, Beside(t, y))) = t
<1>1. PICK v \in Seq(S), b \in Nat, d \in Nat :
        /\ v = Beside(t, y) /\ b = Len(t) /\ d = Len(y) /\ Len(v) = b + d /\ b > 0
        /\ (\A i \in 1..b : v[i] = t[i]) /\ (\A j \in 1..d : v[b + j] = y[j])
  <2>1. Beside(t, y) \in Seq(S) /\ AreBeside(t, y, Beside(t, y)) /\ Len(t) \in Nat /\ Len(y) \in Nat
    BY JoinedTexts
  <2> QED BY <2>1 DEF AreBeside
<1>2. PICK z \in Seq(S), a \in Nat :
        /\ z = Beside(x, v) /\ a = Len(x) /\ Len(z) = a + (b + d)
        /\ (\A i \in 1..a : z[i] = x[i]) /\ (\A j \in 1..(b + d) : z[a + j] = v[j])
  <2>1. Beside(x, v) \in Seq(S) /\ AreBeside(x, v, Beside(x, v)) /\ Len(x) \in Nat /\ Len(v) = b + d
    BY <1>1, JoinedTexts
  <2>2. PICK z \in Seq(S), a \in Nat : z = Beside(x, v) /\ a = Len(x) /\ AreBeside(x, v, z)
    BY <2>1
  <2> QED BY <2>1, <2>2, ZenonT(30) DEF AreBeside
<1>3. /\ z[a + 1] \notin Blanks /\ z[a + b] \notin Blanks
      /\ \A i \in 1..a : z[i] \in Blanks
      /\ \A i \in (a + b + 1)..(a + b + d) : z[i] \in Blanks
  <2>1. 1 \in 1..b /\ b \in 1..b /\ 1 \in 1..(b + d) /\ b \in 1..(b + d)
    BY <1>1
  <2>2. z[a + 1] = t[1] /\ z[a + b] = t[b]
    BY <1>1, <1>2, <2>1
  <2>3. \A i \in 1..a : z[i] \in Blanks
    BY <1>2 DEF AllBlank
  <2>4. ASSUME NEW i \in (a + b + 1)..(a + b + d) PROVE z[i] \in Blanks
    <3>1. PICK j \in 1..d : i = a + (b + j)
      <4>1. PICK j : j = i - (a + b)
        OBVIOUS
      <4>2. j \in 1..d /\ i = a + (b + j)
        BY <4>1
      <4> QED BY <4>2
    <3>2. b + j \in 1..(b + d)
      OBVIOUS
    <3>3. z[a + (b + j)] = v[b + j] /\ v[b + j] = y[j]
      BY <1>1, <1>2, <3>2
    <3>4. y[j] \in Blanks
      BY <1>1 DEF AllBlank
    <3> QED BY <3>1, <3>3, <3>4
  <2> QED BY <1>1, <2>2, <2>3, <2>4
<1>4. FindLastNotOf(z, Blanks) = a + b
  <2> DEFINE F == {0} \cup {i \in DOMAIN z : z[i] \notin Blanks}
  <2>1. \A i : i \in F <=> i = 0 \/ (i \in 1..(a + (b + d)) /\ z[i] \notin Blanks)
    BY <1>2
  <2>2. a + b \in F
    <3>1. a + b \in 1..(a + (b + d))
      BY <1>1
    <3> QED BY <1>3, <2>1, <3>1
  <2>3. \A i \in F : i \in Nat /\ i <= a + b
    <3> TAKE i \in F
    <3>1. CASE i = 0
      BY <3>1
    <3>2. CASE i \in 1..(a + (b + d)) /\ z[i] \notin Blanks
      <4>1. i \notin (a + b + 1)..(a + b + d)
        BY <1>3, <3>2
      <4> QED BY <3>2, <4>1, SMTT(30)
    <3> QED BY <2>1, <3>1, <3>2
  <2> HIDE DEF F
  <2>4. Max(F) = a + b
    BY <2>2, <2>3 DEF Max
  <2> QED BY <2>4 DEF FindLastNotOf, F
<1>5. FindFirstNotOf(z, Blanks) = a + 1
  <2> DEFINE F == {Len(z) + 1} \cup {i \in DOMAIN z : z[i] \notin Blanks}
  <2>1. \A i : i \in F <=> i = a + (b + d) + 1 \/ (i \in 1..(a + (b + d)) /\ z[i] \notin Blanks)
    BY <1>2
  <2>2. a + 1 \in F
    <3>1. a + 1 \in 1..(a + (b + d))
      BY <1>1
    <3> QED BY <1>3, <2>1, <3>1
  <2>3. \A i \in F : i \in Nat /\ a + 1 <= i
    <3> TAKE i \in F
    <3>1. CASE i = a + (b + d) + 1
      BY <3>1
    <3>2. CASE i \in 1..(a + (b + d)) /\ z[i] \notin Blanks
      <4>1. i \notin 1..a
        BY <1>3, <3>2
      <4> QED BY <3>2, <4>1
    <3> QED BY <2>1, <3>1, <3>2
  <2> HIDE DEF F
  <2>4. Min(F) = a + 1
    BY <2>2, <2>3 DEF Min
  <2> QED BY <2>4 DEF FindFirstNotOf, F
<1>6. SubSeq(z, a + 1, a + b) = t
  <2>1. Piece(Beside(x, v), Len(x) + 1, Len(x) + b) = Piece(v, 1, b)
    <3>1. \A w \in Seq(S) : \A m \in Nat \ {0}, n \in Nat : n <= Len(w) /\ m <= n + 1
                           => Piece(Beside(x, w), Len(x) + m, Len(x) + n) = Piece(w, m, n)
      BY PieceBehind
    <3>2. 1 \in Nat \ {0} /\ b <= Len(v) /\ 1 <= b + 1
      BY <1>1
    <3> QED BY <3>1, <3>2
  <2>2. Piece(Beside(t, y), 1, Len(t) + 0) = Beside(t, Piece(y, 1, 0))
    <3>1. 0 \in Nat /\ 0 <= Len(y)
      BY <1>1
    <3> QED BY <3>1, PieceAcross
  <2>3. Beside(t, Piece(y, 1, 0)) = t /\ Len(t) + 0 = b
    <3>1. Piece(y, 1, 0) = <<>>
      BY SubSeqEmpty DEF Piece
    <3> QED BY <1>1, <3>1, ConcatEmptySeq DEF Beside
  <2> QED BY <1>1, <1>2, <2>1, <2>2, <2>3 DEF Piece
<1>7. a + b # 0
  BY <1>1
<1>8. string_strip(z) = t
  BY <1>4, <1>5, <1>6, <1>7 DEF string_strip
<1> QED BY <1>1, <1>2, <1>8

(* The number of a port is read back. *)
InShort(n) == n % 2^16
(* The number of a port is read back. *)
LEMMA PortRead ==
  ASSUME NEW n \in Nat, n < 2^16
  PROVE  /\ Padded(n, 1) \in Seq(DigitChars) /\ Len(Padded(n, 1)) > 0
         /\ _atoi(Padded(n, 1)) = n
<1>1. n < 65536 /\ n % 2^16 = n
  <2>1. 2^16 = 65536
    BY SMT
  <2> QED BY <2>1
<1>2. n < TenTo(9) /\ 1 \in 1..9
  BY <1>1, SMT DEF TenTo
<1>3. PICK P \in Seq(DigitChars) : P = Padded(n, 1) /\ Len(P) > 0 /\ Number(P) = n
  <2>1. Padded(n, 1) \in Seq(DigitChars) /\ Len(Padded(n, 1)) \in 1..9
    BY <1>2, PaddedIs
  <2>2. Number(Padded(n, 1)) = n
    BY <1>2, NumberPadded
  <2>3. \A k \in 1..9 : k > 0
    OBVIOUS
  <2> QED BY <2>1, <2>2, <2>3, Zenon
<1>4. PICK X \in Seq(DigitChars) : X = <<>> /\ Len(X) = 0
  BY EmptySeq
<1>5. atoi(X \o P) = Number(P)
  <2>1. (\A i \in 1..Len(X) : X[i] \in Blanks) /\ \A i \in 1..Len(P) : P[i] \in DigitChars
    BY <1>4
  <2> QED BY <1>3, <2>1, BlanksSkipped
<1>6. X \o P = P
  BY <1>4, ConcatEmptySeq
<1>7. _atoi(P) = n
  <2>1. atoi(P) = n
    BY <1>3, <1>5, <1>6
  <2>2. _atoi(P) = InShort(atoi(P))
    BY DEF _atoi, InShort
  <2>3. InShort(n) = n
    BY <1>1 DEF InShort
  <2> QED BY <2>1, <2>2, <2>3
<1> QED BY <1>3, <1>7

(* The protocol a text begins with is the only one that is known in it.    *)
Opening(i) == Beside(Protocols[i], Separator)

WritesUrls(S) == {"h", "t", "p", "s", "f", ColonChar, Slash} \subseteq S
Opens(p, z) == Len(z) = Len(p) + 3 /\ (\A i \in 1..Len(p) : z[i] = p[i]) /\ z[Len(p) + 1] = ColonChar

(* The three protocols and what follows them, apart at their first or      *)
(* fifth character.                                                        *)
LEMMA ProtocolsAre ==
  ASSUME NEW S, WritesUrls(S)
  PROVE  /\ \A i \in 1..3 : /\ Opening(i) \in Seq(S) /\ Protocols[i] \in Seq(S)
                            /\ Len(Opening(i)) = Len(Protocols[i]) + 3 /\ Len(Protocols[i]) > 0
                            /\ Opening(i)[1] \notin Blanks
         /\ Opening(1)[1] = "h" /\ Opening(2)[1] = "h" /\ Opening(3)[1] = "f"
         /\ Opening(1)[5] = "s" /\ Opening(2)[5] = ColonChar
         /\ Len(Opening(1)) = 8 /\ Len(Opening(2)) = 7 /\ Len(Opening(3)) = 6
<1>1. /\ Protocols[1] \in Seq(S) /\ Len(Protocols[1]) = 5 /\ Protocols[1][1] = "h" /\ Protocols[1][5] = "s"
      /\ Protocols[2] \in Seq(S) /\ Len(Protocols[2]) = 4 /\ Protocols[2][1] = "h"
      /\ Protocols[3] \in Seq(S) /\ Len(Protocols[3]) = 3 /\ Protocols[3][1] = "f"
  BY DEF Protocols, WritesUrls
<1>2. Separator \in Seq(S) /\ Len(Separator) = 3 /\ Separator[1] = ColonChar
  BY DEF Separator, WritesUrls
<1>3. \A p \in Seq(S) : /\ Beside(p, Separator) \in Seq(S) /\ AreBeside(p, Separator, Beside(p, Separator))
  BY <1>2, JoinedTexts
<1>4. \A p \in Seq(S) : Opens(p, Beside(p, Separator))
  <2>1. 1 \in 1..Len(Separator)
    BY <1>2
  <2> QED BY <1>2, <1>3, <2>1 DEF AreBeside, Opens
<1>5. /\ Opening(1) \in Seq(S) /\ Len(Opening(1)) = 8 /\ Opening(1)[1] = "h" /\ Opening(1)[5] = "s"
      /\ Opening(2) \in Seq(S) /\ Len(Opening(2)) = 7 /\ Opening(2)[1] = "h" /\ Opening(2)[5] = ColonChar
      /\ Opening(3) \in Seq(S) /\ Len(Opening(3)) = 6 /\ Opening(3)[1] = "f"
  <2>1. Opening(1) \in Seq(S) /\ Opening(2) \in Seq(S) /\ Opening(3) \in Seq(S)
    BY <1>1, <1>3 DEF Opening
  <2>2. 1 \in 1..5 /\ 5 \in 1..5 /\ 1 \in 1..4 /\ 1 \in 1..3 /\ 4 + 1 = 5
    OBVIOUS
  <2>3. Opens(Protocols[1], Opening(1)) /\ Opens(Protocols[2], Opening(2)) /\ Opens(Protocols[3], Opening(3))
    BY <1>1, <1>4 DEF Opening
  <2>4. Len(Opening(1)) = 8 /\ Opening(1)[1] = "h" /\ Opening(1)[5] = "s"
    BY <1>1, <2>2, <2>3 DEF Opens
  <2>5. Len(Opening(2)) = 7 /\ Opening(2)[1] = "h" /\ Opening(2)[5] = ColonChar
    BY <1>1, <2>2, <2>3 DEF Opens
  <2>6. Len(Opening(3)) = 6 /\ Opening(3)[1] = "f"
    BY <1>1, <2>2, <2>3 DEF Opens
  <2> QED BY <2>1, <2>4, <2>5, <2>6
<1>6. \A i \in 1..3 : i = 1 \/ i = 2 \/ i = 3
  OBVIOUS
<1>7. \A i \in 1..3 : /\ Opening(i) \in Seq(S) /\ Protocols[i] \in Seq(S)
                      /\ Len(Opening(i)) = Len(Protocols[i]) + 3 /\ Len(Protocols[i]) > 0
  <2>1. \A i \in 1..3 : Opening(i) \in Seq(S) /\ Protocols[i] \in Seq(S)
    BY <1>1, <1>5, <1>6
  <2>2. \A i \in 1..3 : Len(Opening(i)) = Len(Protocols[i]) + 3 /\ Len(Protocols[i]) > 0
    <3>1. \A i \in 1..3 : Protocols[i] \in Seq(S) /\ Len(Protocols[i]) > 0
      <4>1. 5 > 0 /\ 4 > 0 /\ 3 > 0
        OBVIOUS
      <4> QED BY <1>1, <1>6, <4>1, Zenon
    <3>2. \A i \in 1..3 : Opens(Protocols[i], Opening(i))
      BY <1>4, <3>1 DEF Opening
    <3> QED BY <3>1, <3>2 DEF Opens
  <2> QED BY <2>1, <2>2
<1>8. \A i \in 1..3 : Opening(i)[1] \notin Blanks
  BY <1>5, <1>6, UrlMarks
<1> QED BY <1>5, <1>7, <1>8

(* What begins with a text has its characters. *)
LEMMA PrefixIs ==
  ASSUME NEW S, NEW x \in Seq(S), NEW u \in Seq(S)
  PROVE  /\ IsPrefix(x, u) => Len(x) <= Len(u) /\ \A j \in 1..Len(x) : u[j] = x[j]
         /\ \A t \in Seq(S) : IsPrefix(x, Beside(x, t))
<1>1. PICK n \in Nat : n = Len(x)
  OBVIOUS
<1>2. SubSeq(x, 1, Len(x)) = x
  BY SubSeqFull
<1>3. ASSUME IsPrefix(x, u) PROVE Len(x) <= Len(u) /\ \A j \in 1..Len(x) : u[j] = x[j]
  <2>1. Len(x) <= Len(u) /\ Piece(u, 1, n) = x
    BY <1>1, <1>2, <1>3 DEF IsPrefix, Piece
  <2>2. IsPiece(Piece(u, 1, n), u, 1, n, S)
    <3>1. Bounds(u, 1, n)
      BY <1>1, <2>1 DEF Bounds
    <3> QED BY <3>1, PieceIs
  <2>3. \A k \in 1..(n - 1 + 1) : Piece(u, 1, n)[k] = u[1 + k - 1]
    BY <2>2 DEF IsPiece
  <2>4. \A j \in 1..n : j \in 1..(n - 1 + 1) /\ 1 + j - 1 = j
    BY <1>1
  <2>5. \A j \in 1..n : x[j] = u[j]
    BY <2>1, <2>3, <2>4
  <2> QED BY <1>1, <2>1, <2>5
<1>4. ASSUME NEW t \in Seq(S) PROVE IsPrefix(x, Beside(x, t))
  <2>1. Piece(Beside(x, t), 1, Len(x) + 0) = Beside(x, Piece(t, 1, 0))
    <3>1. 0 \in Nat /\ 0 <= Len(t)
      OBVIOUS
    <3> QED BY <3>1, PieceAcross
  <2>2. Beside(x, Piece(t, 1, 0)) = x
    <3>1. Piece(t, 1, 0) = <<>>
      BY SubSeqEmpty DEF Piece
    <3> QED BY <3>1, ConcatEmptySeq DEF Beside
  <2>3. SubSeq(Beside(x, t), 1, Len(x)) = x
    <3>1. Len(x) + 0 = Len(x)
      BY <1>1
    <3> QED BY <2>1, <2>2, <3>1 DEF Piece
  <2>4. Len(x) <= Len(Beside(x, t))
    <3>1. AreBeside(x, t, Beside(x, t)) /\ Len(t) \in Nat
      BY JoinedTexts
    <3> QED BY <1>1, <3>1 DEF AreBeside
  <2> QED BY <1>2, <2>3, <2>4 DEF IsPrefix
<1> QED BY <1>3, <1>4

(* A text that opens with a protocol opens with no other. *)
LEMMA ProtocolKnown ==
  ASSUME NEW S, WritesUrls(S),
         NEW i \in 1..3, NEW t \in Seq(S)
  PROVE  {k \in DOMAIN Protocols : IsPrefix(Protocols[k] \o Separator, Beside(Opening(i), t))} = {i}
<1>1. /\ \A k \in 1..3 : Opening(k) \in Seq(S)
      /\ Opening(1)[1] = "h" /\ Opening(2)[1] = "h" /\ Opening(3)[1] = "f"
      /\ Opening(1)[5] = "s" /\ Opening(2)[5] = ColonChar
      /\ Len(Opening(1)) = 8 /\ Len(Opening(2)) = 7 /\ Len(Opening(3)) = 6
  BY ProtocolsAre
<1>2. PICK u \in Seq(S) : u = Beside(Opening(i), t) /\ IsPrefix(Opening(i), u)
  BY <1>1, JoinedTexts, PrefixIs
<1>3. \A k \in 1..3 : IsPrefix(Opening(k), u) => \A j \in 1..Len(Opening(k)) : u[j] = Opening(k)[j]
  BY <1>1, PrefixIs
<1>4. ASSUME NEW k \in 1..3, IsPrefix(Opening(k), u) PROVE k = i
  <2>1. \A j \in 1..Len(Opening(k)) : u[j] = Opening(k)[j]
    BY <1>3, <1>4
  <2>2. \A j \in 1..Len(Opening(i)) : u[j] = Opening(i)[j]
    BY <1>2, <1>3
  <2>3. 1 \in 1..6 /\ 1 \in 1..7 /\ 5 \in 1..7 /\ 1 \in 1..8 /\ 5 \in 1..8
    OBVIOUS
  <2>4. k = 1 \/ k = 2 \/ k = 3
    OBVIOUS
  <2>5. i = 1 \/ i = 2 \/ i = 3
    OBVIOUS
  <2>6. "h" # "f" /\ ColonChar # "s"
    BY UrlMarks
  <2>7. u[1] = Opening(k)[1] /\ u[1] = Opening(i)[1]
    <3>1. Len(Opening(k)) >= 6 /\ Len(Opening(i)) >= 6
      <4>1. Len(Opening(k)) \in {6, 7, 8}
        BY <1>1, <2>4
      <4>2. Len(Opening(i)) \in {6, 7, 8}
        BY <1>1, <2>5
      <4>3. \A n \in {6, 7, 8} : n >= 6
        OBVIOUS
      <4> QED BY <4>1, <4>2, <4>3
    <3>2. 1 \in 1..Len(Opening(k)) /\ 1 \in 1..Len(Opening(i))
      BY <3>1
    <3> QED BY <2>1, <2>2, <3>2
  <2>8. (k = 3) <=> (i = 3)
    BY <1>1, <2>4, <2>5, <2>6, <2>7
  <2>9. CASE k # 3 /\ i # 3
    <3>1. 5 \in 1..Len(Opening(k)) /\ 5 \in 1..Len(Opening(i))
      BY <1>1, <2>3, <2>4, <2>5, <2>9
    <3>2. Opening(k)[5] = Opening(i)[5]
      BY <2>1, <2>2, <3>1
    <3> QED BY <1>1, <2>4, <2>5, <2>6, <2>9, <3>2
  <2> QED BY <2>8, <2>9
<1>5. DOMAIN Protocols = 1..3
  BY DEF Protocols
<1>6. \A k \in 1..3 : Protocols[k] \o Separator = Opening(k)
  BY DEF Opening, Beside
<1>7. {k \in 1..3 : IsPrefix(Opening(k), u)} = {i}
  BY <1>2, <1>4
<1> QED BY <1>2, <1>5, <1>6, <1>7

(* Behind the first c of two texts is what follows it. *)
LEMMA AfterTheFirst ==
  ASSUME NEW S, NEW x \in Seq(S), NEW w \in Seq(S), NEW c \in S, NoneFrom(x, c, 1)
  PROVE  LET z == Beside(x, Beside(<<c>>, w)) IN
         /\ After(z, Find(z, <<c>>, 1)) = w /\ Before(z, Find(z, <<c>>, 1)) = x
<1>1. PICK y \in Seq(S), b \in Nat, a \in Nat :
        y = Beside(<<c>>, w) /\ b = Len(w) /\ Len(y) = b + 1 /\ y[1] = c /\ a = Len(x)
  <2>1. Beside(<<c>>, w) \in Seq(S) /\ Fronted(c, w, Beside(<<c>>, w)) /\ Len(w) \in Nat /\ Len(x) \in Nat
    BY CharacterInFront
  <2> QED BY <2>1 DEF Fronted
<1>2. PICK z \in Seq(S) : z = Beside(x, y) /\ Len(z) = a + (b + 1)
  <2>1. Beside(x, y) \in Seq(S) /\ AreBeside(x, y, Beside(x, y))
    BY JoinedTexts
  <2> QED BY <1>1, <2>1 DEF AreBeside
<1>3. Find(Beside(x, y), <<c>>, 1) = a + 1 /\ Before(Beside(x, y), Find(Beside(x, y), <<c>>, 1)) = x
  <2>1. Len(y) > 0 /\ ~(Len(y) = 0)
    BY <1>1
  <2>2. \A v \in Seq(S) : (Len(v) > 0 => v[1] = c) =>
          /\ Find(Beside(x, v), <<c>>, 1) = IF Len(v) = 0 THEN 0 ELSE Len(x) + 1
          /\ Before(Beside(x, v), Find(Beside(x, v), <<c>>, 1)) = x
    BY BeforeTheFirst
  <2> QED BY <1>1, <2>1, <2>2
<1>4. SubSeq(z, (a + 1) + 1, Len(z)) = w
  <2>1. Piece(Beside(x, y), Len(x) + 2, Len(x) + (b + 1)) = Piece(y, 2, b + 1)
    <3>1. \A v \in Seq(S) : \A m \in Nat \ {0}, n \in Nat : n <= Len(v) /\ m <= n + 1
                           => Piece(Beside(x, v), Len(x) + m, Len(x) + n) = Piece(v, m, n)
      BY PieceBehind
    <3>2. 2 \in Nat \ {0} /\ b + 1 \in Nat /\ b + 1 <= Len(y) /\ 2 <= (b + 1) + 1
      BY <1>1
    <3> QED BY <3>1, <3>2
  <2>2. Piece(Beside(<<c>>, w), 1 + 1, 1 + b) = Piece(w, 1, b)
    <3>1. <<c>> \in Seq(S) /\ Len(<<c>>) = 1
      BY OnePiece
    <3>2. PICK h \in Seq(S) : h = <<c>> /\ Len(h) = 1
      BY <3>1
    <3>3. \A m \in Nat \ {0}, n \in Nat : n <= Len(w) /\ m <= n + 1
                           => Piece(Beside(h, w), Len(h) + m, Len(h) + n) = Piece(w, m, n)
      BY PieceBehind
    <3>4. 1 \in Nat \ {0} /\ b <= Len(w) /\ 1 <= b + 1
      BY <1>1
    <3>5. Piece(Beside(h, w), Len(h) + 1, Len(h) + b) = Piece(w, 1, b)
      BY <3>3, <3>4
    <3> QED BY <3>2, <3>5
  <2>3. Piece(w, 1, b) = w
    BY <1>1, SubSeqFull DEF Piece
  <2>4. 1 + 1 = 2 /\ 1 + b = b + 1 /\ Len(x) + 2 = (a + 1) + 1 /\ Len(x) + (b + 1) = Len(z)
    BY <1>1, <1>2
  <2> QED BY <1>1, <1>2, <2>1, <2>2, <2>3, <2>4 DEF Piece
<1>5. After(z, a + 1) = w
  <2>1. a + 1 # 0
    BY <1>1
  <2> QED BY <1>4, <2>1 DEF After
<1> QED BY <1>1, <1>2, <1>3, <1>5

(* A character is in neither of two texts if it is not in both together. *)
LEMMA NoneBeside ==
  ASSUME NEW S, NEW x \in Seq(S), NEW y \in Seq(S), NEW c
  PROVE  NoneFrom(x, c, 1) /\ NoneFrom(y, c, 1) <=> NoneFrom(Beside(x, y), c, 1)
<1>1. PICK a \in Nat, b \in Nat, z \in Seq(S) :
        /\ a = Len(x) /\ b = Len(y) /\ z = Beside(x, y) /\ Len(z) = a + b
        /\ \A i \in 1..a : z[i] = x[i]
        /\ \A j \in 1..b : z[a + j] = y[j]
  <2>1. Beside(x, y) \in Seq(S) /\ AreBeside(x, y, Beside(x, y)) /\ Len(x) \in Nat /\ Len(y) \in Nat
    BY JoinedTexts
  <2> QED BY <2>1 DEF AreBeside
<1>2. /\ NoneFrom(x, c, 1) <=> \A i \in 1..a : x[i] # c
      /\ NoneFrom(y, c, 1) <=> \A j \in 1..b : y[j] # c
      /\ NoneFrom(z, c, 1) <=> \A i \in 1..(a + b) : z[i] # c
  BY <1>1 DEF NoneFrom
<1>3. ASSUME \A i \in 1..a : x[i] # c, \A j \in 1..b : y[j] # c, NEW i \in 1..(a + b) PROVE z[i] # c
  <2>1. CASE i \in 1..a
    BY <1>1, <1>3, <2>1
  <2>2. CASE i \notin 1..a
    <3>1. PICK j : j = i - a
      OBVIOUS
    <3>2. j \in 1..b /\ i = a + j
      BY <2>2, <3>1
    <3> QED BY <1>1, <1>3, <3>2
  <2> QED BY <2>1, <2>2
<1>4. ASSUME \A i \in 1..(a + b) : z[i] # c
      PROVE  (\A i \in 1..a : x[i] # c) /\ \A j \in 1..b : y[j] # c
  <2>1. (\A i \in 1..a : i \in 1..(a + b)) /\ \A j \in 1..b : a + j \in 1..(a + b)
    OBVIOUS
  <2> QED BY <1>1, <1>4, <2>1
<1> QED BY <1>1, <1>2, <1>3, <1>4

(* Between what a URL opens with and its path stands the host: a '/' is    *)
(* looked for from its second character on.                                *)
HostEnds(u, q, host, path, c) ==
  LET slash == Find(u, <<c>>, q + 2)
  IN /\ Len(path) = 0 => slash = 0
     /\ Len(path) > 0 => slash # 0 /\ SubSeq(u, slash, Len(u)) = path
     /\ SubSeq(u, q + 1, IF slash = 0 THEN Len(u) ELSE slash - 1) = host

(* The host and the path are found behind what a URL opens with. *)
LEMMA HostAndPath ==
  ASSUME NEW S, NEW opening \in Seq(S), NEW host \in Seq(S), NEW path \in Seq(S), NEW c \in S,
         Len(host) > 0, NoneFrom(host, c, 1), Len(path) > 0 => path[1] = c
  PROVE  HostEnds(Beside(opening, Beside(host, path)), Len(opening), host, path, c)
<1>1. PICK t \in Seq(S), h \in Nat, p \in Nat :
        /\ t = Beside(host, path) /\ h = Len(host) /\ p = Len(path) /\ Len(t) = h + p /\ h > 0
        /\ (\A i \in 1..h : t[i] = host[i]) /\ (\A j \in 1..p : t[h + j] = path[j])
  <2>1. Beside(host, path) \in Seq(S) /\ AreBeside(host, path, Beside(host, path)) /\ Len(host) \in Nat /\ Len(path) \in Nat
    BY JoinedTexts
  <2> QED BY <2>1 DEF AreBeside
<1>2. PICK u \in Seq(S), q \in Nat :
        /\ u = Beside(opening, t) /\ q = Len(opening) /\ Len(u) = q + (h + p)
        /\ \A j \in 1..(h + p) : u[q + j] = t[j]
  <2>1. Beside(opening, t) \in Seq(S) /\ AreBeside(opening, t, Beside(opening, t)) /\ Len(opening) \in Nat
    BY JoinedTexts
  <2>2. PICK u \in Seq(S), q \in Nat : u = Beside(opening, t) /\ q = Len(opening) /\ AreBeside(opening, t, u)
    BY <2>1
  <2>3. Len(t) = h + p
    BY <1>1
  <2>4. Len(u) = Len(opening) + Len(t) /\ \A j \in 1..Len(t) : u[Len(opening) + j] = t[j]
    BY <2>2 DEF AreBeside
  <2> QED BY <2>2, <2>3, <2>4
<1>3. PICK f : f = Find(u, <<c>>, q + 2) /\ Finds(u, c, q + 2, f)
  <2>1. \A v \in Seq(S) : Finds(v, c, q + 2, Find(v, <<c>>, q + 2))
    <3>1. q + 2 \in Nat \ {0}
      OBVIOUS
    <3> QED BY <3>1, CharacterFinds
  <2> QED BY <2>1
<1>4. \A i \in (q + 2)..(q + h) : u[i] # c
  <2> TAKE i \in (q + 2)..(q + h)
  <2>1. PICK j : j = i - q
    OBVIOUS
  <2>2. j \in 1..h /\ i = q + j /\ j \in 1..(h + p)
    BY <2>1
  <2>3. u[i] = host[j]
    BY <1>1, <1>2, <2>2
  <2>4. host[j] # c
    BY <1>1, <2>2 DEF NoneFrom
  <2> QED BY <2>3, <2>4
<1>5. \A m \in Nat \ {0}, n \in Nat : n <= h + p /\ m <= n + 1 => SubSeq(u, q + m, q + n) = SubSeq(t, m, n)
  <2>1. \A v \in Seq(S) : \A m \in Nat \ {0}, n \in Nat : n <= Len(v) /\ m <= n + 1
                           => Piece(Beside(opening, v), Len(opening) + m, Len(opening) + n) = Piece(v, m, n)
    BY PieceBehind
  <2>2. \A m \in Nat \ {0}, n \in Nat : n <= Len(t) /\ m <= n + 1
                           => Piece(Beside(opening, t), Len(opening) + m, Len(opening) + n) = Piece(t, m, n)
    BY <2>1
  <2> QED BY <1>1, <1>2, <2>2 DEF Piece
<1>6. SubSeq(t, 1, h) = host
  <2>1. Piece(Beside(host, path), 1, Len(host) + 0) = Beside(host, Piece(path, 1, 0))
    <3>1. 0 \in Nat /\ 0 <= Len(path)
      BY <1>1
    <3> QED BY <3>1, PieceAcross
  <2>2. Beside(host, Piece(path, 1, 0)) = host
    <3>1. Piece(path, 1, 0) = <<>>
      BY SubSeqEmpty DEF Piece
    <3> QED BY <3>1, ConcatEmptySeq DEF Beside
  <2>3. Len(host) + 0 = h
    BY <1>1
  <2> QED BY <1>1, <2>1, <2>2, <2>3 DEF Piece
<1>7. SubSeq(u, q + 1, q + h) = host
  <2>1. 1 \in Nat \ {0} /\ h <= h + p /\ 1 <= h + 1
    OBVIOUS
  <2> QED BY <1>5, <1>6, <2>1
<1>8. CASE p = 0
  <2>1. NoneFrom(u, c, q + 2)
    <3>1. Len(u) = q + h
      BY <1>2, <1>8
    <3> QED BY <1>4, <3>1 DEF NoneFrom
  <2>2. f = 0
    BY <1>3, <2>1 DEF Finds
  <2>3. Len(u) = q + h
    BY <1>2, <1>8
  <2>4. HostEnds(u, q, host, path, c)
    BY <1>1, <1>3, <1>7, <1>8, <2>2, <2>3, SMTT(30) DEF HostEnds
  <2> QED BY <1>1, <1>2, <2>4
<1>9. CASE p # 0
  <2>1. PICK i \in Nat : i = q + h + 1
    OBVIOUS
  <2>2. FirstAt(u, c, q + 2, i)
    <3>1. i \in (q + 2)..Len(u) /\ (i - 1) = q + h
      BY <1>1, <1>2, <1>9, <2>1
    <3>2. u[i] = c
      <4>1. h + 1 \in 1..(h + p) /\ 1 \in 1..p /\ i = q + (h + 1)
        BY <1>1, <1>9, <2>1
      <4>2. u[i] = t[h + 1] /\ t[h + 1] = path[1]
        BY <1>1, <1>2, <4>1
      <4> QED BY <1>1, <1>9, <4>2
    <3> QED BY <1>4, <3>1, <3>2 DEF FirstAt
  <2>3. f = i /\ i # 0 /\ i - 1 = q + h
    <3>1. f = i
      BY <1>3, <2>2 DEF Finds
    <3>2. i # 0 /\ i - 1 = q + h
      BY <2>1
    <3> QED BY <3>1, <3>2
  <2>4. SubSeq(u, i, Len(u)) = path
    <3>1. SubSeq(u, q + (h + 1), q + (h + p)) = SubSeq(t, h + 1, h + p)
      <4>1. h + 1 \in Nat \ {0} /\ h + p \in Nat /\ h + p <= h + p /\ h + 1 <= (h + p) + 1
        OBVIOUS
      <4> QED BY <1>5, <4>1
    <3>2. Piece(Beside(host, path), Len(host) + 1, Len(host) + p) = Piece(path, 1, p)
      <4>1. 1 \in Nat \ {0} /\ p <= Len(path) /\ 1 <= p + 1
        BY <1>1
      <4> QED BY <4>1, PieceBehind
    <3>3. Piece(path, 1, p) = path
      BY <1>1, SubSeqFull DEF Piece
    <3>4. SubSeq(t, h + 1, h + p) = path
      BY <1>1, <3>2, <3>3 DEF Piece
    <3>5. i = q + (h + 1) /\ Len(u) = q + (h + p)
      BY <1>2, <2>1
    <3> QED BY <3>1, <3>4, <3>5
  <2>5. HostEnds(u, q, host, path, c)
    <3>1. ~(Len(path) = 0)
      BY <1>1, <1>9
    <3> QED BY <1>3, <1>7, <2>3, <2>4, <3>1 DEF HostEnds
  <2> QED BY <1>1, <1>2, <2>5
<1> QED BY <1>8, <1>9

(* What stands behind a mark, with the mark: nothing if it is empty. *)
Marked(c, w) == IF Len(w) = 0 THEN <<>> ELSE Beside(<<c>>, w)

MarkedOff(z, c, x, w) == Before(z, Find(z, <<c>>, 1)) = x /\ After(z, Find(z, <<c>>, 1)) = w
(* What stands in front of a mark and behind it is found, if the mark is   *)
(* not in front.                                                           *)
LEMMA MarkedParts ==
  ASSUME NEW S, NEW x \in Seq(S), NEW w \in Seq(S), NEW c \in S, NoneFrom(x, c, 1)
  PROVE  /\ Marked(c, w) \in Seq(S) /\ Beside(x, Marked(c, w)) \in Seq(S)
         /\ MarkedOff(Beside(x, Marked(c, w)), c, x, w)
<1>1. CASE Len(w) = 0
  <2>1. PICK y \in Seq(S) : y = <<>> /\ Len(y) = 0
    BY EmptySeq
  <2>2. Marked(c, w) = y /\ w = y
    <3>1. Marked(c, w) = y
      BY <1>1, <2>1 DEF Marked
    <3>2. w = <<>>
      BY <1>1, EmptySeq
    <3> QED BY <2>1, <3>1, <3>2
  <2>3. Find(Beside(x, y), <<c>>, 1) = 0 /\ Before(Beside(x, y), Find(Beside(x, y), <<c>>, 1)) = x
    <3>1. \A v \in Seq(S) : (Len(v) > 0 => v[1] = c) =>
            /\ Find(Beside(x, v), <<c>>, 1) = IF Len(v) = 0 THEN 0 ELSE Len(x) + 1
            /\ Before(Beside(x, v), Find(Beside(x, v), <<c>>, 1)) = x
      BY BeforeTheFirst
    <3>2. Len(y) = 0 /\ ~(Len(y) > 0)
      BY <2>1
    <3> QED BY <2>1, <3>1, <3>2
  <2>4. After(Beside(x, y), Find(Beside(x, y), <<c>>, 1)) = w
    BY <2>1, <2>2, <2>3 DEF After
  <2>5. Beside(x, y) \in Seq(S)
    BY <2>1, JoinedTexts
  <2> QED BY <2>1, <2>2, <2>3, <2>4, <2>5 DEF MarkedOff
<1>2. CASE Len(w) # 0
  <2>1. Marked(c, w) = Beside(<<c>>, w)
    BY <1>2 DEF Marked
  <2>2. Beside(<<c>>, w) \in Seq(S)
    BY OnePiece, JoinedTexts
  <2>3. \A v \in Seq(S) : Beside(x, v) \in Seq(S)
    BY JoinedTexts
  <2>4. MarkedOff(Beside(x, Beside(<<c>>, w)), c, x, w)
    BY AfterTheFirst DEF MarkedOff
  <2> QED BY <2>1, <2>2, <2>3, <2>4
<1> QED BY <1>1, <1>2

(* A mark brings no other character in. *)
LEMMA NoneMarked ==
  ASSUME NEW S, NEW w \in Seq(S), NEW c \in S, NEW d, c # d, NoneFrom(w, d, 1)
  PROVE  NoneFrom(Marked(c, w), d, 1)
<1>1. CASE Len(w) = 0
  <2>1. PICK y \in Seq(S) : y = <<>> /\ Len(y) = 0
    BY EmptySeq
  <2> QED BY <1>1, <2>1 DEF Marked, NoneFrom
<1>2. CASE Len(w) # 0
  <2>1. PICK x \in Seq(S) : x = <<c>> /\ Len(x) = 1 /\ x[1] = c
    BY OnePiece
  <2>2. NoneFrom(x, d, 1)
    <3>1. \A j \in 1..1 : j = 1
      OBVIOUS
    <3> QED BY <2>1, <3>1 DEF NoneFrom
  <2>3. NoneFrom(Beside(x, w), d, 1)
    BY <2>2, NoneBeside
  <2> QED BY <1>2, <2>1, <2>3 DEF Marked
<1> QED BY <1>1, <1>2

(* A URL's texts: in front of its path, and from its path on.              *)
HostText(domain, port) == Beside(domain, Marked(ColonChar, port))
PathText(path, query, fragment) == Beside(Beside(path, Marked(QuestionMark, query)), fragment)

PathPieces(S, path, query, fragment) ==
  /\ path \in Seq(S) /\ query \in Seq(S) /\ fragment \in Seq(S)
  /\ NoneFrom(path, QuestionMark, 1) /\ NoneFrom(path, Hash, 1) /\ NoneFrom(query, Hash, 1)
  /\ Len(fragment) > 0 => fragment[1] = Hash

(* The path and the query are found in what stands from the path on.       *)
PathRead(z, path, query) ==
  LET urlpath == Before(z, Find(z, <<Hash>>, 1)) IN MarkedOff(urlpath, QuestionMark, path, query)

(* The path and the query are found in what stands from the path on. *)
LEMMA PathIsRead ==
  ASSUME NEW S, QuestionMark \in S, Hash \in S, NEW path, NEW query, NEW fragment, PathPieces(S, path, query, fragment)
  PROVE  /\ PathText(path, query, fragment) \in Seq(S)
         /\ Len(PathText(path, query, fragment)) >= Len(path)
         /\ Len(path) > 0 => PathText(path, query, fragment)[1] = path[1]
         /\ PathRead(PathText(path, query, fragment), path, query)
<1>1. PICK a \in Seq(S), w \in Seq(S), f \in Seq(S) :
        /\ a = path /\ w = query /\ f = fragment
        /\ NoneFrom(a, QuestionMark, 1) /\ NoneFrom(a, Hash, 1) /\ NoneFrom(w, Hash, 1)
        /\ Len(f) > 0 => f[1] = Hash
  BY DEF PathPieces
<1>2. PICK m \in Seq(S), x \in Seq(S) :
        /\ m = Marked(QuestionMark, w) /\ x = Beside(a, m)
        /\ MarkedOff(x, QuestionMark, a, w)
  BY <1>1, MarkedParts
<1>3. NoneFrom(m, Hash, 1)
  BY <1>1, <1>2, NoneMarked, UrlMarks
<1>4. NoneFrom(x, Hash, 1)
  <2>1. NoneFrom(Beside(a, m), Hash, 1)
    BY <1>1, <1>3, NoneBeside
  <2> QED BY <1>2, <2>1
<1>5. Before(Beside(x, f), Find(Beside(x, f), <<Hash>>, 1)) = x
  BY <1>1, <1>4, BeforeTheFirst
<1>6. Beside(x, f) \in Seq(S) /\ Len(Beside(x, f)) >= Len(a) /\ (Len(a) > 0 => Beside(x, f)[1] = a[1])
  <2>1. Beside(x, f) \in Seq(S) /\ AreBeside(x, f, Beside(x, f)) /\ AreBeside(a, m, x)
    BY <1>2, JoinedTexts
  <2>2. Len(x) \in Nat /\ Len(f) \in Nat /\ Len(a) \in Nat /\ Len(m) \in Nat
    OBVIOUS
  <2>3. Len(Beside(x, f)) = Len(x) + Len(f) /\ Len(x) = Len(a) + Len(m)
    BY <2>1 DEF AreBeside
  <2>4. ASSUME Len(a) > 0 PROVE Beside(x, f)[1] = a[1]
    <3>1. 1 \in 1..Len(a) /\ 1 \in 1..Len(x)
      BY <2>2, <2>3, <2>4
    <3>2. x[1] = a[1] /\ Beside(x, f)[1] = x[1]
      BY <2>1, <3>1 DEF AreBeside
    <3> QED BY <3>2
  <2>5. Len(Beside(x, f)) >= Len(a)
    BY <2>2, <2>3
  <2> QED BY <2>1, <2>4, <2>5
<1>7. PathText(path, query, fragment) = Beside(x, f)
  BY <1>1, <1>2 DEF PathText
<1>8. PathRead(Beside(x, f), path, query)
  BY <1>1, <1>2, <1>5 DEF PathRead
<1> QED BY <1>1, <1>6, <1>7, <1>8

HostPieces(S, domain, port) ==
  /\ domain \in Seq(S) /\ Len(domain) > 0 /\ NoneFrom(domain, ColonChar, 1) /\ NoneFrom(domain, Slash, 1)
  /\ port \in Seq(S) /\ NoneFrom(port, Slash, 1)

(* The domain and the port are found in what stands in front of the path. *)
LEMMA HostIsRead ==
  ASSUME NEW S, ColonChar \in S, Slash \in S, NEW domain, NEW port, HostPieces(S, domain, port)
  PROVE  /\ HostText(domain, port) \in Seq(S) /\ Len(HostText(domain, port)) > 0
         /\ NoneFrom(HostText(domain, port), Slash, 1)
         /\ MarkedOff(HostText(domain, port), ColonChar, domain, port)
<1>1. PICK d \in Seq(S), w \in Seq(S) :
        /\ d = domain /\ w = port /\ Len(d) > 0
        /\ NoneFrom(d, ColonChar, 1) /\ NoneFrom(d, Slash, 1) /\ NoneFrom(w, Slash, 1)
  BY DEF HostPieces
<1>2. PICK m \in Seq(S) :
        /\ m = Marked(ColonChar, w) /\ Beside(d, m) \in Seq(S)
        /\ MarkedOff(Beside(d, m), ColonChar, d, w)
  BY <1>1, MarkedParts
<1>3. NoneFrom(m, Slash, 1)
  BY <1>1, <1>2, NoneMarked, UrlMarks
<1>4. NoneFrom(Beside(d, m), Slash, 1)
  BY <1>1, <1>3, NoneBeside
<1>5. Len(Beside(d, m)) > 0
  <2>1. AreBeside(d, m, Beside(d, m)) /\ Len(d) \in Nat /\ Len(m) \in Nat
    BY JoinedTexts
  <2>2. Len(Beside(d, m)) = Len(d) + Len(m)
    BY <2>1 DEF AreBeside
  <2> QED BY <1>1, <2>1, <2>2
<1>6. HostText(domain, port) = Beside(d, m)
  BY <1>1, <1>2 DEF HostText
<1> QED BY <1>1, <1>2, <1>4, <1>5, <1>6

(* HTTPURL on a text without blanks around it, by its parts.               *)
RestFrom(u, slash) == IF slash = 0 THEN <<Slash>> ELSE SubSeq(u, slash, Len(u))
HostUpTo(u, offset, slash) == SubSeq(u, offset + 1, IF slash = 0 THEN Len(u) ELSE slash - 1)
PortIn(urlport, protocol) == IF urlport # <<>> THEN _atoi(urlport) ELSE IF protocol = Protocols[1] THEN 443 ELSE 80
PartsIn(host, urlpath, protocol) ==
  [protocol |-> protocol,
   domain |-> ToLower(Before(host, Find(host, <<ColonChar>>, 1))),
   port |-> PortIn(After(host, Find(host, <<ColonChar>>, 1)), protocol),
   path |-> Before(urlpath, Find(urlpath, <<QuestionMark>>, 1)),
   query |-> After(urlpath, Find(urlpath, <<QuestionMark>>, 1))]
RestPath(rest) == Before(rest, Find(rest, <<Hash>>, 1))
ReadBehind(u, protocol, offset) ==
  LET slash == Find(u, <<Slash>>, offset + 2)
  IN PartsIn(HostUpTo(u, offset, slash), RestPath(RestFrom(u, slash)), protocol)

ReadOf(u, known) ==
  LET protocol == IF known = {} THEN <<>> ELSE Protocols[Min(known)]
      offset == IF known = {} THEN 0 ELSE Len(protocol) + 3
  IN ReadBehind(u, protocol, offset)
ProtocolsIn(u) == {k \in DOMAIN Protocols : IsPrefix(Protocols[k] \o Separator, u)}

(* HTTPURL reads a text behind the one protocol it opens with. *)
LEMMA ReadAsUrl ==
  ASSUME NEW url, NEW i \in 1..3, Len(Opening(i)) = Len(Protocols[i]) + 3,
         ProtocolsIn(string_strip(url)) = {i}
  PROVE  HTTPURL(url) = ReadBehind(string_strip(url), Protocols[i], Len(Opening(i)))
<1>1. HTTPURL(url) = ReadOf(string_strip(url), ProtocolsIn(string_strip(url)))
  BY Zenon DEF HTTPURL, ReadOf, ProtocolsIn, ReadBehind, PartsIn, RestFrom, HostUpTo, PortIn, RestPath
<1>2. Min({i}) = i /\ {i} # {}
  <2>1. PICK F : F = {i}
    OBVIOUS
  <2>2. i \in F /\ \A j \in F : j \in Int /\ i <= j
    BY <2>1
  <2>3. Min(F) = i
    BY <2>1, <2>2 DEF Min
  <2> QED BY <2>1, <2>3
<1>3. ReadOf(string_strip(url), {i}) = ReadBehind(string_strip(url), Protocols[i], Len(Protocols[i]) + 3)
  BY <1>2, Zenon DEF ReadOf
<1> QED BY <1>1, <1>3, Zenon

PartsAre(r, i, domain, port, path, query) ==
  /\ r.protocol = Protocols[i] /\ r.domain = ToLower(domain) /\ r.query = query
  /\ r.path = IF Len(path) = 0 THEN <<Slash>> ELSE path
  /\ r.port = PortIn(port, Protocols[i])

(* An empty path has nothing behind it, any other one begins with a '/'.   *)
PathBegins(path, query, fragment) ==
  /\ Len(path) > 0 => path[1] = Slash
  /\ Len(path) = 0 => Len(query) = 0 /\ Len(fragment) = 0

MarkSet == {ColonChar, Slash, QuestionMark, Hash}

(* What is read when there is no path: the path of the server's root.      *)
LEMMA RootIsRead ==
  ASSUME NEW S, MarkSet \subseteq S, NEW query \in Seq(S), Len(query) = 0
  PROVE  PathRead(<<Slash>>, <<Slash>>, query)
<1>1. PICK r \in Seq(S), e \in Seq(S) : r = <<Slash>> /\ Len(r) = 1 /\ r[1] = Slash /\ e = <<>> /\ Len(e) = 0
  BY OnePiece, EmptySeq DEF MarkSet
<1>2. QuestionMark \in S /\ Hash \in S
  BY DEF MarkSet
<1>3. PathPieces(S, r, e, e)
  <2>1. \A j \in 1..1 : j = 1
    OBVIOUS
  <2>2. r[1] # QuestionMark /\ r[1] # Hash
    BY <1>1, UrlMarks
  <2>3. NoneFrom(r, QuestionMark, 1) /\ NoneFrom(r, Hash, 1)
    BY <1>1, <2>1, <2>2 DEF NoneFrom
  <2>4. NoneFrom(e, Hash, 1)
    BY <1>1 DEF NoneFrom
  <2>5. ~(Len(e) > 0)
    BY <1>1
  <2> QED BY <1>1, <2>3, <2>4, <2>5 DEF PathPieces
<1>4. PathRead(PathText(r, e, e), r, e)
  BY <1>2, <1>3, PathIsRead
<1>5. PathText(r, e, e) = r
  <2>1. Marked(QuestionMark, e) = e
    BY <1>1 DEF Marked
  <2>2. \A x \in Seq(S) : Beside(x, e) = x
    <3>1. \A x \in Seq(S) : x \o <<>> = x
      BY ConcatEmptySeq
    <3> QED BY <1>1, <3>1 DEF Beside
  <2> QED BY <2>1, <2>2 DEF PathText
<1>6. query = e
  BY <1>1, EmptySeq
<1> QED BY <1>1, <1>4, <1>5, <1>6

(* HTTPURL reads the parts a text is put together of. *)
LEMMA PartsRead ==
  ASSUME NEW S, WritesUrls(S), MarkSet \subseteq S, NEW i \in 1..3,
         NEW domain, NEW port, HostPieces(S, domain, port),
         NEW path, NEW query, NEW fragment, PathPieces(S, path, query, fragment), PathBegins(path, query, fragment),
         NEW url, string_strip(url) = Beside(Opening(i), Beside(HostText(domain, port), PathText(path, query, fragment)))
  PROVE  PartsAre(HTTPURL(url), i, domain, port, path, query)
<1>1. PICK o \in Seq(S) : o = Opening(i) /\ Len(o) = Len(Protocols[i]) + 3
  BY ProtocolsAre
<1>2. PICK h \in Seq(S) :
        /\ h = HostText(domain, port) /\ Len(h) > 0 /\ NoneFrom(h, Slash, 1)
        /\ MarkedOff(h, ColonChar, domain, port)
  BY HostIsRead DEF MarkSet
<1>3. PICK a \in Seq(S) :
        /\ a = PathText(path, query, fragment) /\ Len(a) >= Len(path) /\ (Len(path) > 0 => a[1] = path[1])
        /\ PathRead(a, path, query)
  BY PathIsRead DEF MarkSet
<1>4. Len(a) = 0 <=> Len(path) = 0
  <2>1. ASSUME Len(path) = 0 PROVE Len(a) = 0
    <3>1. PICK e \in Seq(S) : e = <<>> /\ Len(e) = 0
      BY EmptySeq
    <3>2. path = e /\ query = e /\ fragment = e
      BY <2>1, <3>1, EmptySeq DEF PathBegins, PathPieces
    <3>3. Marked(QuestionMark, e) = e
      BY <3>1 DEF Marked
    <3>4. Beside(e, e) = e
      BY <3>1, ConcatEmptySeq DEF Beside
    <3> QED BY <1>3, <3>1, <3>2, <3>3, <3>4 DEF PathText
  <2>2. Len(a) \in Nat /\ Len(path) \in Nat
    BY DEF PathPieces
  <2> QED BY <1>3, <2>1, <2>2
<1>5. Len(a) > 0 => a[1] = Slash
  BY <1>3, <1>4 DEF PathBegins, PathPieces
<1>6. HostEnds(Beside(o, Beside(h, a)), Len(o), h, a, Slash)
  BY <1>2, <1>5, HostAndPath DEF MarkSet
<1>7. PICK u : u = Beside(o, Beside(h, a)) /\ u = string_strip(url)
  BY <1>1, <1>2, <1>3
<1>8. ProtocolsIn(u) = {i}
  <2>1. Beside(h, a) \in Seq(S)
    BY JoinedTexts
  <2>2. {k \in DOMAIN Protocols : IsPrefix(Protocols[k] \o Separator, Beside(Opening(i), Beside(h, a)))} = {i}
    BY <2>1, ProtocolKnown
  <2> QED BY <1>1, <1>7, <2>2 DEF ProtocolsIn
<1>9. HTTPURL(url) = ReadBehind(u, Protocols[i], Len(o))
  BY <1>1, <1>7, <1>8, ReadAsUrl
<1>10. PICK slash : slash = Find(u, <<Slash>>, Len(o) + 2)
  OBVIOUS
<1>11. HostUpTo(u, Len(o), slash) = h
  BY <1>6, <1>7, <1>10 DEF HostEnds, HostUpTo
<1>12. MarkedOff(RestPath(RestFrom(u, slash)), QuestionMark, IF Len(path) = 0 THEN <<Slash>> ELSE path, query)
  <2>1. CASE Len(path) = 0
    <3>1. slash = 0
      BY <1>4, <1>6, <1>7, <1>10, <2>1 DEF HostEnds
    <3>2. PathRead(<<Slash>>, <<Slash>>, query)
      BY <2>1, RootIsRead DEF PathBegins, PathPieces
    <3> QED BY <2>1, <3>1, <3>2 DEF RestFrom, PathRead, RestPath
  <2>2. CASE Len(path) # 0
    <3>1. Len(a) > 0
      BY <1>4, <2>2
    <3>2. slash # 0 /\ SubSeq(u, slash, Len(u)) = a
      BY <1>6, <1>7, <1>10, <3>1 DEF HostEnds
    <3>3. RestFrom(u, slash) = a
      BY <3>2 DEF RestFrom
    <3> QED BY <1>3, <2>2, <3>3 DEF PathRead, RestPath
  <2> QED BY <2>1, <2>2
<1>13. PICK x : x = RestPath(RestFrom(u, slash))
  OBVIOUS
<1>14. HTTPURL(url) = PartsIn(h, x, Protocols[i])
  BY <1>9, <1>10, <1>11, <1>13 DEF ReadBehind
<1>15. PartsAre(PartsIn(h, x, Protocols[i]), i, domain, port, path, query)
  BY <1>2, <1>12, <1>13 DEF MarkedOff, PartsIn, PartsAre
<1> QED BY <1>14, <1>15

(* Six texts stand beside each other whichever are put together first. *)
LEMMA SixBeside ==
  ASSUME NEW S, NEW o \in Seq(S), NEW d \in Seq(S), NEW m \in Seq(S), NEW a \in Seq(S), NEW q \in Seq(S), NEW f \in Seq(S)
  PROVE  /\ Beside(Beside(Beside(Beside(Beside(o, d), m), a), q), f) = Beside(o, Beside(Beside(d, m), Beside(Beside(a, q), f)))
         /\ Beside(o, Beside(Beside(d, m), Beside(Beside(a, q), f))) \in Seq(S)
<1>1. \A x, y \in Seq(S) : Beside(x, y) \in Seq(S)
  BY JoinedTexts
<1>2. \A x, y, z \in Seq(S) : Beside(Beside(x, y), z) = Beside(x, Beside(y, z))
  BY BesideAgain
<1>3. Beside(Beside(o, d), m) = Beside(o, Beside(d, m))
  BY <1>2
<1>4. PICK h \in Seq(S) : h = Beside(d, m)
  BY <1>1
<1>5. Beside(Beside(Beside(Beside(o, h), a), q), f) = Beside(o, Beside(h, Beside(Beside(a, q), f)))
  <2>1. PICK u \in Seq(S), aq \in Seq(S) : u = Beside(o, h) /\ aq = Beside(a, q)
    BY <1>1
  <2>2. Beside(Beside(Beside(u, a), q), f) = Beside(u, Beside(aq, f))
    <3>1. Beside(Beside(u, a), q) = Beside(u, Beside(a, q))
      BY <1>2
    <3>2. Beside(Beside(u, aq), f) = Beside(u, Beside(aq, f))
      BY <1>2
    <3> QED BY <2>1, <3>1, <3>2
  <2>3. \A v \in Seq(S) : Beside(Beside(o, h), v) = Beside(o, Beside(h, v))
    BY <1>2
  <2>4. Beside(aq, f) \in Seq(S)
    BY <1>1
  <2> QED BY <2>1, <2>2, <2>3, <2>4
<1>6. Beside(o, Beside(h, Beside(Beside(a, q), f))) \in Seq(S)
  <2>1. Beside(a, q) \in Seq(S)
    BY <1>1
  <2>2. Beside(Beside(a, q), f) \in Seq(S)
    BY <1>1, <2>1
  <2>3. Beside(h, Beside(Beside(a, q), f)) \in Seq(S)
    BY <1>1, <2>2
  <2> QED BY <1>1, <2>3
<1> QED BY <1>3, <1>4, <1>5, <1>6

(* A set that holds every character a URL is written with. *)
Characters(S) ==
  /\ WritesUrls(S) /\ MarkSet \subseteq S /\ Blanks \subseteq S
  /\ Seq(STRING) \subseteq Seq(S) /\ Seq(DigitChars) \subseteq Seq(S)
(* There is a set of all the characters. *)
LEMMA CharactersExist == \E S : Characters(S)
<1> DEFINE S == STRING \cup MarkSet \cup Blanks \cup DigitChars \cup {"h", "t", "p", "s", "f"}
<1>1. STRING \subseteq S /\ MarkSet \subseteq S /\ Blanks \subseteq S /\ DigitChars \subseteq S
  BY Zenon
<1>2. WritesUrls(S)
  <2>1. ColonChar \in MarkSet /\ Slash \in MarkSet
    BY Zenon DEF MarkSet
  <2>2. {"h", "t", "p", "s", "f"} \subseteq S
    BY Zenon
  <2>3. {"h", "t", "p", "s", "f", ColonChar, Slash} \subseteq S
    BY <1>1, <2>1, <2>2, Zenon
  <2> QED BY <2>3, Zenon DEF WritesUrls
<1> HIDE DEF S
<1>3. Seq(STRING) \subseteq Seq(S) /\ Seq(DigitChars) \subseteq Seq(S)
  <2>1. \A T, U : T \subseteq U => Seq(T) \subseteq Seq(U)
    OBVIOUS
  <2> QED BY <1>1, <2>1
<1> QED BY <1>1, <1>2, <1>3 DEF Characters

(* What IsUrl says of the parts of a URL. *)
UrlPieces(p, S, i, d, n, a, w, f) ==
  /\ p.protocol = Protocols[i] /\ p.domain = d /\ p.port = n /\ p.path = a /\ p.query = w /\ p.fragment = f
  /\ Len(d) > 0 /\ NoneFrom(d, ColonChar, 1) /\ NoneFrom(d, Slash, 1) /\ n < 2^16
  /\ PathPieces(S, a, w, f) /\ PathBegins(a, w, f)

(* The pieces of a URL, by the protocol it has. *)
LEMMA IsUrlSays ==
  ASSUME NEW S, Characters(S), NEW p, IsUrl(p)
  PROVE  \E i \in 1..3, d \in Seq(S), n \in Nat, a \in Seq(S), w \in Seq(S), f \in Seq(S) : UrlPieces(p, S, i, d, n, a, w, f)
<1>1. PICK i \in 1..3 : p.protocol = Protocols[i]
  <2>1. DOMAIN Protocols = 1..3
    BY DEF Protocols
  <2> QED BY <2>1 DEF IsUrl
<1>2. PICK d \in Seq(S), a \in Seq(S), w \in Seq(S), f \in Seq(S) : d = p.domain /\ a = p.path /\ w = p.query /\ f = p.fragment
  BY DEF IsUrl, Characters
<1>3. PICK n \in Nat : n = p.port /\ n < 2^16
  BY Zenon DEF IsUrl
<1>4. \A s \in Seq(S) : \A c, chars : HasNone(s, chars) /\ c \in chars => NoneFrom(s, c, 1)
  BY DEF HasNone, NoneFrom
<1>5. /\ HasNone(d, {ColonChar, Slash}) /\ HasNone(a, {QuestionMark, Hash}) /\ HasNone(w, {Hash})
  BY <1>2, Zenon DEF IsUrl
<1>6. /\ NoneFrom(d, ColonChar, 1) /\ NoneFrom(d, Slash, 1)
      /\ NoneFrom(a, QuestionMark, 1) /\ NoneFrom(a, Hash, 1) /\ NoneFrom(w, Hash, 1)
  BY <1>4, <1>5
<1>7. \A s \in Seq(S) : Len(s) = 0 <=> s = <<>>
  BY EmptySeq
<1>8. IF a = <<>> THEN w = <<>> /\ f = <<>> ELSE a[1] = Slash
  BY <1>2, Zenon DEF IsUrl
<1>9. d # <<>> /\ (f # <<>> => f[1] = Hash)
  BY <1>2, Zenon DEF IsUrl
<1>10. PathBegins(a, w, f)
  BY <1>7, <1>8 DEF PathBegins
<1>11. PathPieces(S, a, w, f)
  BY <1>6, <1>7, <1>9 DEF PathPieces
<1>12. Len(d) > 0
  <2>1. Len(d) # 0 /\ Len(d) \in Nat
    BY <1>7, <1>9
  <2> QED BY <2>1
<1> QED BY <1>1, <1>2, <1>3, <1>6, <1>10, <1>11, <1>12, Zenon DEF UrlPieces

(* A port that is left out is an empty text. *)
PortText(n) == IF n = 0 THEN <<>> ELSE Padded(n, 1)

(* The text of a port, and the port it is read as. *)
LEMMA PortTextIs ==
  ASSUME NEW S, Characters(S), NEW n \in Nat, n < 2^16
  PROVE  /\ PortText(n) \in Seq(S) /\ NoneFrom(PortText(n), Slash, 1)
         /\ (IF n = 0 THEN <<>> ELSE <<ColonChar>> \o Padded(n, 1)) = Marked(ColonChar, PortText(n))
         /\ \A protocol : PortIn(PortText(n), protocol) = IF n # 0 THEN n ELSE IF protocol = Protocols[1] THEN 443 ELSE 80
<1>1. CASE n = 0
  <2>1. PICK e \in Seq(S) : e = <<>> /\ Len(e) = 0
    BY EmptySeq
  <2>2. PortText(n) = e
    BY <1>1, <2>1 DEF PortText
  <2>3. NoneFrom(e, Slash, 1)
    BY <2>1 DEF NoneFrom
  <2>4. Marked(ColonChar, e) = <<>>
    BY <2>1 DEF Marked
  <2>5. \A protocol : PortIn(e, protocol) = IF protocol = Protocols[1] THEN 443 ELSE 80
    BY <2>1, Zenon DEF PortIn
  <2> QED BY <1>1, <2>2, <2>3, <2>4, <2>5
<1>2. CASE n # 0
  <2>1. PICK P : P = Padded(n, 1) /\ P \in Seq(DigitChars) /\ Len(P) > 0 /\ _atoi(P) = n
    BY PortRead
  <2>2. PortText(n) = P
    BY <1>2, <2>1 DEF PortText
  <2>3. P \in Seq(S)
    BY <2>1 DEF Characters
  <2>4. NoneFrom(P, Slash, 1)
    <3>1. \A k \in 1..Len(P) : P[k] \in DigitChars
      BY <2>1
    <3> QED BY <3>1, UrlMarks DEF NoneFrom
  <2>5. Len(P) # 0 /\ P # <<>>
    BY <2>1, <2>3, EmptySeq
  <2>6. Marked(ColonChar, P) = <<ColonChar>> \o P
    BY <2>5 DEF Marked, Beside
  <2>7. \A protocol : PortIn(P, protocol) = n
    BY <2>1, <2>5, Zenon DEF PortIn
  <2> QED BY <1>2, <2>1, <2>2, <2>3, <2>4, <2>6, <2>7
<1> QED BY <1>1, <1>2

(* The text of a URL is these pieces beside each other. *)
LEMMA UrlOfIs ==
  ASSUME NEW S, Characters(S), NEW p, NEW i \in 1..3, NEW d \in Seq(S), NEW n \in Nat, NEW a \in Seq(S), NEW w \in Seq(S),
         NEW f \in Seq(S), UrlPieces(p, S, i, d, n, a, w, f)
  PROVE  /\ UrlOf(p) = Beside(Opening(i), Beside(HostText(d, PortText(n)), PathText(a, w, f)))
         /\ UrlOf(p) \in Seq(S)
<1>1. PortText(n) \in Seq(S) /\ (IF n = 0 THEN <<>> ELSE <<ColonChar>> \o Padded(n, 1)) = Marked(ColonChar, PortText(n))
  BY PortTextIs DEF UrlPieces
<1>2. (IF w = <<>> THEN <<>> ELSE <<QuestionMark>> \o w) = Marked(QuestionMark, w)
  <2>1. w = <<>> <=> Len(w) = 0
    BY EmptySeq
  <2> QED BY <2>1 DEF Marked, Beside
<1>3. UrlOf(p) = Opening(i) \o d \o Marked(ColonChar, PortText(n)) \o a \o Marked(QuestionMark, w) \o f
  BY <1>1, <1>2, Zenon DEF UrlOf, UrlPieces, Opening, Beside
<1>4. \A c \in S, x \in Seq(S) : Marked(c, x) \in Seq(S)
  <2> TAKE c \in S, x \in Seq(S)
  <2>1. <<c>> \in Seq(S) /\ Beside(<<c>>, x) \in Seq(S) /\ <<>> \in Seq(S)
    BY OnePiece, JoinedTexts, EmptySeq
  <2> QED BY <2>1 DEF Marked
<1>5. PICK o \in Seq(S), m \in Seq(S), q \in Seq(S) : o = Opening(i) /\ m = Marked(ColonChar, PortText(n)) /\ q = Marked(QuestionMark, w)
  BY <1>1, <1>4, ProtocolsAre DEF Characters, MarkSet
<1>6. UrlOf(p) = Beside(Beside(Beside(Beside(Beside(o, d), m), a), q), f)
  BY <1>3, <1>5 DEF Beside
<1>7. /\ UrlOf(p) = Beside(o, Beside(Beside(d, m), Beside(Beside(a, q), f)))
      /\ UrlOf(p) \in Seq(S)
  <2>1. /\ Beside(Beside(Beside(Beside(Beside(o, d), m), a), q), f) = Beside(o, Beside(Beside(d, m), Beside(Beside(a, q), f)))
        /\ Beside(o, Beside(Beside(d, m), Beside(Beside(a, q), f))) \in Seq(S)
    BY SixBeside
  <2> QED BY <1>6, <2>1, Zenon
<1> QED BY <1>5, <1>7 DEF HostText, PathText

(* A text that begins and ends with no blank, between two blanks.          *)
LEMMA StrippedBetween ==
  ASSUME NEW S, Blanks \subseteq S, NEW t \in Seq(S), Len(t) > 0, t[1] \notin Blanks, t[Len(t)] \notin Blanks,
         NEW b \in Blanks
  PROVE  string_strip(<<b>> \o t \o <<b>>) = t
<1>1. PICK x \in Seq(S) : x = <<b>> /\ Len(x) = 1 /\ x[1] = b
  BY OnePiece
<1>2. AllBlank(x)
  <2>1. \A j \in 1..1 : j = 1
    OBVIOUS
  <2> QED BY <1>1, <2>1 DEF AllBlank
<1>3. string_strip(Beside(x, Beside(t, x))) = t
  BY <1>2, BlanksStripped
<1>4. Beside(Beside(x, t), x) = Beside(x, Beside(t, x))
  BY BesideAgain
<1>5. <<b>> \o t \o <<b>> = Beside(Beside(x, t), x)
  BY <1>1 DEF Beside
<1> QED BY <1>3, <1>4, <1>5

(* The parts of every URL are found in it.                                  *)
THEOREM PartsAlwaysFound ==
  ASSUME NEW p, IsUrl(p)
  PROVE  PartsAreFound(p)
<1>1. PICK S : Characters(S)
  BY CharactersExist
<1>2. PICK i \in 1..3, d \in Seq(S), n \in Nat, a \in Seq(S), w \in Seq(S), f \in Seq(S) : UrlPieces(p, S, i, d, n, a, w, f)
  BY <1>1, IsUrlSays
<1>3. PICK t \in Seq(S) : t = UrlOf(p) /\ t = Beside(Opening(i), Beside(HostText(d, PortText(n)), PathText(a, w, f)))
  BY <1>1, <1>2, UrlOfIs
<1>4. HostPieces(S, d, PortText(n)) /\ PathPieces(S, a, w, f) /\ PathBegins(a, w, f)
  <2>1. PortText(n) \in Seq(S) /\ NoneFrom(PortText(n), Slash, 1)
    BY <1>1, <1>2, PortTextIs DEF UrlPieces
  <2> QED BY <1>2, <2>1 DEF HostPieces, UrlPieces
<1>5. Len(t) > 0 /\ t[1] \notin Blanks
  <2>1. PICK o \in Seq(S) : o = Opening(i) /\ Len(o) > 0 /\ o[1] \notin Blanks
    <3>1. Opening(i) \in Seq(S) /\ Len(Opening(i)) = Len(Protocols[i]) + 3 /\ Opening(i)[1] \notin Blanks /\ Protocols[i] \in Seq(S)
      BY <1>1, ProtocolsAre DEF Characters
    <3>2. Len(Protocols[i]) \in Nat
      BY <3>1
    <3>3. Len(Opening(i)) > 0
      BY <3>1, <3>2
    <3> QED BY <3>1, <3>3
  <2>2. PICK r \in Seq(S) : r = Beside(HostText(d, PortText(n)), PathText(a, w, f))
    <3>1. HostText(d, PortText(n)) \in Seq(S) /\ PathText(a, w, f) \in Seq(S)
      BY <1>1, <1>4, HostIsRead, PathIsRead DEF Characters, MarkSet
    <3> QED BY <3>1, JoinedTexts
  <2>3. AreBeside(o, r, Beside(o, r)) /\ Len(o) \in Nat /\ Len(r) \in Nat
    BY JoinedTexts
  <2>4. 1 \in 1..Len(o)
    BY <2>1, <2>3
  <2>5. Len(Beside(o, r)) = Len(o) + Len(r) /\ Beside(o, r)[1] = o[1]
    BY <2>3, <2>4 DEF AreBeside
  <2>6. Len(Beside(o, r)) > 0
    BY <2>1, <2>3, <2>5
  <2> QED BY <1>3, <2>1, <2>2, <2>5, <2>6
<1>6. t[Len(t)] \notin Blanks
  <2>1. Last(UrlOf(p)) \notin Blanks
    BY DEF IsUrl
  <2> QED BY <1>3, <2>1 DEF Last
<1>7. ASSUME NEW b \in Blanks
      PROVE  PartsAre(HTTPURL(<<b>> \o UrlOf(p) \o <<b>>), i, d, PortText(n), a, w)
  <2>1. PICK url : url = <<b>> \o t \o <<b>> /\ string_strip(url) = t
    BY <1>1, <1>5, <1>6, StrippedBetween DEF Characters
  <2>2. string_strip(url) = Beside(Opening(i), Beside(HostText(d, PortText(n)), PathText(a, w, f)))
    BY <1>3, <2>1
  <2>3. PartsAre(HTTPURL(url), i, d, PortText(n), a, w)
    BY <1>1, <1>4, <2>2, PartsRead DEF Characters
  <2> QED BY <1>3, <2>1, <2>3
<1>8. \A protocol : PortIn(PortText(n), protocol) = IF n # 0 THEN n ELSE IF protocol = Protocols[1] THEN 443 ELSE 80
  BY <1>1, <1>2, PortTextIs DEF UrlPieces
<1>9. a = <<>> <=> Len(a) = 0
  BY EmptySeq
<1>10. /\ p.protocol = Protocols[i] /\ p.domain = d /\ p.port = n /\ p.path = a /\ p.query = w
  BY <1>2 DEF UrlPieces
<1>11. ASSUME NEW b \in Blanks, NEW u, PartsAre(u, i, d, PortText(n), a, w)
       PROVE  /\ u.protocol = p.protocol /\ u.domain = ToLower(p.domain) /\ u.query = p.query
              /\ u.path = IF p.path = <<>> THEN <<Slash>> ELSE p.path
              /\ u.port = IF p.port # 0 THEN p.port ELSE IF p.protocol = Protocols[1] THEN 443 ELSE 80
  <2>1. u.protocol = Protocols[i] /\ u.domain = ToLower(d) /\ u.query = w
    BY <1>11 DEF PartsAre
  <2>2. u.path = IF a = <<>> THEN <<Slash>> ELSE a
    BY <1>9, <1>11 DEF PartsAre
  <2>3. u.port = IF n # 0 THEN n ELSE IF Protocols[i] = Protocols[1] THEN 443 ELSE 80
    BY <1>8, <1>11 DEF PartsAre
  <2> QED BY <1>10, <2>1, <2>2, <2>3
<1> QED BY <1>7, <1>11 DEF PartsAreFound

-----------------------------------------------------------------------------
(* CommonValues. *)

(* Whichever function is called, with whatever it may be given, the result *)
(* is as it should be: a behaviour makes one call.                         *)
LEMMA CallIs ==
  CallNext =>
    \/ call' \in {"code"} \X Codes
    \/ call' \in {"class"} \X MktCodes
    \/ call' \in {"day"} \X Days
    \/ call' \in {"time"} \X Workdays \X Seconds
    \/ call' \in {"between"} \X Dates \X Dates
    \/ call' \in {"replace"} \X Strings \X OldValues \X NewValues
    \/ call' \in {"comma"} \X Numbers
    \/ call' \in {"url"} \X Urls
    \/ call' \in {"json"} \X Outside \X Objects \X Outside
    \/ call' \in {"length"} \X Lengths
BY DEF CallNext, ConvertCode, ClassifyCode, FindDay, ConvertTime, CountDays, Replace, FormatNumber, ParseUrl,
       SearchJson, SendLength

(* What CommonAssumption says of the calls, as the proofs use it. *)
LEMMA CodesAreNumbers == Codes \subseteq Nat /\ MktCodes \subseteq Nat /\ Lengths \subseteq Nat /\ Days \subseteq Int
BY CommonAssumption, SMT

LEMMA WorkTimes ==
  /\ \A d \in Workdays, s \in Seconds : [days |-> d, rem |-> s] \in Times
  /\ \A d \in Dates : [days |-> d, rem |-> 0] \in Times
<1>1. ASSUME NEW d \in Workdays \cup Dates PROVE d \in Nat /\ d <= LastWorkday
  BY <1>1, CommonAssumption, SMT
<1>2. ASSUME NEW s \in Seconds PROVE s \in Nat /\ s < 86400
  BY <1>2, CommonAssumption, SMT
<1> QED BY <1>1, <1>2, SMT DEF Times, LastDay, LastWorkday

(* Pure codes, market codes and texts lead to each other and to one class, *)
(* as far as EveryPathAgrees says.                                         *)
THEOREM CodesAlwaysSurvive == CallSpec => []CodesSurvive
<1>1. CallInit => CodesSurvive
  BY DEF CallInit, NoCall, CodesSurvive
<1>2. CodesSurvive /\ [CallNext]_call => CodesSurvive'
  <2>1. CASE UNCHANGED call
    BY <2>1 DEF CodesSurvive
  <2>2. CASE call' \in {"code"} \X Codes
    <3>1. call'[1] = "code" /\ call'[2] \in Nat
      BY <2>2, CodesAreNumbers
    <3> QED BY <3>1, PureCodesSurvive, StockIsStockEitherWay, EveryPathAgrees DEF CodesSurvive
  <2>3. CASE call' \in {"class"} \X MktCodes
    <3>1. call'[1] = "class" /\ call'[2] \in Nat
      BY <2>3, CodesAreNumbers
    <3> QED BY <3>1, ClassesAreDisjoint DEF CodesSurvive
  <2>4. call'[1] \notin {"code", "class"} => CodesSurvive'
    BY DEF CodesSurvive
  <2> QED BY <2>1, <2>2, <2>3, <2>4, CallIs
<1> QED BY <1>1, <1>2, PTL DEF CallSpec

(* Days are found in every year, and within the years that tm_to_utc is    *)
(* meant for seconds, dates and texts name the same time; before 1981 a    *)
(* date ends the program, and more than 68 years between two dates are     *)
(* negative.                                                               *)
THEOREM TimesAlwaysSurvive == CallSpec => []TimesSurvive
<1>1. CallInit => TimesSurvive
  BY DEF CallInit, NoCall, TimesSurvive
<1>2. TimesSurvive /\ [CallNext]_call => TimesSurvive'
  <2>1. CASE UNCHANGED call
    BY <2>1 DEF TimesSurvive
  <2>2. CASE call' \in {"day"} \X Days
    <3>1. call'[1] = "day" /\ call'[2] \in Int
      BY <2>2, CodesAreNumbers
    <3> QED BY <3>1, DaysAreFound DEF TimesSurvive
  <2>3. CASE call' \in {"time"} \X Workdays \X Seconds
    <3>1. call'[1] = "time" /\ call'[2] \in Workdays /\ call'[3] \in Seconds
      BY <2>3
    <3> QED BY <3>1, WorkTimes, TimesAreTheSame DEF TimesSurvive
  <2>4. CASE call' \in {"between"} \X Dates \X Dates
    <3>1. call'[1] = "between" /\ call'[2] \in Dates /\ call'[3] \in Dates
      BY <2>4
    <3> QED BY <3>1, WorkTimes, DaysBetweenDates DEF TimesSurvive
  <2>5. call'[1] \notin {"day", "time", "between"} => TimesSurvive'
    BY DEF TimesSurvive
  <2> QED BY <2>1, <2>2, <2>3, <2>4, <2>5, CallIs
<1> QED BY <1>1, <1>2, PTL DEF CallSpec

(* The texts string_replace and the others are given are texts. *)
LEMMA TextsAreTexts ==
  /\ \A text \in Strings, new \in NewValues : text \in Seq(STRING) /\ new \in Seq(STRING)
  /\ \A old \in OldValues : old \in Seq(STRING) /\ old # <<>>
  /\ \A num \in Numbers : num \in Seq(STRING) /\ FitsCommas(num) /\ \A i \in 1..Len(num) : num[i] # DIGIT_COMMA
  /\ \A p \in Urls : IsUrl(p)
<1>1. ASSUME NEW num \in Numbers PROVE \A i \in 1..Len(num) : num[i] # DIGIT_COMMA
  BY CommonAssumption DEF HasNone
<1> QED BY <1>1, CommonAssumption

(* string_replace loses, adds and forgets nothing, numbers keep their      *)
(* digits, and every URL is taken apart into its parts.                    *)
THEOREM TextsAlwaysKept == CallSpec => []TextsAreKept
<1>1. CallInit => TextsAreKept
  BY DEF CallInit, NoCall, TextsAreKept
<1>2. TextsAreKept /\ [CallNext]_call => TextsAreKept'
  <2>1. CASE UNCHANGED call
    BY <2>1 DEF TextsAreKept
  <2>2. CASE call' \in {"replace"} \X Strings \X OldValues \X NewValues
    <3>1. PICK text \in Strings, old \in OldValues, new \in NewValues :
             call'[1] = "replace" /\ call'[2] = text /\ call'[3] = old /\ call'[4] = new
      BY <2>2
    <3>2. ReplacesEveryPlace(text, old, new)
      BY TextsAreTexts, PiecesReplaced
    <3> QED BY <3>1, <3>2 DEF TextsAreKept
  <2>3. CASE call' \in {"comma"} \X Numbers
    <3>1. call'[1] = "comma" /\ call'[2] \in Numbers
      BY <2>3
    <3>2. GroupsByThree(call'[2])
      BY <3>1, TextsAreTexts, CommasGroup
    <3> QED BY <3>1, <3>2 DEF TextsAreKept
  <2>4. CASE call' \in {"url"} \X Urls
    <3>1. call'[1] = "url" /\ call'[2] \in Urls
      BY <2>4
    <3>2. PartsAreFound(call'[2])
      BY <3>1, TextsAreTexts, PartsAlwaysFound
    <3> QED BY <3>1, <3>2 DEF TextsAreKept
  <2>5. call'[1] \notin {"replace", "comma", "url"} => TextsAreKept'
    BY DEF TextsAreKept
  <2> QED BY <2>1, <2>2, <2>3, <2>4, <2>5, CallIs
<1> QED BY <1>1, <1>2, PTL DEF CallSpec

(* An object that the search finds when it stands alone is found within    *)
(* any text that has no '{' before it, is waited for while a part of it is *)
(* missing, and arrives in a message that holds it.  JsonObjectsAreFound   *)
(* says which texts are such objects.                                      *)
THEOREM MessagesAlwaysArrive ==
  ASSUME NEW S, Outside \subseteq Seq(S), Objects \subseteq Seq(S), \A object \in Objects : IsObject(object)
  PROVE  CallSpec => []MessagesArrive
<1>1. CallInit => MessagesArrive
  BY DEF CallInit, NoCall, MessagesArrive
<1>2. MessagesArrive /\ [CallNext]_call => MessagesArrive'
  <2>1. CASE UNCHANGED call
    BY <2>1 DEF MessagesArrive
  <2>2. CASE call' \in {"json"} \X Outside \X Objects \X Outside
    <3>1. PICK before \in Seq(S), object \in Seq(S), behind \in Seq(S) :
             call'[1] = "json" /\ call'[2] = before /\ call'[3] = object /\ call'[4] = behind /\ IsObject(object)
      BY <2>2
    <3>2. Find(before, <<LeftBrace>>, 1) = 0 =>
            /\ ObjectIsFound(before, object, behind) /\ WaitsForTheRest(before, object)
            /\ Len(before) + Len(object) <= max_body_length => ObjectArrives(before, object, behind)
      BY <3>1, NoBraceFound, ObjectFound, RestAwaited, ObjectReceived
    <3> QED BY <3>1, <3>2 DEF MessagesArrive
  <2>3. CASE call' \in {"length"} \X Lengths
    <3>1. call'[1] = "length" /\ call'[2] \in Nat
      BY <2>3, CodesAreNumbers
    <3> QED BY <3>1, LengthsArrive DEF MessagesArrive
  <2>4. call'[1] \notin {"json", "length"} => MessagesArrive'
    BY DEF MessagesArrive
  <2> QED BY <2>1, <2>2, <2>3, <2>4, CallIs
<1> QED BY <1>1, <1>2, PTL DEF CallSpec
===============================================================================
