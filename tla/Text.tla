--------------------------------- MODULE Text ---------------------------------
(***************************************************************************)
(* common/s4string.h and .cpp and network/parse_url.h: functions from text *)
(* to text.  A text is a sequence of characters, a character is a string   *)
(* of length one.                                                          *)
(***************************************************************************)
EXTENDS Integers, Sequences, SequencesExt

Digits == <<"0", "1", "2", "3", "4", "5", "6", "7", "8", "9">>
IsDigit(c) == \E i \in 1..10 : Digits[i] = c
DigitValue(c) == (CHOOSE i \in 1..10 : Digits[i] = c) - 1

(* The number a text of digits stands for, and the digits of n, at least w *)
(* of them: what printf's %0wd writes.                                     *)
Number(text) ==
  LET n[i \in 0..Len(text)] == IF i = 0 THEN 0 ELSE 10 * n[i - 1] + DigitValue(text[i])
  IN n[Len(text)]
DigitCount(n) == Min({k \in 1..10 : k = 10 \/ n < 10^k})
Padded(n, w) ==
  LET k == Max({w, DigitCount(n)})
  IN [i \in 1..k |-> IF k - i > 9 THEN "0" ELSE Digits[((n \div 10^(k - i)) % 10) + 1]]

(* std::string::find: the first place from pos where sub stands, or 0. *)
Find(s, sub, pos) ==
  LET Places == {i \in pos..(Len(s) - Len(sub) + 1) : SubSeq(s, i, i + Len(sub) - 1) = sub}
  IN IF Places = {} THEN 0 ELSE Min(Places)

FindLastNotOf(s, chars) == Max({0} \cup {i \in DOMAIN s : s[i] \notin chars})
FindFirstNotOf(s, chars) == Min({Len(s) + 1} \cup {i \in DOMAIN s : s[i] \notin chars})

-----------------------------------------------------------------------------
(* s4string.cpp.  string_replace and string_split do not end when they are *)
(* given nothing to look for: oldValue and splitor are not empty.          *)

(* string_replace edits str in place and goes on behind what it has put in.*)
GoOnBehind(pos, newValue) == pos + Len(newValue) + 1     \* mutant: a character is left out
GoOnAt(pos, newValue) == pos + Len(newValue)
Edits == [str : Seq(STRING), pos : Nat \ {0}]

string_replace(oldValue, newValue, text) ==
  LET Replaced(str, pos) == SubSeq(str, 1, pos - 1) \o newValue \o SubSeq(str, pos + Len(oldValue), Len(str))
      Loop[r \in Edits] ==
        LET pos == Find(r.str, oldValue, r.pos)
        IN IF pos = 0 THEN r.str ELSE Loop[[str |-> Replaced(r.str, pos), pos |-> GoOnAt(pos, newValue)]]
  IN Loop[[str |-> text, pos |-> 1]]

(* A last piece that is empty is left out. *)
string_split(src, splitor) ==
  LET Pieces[pos1 \in 1..(Len(src) + 1)] ==
        LET pos2 == Find(src, splitor, pos1)
        IN IF pos2 # 0 THEN <<SubSeq(src, pos1, pos2 - 1)>> \o Pieces[pos2 + Len(splitor)]
           ELSE IF pos1 # Len(src) + 1 THEN <<SubSeq(src, pos1, Len(src))>> ELSE <<>>
  IN Pieces[1]

Blanks == {" ", "\t", "\r", "\n"}

(* A text of blanks alone is returned as it is. *)
string_strip_atTail(value, dropChars) ==
  IF FindLastNotOf(value, dropChars) = 0 THEN value ELSE SubSeq(value, 1, FindLastNotOf(value, dropChars))

string_strip(value) ==
  IF FindLastNotOf(value, Blanks) = 0 THEN value
  ELSE SubSeq(value, FindFirstNotOf(value, Blanks), FindLastNotOf(value, Blanks))

(* string_format_number_comma: from the last character before the dot to   *)
(* the first, a comma before every third digit but the first of all.       *)
DIGIT_DOT == "."
DIGIT_COMMA == ","
Copied(c, done) ==
  LET comma == IF IsDigit(c) /\ done.cnt # 0 /\ done.cnt % 3 = 0 THEN <<DIGIT_COMMA>> ELSE <<>>
  IN [text |-> <<c>> \o (comma \o done.text), cnt |-> IF IsDigit(c) THEN done.cnt + 1 ELSE done.cnt]

string_format_number_comma(num) ==
  LET dot == Find(num, <<DIGIT_DOT>>, 1)
      whole == IF dot = 0 THEN num ELSE SubSeq(num, 1, dot - 1)
      done[k \in 0..Len(whole)] ==
        IF k = 0 THEN [text |-> SubSeq(num, Len(whole) + 1, Len(num)), cnt |-> 0]
        ELSE Copied(whole[Len(whole) - (k - 1)], done[k - 1])
  IN IF Len(num) < 3 THEN num ELSE done[Len(whole)].text

(* The result and a zero behind it are put together in commas[DIGIT_MAX],  *)
(* without a test: a longer result is written outside.                     *)
DIGIT_MAX == 50
FitsCommas(num) == Len(string_format_number_comma(num)) < DIGIT_MAX

-----------------------------------------------------------------------------
(* HTTPURL(url).                                                            *)

ColonChar == ":"
Slash == "/"
QuestionMark == "?"
Hash == "#"
Lowers == <<"a", "b", "c", "d", "e", "f", "g", "h", "i", "j", "k", "l", "m",
            "n", "o", "p", "q", "r", "s", "t", "u", "v", "w", "x", "y", "z">>
Uppers == <<"A", "B", "C", "D", "E", "F", "G", "H", "I", "J", "K", "L", "M",
            "N", "O", "P", "Q", "R", "S", "T", "U", "V", "W", "X", "Y", "Z">>
LowerOf(c) == IF \E i \in 1..26 : Uppers[i] = c THEN Lowers[CHOOSE i \in 1..26 : Uppers[i] = c] ELSE c
ToLower(text) == [i \in DOMAIN text |-> LowerOf(text[i])]
Protocols == <<<<"h", "t", "t", "p", "s">>, <<"h", "t", "t", "p">>, <<"f", "t", "p">>>>
Separator == <<ColonChar, Slash, Slash>>

(* std::stringstream >> int, and atoi: blanks, a sign, digits, and then    *)
(* anything; 0 if there are no digits.  The numbers fit an int.            *)
atoi(text) ==
  LET from == FindFirstNotOf(text, Blanks)
      signed == from <= Len(text) /\ text[from] \in {"-", "+"}
      first == IF signed THEN from + 1 ELSE from
      behind == Min({i \in first..(Len(text) + 1) : i = Len(text) + 1 \/ ~IsDigit(text[i])})
      n == Number(SubSeq(text, first, behind - 1))
  IN IF signed /\ text[from] = "-" THEN -n ELSE n
_atoi(text) == atoi(text) % 2^16

Before(s, pos) == IF pos = 0 THEN s ELSE SubSeq(s, 1, pos - 1)
After(s, pos) == IF pos = 0 THEN <<>> ELSE SubSeq(s, pos + 1, Len(s))

HTTPURL(url) ==
  LET u == string_strip(url)
      known == {i \in DOMAIN Protocols : IsPrefix(Protocols[i] \o Separator, u)}
      protocol == IF known = {} THEN <<>> ELSE Protocols[Min(known)]
      offset == IF known = {} THEN 0 ELSE Len(protocol) + 3
      slash == Find(u, <<Slash>>, offset + 2)
      rest == IF slash = 0 THEN <<Slash>> ELSE SubSeq(u, slash, Len(u))
      urlpath == Before(rest, Find(rest, <<Hash>>, 1))
      host == SubSeq(u, offset + 1, IF slash = 0 THEN Len(u) ELSE slash - 1)
      urlport == After(host, Find(host, <<ColonChar>>, 1))
  IN [protocol |-> protocol,
      domain |-> ToLower(Before(host, Find(host, <<ColonChar>>, 1))),
      port |-> IF urlport # <<>> THEN _atoi(urlport) ELSE IF protocol = Protocols[1] THEN 443 ELSE 80,
      path |-> Before(urlpath, Find(urlpath, <<QuestionMark>>, 1)),
      query |-> After(urlpath, Find(urlpath, <<QuestionMark>>, 1))]

-----------------------------------------------------------------------------
(* What is checked. *)

Joined(pieces, sep) ==
  LET text[i \in 0..Len(pieces)] ==
        IF i = 0 THEN <<>> ELSE IF i = 1 THEN pieces[1] ELSE text[i - 1] \o sep \o pieces[i]
  IN text[Len(pieces)]

(* Splitting loses nothing but an empty last piece, and replacing is the   *)
(* same as splitting and joining with the new value, also when the new     *)
(* value holds the old one.                                                *)
ReplacesEveryPlace(s, old, new) ==
  LET v == string_split(s, old)
      pieces == IF Joined(v, old) = s THEN v ELSE Append(v, <<>>)
  IN /\ Joined(pieces, old) = s
     /\ string_replace(old, new, s) = Joined(pieces, new)
     /\ \A i \in DOMAIN pieces : Find(pieces[i], old, 1) = 0

(* Commas only group: without them the number is there unchanged, none     *)
(* stands behind the dot, and three digits stand behind each.              *)
Without(text, c) ==
  LET left[i \in 0..Len(text)] ==
        IF i = 0 THEN <<>> ELSE IF text[i] = c THEN left[i - 1] ELSE Append(left[i - 1], text[i])
  IN left[Len(text)]
GroupsByThree(num) ==
  LET t == string_format_number_comma(num)
      dot == Find(t, <<DIGIT_DOT>>, 1)
      whole == Before(t, dot)
      behind(i) == Cardinality({j \in (i + 1)..Len(whole) : IsDigit(whole[j])})
  IN /\ Without(t, DIGIT_COMMA) = num
     /\ \A i \in DOMAIN t : t[i] = DIGIT_COMMA =>
          /\ i \in DOMAIN whole /\ behind(i) > 0 /\ behind(i) % 3 = 0
          /\ \E j \in 1..(i - 1) : IsDigit(t[j])

(* The parts of a URL: the domain ends at a ':' or a '/', the path at a    *)
(* '?' or a '#', the query at a '#'.                                       *)
HasNone(text, chars) == \A i \in DOMAIN text : text[i] \notin chars
UrlOf(p) ==
  p.protocol \o Separator \o p.domain
    \o (IF p.port = 0 THEN <<>> ELSE <<ColonChar>> \o Padded(p.port, 1))
    \o p.path \o (IF p.query = <<>> THEN <<>> ELSE <<QuestionMark>> \o p.query) \o p.fragment
IsUrl(p) ==
  /\ \E i \in DOMAIN Protocols : p.protocol = Protocols[i]
  /\ {p.domain, p.path, p.query, p.fragment} \subseteq Seq(STRING)
  /\ p.domain # <<>> /\ HasNone(p.domain, {ColonChar, Slash})
  /\ p.port \in Nat /\ p.port < 2^16
  /\ IF p.path = <<>> THEN p.query = <<>> /\ p.fragment = <<>> ELSE p.path[1] = Slash
  /\ HasNone(p.path, {QuestionMark, Hash}) /\ HasNone(p.query, {Hash})
  /\ p.fragment # <<>> => p.fragment[1] = Hash
  /\ Last(UrlOf(p)) \notin Blanks

(* The parts a URL is written from are the parts HTTPURL finds in it, also *)
(* with blanks around it.                                                  *)
PartsAreFound(p) ==
  \A b \in Blanks :
    LET u == HTTPURL(<<b>> \o UrlOf(p) \o <<b>>)
    IN /\ u.protocol = p.protocol /\ u.domain = ToLower(p.domain) /\ u.query = p.query
       /\ u.path = IF p.path = <<>> THEN <<Slash>> ELSE p.path
       /\ u.port = IF p.port # 0 THEN p.port ELSE IF p.protocol = Protocols[1] THEN 443 ELSE 80
===============================================================================
