---------------------------- MODULE CommonValues ------------------------------
(***************************************************************************)
(* The functions from values to values of common/ and of network/'s        *)
(* parse_url.h and chat_message.h keep nothing between two calls, so a     *)
(* behaviour makes one call, with any of the inputs it may be given.       *)
(***************************************************************************)
EXTENDS MarketTexts, Calendar, ChatMessage

CONSTANTS
  Codes, MktCodes,               \* numbers taken for pure codes and for market codes
  Days, Workdays, Seconds,       \* days since 1970, those tm_to_utc is meant for, seconds of a day
  Dates,                         \* days between which days are counted
  Strings, OldValues, NewValues, \* what string_replace is given
  Numbers,                       \* numbers as texts
  Urls,                          \* the parts of a URL
  Objects, Outside,              \* JSON objects, and what may stand around them
  Lengths                        \* lengths of messages

(* tm_to_utc is "valid until year 2100": it takes that for a leap year,    *)
(* which is wrong from its first of March.                                 *)
LastWorkday == 47540

ASSUME CommonAssumption ==
  /\ Codes \subseteq Nat /\ MktCodes \subseteq Nat
  /\ Days \subseteq Int
  /\ \A d \in Workdays \cup Dates : d \in Nat /\ d <= LastWorkday
  /\ \A s \in Seconds : s \in Nat /\ s < 86400
  /\ Strings \cup OldValues \cup NewValues \cup Numbers \subseteq Seq(STRING) /\ <<>> \notin OldValues
  /\ \A num \in Numbers : HasNone(num, {DIGIT_COMMA}) /\ FitsCommas(num)
  /\ \A p \in Urls : IsUrl(p)
  /\ Lengths \subseteq Nat

VARIABLE call
NoCall == <<"none">>

CallInit == call = NoCall

ConvertCode == call = NoCall /\ call' \in {"code"} \X Codes
ClassifyCode == call = NoCall /\ call' \in {"class"} \X MktCodes
FindDay == call = NoCall /\ call' \in {"day"} \X Days
ConvertTime == call = NoCall /\ call' \in {"time"} \X Workdays \X Seconds
CountDays == call = NoCall /\ call' \in {"between"} \X Dates \X Dates
Replace == call = NoCall /\ call' \in {"replace"} \X Strings \X OldValues \X NewValues
FormatNumber == call = NoCall /\ call' \in {"comma"} \X Numbers
ParseUrl == call = NoCall /\ call' \in {"url"} \X Urls
SearchJson == call = NoCall /\ call' \in {"json"} \X Outside \X Objects \X Outside
SendLength == call = NoCall /\ call' \in {"length"} \X Lengths

CallNext ==
  \/ ConvertCode \/ ClassifyCode \/ FindDay \/ ConvertTime \/ CountDays
  \/ Replace \/ FormatNumber \/ ParseUrl \/ SearchJson \/ SendLength

CallSpec == CallInit /\ [][CallNext]_call

-----------------------------------------------------------------------------
(* s4mktCode: codes survive every conversion but two, and classes do not   *)
(* overlap.                                                                *)
CodesSurvive ==
  /\ call[1] = "code" => PureCodeSurvives(call[2]) /\ StockEitherWay(call[2]) /\ PathsAgree(call[2])
  /\ call[1] = "class" => OneClass(call[2])

(* s4time: seconds, dates and texts name the same time, unless a date is   *)
(* too early for the code, and dates are too far apart to be counted.      *)
TimesSurvive ==
  /\ call[1] = "day" => DayIsFound([days |-> call[2], rem |-> 0])
  /\ call[1] = "time" => SameTime([days |-> call[2], rem |-> call[3]])
  /\ call[1] = "between" => DaysBetween([days |-> call[2], rem |-> 0], [days |-> call[3], rem |-> 0])

(* s4string and parse_url: nothing is lost, added or left behind.          *)
TextsAreKept ==
  /\ call[1] = "replace" => ReplacesEveryPlace(call[2], call[3], call[4])
  /\ call[1] = "comma" => GroupsByThree(call[2])
  /\ call[1] = "url" => PartsAreFound(call[2])

(* s4json_util and chat_message: what is sent is found by the receiver.    *)
MessagesArrive ==
  /\ call[1] = "json" /\ Find(call[2], <<LeftBrace>>, 1) = 0 =>
       /\ ObjectIsFound(call[2], call[3], call[4]) /\ WaitsForTheRest(call[2], call[3])
       /\ Len(call[2]) + Len(call[3]) <= max_body_length => ObjectArrives(call[2], call[3], call[4])
  /\ call[1] = "length" => LengthArrives(call[2])
===============================================================================
