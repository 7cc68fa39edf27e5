------------------------------- MODULE Calendar -------------------------------
(***************************************************************************)
(* common/s4time.h and .cpp and offtime.cpp: a time is a number of seconds *)
(* since 1970, a date is YYYYMMDD, a time of day HHMMSS.                   *)
(*                                                                         *)
(* A number of seconds is represented by the pair of its quotient and      *)
(* remainder by 86400, [days, rem], which is how the code takes it apart;  *)
(* as one number it needs 64 bits.                                         *)
(***************************************************************************)
EXTENDS Integers, Sequences, Text

__isleap(y) == y % 4 = 0 /\ (y % 100 # 0 \/ y % 400 = 0)
YearLength(y) == IF __isleap(y) THEN 366 ELSE 365
mon_days == <<31, 28, 31, 30, 31, 30, 31, 31, 30, 31, 30, 31>>
mon_days_leap == [mon_days EXCEPT ![2] = 29]
DaysBefore(months, mon) ==
  LET tdays[i \in 0..mon] == IF i = 0 THEN 0 ELSE tdays[i - 1] + months[i] IN tdays[mon]

(* The days before each month, and in the year. *)
__mon_yday(leap, mon) ==
  IF leap THEN <<0, 31, 60, 91, 121, 152, 182, 213, 244, 274, 305, 335, 366>>[mon + 1]
  ELSE <<0, 31, 59, 90, 120, 151, 181, 212, 243, 273, 304, 334, 365>>[mon + 1]

LEAPS_THRU_END_OF(y) == y \div 4 - y \div 100 + y \div 400

(* The loop of __offtime: a year is guessed from the days left, assuming   *)
(* 365 of them in each, until the days lie within the year.                *)
EveryFourth(y) == y \div 4                       \* mutant: every fourth year is a leap year
Leaps(y) == LEAPS_THRU_END_OF(y)
Guesses == [days : Int, y : Int]
Guess[r \in Guesses] ==
  IF r.days >= 0 /\ r.days < YearLength(r.y) THEN r
  ELSE LET yg == r.y + r.days \div 365
       IN Guess[[days |-> r.days - ((yg - r.y) * 365 + Leaps(yg - 1) - Leaps(r.y - 1)), y |-> yg]]

(* __offtime with offset 0.  Years are few enough for tm_year. *)
__offtime(t) ==
  LET g == Guess[[days |-> t.days, y |-> 1970]]
      mon == Max({m \in 0..11 : g.days >= __mon_yday(__isleap(g.y), m)})
  IN [tm_year |-> g.y - 1900, tm_yday |-> g.days,
      tm_mon |-> mon, tm_mday |-> g.days - __mon_yday(__isleap(g.y), mon) + 1,
      tm_wday |-> (4 + t.days) % 7,
      tm_hour |-> t.rem \div 3600, tm_min |-> (t.rem % 3600) \div 60, tm_sec |-> t.rem % 60]

utc_to_date(t) ==
  LET tm == __offtime(t)
  IN [date |-> (tm.tm_year + 1900) * 10000 + (tm.tm_mon + 1) * 100 + tm.tm_mday,
      minuSec |-> tm.tm_hour * 10000 + tm.tm_min * 100 + tm.tm_sec]

(* Valid "until year 2100": every fourth year is a leap year. *)
tm_to_utc(tm) ==
  LET tyears == tm.tm_year - 70
      leap_this_year == (tyears + 2) % 4 = 0
      leaps == (tyears + 2) \div 4 - (IF leap_this_year THEN 1 ELSE 0)
      months == IF leap_this_year THEN mon_days_leap ELSE mon_days
      secs == tm.tm_hour * 3600 + tm.tm_min * 60 + tm.tm_sec
  IN [days |-> DaysBefore(months, tm.tm_mon) + tm.tm_mday - 1 + tyears * 365 + leaps
                 + secs \div 86400,
      rem |-> secs % 86400]

(* date_to_utc complains of a time of day out of range, and goes on; a     *)
(* year before 1981 fails its assertion, which ends the program.           *)
Aborts == [days |-> 0, rem |-> -1]
date_to_utc(date, minuSec) ==
  IF date < 0 \/ minuSec < 0 THEN [days |-> 0, rem |-> 0]
  ELSE IF date \div 10000 <= 1980 THEN Aborts
  ELSE tm_to_utc([tm_sec |-> minuSec % 100, tm_min |-> (minuSec \div 100) % 100,
                  tm_hour |-> minuSec \div 10000, tm_mday |-> date % 100,
                  tm_mon |-> ((date \div 100) % 100) - 1, tm_year |-> date \div 10000 - 1900])

(* The difference in seconds is kept in 32 signed bits.  In units of 128   *)
(* seconds a day has 675 and the bits are 25, of which the upper half is   *)
(* negative; C divides towards zero.                                       *)
ToInt(units) == LET u == units % 2^25 IN IF u < 2^24 THEN u ELSE u - 2^25
Abs(n) == IF n < 0 THEN -n ELSE n
Difference(days) == LET units == ToInt(675 * days) IN IF units < 0 THEN -((-units) \div 675) ELSE units \div 675
days_in(date1, date2) ==
  LET t1 == date_to_utc(date1, 0)  t2 == date_to_utc(date2, 0)
  IN IF Aborts \in {t1, t2} THEN Aborts ELSE Difference(Abs(t1.days - t2.days))

chk_stk_date_legal(date) ==
  LET year == date \div 10000
      month == (date % 10000) \div 100
  IN /\ year >= 1990 /\ year < 2030 /\ month \in 1..12
     /\ date % 100 >= 1 /\ date % 100 <= mon_days_leap[month]

isDealTime_stock(minuSec) ==
  \/ minuSec >= 91500 /\ minuSec <= 92500
  \/ minuSec >= 93000 /\ minuSec <= 113000
  \/ minuSec >= 130000 /\ minuSec <= 150000

-----------------------------------------------------------------------------
(* Times as texts. *)

Two(n) == Padded(n, 2)
TimeText(tm, sep) == Two(tm.tm_hour) \o sep \o Two(tm.tm_min) \o sep \o Two(tm.tm_sec)
Underscore == <<"_">>
Colon == <<":">>

date_to_str(date) ==
  Padded(date \div 10000, 1) \o Underscore \o Two((date % 10000) \div 100) \o Underscore \o Two(date % 100)
utc_to_strMinu(t) == TimeText(__offtime(t), Colon)
utc_to_str(t) ==
  LET tm == __offtime(t)
  IN Padded(tm.tm_year + 1900, 1) \o Underscore \o Two(tm.tm_mon + 1) \o Underscore
       \o Two(tm.tm_mday) \o Underscore \o Underscore \o TimeText(tm, Underscore)

(* Shanghai is eight hours ahead. *)
InShanghai(t) ==
  IF t.rem + 28800 < 86400 THEN [t EXCEPT !.rem = @ + 28800]
  ELSE [days |-> t.days + 1, rem |-> t.rem + 28800 - 86400]
ms_to_str(t, ms) == TimeText(__offtime(InShanghai(t)), Underscore) \o <<"'">> \o Padded(ms, 1)
ms_to_str_r(t, ms) == TimeText(__offtime(InShanghai(t)), Colon) \o <<".">> \o Padded(ms, 1)

(* A TransactTime is a HHMMSS followed by the digits of a fraction: three  *)
(* in Shenzhen and on Shanghai's L1, two in Shanghai; it is represented by *)
(* the pair of them.  The fraction is written without its leading zeros.   *)
L2_timeString(minuSec, fraction) ==
  Two(minuSec \div 10000) \o Colon \o Two((minuSec \div 100) % 100) \o Colon \o Two(minuSec % 100)
    \o <<".">> \o Padded(fraction, 1)

(* strtol and the loops behind it: the numbers of a text, whatever stands  *)
(* between them.                                                           *)
Read(s, c) ==
  IF ~IsDigit(c) THEN [s EXCEPT !.fresh = TRUE]
  ELSE IF s.fresh THEN [n |-> Append(s.n, DigitValue(c)), fresh |-> FALSE]
  ELSE [s EXCEPT !.n[Len(s.n)] = 10 * @ + DigitValue(c)]
NumbersIn(text) ==
  LET s[i \in 0..Len(text)] == IF i = 0 THEN [n |-> <<>>, fresh |-> TRUE] ELSE Read(s[i - 1], text[i])
  IN s[Len(text)].n
str_to_minuSec(mtime) == LET n == NumbersIn(mtime) IN n[1] * 10000 + n[2] * 100 + n[3]
str_to_date(mdate) == str_to_minuSec(mdate)
str_to_tm(mdate, mtime) ==
  LET d == NumbersIn(mdate)  t == NumbersIn(mtime)
  IN [tm_year |-> d[1] - 1900, tm_mon |-> d[2] - 1, tm_mday |-> d[3],
      tm_hour |-> t[1], tm_min |-> t[2], tm_sec |-> t[3]]

-----------------------------------------------------------------------------
(* What is checked.  The number of a day by the rules of the calendar: 365 *)
(* for each year since 1970, one for each leap year, counted one by one,   *)
(* and the days of the year's months.                                      *)

LeapYears(from, to) == Cardinality({y \in from..to : __isleap(y)})
DayNumber(y, mon, mday) ==
  365 * (y - 1970) + LeapYears(1970, y - 1) - LeapYears(y, 1969)
    + DaysBefore(IF __isleap(y) THEN mon_days_leap ELSE mon_days, mon) + mday - 1

(* __offtime finds the day of every day number, before 1970 and across the *)
(* centuries too, whatever years it guesses on the way.                    *)
DayIsFound(t) ==
  LET tm == __offtime(t)
  IN /\ DayNumber(tm.tm_year + 1900, tm.tm_mon, tm.tm_mday) = t.days
     /\ tm.tm_mday \in 1..(IF __isleap(tm.tm_year + 1900) THEN mon_days_leap ELSE mon_days)[tm.tm_mon + 1]

(* Time goes to date, text and broken-down time and back without loss, the *)
(* date back to the time from 1981 on, while every earlier one ends the    *)
(* program.                                                                *)
FirstDate == 19810101
SameTime(t) ==
  LET d == utc_to_date(t)
      text == utc_to_str(t)
  IN /\ date_to_utc(d.date, d.minuSec) = IF d.date < FirstDate THEN Aborts ELSE t
     /\ str_to_date(date_to_str(d.date)) = d.date
     /\ str_to_minuSec(utc_to_strMinu(t)) = d.minuSec
     /\ tm_to_utc(str_to_tm(SubSeq(text, 1, 10), SubSeq(text, 13, 20))) = t
     /\ ms_to_str_r(t, 0) = utc_to_strMinu(InShanghai(t)) \o <<".", "0">>

(* The days between two dates are right up to 68 years; of dates that are  *)
(* further apart the number overflows and is negative.                     *)
DaysBetween(t, u) ==
  LET d == utc_to_date(t).date  e == utc_to_date(u).date
      n == Abs(t.days - u.days)
  IN IF d < FirstDate \/ e < FirstDate THEN days_in(d, e) = Aborts
     ELSE IF n <= 24855 THEN days_in(d, e) = n ELSE days_in(d, e) < 0
===============================================================================
