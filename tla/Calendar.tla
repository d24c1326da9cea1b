------------------------------ MODULE Calendar ------------------------------
(***************************************************************************)
(* ToJDN and ToYMD, the conversions between a date and a Julian day number *)
(* that the automatic deletion uses to go back a number of days, next to a *)
(* clock that counts the days one at a time by the rules of the Gregorian  *)
(* calendar.                                                               *)
(***************************************************************************)
EXTENDS Integers

CONSTANTS
  FirstYear, FirstDay,  \* the year the clock starts in, and the day number of its January 1st
  LastYear              \* bound of the model: the clock stops before this year

VARIABLES ymd, day
vars == <<ymd, day>>

-----------------------------------------------------------------------------
(* Mutant: the century is not taken off.                                   *)
ToJDN_NoCentury(year, month, dayOfMonth) ==
  LET m == IF month < 3 THEN month + 9 ELSE month - 3
      y == (IF month < 3 THEN year - 1 ELSE year) + 4800
  IN ((y * 1461) \div 4) + ((153 * m + 2) \div 5) + dayOfMonth - 32083

(* The year begins in March, so that the leap day is its last. All the     *)
(* divisions are of numbers that are not negative.                         *)
ToJDN(year, month, dayOfMonth) ==
  LET m == IF month < 3 THEN month + 9 ELSE month - 3
      y == (IF month < 3 THEN year - 1 ELSE year) + 4800
      c == y \div 100
  IN ((c * 146097) \div 4) + (((y - c * 100) * 1461) \div 4) + ((153 * m + 2) \div 5)
       + dayOfMonth - 32045

ToYMD(jdn) ==
  LET c == (jdn * 4 + 128179) \div 146097
      d == ((jdn * 4 - c * 146097 + 128179) \div 4) * 4 + 3
      y == d \div 1461
      e == ((d - y * 1461) \div 4) * 5 + 2
      m == e \div 153
      year == (c - 48) * 100 + y
  IN [year |-> IF m < 10 THEN year ELSE year + 1,
      month |-> IF m < 10 THEN m + 3 ELSE m - 9,
      day |-> (e - m * 153) \div 5 + 1]

-----------------------------------------------------------------------------
IsLeap(y) == y % 4 = 0 /\ (y % 100 # 0 \/ y % 400 = 0)
MonthDays(y, m) ==
  IF m = 2 THEN IF IsLeap(y) THEN 29 ELSE 28
  ELSE IF m \in {4, 6, 9, 11} THEN 30 ELSE 31

Init == ymd = [year |-> FirstYear, month |-> 1, day |-> 1] /\ day = FirstDay

NextDay ==
  /\ ymd.day < MonthDays(ymd.year, ymd.month)
  /\ ymd' = [ymd EXCEPT !.day = @ + 1] /\ day' = day + 1

NextMonth ==
  /\ ymd.day = MonthDays(ymd.year, ymd.month) /\ ymd.month < 12
  /\ ymd' = [ymd EXCEPT !.month = @ + 1, !.day = 1] /\ day' = day + 1

NextYear ==
  /\ ymd.day = 31 /\ ymd.month = 12 /\ ymd.year + 1 < LastYear
  /\ ymd' = [year |-> ymd.year + 1, month |-> 1, day |-> 1] /\ day' = day + 1

Next == NextDay \/ NextMonth \/ NextYear

Spec == Init /\ [][Next]_vars

(* The conversion of a date gives the number of its day.                   *)
(* (calendar.cpp ToJDN)                                                    *)
NumberOfDate == ToJDN(ymd.year, ymd.month, ymd.day) = day

(* The conversion of a day number gives its date: over the ends of months, *)
(* years, leap years and centuries. (calendar.cpp ToYMD)                   *)
DateOfNumber == ToYMD(day) = ymd
=============================================================================
