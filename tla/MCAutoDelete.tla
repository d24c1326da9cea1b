---------------------------- MODULE MCAutoDelete ----------------------------
(* An instance of AutoDelete for TLC, and beside it one of the calendar    *)
(* that the cutoff is computed with; an execution is of one of the two.    *)
(* Six ids make three probes in a row, with a gap at every place of the    *)
(* search; three days make rows that are old, just not old, and of today.  *)
(* Two centuries of Calendar: 1900 and 2100 are not leap years, 2000 is.   *)
(* January 1st, 1895 has the Julian day number 2413195.                    *)
EXTENDS AutoDelete

CONSTANTS FirstYear, FirstDay, LastYear
VARIABLES part, ymd, day
C == INSTANCE Calendar
calendar == <<ymd, day>>

(* The clock starts with the Julian day number of its January 1st: the     *)
(* days of 365 for each year since the year 1 and a day for each leap year. *)
ASSUME CalendarAssumption ==
  /\ FirstYear \in Nat \ {0} /\ LastYear \in Nat
  /\ LET y == FirstYear - 1
     IN FirstDay = 1721426 + 365 * y + y \div 4 - y \div 100 + y \div 400

MCInit == Init /\ C!Init /\ part \in {"deletion", "calendar"}
MCNext ==
  \/ part = "deletion" /\ Next /\ UNCHANGED <<part, calendar>>
  \/ part = "calendar" /\ C!Next /\ UNCHANGED <<part, vars>>
MCSpec ==
  /\ MCInit /\ [][MCNext]_<<vars, part, calendar>>
  /\ WF_vars(Begin) /\ WF_vars(Search) /\ WF_vars(Delete)

(* The two conversions are exact, each the inverse of the other.           *)
(* (calendar.cpp ToJDN and ToYMD)                                          *)
CalendarExact == C!NumberOfDate /\ C!DateOfNumber
=============================================================================
