------------------------------- MODULE Gmtime -------------------------------
(***************************************************************************)
(* The gmtime of aws_lambda/gmtime.cc, which replaces the C library's, and *)
(* the time the signer passes to it (aws_authenticator.cc:225).  Each      *)
(* iteration of the two loops is a step.                                   *)
(*                                                                         *)
(* A time_t is a pair of days since 1970 and seconds of the day, for TLC's *)
(* integers are shorter than those of the code: the divisions of the code  *)
(* by 60, 60 and 24 leave exactly these two.  It is not negative, for      *)
(* which gmtime returns NULL, as the host's clock is unsigned.             *)
(***************************************************************************)
EXTENDS Integers, Sequences

CONSTANT Clocks  \* times the host's clock may show

SecondsPerDay == 24 * 60 * 60
Time == [days : Nat, seconds : 0..(SecondsPerDay - 1)]

ASSUME ClocksAssumption == Clocks \subseteq Time

VARIABLES
  wall,          \* what the clock shows when the signer signs
  stage,         \* of gmtime: "years" or "months" - the loops, "returned"
  deltat,        \* days that are left
  year, month,   \* of the loops
  time_buffer    \* the broken-down time

gmtimeVars == <<wall, stage, deltat, year, month, time_buffer>>

(* systemTime() / 10e9, a tenth of the time in seconds *)
now(t) ==
  [days    |-> t.days \div 10,
   seconds |-> ((t.days % 10) * SecondsPerDay + t.seconds) \div 10]
timer == now(wall)

(* Faulty variant: every fourth year is a leap year. *)
daysInYear_Julian(y) == IF y % 4 = 0 THEN 366 ELSE 365

daysInYear(y) ==
  IF y % 4 = 0 /\ (y % 400 = 0 \/ y % 100 # 0) THEN 366 ELSE 365

MonthLengths == <<31, 28, 31, 30, 31, 30, 31, 31, 30, 31, 30, 31>>

daysInMonth(m, y) ==
  IF m = 1 /\ daysInYear(y) = 366
  THEN MonthLengths[2] + 1
  ELSE MonthLengths[m + 1]

GmtimeInit ==
  /\ wall \in Clocks
  /\ stage = "years" /\ year = 1970 /\ month = 0
  /\ deltat = timer.days
  /\ time_buffer = [tm_sec  |-> timer.seconds % 60,
                    tm_min  |-> (timer.seconds \div 60) % 60,
                    tm_hour |-> ((timer.seconds \div 60) \div 60) % 24,
                    tm_year |-> 0, tm_mon |-> 0, tm_mday |-> 0]

SkipYear ==
  /\ stage = "years" /\ deltat >= daysInYear(year)
  /\ deltat' = deltat - daysInYear(year)
  /\ year' = year + 1
  /\ UNCHANGED <<wall, stage, month, time_buffer>>

YearFound ==
  /\ stage = "years" /\ deltat < daysInYear(year)
  /\ time_buffer' = [time_buffer EXCEPT !.tm_year = year - 1900]
  /\ stage' = "months"
  /\ UNCHANGED <<wall, deltat, year, month>>

(* The months are those of the year tm_year, which counts from 1900. *)
MonthFits == deltat < daysInMonth(month, time_buffer.tm_year)

SkipMonth ==
  /\ stage = "months" /\ month < 12 /\ ~MonthFits
  /\ deltat' = deltat - daysInMonth(month, time_buffer.tm_year)
  /\ month' = month + 1
  /\ UNCHANGED <<wall, stage, year, time_buffer>>

(* A month of 12 is none. *)
Return ==
  /\ stage = "months" /\ (month < 12 => MonthFits)
  /\ time_buffer' = [time_buffer EXCEPT !.tm_mon = month, !.tm_mday = deltat + 1]
  /\ stage' = "returned"
  /\ UNCHANGED <<wall, deltat, year, month>>

GmtimeNext == SkipYear \/ YearFound \/ SkipMonth \/ Return
GmtimeSpec == GmtimeInit /\ [][GmtimeNext]_gmtimeVars

-----------------------------------------------------------------------------
(* What gmtime should be: the calendar, in which the day after a date is    *)
(* the next of its month, the first of the next month, or of the next year. *)
(* The days are counted from 1970-01-01.                                    *)

IsLeap(y) == \/ y % 4 = 0 /\ y % 100 # 0
             \/ y % 400 = 0
Length(y, m) ==
  IF m = 2 THEN IF IsLeap(y) THEN 29 ELSE 28
  ELSE IF m \in {4, 6, 9, 11} THEN 30 ELSE 31

Dates == {d \in [year : Nat \ {0}, month : 1..12, day : 1..31] :
            d.day <= Length(d.year, d.month)}
DatesOf(y) == {d \in [year : {y}, month : 1..12, day : 1..31] :
                 d.day <= Length(y, d.month)}

NextDay(d) ==
  IF d.day < Length(d.year, d.month) THEN [d EXCEPT !.day = @ + 1]
  ELSE IF d.month < 12 THEN [year |-> d.year, month |-> d.month + 1, day |-> 1]
  ELSE [year |-> d.year + 1, month |-> 1, day |-> 1]

(* leap years before y, and days before its first of January *)
Leaps(y) == (y - 1) \div 4 - (y - 1) \div 100 + (y - 1) \div 400
DaysBefore(y) == 365 * (y - 1970) + Leaps(y) - Leaps(1970)
(* days of a year before the first of month m *)
DaysBeforeMonth(y, m) ==
  <<0, 31, 59, 90, 120, 151, 181, 212, 243, 273, 304, 334>>[m]
    + IF m > 2 /\ IsLeap(y) THEN 1 ELSE 0
DayNumber(d) == DaysBefore(d.year) + DaysBeforeMonth(d.year, d.month) + d.day - 1

(* a broken-down time says the date d and the seconds s of the day *)
Says(tm, d, s) ==
  /\ tm.tm_year + 1900 = d.year
  /\ tm.tm_mon + 1 = d.month
  /\ tm.tm_mday = d.day
  /\ (tm.tm_hour * 60 + tm.tm_min) * 60 + tm.tm_sec = s
  /\ tm.tm_hour < 24 /\ tm.tm_min < 60 /\ tm.tm_sec < 60

(* Does gmtime take the year for a leap year, or not, as it should? *)
LeapsRight(y) == IsLeap(y) <=> IsLeap(y - 1900)
AfterFebruary(d) == d.month > 2 \/ (d.month = 2 /\ d.day = 29)

-----------------------------------------------------------------------------
(* Properties *)

(* gmtime.cc:34-75: gmtime gives the date of the calendar, and splits the   *)
(* seconds of the day, except in a year that it takes wrongly for a leap    *)
(* year or not for one (2000, 2300, 2400), from the end of February on.     *)
GmtimeIsCalendar ==
  stage = "returned" =>
    \E d \in DatesOf(year) :
      /\ DayNumber(d) = timer.days
      /\ Says(time_buffer, d, timer.seconds) <=> (LeapsRight(year) \/ ~AfterFebruary(d))

(* gmtime.cc:44, "this is only used after 2019": the date that is signed in *)
(* 2019 or later is not before 2019.  (Refuted at once.)                    *)
UsedAfter2019 ==
  stage = "returned" /\ wall.days >= DaysBefore(2019) => time_buffer.tm_year >= 119
=============================================================================
