-------------------------------- MODULE Dates --------------------------------
(***************************************************************************)
(* The time conversions of convert_utils.cpp, looked at on every day from  *)
(* 1970 on.  A timestamp is split into its day and its second of the day,  *)
(* so that no number leaves 32 bits.  A calendar that goes from one day to *)
(* the next by the Gregorian rules is the reference.                       *)
(***************************************************************************)
EXTENDS Integers, Sequences, FiniteSets

CONSTANTS LastYear,       \* bound: the calendar stops at the end of it
          SecondsOfDay    \* seconds after midnight that are looked at

\* The comment at line 407 claims the years until 2099.
ASSUME YearsAssumption == LastYear \in Nat /\ LastYear <= 2099
ASSUME SecondsAssumption == \A sec \in SecondsOfDay : sec \in Nat /\ sec < 86400

VARIABLES
  dayNumber,   \* days since the first of January 1970
  calendar     \* the date of that day: year, month 0..11, day 0..30

dateVars == <<dayNumber, calendar>>

numDaysPerLeapCycle == 366 + 3 * 365
DaysPerMonth(daysInFebruary) == <<31, daysInFebruary, 31, 30, 31, 30, 31, 31, 30, 31, 30, 31>>
SumOfFirst(n, terms) ==
  LET sum[i \in 0 .. n] == IF i = 0 THEN 0 ELSE sum[i - 1] + terms[i] IN sum[n]
MonthsBefore(months, m) == SumOfFirst(m, months)

------------------------------------------------------------------------------
IsLeapYear(y) == y % 4 = 0 /\ (y % 100 # 0 \/ y % 400 = 0)
LeapYearsBefore(y) == {i \in 1970 .. y - 1 : IsLeapYear(i)}
\* The first of January of any year.
DateInit == \E y \in 1970 .. LastYear :
  /\ dayNumber = 365 * (y - 1970) + Cardinality(LeapYearsBefore(y))
  /\ calendar = [year |-> y, month |-> 0, day |-> 0]
NextDay ==
  LET c == calendar
      days == DaysPerMonth(IF IsLeapYear(c.year) THEN 29 ELSE 28)[c.month + 1]
  IN /\ dayNumber' = dayNumber + 1
     /\ calendar' = IF c.day + 1 < days THEN [c EXCEPT !.day = @ + 1]
                    ELSE IF c.month < 11 THEN [c EXCEPT !.day = 0, !.month = @ + 1]
                    ELSE [year |-> c.year + 1, month |-> 0, day |-> 0]
     /\ calendar'.year <= LastYear

------------------------------------------------------------------------------
YearLength_After(y, leap) == IF y = leap + 1 THEN 366 ELSE 365  \* (variant: off by one)
\* The y-th year of a leap cycle; leap is yearsUntilNextLeapYear.
YearLength(y, leap) == IF y = leap THEN 366 ELSE 365

DaysBefore(y, leap) == SumOfFirst(y, [i \in 1 .. 4 |-> YearLength(i - 1, leap)])
\* The year of the cycle, and the month of the year, that a day is in.
YearOfCycle(left, leap) ==
  CHOOSE y \in 0 .. 3 : DaysBefore(y, leap) <= left /\ left < DaysBefore(y + 1, leap)
MonthOfYear(left, months) ==
  CHOOSE m \in 0 .. 11 : MonthsBefore(months, m) <= left /\ left < MonthsBefore(months, m + 1)

\* CNV_EpochTimestampToDateStruct: whole leap cycles, whole years, months.
CNV_EpochTimestampToDateStruct(d, sec) ==
  LET cycleYear == 1970 + 4 * (d \div numDaysPerLeapCycle)
      leap == (4 - (cycleYear % 4)) % 4
      left == d % numDaysPerLeapCycle
      y0 == YearOfCycle(left, leap)
      ofYear == left - DaysBefore(y0, leap)
      months == DaysPerMonth(IF (cycleYear + y0) % 4 = 0 THEN 29 ELSE 28)
      m0 == MonthOfYear(ofYear, months)
  IN [year |-> cycleYear + y0, month |-> m0, day |-> ofYear - MonthsBefore(months, m0),
      weekday |-> (4 + d) % 7,   \* Thursday
      hour |-> sec \div 3600, min |-> (sec % 3600) \div 60, sec |-> sec % 60]

YearsBefore_FixedCycle(y) == (y - 1970) * 365 + (y - 1970) \div 4  \* (variant: leap day at cycle's end)
\* Whole leap cycles and the years after them.
YearsBefore(y) ==
  LET cycles == (y - 1970) \div 4
      first == 1970 + 4 * cycles
  IN cycles * numDaysPerLeapCycle
       + SumOfFirst(y - first, [i \in 1 .. 4 |-> IF (first + i - 1) % 4 = 0 THEN 366 ELSE 365])

\* CNV_EpochDateStructToTimestamp: the day and the second of the day.
CNV_EpochDateStructToTimestamp(t) ==
  LET months == DaysPerMonth(IF t.year % 4 = 0 THEN 29 ELSE 28)
  IN [day |-> YearsBefore(t.year) + MonthsBefore(months, t.month % 12) + t.day,
      sec |-> t.hour * 3600 + t.min * 60 + t.sec]

------------------------------------------------------------------------------
\* CNV_EpochTimestampToUTCGeneralizedTimeString and back: strings of digits.  The
\* year is printed with all its digits, everything else with two.
TwoDigits(n) == <<n \div 10, n % 10>>
GeneralizedTime(t) ==
  <<t.year \div 1000, (t.year \div 100) % 10>> \o TwoDigits(t.year % 100)
    \o TwoDigits(t.month + 1) \o TwoDigits(t.day + 1)
    \o TwoDigits(t.hour) \o TwoDigits(t.min) \o TwoDigits(t.sec)

\* CNV_UTCTimeStringToTimestamp reads pairs of digits from the end; what the
\* string does not reach is 0, and without a century the year is of the 2000s.
PairFromEnd(s, i) ==
  IF 2 * i <= Len(s) THEN 10 * s[Len(s) - 2 * i + 1] + s[Len(s) - 2 * i + 2] ELSE 0
ParseGeneralizedTime(s) ==
  CNV_EpochDateStructToTimestamp(
    [sec |-> PairFromEnd(s, 1), min |-> PairFromEnd(s, 2), hour |-> PairFromEnd(s, 3),
     day |-> PairFromEnd(s, 4) - 1, month |-> PairFromEnd(s, 5) - 1,
     year |-> PairFromEnd(s, 6) + IF Len(s) < 14 THEN 2000 ELSE 100 * PairFromEnd(s, 7)])

------------------------------------------------------------------------------
\* Until the end of 2099, the last year the comment at line 407 claims, every day
\* gets the date the calendar has, across leap cycles and leap days.
DatesFollowCalendar ==
  \A sec \in SecondsOfDay :
    LET t == CNV_EpochTimestampToDateStruct(dayNumber, sec)
    IN /\ [year |-> t.year, month |-> t.month, day |-> t.day] = calendar
       /\ t.hour * 3600 + t.min * 60 + t.sec = sec

\* Both ways back, from the date and from its printed form, give the timestamp.
DatesConvertBack ==
  \A sec \in SecondsOfDay :
    LET t == CNV_EpochTimestampToDateStruct(dayNumber, sec)
    IN /\ CNV_EpochDateStructToTimestamp(t) = [day |-> dayNumber, sec |-> sec]
       /\ ParseGeneralizedTime(GeneralizedTime(t)) = [day |-> dayNumber, sec |-> sec]
=============================================================================
