----------------------------- MODULE Calendar -----------------------------
(***************************************************************************)
(* Dates and durations of XIOS and the calendar that counts with them:     *)
(* src/src/calendar.cpp, calendar_util.cpp, date.cpp, duration.cpp and the *)
(* calendars of src/src/date/.                                             *)
(*                                                                         *)
(* A date is a record [y, m, d, s] (s: seconds of the day, the hours and   *)
(* the minutes being a mixed radix of it) and a duration a record of       *)
(* numbers [y, mo, d, s, ts] (ts: time steps).  The calendar is created    *)
(* from the attributes of the XML file, then the model calls update for    *)
(* each step, and a file moves the date of its last split forward.         *)
(***************************************************************************)
EXTENDS Integers, Sequences

CONSTANTS
  MonthDays,    \* the length of each month in days
  DayLength,    \* the length of a day in seconds
  LeapRule,     \* "none", "gregorian", "julian" or "drift"
  LeapMonth,    \* the month that a leap year makes longer
  Drift,        \* the yearly drift, in DriftDen-ths of a day
  DriftDen,
  DriftOffset,  \* the drift at the beginning of the origin's year
  Calendars,    \* the attributes: records [start, origin, step, split]
  LastStep      \* bound: the last step of the run

CalendarAssumption ==
  /\ MonthDays \in Seq(Nat \ {0}) /\ Len(MonthDays) > 0
  /\ DayLength \in Nat \ {0} /\ LastStep \in Nat
  /\ LeapRule \in {"none", "gregorian", "julian", "drift"}
  /\ LeapMonth \in 1..Len(MonthDays)
  /\ DriftDen \in Nat \ {0}
  /\ Drift \in 0..(DriftDen - 1) /\ DriftOffset \in 0..(DriftDen - 1)

VARIABLES
  phase,       \* "unset", "created" or "refused"
  config,      \* the attributes of the calendar
  initDate,    \* the start date
  timeOrigin,  \* the origin of the time axis
  step,        \* the current step
  currentDate,
  lastSplit    \* the date of the last split of a file

vars == <<phase, config, initDate, timeOrigin, step, currentDate, lastSplit>>

NoDate == [y |-> 0, m |-> 1, d |-> 1, s |-> 0]   \* CDate(calendar)

---------------------------------------------------------------------------
(* Division of C++, which rounds towards zero.                             *)
Quot(a, b) == IF a >= 0 THEN a \div b ELSE -((-a) \div b)
Rest(a, b) == a - b * Quot(a, b)

(* CUserDefinedCalendar::isLeapYear, and the rules of the Gregorian and    *)
(* the Julian calendar.                                                    *)
IsLeapYear(year) ==
  CASE LeapRule = "none"      -> FALSE
    [] LeapRule = "julian"    -> Rest(year, 4) = 0
    [] LeapRule = "gregorian" -> /\ Rest(year, 4) = 0
                                 /\ Rest(year, 100) # 0 \/ Rest(year, 400) = 0
    [] LeapRule = "drift"     ->
         /\ Drift # 0
         /\ Rest(DriftOffset + (year - timeOrigin.y) * Drift, DriftDen) + Drift
              = DriftDen

YearMonths == Len(MonthDays)                      \* getYearLength

MonthLength(year, month) ==
  MonthDays[month]
    + IF month = LeapMonth /\ IsLeapYear(year) THEN 1 ELSE 0

RECURSIVE DaysBefore(_, _)
DaysBefore(year, month) ==  \* days of the months of the year before this one
  IF month = 1 THEN 0
  ELSE DaysBefore(year, month - 1) + MonthLength(year, month - 1)

(* (a slip: the leap day is forgotten)                                     *)
CommonYearLength(year) ==
  (DaysBefore(year, YearMonths) + MonthLength(year, YearMonths)
     - IF IsLeapYear(year) THEN 1 ELSE 0) * DayLength

YearTotalLength(year) ==
  (DaysBefore(year, YearMonths) + MonthLength(year, YearMonths)) * DayLength

SecondOfYear(date) ==
  (DaysBefore(date.y, date.m) + date.d - 1) * DayLength + date.s

(* CDate::operator Time: the seconds since the time origin, the years      *)
(* counted one by one from that of the origin.                             *)
RECURSIVE YearsTotal(_, _)
YearsTotal(from, to) ==
  IF from >= to THEN 0 ELSE YearTotalLength(from) + YearsTotal(from + 1, to)

TimeOf(date) ==
  SecondOfYear(date) - SecondOfYear(timeOrigin)
    + IF LeapRule = "none" \/ (LeapRule = "drift" /\ Drift = 0)
      THEN (date.y - timeOrigin.y) * YearTotalLength(date.y)
      ELSE YearsTotal(timeOrigin.y, date.y)

(* CCalendar::checkDate: a field out of its range is brought back to its   *)
(* bound; the date was valid when it is left as it was.                    *)
Into(value, low, high) ==
  IF value < low THEN low ELSE IF value > high THEN high ELSE value

(* (a slip: the day of the month is not looked at)                         *)
CheckMonth(date) ==
  [date EXCEPT !.m = Into(@, 1, YearMonths), !.s = Into(@, 0, DayLength - 1)]

CheckDate(date) ==
  LET month == Into(date.m, 1, YearMonths)
  IN  [y |-> date.y, m |-> month,
       d |-> Into(date.d, 1, MonthLength(date.y, month)),
       s |-> Into(date.s, 0, DayLength - 1)]

Valid(date) == CheckDate(date) = date

(* (a slip: the days are compared before the months)                       *)
BeforeByDay(a, b) ==
  \/ a.y < b.y
  \/ a.y = b.y /\ a.d < b.d
  \/ a.y = b.y /\ a.d = b.d /\ a.m < b.m
  \/ a.y = b.y /\ a.m = b.m /\ a.d = b.d /\ a.s < b.s

(* The operator < of two dates.                                            *)
Before(a, b) ==
  \/ a.y < b.y
  \/ a.y = b.y /\ a.m < b.m
  \/ a.y = b.y /\ a.m = b.m /\ a.d < b.d
  \/ a.y = b.y /\ a.m = b.m /\ a.d = b.d /\ a.s < b.s

---------------------------------------------------------------------------
(* Durations.                                                              *)
Times(dur, n) ==
  [y |-> n * dur.y, mo |-> n * dur.mo, d |-> n * dur.d, s |-> n * dur.s,
   ts |-> n * dur.ts]

Sum2(a, b) ==
  [y |-> a.y + b.y, mo |-> a.mo + b.mo, d |-> a.d + b.d, s |-> a.s + b.s,
   ts |-> a.ts + b.ts]

(* (a slip: the day borrowed for the time is not taken away)               *)
ResolveKeepsDay(dur, noNegativeTime) ==
  LET rest   == Rest(dur.s, DayLength)
      borrow == IF noNegativeTime /\ rest < 0 THEN 1 ELSE 0
  IN  [y  |-> dur.y + Quot(dur.mo, YearMonths),
       mo |-> Rest(dur.mo, YearMonths),
       d  |-> dur.d + Quot(dur.s, DayLength),
       s  |-> rest + borrow * DayLength,
       ts |-> dur.ts]

(* CCalendar::resolve.  With noNegativeTime a day is taken away until the  *)
(* time of the day is not negative.                                        *)
Resolve(dur, noNegativeTime) ==
  LET rest   == Rest(dur.s, DayLength)
      borrow == IF noNegativeTime /\ rest < 0 THEN 1 ELSE 0
  IN  [y  |-> dur.y + Quot(dur.mo, YearMonths),
       mo |-> Rest(dur.mo, YearMonths),
       d  |-> dur.d + Quot(dur.s, DayLength) - borrow,
       s  |-> rest + borrow * DayLength,
       ts |-> dur.ts]

(* CDate::addMonth, of one month forward or backward.                      *)
AddMonth(ym, value) ==
  LET month == ym.m + value
  IN  IF month = YearMonths + 1 THEN [y |-> ym.y + 1, m |-> 1]
      ELSE IF month = 0 THEN [y |-> ym.y - 1, m |-> YearMonths]
      ELSE [y |-> ym.y, m |-> month]

(* The days of a sum carried into months, from the first day of a month:   *)
(* <<months, day of the month>>.                                           *)
RECURSIVE Forward(_, _, _), Backward(_, _, _)
(* (a slip: a day too many fits in a month)                                *)
ForwardLate(ym, days, months) ==
  LET length == MonthLength(ym.y, ym.m)
  IN  IF length < days THEN Forward(AddMonth(ym, 1), days - length, months + 1)
      ELSE <<months, days + 1>>
Forward(ym, days, months) ==
  LET length == MonthLength(ym.y, ym.m)
  IN  IF length <= days THEN Forward(AddMonth(ym, 1), days - length, months + 1)
      ELSE <<months, days + 1>>
Backward(ym, days, months) ==
  LET length == MonthLength(ym.y, ym.m)
  IN  IF length < -days
      THEN Backward(AddMonth(ym, -1), days + length, months - 1)
      ELSE <<months, length + days + 1>>

(* CDate + CDuration.  The days are carried first, with the lengths of the *)
(* months that follow the date, then the months and the years are added,   *)
(* and the constructor checks the result.                                  *)
Plus(date, dur) ==
  LET inSteps == Sum2([dur EXCEPT !.ts = 0], Times(config.step, dur.ts))
      time    == Resolve([inSteps EXCEPT !.s = @ + date.s], TRUE)
      days    == time.d + date.d - 1
      first   == [y |-> date.y, m |-> date.m]
      carried == IF days >= 0 THEN Forward(first, days, 0)
                 ELSE Backward(AddMonth(first, -1), days, -1)
      whole   == Resolve([time EXCEPT !.mo = @ + carried[1]], FALSE)
      month   == date.m + whole.mo
      year    == date.y + whole.y
      ym      == IF month < 0 THEN [y |-> year - 1, m |-> month + YearMonths]
                 ELSE IF month > YearMonths
                      THEN [y |-> year + 1, m |-> month - YearMonths]
                 ELSE IF month = 0 THEN [y |-> year - 1, m |-> YearMonths]
                 ELSE [y |-> year, m |-> month]
  IN  CheckDate([y |-> ym.y, m |-> ym.m, d |-> carried[2], s |-> time.s])

Minus(date, dur) == Plus(date, Times(dur, -1))

---------------------------------------------------------------------------
Init ==
  /\ phase = "unset" /\ config \in Calendars
  /\ initDate = NoDate /\ timeOrigin = NoDate
  /\ step = 0 /\ currentDate = NoDate /\ lastSplit = NoDate

(* CCalendarWrapper::createCalendar: the start date is read and checked    *)
(* first, while the time origin is still the default one, then the time    *)
(* origin.  update(0), when the definition is closed, moves the current    *)
(* date to the start, and the files take it as the date of their split.    *)
CreateCalendar ==
  /\ phase = "unset"
  /\ IF Valid(config.start) /\ Valid(config.origin)
     THEN /\ phase' = "created"
          /\ initDate' = config.start /\ timeOrigin' = config.origin
          /\ currentDate' = config.start /\ lastSplit' = config.start
     ELSE /\ phase' = "refused"
          /\ UNCHANGED <<initDate, timeOrigin, currentDate, lastSplit>>
  /\ UNCHANGED <<config, step>>

(* (a slip: the step is added to the current date)                         *)
UpdateByStep ==
  /\ phase = "created" /\ step < LastStep
  /\ step' = step + 1
  /\ currentDate' = Plus(currentDate, config.step)
  /\ UNCHANGED <<phase, config, initDate, timeOrigin, lastSplit>>

(* CCalendar::update(step).                                                *)
Update ==
  /\ phase = "created" /\ step < LastStep
  /\ step' = step + 1
  /\ currentDate' = Plus(initDate, Times(config.step, step'))
  /\ UNCHANGED <<phase, config, initDate, timeOrigin, lastSplit>>

(* (a slip: the split is dated with the current date)                      *)
SplitNow ==
  /\ phase = "created"
  /\ Before(Plus(lastSplit, config.split), currentDate)
  /\ lastSplit' = currentDate
  /\ UNCHANGED <<phase, config, initDate, timeOrigin, step, currentDate>>

(* CFile::checkSplit.                                                      *)
CheckSplit ==
  /\ phase = "created"
  /\ Before(Plus(lastSplit, config.split), currentDate)
  /\ lastSplit' = Plus(lastSplit, config.split)
  /\ UNCHANGED <<phase, config, initDate, timeOrigin, step, currentDate>>

(* The model stops at its last step.                                       *)
Finished ==
  /\ \/ phase = "refused"
     \/ /\ phase = "created" /\ step = LastStep
        /\ ~Before(Plus(lastSplit, config.split), currentDate)
  /\ UNCHANGED vars

Next == CreateCalendar \/ Update \/ CheckSplit \/ Finished

Spec == Init /\ [][Next]_vars

---------------------------------------------------------------------------
(* The dates of a created calendar exist in it.                            *)
TypeOK ==
  /\ phase \in {"unset", "created", "refused"} /\ step \in 0..LastStep
  /\ phase = "created" =>
       \A date \in {currentDate, lastSplit} :
         /\ date.m \in 1..YearMonths
         /\ date.d \in 1..MonthLength(date.y, date.m)
         /\ date.s \in 0..(DayLength - 1)

(* A duration without months and years is a number of seconds.             *)
InSeconds(dur) ==
  /\ dur.y = 0 /\ dur.mo = 0
  /\ dur.ts # 0 => config.step.y = 0 /\ config.step.mo = 0
Seconds(dur) == dur.d * DayLength + dur.s

(* The current date is exactly step time steps after the start date, when  *)
(* the time step is a number of seconds: what the sum of the date does     *)
(* with its days and months agrees with the count of the seconds, which    *)
(* adds up the lengths of the months and of the years.                     *)
ExactSeconds ==
  phase = "created" /\ InSeconds(config.step) =>
    TimeOf(currentDate) = TimeOf(initDate) + step * Seconds(config.step)

(* Time goes forward: the date of a step comes after those of the steps    *)
(* before it, also when the time step has months and the days are brought  *)
(* back to the end of a shorter month.                                     *)
TimeForward ==
  phase = "created" =>
    \A n \in 0..(step - 1) :
      Before(Plus(initDate, Times(config.step, n)), currentDate)

(* The order of the dates, field by field, is that of their seconds.       *)
OrderIsTime ==
  phase = "created" =>
    \A n \in 0..step : LET other == Plus(initDate, Times(config.step, n)) IN
      Before(other, lastSplit) <=> TimeOf(other) < TimeOf(lastSplit)

(* A duration in seconds taken away and given back leaves the date as it   *)
(* was: the temporal filter subtracts its sampling period.                 *)
BackAgain ==
  phase = "created" /\ InSeconds(config.split) =>
    Plus(Minus(currentDate, config.split), config.split) = currentDate

(* The dates of the splits, each one the previous one and the split        *)
(* frequency, are those counted from the start date, as the temporal       *)
(* filter counts them: of a run that starts on a day all months have and   *)
(* a frequency of months and years only, or of days and seconds only.      *)
SplitsInStep ==
  phase = "created" =>
    \/ \E month \in 1..YearMonths : initDate.d > MonthDays[month]
    \/ ~InSeconds(config.split) /\ (config.split.d # 0 \/ config.split.s # 0
                                      \/ config.split.ts # 0)
    \/ \E n \in 0..(step * 31) : lastSplit = Plus(initDate, Times(config.split, n))

(* The user guide: the year is a leap year each time the drift, summed     *)
(* each year, reaches a day.                                               *)
DriftReachesDay(year) ==
  LET upTo(y) == DriftOffset + (y - timeOrigin.y) * Drift
  IN  upTo(year + 1) \div DriftDen > upTo(year) \div DriftDen

LeapWhenDriftIsADay ==
  phase = "created" /\ LeapRule = "drift" =>
    (IsLeapYear(currentDate.y) <=> DriftReachesDay(currentDate.y))

(* The reference guide: the initial drift is that of the year of the time  *)
(* origin; so a start date that was accepted exists in the calendar.       *)
StartExists == phase = "created" => Valid(initDate)
=============================================================================
