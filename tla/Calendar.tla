------------------------------ MODULE Calendar ------------------------------
(***************************************************************************)
(* Dates and timestamps (src/types/datetime.cpp). A date is a number of    *)
(* days since 2000-01-01 and a timestamp a number of microseconds; both    *)
(* are turned into year, month and day by arithmetic on Julian day         *)
(* numbers. The model walks from the first day of a century forward or     *)
(* backward one day at a time, keeping the calendar the way people do      *)
(* (`today`), and compares. The clock has few microseconds, seconds,       *)
(* minutes and hours.                                                      *)
(***************************************************************************)
EXTENDS Integers, Sequences

CONSTANTS
    MaxDays,        \* bound: the walk's length in each direction
    kMicrosPerSec,  \* 1000000 in the code
    kSixty,         \* seconds in a minute and minutes in an hour
    kHoursPerDay    \* 24 in the code

VARIABLES
    start,  \* the day the walk began
    days,   \* days since 2000-01-01
    today   \* the date, weekday, and the days the month and year began

vars == <<start, days, today>>

kTimestampEpochJdate == 2451545

\* Division and remainder of the machine: towards zero.
Quotient(n, d) == IF n >= 0 THEN n \div d ELSE -((-n) \div d)
Remainder(n, d) == n - Quotient(n, d) * d

DateToJulian(year, month, day) ==
    LET a == Quotient(14 - month, 12)
        y == year + 4800 - a
        m == month + 12 * a - 3
    IN  day + Quotient(153 * m + 2, 5) + 365 * y + Quotient(y, 4)
            - Quotient(y, 100) + Quotient(y, 400) - 32045

JulianToDate(jdn) ==
    LET a == jdn + 32044
        b == Quotient(4 * a + 3, 146097)
        c == a - Quotient(146097 * b, 4)
        d == Quotient(4 * c + 3, 1461)
        e == c - Quotient(1461 * d, 4)
        m == Quotient(5 * e + 2, 153)
    IN  [day   |-> e - Quotient(153 * m + 2, 5) + 1,
         month |-> m + 3 - 12 * Quotient(m, 10),
         year  |-> 100 * b + d - 4800 + Quotient(m, 10)]

DateToDays(date) ==
    DateToJulian(date.year, date.month, date.day) - kTimestampEpochJdate

DaysToDateParts(n) == JulianToDate(n + kTimestampEpochJdate)

IsLeapYear(year) == \/ year % 4 = 0 /\ year % 100 # 0
                    \/ year % 400 = 0

kDaysInMonth == <<31, 28, 31, 30, 31, 30, 31, 31, 30, 31, 30, 31>>

DaysInMonth(year, month) ==
    IF month = 2 /\ IsLeapYear(year) THEN 29 ELSE kDaysInMonth[month]

\* The length of a day in microseconds.
Day == kHoursPerDay * kSixty * kSixty * kMicrosPerSec

Clock(micros) ==
    LET secs == micros \div kMicrosPerSec
    IN  [hour     |-> secs \div (kSixty * kSixty),
         minute   |-> (secs % (kSixty * kSixty)) \div kSixty,
         second   |-> secs % kSixty,
         microsec |-> micros % kMicrosPerSec]

\* Mutant of TimestampToParts: a time before 2000 is not borrowed from the
\* previous day; the clock shows the distance to midnight.
PartsWithoutBorrow(ts) ==
    LET rest == Remainder(ts, Day)
    IN  [date |-> DaysToDateParts(Quotient(ts, Day)),
         clock |-> Clock(IF rest < 0 THEN -rest ELSE rest)]

\* TimestampToParts: a negative rest is borrowed from the days.
TimestampToParts(ts) ==
    LET rest == Remainder(ts, Day)
    IN  IF rest < 0
        THEN [date |-> DaysToDateParts(Quotient(ts, Day) - 1), clock |-> Clock(rest + Day)]
        ELSE [date |-> DaysToDateParts(Quotient(ts, Day)), clock |-> Clock(rest)]

PartsToTimestamp(p) ==
    DateToDays(p.date) * Day
        + ((p.clock.hour * kSixty + p.clock.minute) * kSixty + p.clock.second) * kMicrosPerSec
        + p.clock.microsec

\* ereport: no number of the walk.
Error == -(10 ^ 8)

\* timestamp_in: the fields of a text, checked one by one. A text without a
\* fraction leaves the microseconds 0.
timestamp_in(text) ==
    LET date  == [year |-> text[1], month |-> text[2], day |-> text[3]]
        clock == [hour |-> text[4], minute |-> text[5], second |-> text[6],
                  microsec |-> IF Len(text) = 7 THEN text[7] ELSE 0]
    IN  IF /\ date.month \in 1..12
           /\ date.day \in 1..DaysInMonth(date.year, date.month)
           /\ clock.hour \in 0..(kHoursPerDay - 1)
           /\ clock.minute \in 0..(kSixty - 1)
           /\ clock.second \in 0..(kSixty - 1)
        THEN PartsToTimestamp([date |-> date, clock |-> clock])
        ELSE Error

\* timestamp_out: the fraction is printed only if it is not zero, and in full.
timestamp_out(ts) ==
    LET p == TimestampToParts(ts)
    IN  <<p.date.year, p.date.month, p.date.day,
          p.clock.hour, p.clock.minute, p.clock.second>>
            \o (IF p.clock.microsec > 0 THEN <<p.clock.microsec>> ELSE << >>)

date_in(text) ==
    IF text[2] \in 1..12 /\ text[3] \in 1..DaysInMonth(text[1], text[2])
    THEN DateToDays([year |-> text[1], month |-> text[2], day |-> text[3]])
    ELSE Error

date_out(n) ==
    LET date == DaysToDateParts(n) IN <<date.year, date.month, date.day>>

\* date_trunc: the fields below the named one are reset. The week is found
\* from the machine's remainder of the day number.
date_trunc(field, ts) ==
    LET p == TimestampToParts(ts)
        first(year, month) ==
            PartsToTimestamp([date |-> [year |-> year, month |-> month, day |-> 1],
                              clock |-> Clock(0)])
        midnight == PartsToTimestamp([p EXCEPT !.clock = Clock(0)])
        dow == Remainder(DateToDays(p.date) + 6, 7)
    IN  CASE field = "second" -> PartsToTimestamp([p EXCEPT !.clock.microsec = 0])
          [] field = "minute" ->
                 PartsToTimestamp([p EXCEPT !.clock.microsec = 0, !.clock.second = 0])
          [] field = "hour" ->
                 PartsToTimestamp([p EXCEPT !.clock = [Clock(0) EXCEPT !.hour = p.clock.hour]])
          [] field = "day" -> midnight
          [] field = "week" -> midnight + (IF dow = 0 THEN -6 ELSE 1 - dow) * Day
          [] field = "month" -> first(p.date.year, p.date.month)
          [] field = "quarter" -> first(p.date.year, ((p.date.month - 1) \div 3) * 3 + 1)
          [] field = "year" -> first(p.date.year, 1)
          [] field = "decade" -> first((p.date.year \div 10) * 10, 1)
          [] field = "century" -> first(((p.date.year - 1) \div 100) * 100 + 1, 1)
          [] field = "millennium" -> first(((p.date.year - 1) \div 1000) * 1000 + 1, 1)

\* extract: of the calendar fields, the ones that are computed.
extract(field, ts) ==
    LET p == TimestampToParts(ts)
        doy == DateToDays(p.date) - DateToDays([year |-> p.date.year, month |-> 1, day |-> 1]) + 1
    IN  CASE field = "dow" -> Remainder(DateToDays(p.date) + 6, 7)
          [] field = "doy" -> doy
          [] field = "week" -> (doy - 1) \div 7 + 1
          [] field = "quarter" -> (p.date.month - 1) \div 3 + 1
          [] field = "decade" -> p.date.year \div 10
          [] field = "century" -> (p.date.year - 1) \div 100 + 1
          [] field = "millennium" -> (p.date.year - 1) \div 1000 + 1

-----------------------------------------------------------------------------

\* The first days of centuries: a leap year every fourth one, and weekdays of
\* a week that starts on Sunday (day 0).
Centuries == {<<1600, -146097, 6>>, <<1900, -36524, 1>>, <<2000, 0, 6>>, <<2100, 36525, 5>>}

Init == \E c \in Centuries :
           /\ start = c[2]
           /\ days = c[2]
           /\ today = [year |-> c[1], month |-> 1, day |-> 1, weekday |-> c[3],
                       monthBegan |-> c[2], yearBegan |-> c[2]]

Length(year) == IF IsLeapYear(year) THEN 366 ELSE 365

Tomorrow ==
    /\ days \in start..(start + MaxDays - 1)
    /\ days' = days + 1
    /\ UNCHANGED start
    /\ today' =
         [today EXCEPT
            !.weekday = (@ + 1) % 7,
            !.day = IF @ = DaysInMonth(today.year, today.month) THEN 1 ELSE @ + 1,
            !.month = IF today.day < DaysInMonth(today.year, today.month) THEN @
                      ELSE IF @ = 12 THEN 1 ELSE @ + 1,
            !.year = IF today.day = 31 /\ today.month = 12 THEN @ + 1 ELSE @,
            !.monthBegan = IF today.day = DaysInMonth(today.year, today.month)
                           THEN days + 1 ELSE @,
            !.yearBegan = IF today.day = 31 /\ today.month = 12 THEN days + 1 ELSE @]

Yesterday ==
    LET month == IF today.day > 1 THEN today.month
                 ELSE IF today.month = 1 THEN 12 ELSE today.month - 1
        year  == IF today.day = 1 /\ today.month = 1 THEN today.year - 1 ELSE today.year
    IN  /\ days \in (start - MaxDays + 1)..start
        /\ days' = days - 1
        /\ UNCHANGED start
        /\ today' =
             [today EXCEPT
                !.weekday = (@ + 6) % 7,
                !.day = IF @ > 1 THEN @ - 1 ELSE DaysInMonth(year, month),
                !.month = month,
                !.year = year,
                !.monthBegan = IF today.day > 1 THEN @ ELSE @ - DaysInMonth(year, month),
                !.yearBegan = IF year = today.year THEN @ ELSE @ - Length(year)]

Next == Tomorrow \/ Yesterday

Spec == Init /\ [][Next]_vars

Date == [day |-> today.day, month |-> today.month, year |-> today.year]

\* The conversions agree with the calendar on every day and at every time of
\* the day, before and after 2000 and across leap years, century years and the
\* leap century: number to date and back, text to timestamp and back, and the
\* beginning of the month and of the year.
CalendarAgrees ==
    /\ DaysToDateParts(days) = Date
    /\ DateToDays(Date) = days
    /\ date_in(date_out(days)) = days
    /\ extract("doy", days * Day) = days - today.yearBegan + 1
    /\ \A micros \in 0..(Day - 1) :
           LET ts == days * Day + micros
           IN  /\ TimestampToParts(ts) = [date |-> Date, clock |-> Clock(micros)]
               /\ timestamp_in(timestamp_out(ts)) = ts
               /\ date_trunc("hour", ts) = ts - (micros % (Day \div kHoursPerDay))
               /\ date_trunc("month", ts) = today.monthBegan * Day
               /\ date_trunc("year", ts) = today.yearBegan * Day

\* The comments in date_trunc and extract: "Truncate to Monday (day of week 1)"
\* and "Day of week: 0=Sunday, 1=Monday, ..., 6=Saturday".
WeekdayAgrees ==
    /\ extract("dow", days * Day) = today.weekday
    /\ date_trunc("week", days * Day) = (days - ((today.weekday + 6) % 7)) * Day
=============================================================================
