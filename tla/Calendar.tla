-------------------------------- MODULE Calendar --------------------------------
(***************************************************************************)
(* The calendar of core/util.rs: Gregorian dates and ISO weeks computed    *)
(* from a day count with era arithmetic and no date library.  A date is    *)
(* <<year, month, day>>, a week label <<year, week>>, a day a count since  *)
(* 1970-01-01; \div rounds down, which is the code's div_euclid and, on    *)
(* the non-negative terms, its plain division.                             *)
(***************************************************************************)
EXTENDS Integers, Sequences, FiniteSets, SequencesExt

is_leap_year(y) == y % 4 = 0 /\ (y % 100 # 0 \/ y % 400 = 0)

days_in_month(y, m) ==
    IF m = 2 THEN IF is_leap_year(y) THEN 29 ELSE 28
    ELSE IF m \in {4, 6, 9, 11} THEN 30 ELSE 31

canonical_iso_date(y, m, d) == y >= 1000 /\ m \in 1..12 /\ d \in 1..days_in_month(y, m)

days_from_civil(date) ==
    LET y   == IF date[2] <= 2 THEN date[1] - 1 ELSE date[1]
        era == (IF y >= 0 THEN y ELSE y - 399) \div 400
        yoe == y - era * 400
        mp  == IF date[2] > 2 THEN date[2] - 3 ELSE date[2] + 9
        doy == (153 * mp + 2) \div 5 + date[3] - 1
    IN  era * 146097 + yoe * 365 + yoe \div 4 - yoe \div 100 + doy - 719468

\* Mutant: the last day of a 400-year era belongs to the next.
civil_from_days_era(days) ==
    LET z   == days + 719468
        doe == z % 146097
        yoe == (doe - doe \div 1460 + doe \div 36524) \div 365
        doy == doe - (365 * yoe + yoe \div 4 - yoe \div 100)
        mp  == (5 * doy + 2) \div 153
        m   == IF mp < 10 THEN mp + 3 ELSE mp - 9
    IN  <<yoe + (z \div 146097) * 400 + (IF m <= 2 THEN 1 ELSE 0), m,
          doy - (153 * mp + 2) \div 5 + 1>>

civil_from_days(days) ==
    LET z   == days + 719468
        doe == z % 146097
        yoe == (doe - doe \div 1460 + doe \div 36524 - doe \div 146096) \div 365
        doy == doe - (365 * yoe + yoe \div 4 - yoe \div 100)
        mp  == (5 * doy + 2) \div 153
        m   == IF mp < 10 THEN mp + 3 ELSE mp - 9
    IN  <<yoe + (z \div 146097) * 400 + (IF m <= 2 THEN 1 ELSE 0), m,
          doy - (153 * mp + 2) \div 5 + 1>>

\* 1 is Monday, 7 is Sunday.
iso_weekday(days) == ((days + 3) % 7) + 1

Monday(days) == days - (iso_weekday(days) - 1)

week1_monday(y) == Monday(days_from_civil(<<y, 1, 4>>))

\* The week belongs to the year its Thursday is in.
iso_week_of_day(days) ==
    LET monday == Monday(days)
        y == civil_from_days(monday + 3)[1]
    IN  <<y, (monday - week1_monday(y)) \div 7 + 1>>

\* Computed from the weekday of 1 January alone, 0 being Sunday.
iso_weeks_in_year(y) ==
    LET p == y - 1
        jan1 == (1 + 5 * (p % 4) + 4 * (p % 100) + 6 * (p % 400)) % 7
    IN  IF jan1 = 4 \/ (is_leap_year(y) /\ jan1 = 3) THEN 53 ELSE 52

canonical_iso_week(y, w) == y >= 1000 /\ w # 0 /\ w <= iso_weeks_in_year(y)

\* The period of a Review that is not about a Rhythm: a date or a week there is.
validate_review_period(kind, period) ==
    CASE kind = "daily" -> canonical_iso_date(period[1], period[2], period[3])
      [] kind = "weekly" -> canonical_iso_week(period[1], period[2])

\* The days of a week: from its Monday up to, not including, the next one.
iso_week_bounds(week) ==
    LET start == week1_monday(week[1]) + (week[2] - 1) * 7
    IN  [start |-> start, end |-> start + 7]

\* Stamps are fixed width, so the order of their text is that of their fields.
TextBefore(a, b) ==
    \E i \in 1..Len(a) : a[i] < b[i] /\ \A j \in 1..(i - 1) : a[j] = b[j]

-----------------------------------------------------------------------------
(* What a calendar is, by counting. *)

LeapYears(from, to) == Cardinality({y \in from..(to - 1) : is_leap_year(y)})

\* Days from 1970-01-01 to 1 January of y.
YearStart(y) ==
    365 * (y - 1970) + (IF y >= 1970 THEN LeapYears(1970, y) ELSE -LeapYears(y, 1970))

DaysBefore(y, m) == FoldLeft(LAMBDA sum, k : sum + days_in_month(y, k), 0, [k \in 1..(m - 1) |-> k])

Count(date) == YearStart(date[1]) + DaysBefore(date[1], date[2]) + date[3] - 1

\* 1970-01-01 was a Thursday; a year has as many ISO weeks as Thursdays.
Thursdays(from, to) == Cardinality({d \in from..(to - 1) : d % 7 = 0})

\* A week has the number of its Thursday among the Thursdays of that year.
WeekByThursday(days) ==
    LET thursday == CHOOSE t \in (days - 3)..(days + 3) : t % 7 = 0
        y == CHOOSE k \in (civil_from_days(days)[1] - 1)..(civil_from_days(days)[1] + 1) :
                 YearStart(k) <= thursday /\ thursday < YearStart(k + 1)
    IN  <<y, Thursdays(YearStart(y), thursday) + 1>>

\* The arithmetic of day d is the calendar: its date counts back to it, comes
\* after the day before in text order and is one the date check accepts, and
\* that check accepts no day past the month's end; its week is the one counted
\* by Thursdays, holds it, and is a label the week check accepts; and that check
\* accepts exactly as many weeks as the year has Thursdays.
CalendarRightOn(d) ==
    LET date == civil_from_days(d)
        y == date[1]
        week == iso_week_of_day(d)
    IN  /\ Count(date) = d /\ days_from_civil(date) = d
        /\ TextBefore(civil_from_days(d - 1), date)
        /\ \A k \in 0..32 : validate_review_period("daily", <<y, date[2], k>>)
                            <=> civil_from_days(days_from_civil(<<y, date[2], k>>)) = <<y, date[2], k>>
        /\ week = WeekByThursday(d)
        /\ iso_week_bounds(week).start <= d /\ d < iso_week_bounds(week).end
        /\ \A k \in 0..54 : validate_review_period("weekly", <<y, k>>)
                            <=> k \in 1..Thursdays(YearStart(y), YearStart(y + 1))
=================================================================================
