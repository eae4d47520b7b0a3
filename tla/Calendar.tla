------------------------------ MODULE Calendar ------------------------------
(***************************************************************************)
(* The calendar expander: the repetition pairs of RepeatMapping            *)
(* (src/indico/modules/rb/models/reservations.py) and the dates of the    *)
(* series ReservationOccurrence.create_series generates for them.          *)
(*                                                                         *)
(* A date is a day number 1..N of a calendar whose months have the lengths *)
(* MonthLengths.  The expander steps the start date by the frequency's    *)
(* unit times the interval, up to and including the end date; a monthly   *)
(* step onto a day the target month lacks lands on its last day.           *)
(***************************************************************************)
EXTENDS Integers, Sequences, TLC

CONSTANT MonthLengths   \* the lengths of the calendar's consecutive months

ASSUME MonthLengths \in Seq(Nat \ {0}) /\ Len(MonthLengths) >= 1

Months == 1..Len(MonthLengths)

(* The number of days in the months before month m *)
RECURSIVE DaysBefore(_)
DaysBefore(m) == IF m = 1 THEN 0 ELSE DaysBefore(m - 1) + MonthLengths[m - 1]

Dates == 1..DaysBefore(Len(MonthLengths) + 1)

MonthOf(d) == CHOOSE m \in Months : DaysBefore(m) < d /\ d <= DaysBefore(m) + MonthLengths[m]
DayOfMonth(d) == d - DaysBefore(MonthOf(d))

(* RepeatFrequency *)
NEVER == 0
DAY == 1
WEEK == 2
MONTH == 3
YEAR == 4

(* RepeatMapping._mapping: the implemented (frequency, interval) pairs and *)
(* the number each had in the old repeatability scheme (None for NEVER).   *)
OldNone == -1
OldMapping == (<<NEVER, 0>> :> OldNone) @@ (<<DAY, 1>> :> 0) @@ (<<WEEK, 1>> :> 1)
              @@ (<<WEEK, 2>> :> 2) @@ (<<WEEK, 3>> :> 3) @@ (<<MONTH, 1>> :> 4)
RepeatMapping == DOMAIN OldMapping

(* RepeatMapping.getNewMapping: the pair of an old repeatability; NoPair   *)
(* for a number below 5 that no pair has (the loop finds nothing).        *)
NoPair == <<-1, -1>>
GetNewMapping(repeat) ==
    IF \E k \in RepeatMapping : OldMapping[k] = repeat
    THEN CHOOSE k \in RepeatMapping : OldMapping[k] = repeat
    ELSE NoPair

(* The date k months after d, clamped to the last day of the target month; *)
(* NoDate when the calendar ends first.                                    *)
NoDate == 0
ClampDay(day, m) == IF day <= MonthLengths[m] THEN day ELSE MonthLengths[m]
AddMonths(d, k) ==
    LET m == MonthOf(d) + k
    IN  IF m > Len(MonthLengths) THEN NoDate ELSE DaysBefore(m) + ClampDay(DayOfMonth(d), m)

(* The n-th date of a series: the start stepped n times by unit x interval *)
StepDate(start, rep, n) ==
    CASE rep[1] = DAY   -> start + n * rep[2]
      [] rep[1] = WEEK  -> start + 7 * n * rep[2]
      [] rep[1] = MONTH -> AddMonths(start, n * rep[2])
      [] rep[1] = YEAR  -> AddMonths(start, 12 * n * rep[2])

RECURSIVE SeriesFrom(_, _, _, _)
SeriesFrom(start, end, rep, n) ==
    LET d == StepDate(start, rep, n)
    IN  IF d = NoDate \/ d > end THEN {}
        ELSE {d} \cup SeriesFrom(start, end, rep, n + 1)

(* ReservationOccurrence.create_series(start, end, (frequency, interval)): *)
(* the dates of the occurrences.                                           *)
Series(start, end, rep) ==
    IF rep[1] = NEVER THEN {start} ELSE SeriesFrom(start, end, rep, 0)
=============================================================================
