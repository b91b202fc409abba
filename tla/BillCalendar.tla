---------------------------- MODULE BillCalendar ----------------------------
(***************************************************************************)
(* The due dates of a recurring bill (internal/finance/bills.go): never    *)
(* stored, always generated from an anchor and a cadence, in both          *)
(* directions.  A date is an integer day; the calendar is a sequence of    *)
(* months that repeats, so a leap cycle is 48 months.                      *)
(***************************************************************************)
EXTENDS Integers, Sequences, FiniteSetsExt

CONSTANTS
    Ends,       \* Ends[k + 1]: the days before month k of one period of the calendar
    Cadences,
    StepDays,   \* cadenceStep: days per step, 0 for a cadence of months
    StepMonths  \* cadenceStep: months per step, 0 for a cadence of days

ASSUME CalendarAssumption ==
    /\ Ends \in Seq(Nat) /\ Len(Ends) > 1 /\ Ends[1] = 0
    /\ \A i, j \in 1 .. Len(Ends) : i < j => Ends[j] - Ends[i] >= j - i
    /\ StepDays \in [Cadences -> Nat] /\ StepMonths \in [Cadences -> Nat]
    /\ \A c \in Cadences : (StepDays[c] = 0) # (StepMonths[c] = 0)

-----------------------------------------------------------------------------
(* The civil calendar (package time) *)

Period == Len(Ends) - 1
LenOf(m) == Ends[(m % Period) + 2] - Ends[(m % Period) + 1]
PeriodDays == Ends[Period + 1]
FirstOf(m) == (m \div Period) * PeriodDays + Ends[(m % Period) + 1]
MonthOf(d) == (d \div PeriodDays) * Period
                + Cardinality({k \in 1 .. Period : Ends[k + 1] <= d % PeriodDays})
DayIn(d) == d - FirstOf(MonthOf(d))     \* the day of the month, from 0

\* No cadence takes steps of more than a period (a year at most, against a leap cycle).
ASSUME StepAssumption ==
    \A c \in Cadences : StepDays[c] <= PeriodDays /\ StepMonths[c] <= Period

-----------------------------------------------------------------------------
(* The generator *)

\* Go's integer division truncates towards zero.
Quot(a, b) == IF a >= 0 THEN a \div b ELSE -((-a) \div b)
CeilDiv(a, b) == Quot(a, b) + (IF a - b * Quot(a, b) > 0 THEN 1 ELSE 0)

\* Faulty variant: time.AddDate, which rolls a day the month lacks into the next one.
AddMonthsRolled(d, n) == FirstOf(MonthOf(d) + n) + DayIn(d)
AddMonthsClamped(d, n) ==
    LET m == MonthOf(d) + n
    IN  FirstOf(m) + (IF DayIn(d) >= LenOf(m) THEN LenOf(m) - 1 ELSE DayIn(d))

OccurrenceAt(anchor, c, n) ==
    IF StepDays[c] > 0 THEN anchor + n * StepDays[c]
    ELSE AddMonthsClamped(anchor, n * StepMonths[c])

\* The ordinal of next_due.  A step of months is estimated from the difference in
\* months, then walked down to an occurrence before today and up again: two
\* steps are enough, since an estimate is off by less than one step and a day.
DueOrdinal(anchor, c, day) ==
    IF StepDays[c] > 0 THEN CeilDiv(day - anchor, StepDays[c])
    ELSE LET estimate == Quot(MonthOf(day) - MonthOf(anchor), StepMonths[c])
             down == Max({n \in estimate - 2 .. estimate : OccurrenceAt(anchor, c, n) < day})
         IN  Min({n \in down .. down + 3 : OccurrenceAt(anchor, c, n) >= day})

NextDue(anchor, c, day) == OccurrenceAt(anchor, c, DueOrdinal(anchor, c, day))
PrevDue(anchor, c, day) == OccurrenceAt(anchor, c, DueOrdinal(anchor, c, day) - 1)
LastOnOrBefore(anchor, c, d) ==
    IF NextDue(anchor, c, d) <= d THEN NextDue(anchor, c, d) ELSE PrevDue(anchor, c, d)
IsOccurrence(anchor, c, d) == NextDue(anchor, c, d) = d

\* Ties go to the earlier cycle.
NearestOccurrence(anchor, c, d) ==
    LET prev == PrevDue(anchor, c, d)
        next == NextDue(anchor, c, d)
    IN  IF d - prev <= next - d THEN prev ELSE next

OccurrencesBetween(anchor, c, from, to) ==
    LET start == DueOrdinal(anchor, c, from)
    IN  {OccurrenceAt(anchor, c, start + i) : i \in 0 .. to - from} \cap from .. to

-----------------------------------------------------------------------------
(* What a due date is, said without the generator. *)

\* Every StepDays-th day, or the anchor's day of every StepMonths-th month, the
\* last day of a month that is too short.
Due(anchor, c, d) ==
    IF StepDays[c] > 0 THEN (d - anchor) % StepDays[c] = 0
    ELSE /\ (MonthOf(d) - MonthOf(anchor)) % StepMonths[c] = 0
         /\ DayIn(d) = Min({DayIn(anchor), LenOf(MonthOf(d)) - 1})
=============================================================================
