------------------------------- MODULE WorkTime -------------------------------
(***************************************************************************)
(* Working hours (src/sim/store/worktime.py): minutes of a simulated week, *)
(* seen from a person's time zone, and the next minute at which the person *)
(* works.                                                                  *)
(***************************************************************************)
EXTENDS Integers, FiniteSetsExt

CONSTANT Day   \* MINUTES_PER_DAY

ASSUME DayAssumption == Day \in Nat \ {0}

Week == 7 * Day

\* A person: WorkingHours and timezone_offset_minutes.
Hours == [weekdays : SUBSET (0 .. 6), start : 0 .. Day, end : 0 .. Day,
          offset : Int]

LocalMinuteOfWeek(origin, t, h) == (origin + t + h.offset) % Week
LocalDay(origin, t, h) == LocalMinuteOfWeek(origin, t, h) \div Day
LocalMinute(origin, t, h) == LocalMinuteOfWeek(origin, t, h) % Day

IsInHours(origin, t, h) ==
    /\ LocalDay(origin, t, h) \in h.weekdays
    /\ h.start <= LocalMinute(origin, t, h)
    /\ LocalMinute(origin, t, h) < h.end

\* The cursor of next_business_minute in round k of its loop: the minute
\* asked about, then one local midnight after the other.
Cursor(origin, t, h, k) ==
    IF k = 0 THEN t ELSE t + (k * Day - LocalMinute(origin, t, h))

\* The rounds, of the eight there are, in which the loop returns.
ReturningRounds(origin, t, h) ==
    {k \in 0 .. 7 :
        /\ LocalDay(origin, Cursor(origin, t, h, k), h) \in h.weekdays
        /\ LocalMinute(origin, Cursor(origin, t, h, k), h) < h.end}

\* next_business_minute, for a person who works on some day at all: without
\* one no round returns and the code raises.
NextBusinessMinute(origin, t, h) ==
    LET cursor == Cursor(origin, t, h, Min(ReturningRounds(origin, t, h)))
        minute == LocalMinute(origin, cursor, h)
    IN  IF IsInHours(origin, t, h) THEN t
        ELSE IF minute < h.start THEN cursor + (h.start - minute)
        ELSE cursor

\* What its docstring promises: the least minute, not before t, of work.
LeastWorkingMinute(origin, t, h) ==
    Min({u \in t .. t + 8 * Day : IsInHours(origin, u, h)})
=============================================================================
