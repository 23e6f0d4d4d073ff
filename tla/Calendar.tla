------------------------------ MODULE Calendar ------------------------------
(***************************************************************************)
(* Days in the client's timezone: src/src/common/utils/query.ts.  An       *)
(* instant is a natural number of ticks since the epoch, a Thursday; a     *)
(* timezone is the ticks its clock is behind UTC, as in getTimezoneOffset. *)
(***************************************************************************)
EXTENDS Integers

CONSTANT Day   \* ticks in a day (DAY_MS)

ASSUME DayAssumption == Day \in Nat \ {0}

LocalDay(t, tz) == (t - tz) \div Day

(* dayBounds: when the client's today starts and ends. *)
DayStart(t, tz) == LocalDay(t, tz) * Day + tz
DayEnd(t, tz) == DayStart(t, tz) + Day

(* weekStart: getUTCDay() of day 0, a Thursday, is 4. *)
SinceMonday(day) == (((day + 4) % 7) + 6) % 7
WeekStart(t, tz) == DayStart(t, tz) - SinceMonday(LocalDay(DayStart(t, tz), tz)) * Day

(* mongoTimezone turns the sign: what $dateToString gets is east of UTC. *)
MongoTimezone(tz) == -tz

DateToString(t, east) == (t + east) \div Day

(* The date a client's clock shows. *)
LocalDateKey(t, tz) == (t - tz) \div Day
=============================================================================
