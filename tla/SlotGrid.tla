------------------------------ MODULE SlotGrid ------------------------------
(***************************************************************************)
(* Time and the slot grid: the pure functions of                           *)
(* internal/service/slot_generator.go and validateScheduleWindow of        *)
(* schedule_service.go.  Time is counted in ticks from a Monday midnight   *)
(* UTC.  SlotDuration is the number of ticks of the 30 minute slot and a   *)
(* day is SlotsPerDay slots (48 in the program); the tick is as fine as a  *)
(* run needs it, so that a startAt off the grid is a tick which is not a   *)
(* multiple of SlotDuration.                                               *)
(***************************************************************************)
EXTENDS Integers

CONSTANTS SlotDuration, SlotsPerDay

ASSUME SlotGridAssumption == /\ SlotDuration \in Nat \ {0}
                             /\ SlotsPerDay \in Nat \ {0}

DayLength == SlotDuration * SlotsPerDay

ISODays == 1..7

\* A validated schedule: ISO weekdays and a window, in ticks since midnight.
Schedule == [days : SUBSET ISODays, startTime : Nat, endTime : Nat]

TimeOfDay(t) == t % DayLength

TruncateToDayUTC(t) == t - TimeOfDay(t)

WeekdayToISO(t) == ((t \div DayLength) % 7) + 1

\* Minute() % 30, Second() and Nanosecond() are all zero.  An hour is a
\* multiple of the slot, so this is the same as a multiple of SlotDuration.
OnGrid(t) == t % SlotDuration = 0

(***************************************************************************)
(* validateScheduleWindow: parseHHMM bounds hours to 0..23, so the end of  *)
(* the window is at most the last grid point of the day, never midnight.   *)
(***************************************************************************)
ValidWindow(startTime, endTime) ==
  /\ startTime \in 0..(DayLength - 1) /\ OnGrid(startTime)
  /\ endTime \in 0..(DayLength - 1) /\ OnGrid(endTime)
  /\ startTime < endTime

\* NormalizeAndValidateDays returns a sorted list without duplicates: a set.
ValidDays(days) == days # {} /\ days \subseteq ISODays

ValidSchedule(s) == ValidDays(s.days) /\ ValidWindow(s.startTime, s.endTime)

\* Faulty variants of the check below: the grid or the weekday is not looked
\* at, the first or the last slot of the window is refused.
StartsInWindow(s, t) ==
  /\ WeekdayToISO(t) \in s.days
  /\ TimeOfDay(t) >= s.startTime
  /\ TimeOfDay(t) + SlotDuration <= s.endTime
StartsAnyDay(s, t) ==
  /\ OnGrid(t)
  /\ TimeOfDay(t) >= s.startTime
  /\ TimeOfDay(t) + SlotDuration <= s.endTime
StartsAfterOpening(s, t) == StartsInWindow(s, t) /\ OnGrid(t)
                              /\ TimeOfDay(t) > s.startTime
EndsBeforeClosing(s, t) == StartsInWindow(s, t) /\ OnGrid(t)
                             /\ TimeOfDay(t) + SlotDuration < s.endTime

IsStartAtWithinSchedule(s, t) ==
  /\ OnGrid(t)
  /\ WeekdayToISO(t) \in s.days
  /\ TimeOfDay(t) >= s.startTime
  /\ TimeOfDay(t) + SlotDuration <= s.endTime

(***************************************************************************)
(* GenerateSlotsForDate, as the set of the start times of its slots: the   *)
(* cursor walks from the start of the window in steps of SlotDuration      *)
(* while a whole slot still fits.                                          *)
(***************************************************************************)
GenerateSlotsForDate(s, date) ==
  LET day == TruncateToDayUTC(date)
  IN  IF WeekdayToISO(day) \notin s.days THEN {}
      ELSE { day + s.startTime + k * SlotDuration :
               k \in 0..((s.endTime - s.startTime) \div SlotDuration - 1) }

=============================================================================
