---------------------------- MODULE SlotGenerator ----------------------------
(***************************************************************************)
(* GenerateSlotsForDate of internal/service/slot_generator.go as the loop  *)
(* it is: a cursor that walks from the start of the window in steps of     *)
(* SlotDuration.  SlotGrid has the set this loop is meant to collect.      *)
(***************************************************************************)
EXTENDS SlotGrid, Sequences

CONSTANTS Inputs,   \* the schedules the function is called with
          Dates     \* the dates

ASSUME SlotGeneratorAssumption == Inputs \subseteq Schedule /\ Dates \subseteq Int

VARIABLES schedule, date,   \* the arguments
          cursor, slots,    \* the loop variable, the start times so far
          pc

vars == <<schedule, date, cursor, slots, pc>>

TypeOK ==
  /\ schedule \in Schedule
  /\ date \in Int
  /\ cursor \in Int
  /\ slots \in Seq(Int)
  /\ pc \in {"start", "loop", "done"}

WindowStart == TruncateToDayUTC(date) + schedule.startTime
WindowEnd == TruncateToDayUTC(date) + schedule.endTime

Init ==
  /\ schedule \in Inputs
  /\ date \in Dates
  /\ cursor = 0
  /\ slots = << >>
  /\ pc = "start"

OffDay ==
  /\ pc = "start"
  /\ WeekdayToISO(TruncateToDayUTC(date)) \notin schedule.days
  /\ pc' = "done"
  /\ UNCHANGED <<schedule, date, cursor, slots>>

EnterLoop ==
  /\ pc = "start"
  /\ WeekdayToISO(TruncateToDayUTC(date)) \in schedule.days
  /\ cursor' = WindowStart
  /\ pc' = "loop"
  /\ UNCHANGED <<schedule, date, slots>>

\* Faulty variant: the last slot is dropped.
FitsStrictly == cursor + SlotDuration < WindowEnd

\* ~ slotEnd.After(windowEnd)
SlotFits == cursor + SlotDuration <= WindowEnd

AppendSlot ==
  /\ pc = "loop"
  /\ cursor < WindowEnd
  /\ SlotFits
  /\ slots' = Append(slots, cursor)
  /\ cursor' = cursor + SlotDuration
  /\ UNCHANGED <<schedule, date, pc>>

\* Faulty variant: the loop goes on when a slot does not fit.
LeaveLoopAtEnd ==
  /\ pc = "loop"
  /\ cursor >= WindowEnd
  /\ pc' = "done"
  /\ UNCHANGED <<schedule, date, cursor, slots>>

\* The loop condition fails, or the last slot would stick out of the window.
LeaveLoop ==
  /\ pc = "loop"
  /\ cursor >= WindowEnd \/ ~ SlotFits
  /\ pc' = "done"
  /\ UNCHANGED <<schedule, date, cursor, slots>>

Next == OffDay \/ EnterLoop \/ AppendSlot \/ LeaveLoop

Spec == Init /\ [][Next]_vars /\ WF_vars(Next)

-----------------------------------------------------------------------------
\* The start times collected so far.
Collected == { slots[k] : k \in DOMAIN slots }

(***************************************************************************)
(* What the loop returns is the set GenerateSlotsForDate, each slot once   *)
(* and in ascending order, for windows whose ends are on the grid or not.  *)
(***************************************************************************)
LoopCollectsSlots ==
  pc = "done" =>
    /\ Collected = GenerateSlotsForDate(schedule, date)
    /\ \A j, k \in DOMAIN slots : j < k => slots[j] + SlotDuration <= slots[k]

(***************************************************************************)
(* The slots returned for a schedule that was validated are exactly the    *)
(* start times of the day that IsStartAtWithinSchedule accepts.            *)
(***************************************************************************)
DayOf(t) == TruncateToDayUTC(t) .. TruncateToDayUTC(t) + DayLength - 1

LoopAgreesWithCheck ==
  pc = "done" /\ ValidSchedule(schedule) =>
    Collected = { t \in DayOf(date) : IsStartAtWithinSchedule(schedule, t) }

\* The loop ends.
Termination == <>(pc = "done")

\* Why the loop is right: the cursor is a whole number of slots into the
\* window, and the slots are the multiples before it.
LoopInv ==
  /\ TypeOK
  /\ pc = "start" => slots = << >>
  /\ pc = "loop" => WeekdayToISO(TruncateToDayUTC(date)) \in schedule.days
  /\ pc = "loop" => cursor = WindowStart + Len(slots) * SlotDuration
  /\ \A k \in 1..Len(slots) : slots[k] = WindowStart + (k - 1) * SlotDuration
  /\ slots # << >> => WindowStart + Len(slots) * SlotDuration <= WindowEnd
  /\ pc = "done" =>
       IF WeekdayToISO(TruncateToDayUTC(date)) \in schedule.days
         THEN WindowStart + Len(slots) * SlotDuration + SlotDuration > WindowEnd
         ELSE slots = << >>

=============================================================================
