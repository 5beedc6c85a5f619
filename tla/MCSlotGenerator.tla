--------------------------- MODULE MCSlotGenerator ---------------------------
(***************************************************************************)
(* SlotGenerator with the program's own numbers: 48 slots of 30 minutes,   *)
(* a tick is a minute.  Every window that validateScheduleWindow accepts   *)
(* is an input, and each of them again with its last minute cut off.       *)
(***************************************************************************)
EXTENDS SlotGenerator

GridPoints == { k * SlotDuration : k \in 0..(SlotsPerDay - 1) }

MCInputs ==
  UNION { { [days |-> {1, 7}, startTime |-> s, endTime |-> e - cut] :
              cut \in {0, 1}, e \in { x \in GridPoints : x > s } } :
          s \in GridPoints }

\* Monday noon, Tuesday midnight and the last minute of Sunday.
MCDates == {DayLength \div 2, DayLength, 7 * DayLength - 1}

=============================================================================
