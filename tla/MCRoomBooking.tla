---------------------------- MODULE MCRoomBooking ----------------------------
(***************************************************************************)
(* One goroutine per service and days of four slots.  The room works       *)
(* either on Monday, in the two slots from 2 to 6, or on Tuesday, in the   *)
(* slot from 2 to 4: the starts are the last slot of each window, outside  *)
(* the other schedule, and an instant off the grid.                        *)
(***************************************************************************)
EXTENDS RoomBooking, TLC

Symmetry == Permutations(BookingIDs)

MCScheduleInputs == {[days |-> {1}, startTime |-> 2, endTime |-> 6],
                     [days |-> {2}, startTime |-> 2, endTime |-> 4]}

MCDates == {DayLength - 1, DayLength}

=============================================================================
