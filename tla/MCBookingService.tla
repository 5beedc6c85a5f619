--------------------------- MODULE MCBookingService ---------------------------
(***************************************************************************)
(* Small instances of BookingService.  A slot is two ticks and a day three *)
(* slots: a window of two slots, an off-grid start and a start outside the *)
(* window all exist on the first day.                                      *)
(***************************************************************************)
EXTENDS BookingService, TLC

Symmetry == Permutations(Procs) \cup Permutations(BookingIDs)
            \cup Permutations(Users \ Admins) \cup Permutations(Rooms)

\* The whole of the two slot window, on the first day of the week only.
MCScheduleInputs == {[days |-> {1}, startTime |-> 0, endTime |-> 4]}

=============================================================================
