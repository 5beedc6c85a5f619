------------------------- MODULE MCRoomAdministration -------------------------
(***************************************************************************)
(* Two admins' requests and two rooms.  Besides two valid schedules, which *)
(* race, the requests hold one invalid body of each kind: no days, a day   *)
(* outside 1..7, an empty window, a time off the grid, and 24:00.          *)
(***************************************************************************)
EXTENDS RoomAdministration, TLC

Symmetry == Permutations(Procs) \cup Permutations(Rooms)

Body(days, s, e) == [days |-> days, startTime |-> s, endTime |-> e]

MCScheduleRequests ==
  { Body({1}, 0, 4), Body({1, 2}, 2, 4), Body({}, 0, 4), Body({8}, 0, 4),
    Body({1}, 4, 4), Body({1}, 1, 4), Body({1}, 0, DayLength) }

=============================================================================
