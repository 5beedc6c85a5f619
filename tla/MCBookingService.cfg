SPECIFICATION Spec
CONSTANTS
  SlotDuration = 2
  SlotsPerDay = 3
  Users = {u1, u2}
  Admins = {}
  Rooms = {r1}
  BookingIDs = {b1, b2, b3}
  NULL = NULL
  Procs = {p1, p2}
  StartTimes = {0, 1, 4}
  ScheduleInputs <- MCScheduleInputs
  MaxTime = 1
SYMMETRY Symmetry
INVARIANTS
  NoOverlap
  EveryBookingIsASlot
  RepliesHold
PROPERTIES
  RowsOnlyCancelled
  OnlyOwnerCancels
