SPECIFICATION Spec
CONSTANTS
  SlotDuration = 2
  SlotsPerDay = 3
  Users = {u1}
  Admins = {}
  Rooms = {r1}
  BookingIDs = {b1}
  NULL = NULL
  Procs = {p1}
  StartTimes = {0, 1}
  ScheduleInputs <- MCScheduleInputs
  MaxTime = 1
PROPERTY
  NoBookingInPast
