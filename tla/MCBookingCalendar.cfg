SPECIFICATION Spec
CONSTANTS
  SlotDuration = 2
  SlotsPerDay = 3
  Users = {u1, u2, a1}
  Admins = {a1}
  Rooms = {r1}
  BookingIDs = {b1, b2}
  NULL = NULL
  Procs = {p1, p2}
  StartTimes = {0, 1, 2}
  ScheduleInputs <- MCScheduleInputs
  MaxTime = 1
SYMMETRY Symmetry
PROPERTIES
  ImplementsCalendar
