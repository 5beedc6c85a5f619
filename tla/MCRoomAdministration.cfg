SPECIFICATION Spec
CONSTANTS
  SlotDuration = 2
  SlotsPerDay = 3
  Users = {u1, a1}
  Admins = {a1}
  Rooms = {r1, r2}
  BookingIDs = {b1}
  NULL = NULL
  Procs = {p1, p2}
  ScheduleRequests <- MCScheduleRequests
SYMMETRY Symmetry
INVARIANTS
  AnswersHold
  OneScheduleCreated
PROPERTIES
  ReferenceDataStays
