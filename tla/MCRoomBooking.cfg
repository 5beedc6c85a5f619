SPECIFICATION SystemSpec
CONSTANTS
  SlotDuration = 2
  SlotsPerDay = 4
  Users = {u1, a1}
  Admins = {a1}
  Rooms = {r1}
  BookingIDs = {b1, b2}
  NULL = NULL
  Procs = {p1}
  AdminProcs = {q1}
  SlotProcs = {l1}
  StartTimes = {3, 4, 10}
  ScheduleInputs <- MCScheduleInputs
  Dates <- MCDates
  MaxTime = 1
SYMMETRY Symmetry
INVARIANTS
  SystemTypeOK
PROPERTIES
  ListsAreSnapshots
  AnswersMatchList
  ListedIsNeverUnknown
  ImplementsBookingService
