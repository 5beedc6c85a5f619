SPECIFICATION Spec
CONSTANTS
  SlotDuration = 2
  SlotsPerDay = 3
  Users = {u1}
  Admins = {}
  Rooms = {r1}
  BookingIDs = {b1, b2}
  NULL = NULL
  Starts = {0, 1, 2, 3, 4}
INVARIANT
  GridHeldByDatabase
CHECK_DEADLOCK FALSE
