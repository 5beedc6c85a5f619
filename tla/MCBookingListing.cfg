SPECIFICATION Spec
CONSTANTS
  SlotDuration = 2
  SlotsPerDay = 4
  Users = {u1, a1}
  Admins = {a1}
  Rooms = {r1}
  BookingIDs = {b1, b2, b3}
  NULL = NULL
  Procs = {p1}
  StartTimes = {0, 2}
  PageParams = {NULL, 2, 7}
  SizeParams = {NULL, 5}
  DefaultPageSize = 2
  MaxPageSize = 4
  IntLimit = 8
  Followed = {b1}
  MaxTime = 1
SYMMETRY Symmetry
INVARIANTS
  TypeOK
  PageHoldsWhatTotalSays
  WalkMissesNothing
  MyListKeepsPromises
