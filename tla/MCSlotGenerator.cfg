SPECIFICATION Spec
CONSTANTS
  SlotDuration = 30
  SlotsPerDay = 48
  Inputs <- MCInputs
  Dates <- MCDates
INVARIANTS
  LoopCollectsSlots
  LoopAgreesWithCheck
PROPERTIES
  Termination
CHECK_DEADLOCK FALSE
