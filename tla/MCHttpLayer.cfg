CONSTANTS
  Users = {ann, bob}
  None = None
SPECIFICATION HttpSpec
INVARIANTS
  OnlyAllowedActorsAct
  SuccessMeansDone
  ErrorsKeepTheirMeaning
