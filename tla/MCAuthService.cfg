SPECIFICATION Spec
CONSTANTS
  Procs = {p1, p2}
  UserIDs = {u1, u2}
  AdminSeed = a0
  UserSeed = u0
  Spellings <- MCSpellings
  SeedEmail <- MCSeedEmail
  Normal <- MCNormal
  Malformed = {"@"}
  Passwords <- MCPasswords
  Blank = {"blank"}
  TooLong = {"long"}
  Credentials <- MCCredentials
  RoleParams = {"user", "other"}
  Digests <- MCPasswords
  Digest <- MCDigest
  TTL = 1
  MaxTime = 1
  NULL = NULL
SYMMETRY Symmetry
INVARIANTS
  OneUserPerMailbox
  RegistrationHolds
  RegisteredCanLogin
  TokensNameUsers
  LoginNeedsPassword
PROPERTIES
  UsersStay
