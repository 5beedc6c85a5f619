CONSTANTS
  old = old
  a = a
  b = b
  Instances <- MCInstances
  Sessions = {s1, s2, s3}
  FileCount = 3
  Release <- MCRelease
  Blank = {}
  Repeatable = {3}
  MaxStarts = 2
  NULL = NULL
SPECIFICATION FairSpec
INVARIANTS
  VersionsTellSchema
  AllOrNothing
  ServingIsMigrated
PROPERTIES
  SchemaGoesForward
  StartsEnd
CHECK_DEADLOCK FALSE
