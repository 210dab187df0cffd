SPECIFICATION Spec
CONSTANTS
  MaxLen = 4
  Height = 2
  CrashAt = {"cut"}
  MaxCrashes = 1
INVARIANT Readable
