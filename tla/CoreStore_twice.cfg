SPECIFICATION Spec
CONSTANTS
  MaxLen = 3
  Height = 2
  CrashAt = {"idle", "entry", "bits", "nodes", "header", "overwritten"}
  MaxCrashes = 2
PROPERTY Durable
