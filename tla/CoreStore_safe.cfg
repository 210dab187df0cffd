SPECIFICATION Spec
CONSTANTS
  MaxLen = 3
  Height = 2
  CrashAt = {"idle", "entry", "bits", "nodes", "header"}
  MaxCrashes = 2
INVARIANTS TypeOK Readable Fetchable ContiguousRight ManifestFirst
PROPERTY Durable
