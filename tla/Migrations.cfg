\* Three releases deployed at once, one with a script that was edited after its
\* release, and two failures.
SPECIFICATION FairSpec
CONSTANTS
  older = older
  newer = newer
  edited = edited
  s1 = s1
  s2 = s2
  s3 = s3
  s4 = s4
  Migrators = {older, newer, edited}
  Release <- Releases
  MaxFailures = 2
INVARIANT
  SchemaIsRecorded
PROPERTIES
  CallsEnd
  ImplementsUpgrade
