SPECIFICATION JsonSpec
CONSTANTS
  None = None
  Torn = Torn
  ReadsBackup = FALSE
  ChecksUnlink = TRUE
  MaxGen = 3
  MaxFailures = 1
INVARIANTS
  MetadataWhole
\* the owner of the file may never update it again
CHECK_DEADLOCK FALSE
