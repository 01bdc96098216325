SPECIFICATION JsonSpec
CONSTANTS
  None = None
  Torn = Torn
  ReadsBackup = TRUE
  ChecksUnlink = FALSE
  MaxGen = 4
  MaxFailures = 3
\* the owner of the file may never update it again
CHECK_DEADLOCK FALSE
INVARIANTS
    Survives
PROPERTIES
    NeverOlder
