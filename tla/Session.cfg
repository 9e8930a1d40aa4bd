\* Up to three files, delegations that fail, backups, signals anywhere.
CONSTANTS
  NULL = NULL
  Requests <- MCRequests
  MaxSignals = 2
SPECIFICATION Spec
INVARIANTS SessionTypeOK TempFilesRemoved OldOutputSafe DocumentWhole
