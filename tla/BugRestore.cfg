\* An output file that cannot be created once its backup is made.
CONSTANTS
  NULL = NULL
  Requests <- MCRequests
  MaxSignals = 2
SPECIFICATION Spec
INVARIANT Restored
