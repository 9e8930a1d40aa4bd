\* A delegation that fails after the one that succeeds.
CONSTANTS
  NULL = NULL
  Requests <- MCRequests
  MaxSignals = 2
SPECIFICATION Spec
INVARIANT FailedIgnored
