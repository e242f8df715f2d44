SPECIFICATION Spec
CONSTANTS
  MaxOneTimeKeys = 2
  MaxFresh = 6
  MaxBatch = 3
  NoKey = NoKey
INVARIANTS PendingHasSecret OneTime
PROPERTIES LeavesForReason ImplementsPromise
