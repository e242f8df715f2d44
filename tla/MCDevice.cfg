SPECIFICATION FairSpec
CONSTANTS
  MaxOneTimeKeys = 2
  MaxFresh = 3
  MaxBatch = 2
  NoKey = NoKey
  MaxMessages = 2
  MaxCrashes = 2
CHECK_DEADLOCK FALSE
INVARIANTS NoOrphanedKey FallbackReachable IdsNeverReused PublishedWasUploaded OneDurableSession NoSessionLost
PROPERTIES PendingGetsPublished MessageGetsSession
