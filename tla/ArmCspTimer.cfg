SPECIFICATION FairSpec
CONSTANTS
  NumJoints = 2
  Batches <- MCBatches
  NoBatch <- MCNoBatch
  TimerSync = TRUE
  TrustedRestart = TRUE
INVARIANTS
  EnabledIsGuarded
  BackgroundSyncSafe
PROPERTIES
  SeedBeforeEnable
  ExclusiveCallerGetsMutex
