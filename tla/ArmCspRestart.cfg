SPECIFICATION Spec
CONSTANTS
  NumJoints = 2
  Batches <- MCBatches
  NoBatch <- MCNoBatch
  TimerSync = FALSE
  TrustedRestart = FALSE
INVARIANTS
  BackgroundSyncSafe
