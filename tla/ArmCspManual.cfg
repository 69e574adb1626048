SPECIFICATION FairSpec
CONSTANTS
  NumJoints = 2
  Batches <- MCBatches
  NoBatch <- MCNoBatch
  TimerSync = FALSE
  TrustedRestart = TRUE
INVARIANTS
  TypeOK
  ActiveMeansEnabled
  EnabledIsGuarded
  BackgroundSyncSafe
PROPERTIES
  CoordinatedMotion
  StepGuardSeesLatchedTarget
  KeepsContract
  ExclusiveCallerGetsMutex
