SPECIFICATION FairSpec
CONSTANTS
  Joints = {j1, j2, j3}
  MaxMisses = 2
  Loop = TRUE
INVARIANTS
  TypeOK
  PoweredMeansUsed
  IdleMeansDisarmed
  TeachWithoutPower
PROPERTIES
  FaultEndsRecording
  StopEndsPlayback
