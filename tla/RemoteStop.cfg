SPECIFICATION FairSpec
CONSTANTS
  FollowingErrorCycles = 2
INVARIANTS
  TypeOK
  LatchedMeansStopped
  PowerHasOwner
PROPERTIES
  NoPowerAfterStop
  FaultStops
  LostPcStandsStill
