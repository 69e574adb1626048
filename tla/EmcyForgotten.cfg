SPECIFICATION FairSpec
CONSTANTS
  Joints = {j1}
  MaxMisses = 2
  Loop = TRUE
PROPERTY EmcyStopsTest
