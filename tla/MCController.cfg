\* The controller: one external block, one mempool change, two solutions.
CONSTANTS
  None = None
  Now = Now
  PauseMsg = PauseMsg
  NoShards = NoShards
  MaxExt = 1
  MaxPool = 1
  MaxSols = 2
SPECIFICATION Spec
INVARIANT TypeOK
PROPERTY JobTracksTip
