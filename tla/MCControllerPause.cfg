CONSTANTS
  None = None
  Now = Now
  PauseMsg = PauseMsg
  NoShards = NoShards
  MaxExt = 1
  MaxPool = 1
  MaxSols = 1
SPECIFICATION Spec
PROPERTY PauseAfterSolution
