\* The rebroadcaster's load/send/store racing the solution handler's store.
CONSTANTS
  None = None
  Now = Now
  PauseMsg = PauseMsg
  NoShards = NoShards
  MaxExt = 1
  MaxPool = 1
  MaxSols = 2
SPECIFICATION Spec
PROPERTY ResendKeepsNewerJob
