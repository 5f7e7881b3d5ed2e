\* The connection manager: a target of two outbound connections, three ids
\* (so one permanent request and the automatic ones compete), two
\* Disconnect/Remove calls.
CONSTANTS
  TargetOutbound = 2
  MaxReqs = 3
  MaxPerm = 1
  MaxCalls = 1
SPECIFICATION Spec
INVARIANT TypeOK
INVARIANT OutboundWithinTarget
INVARIANT PermanentRetried
PROPERTY ShutdownDrains
