\* Disconnect of a permanent request while it is pending.
CONSTANTS
  TargetOutbound = 1
  MaxReqs = 2
  MaxPerm = 1
  MaxCalls = 1
SPECIFICATION Spec
INVARIANT PermanentNeverDropped
