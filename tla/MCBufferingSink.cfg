CONSTANTS
  Elements = {1, 2}
  Zero = 1
  Capacity = 2
  Inputs <- MCInputs
  MaxTraffic = 5
  Partial = TRUE
  Overwriting = TRUE
SPECIFICATION Spec
INVARIANT AcceptedIsDeliveredOrOwed
PROPERTY OnlyMakeAppendSpaceDiscards
PROPERTY ImplementsWriteBehind
