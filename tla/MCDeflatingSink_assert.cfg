CONSTANTS
  FlushElement = FlushElement
  ArraySize = 3
  MinSpace = 2
  Calls <- MCCalls
  MaxInput = 6
  MaxCalls = 4
  MaxFailures = 2
SPECIFICATION Spec
CHECK_DEADLOCK FALSE
INVARIANT AssertionHolds
