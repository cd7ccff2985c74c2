CONSTANTS
  Capacity = 3
  StreamLength = 5
  MaxSize = 4
  MaxThrows = 2
SPECIFICATION Spec
INVARIANT EveryElementOnceInOrder
INVARIANT NothingMadeUp
PROPERTY EmptyMeansEnd
PROPERTY CallsReturn
