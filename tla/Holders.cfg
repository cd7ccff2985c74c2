CONSTANTS
  Values = {"a", "b"}
  MovesThrow = TRUE
  Slots = {1, 2, 3}
  Codes = {"success", "broken"}
SPECIFICATION Spec
CHECK_DEADLOCK FALSE
INVARIANT TagsTellTheTruth
INVARIANT EveryObjectIsDestroyed
PROPERTY FailuresHaveNoEffect
PROPERTY CopiesAndMovesTransfer
