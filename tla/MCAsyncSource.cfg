CONSTANTS
  c1 = c1
  c2 = c2
  c3 = c3
  b1 = b1
  b2 = b2
  f1 = f1
  f2 = f2
  main = main
  Nobody = Nobody
  Calls = {c1, c2, c3}
  Blocking = {c1}
  Background = {b1, b2}
  Foreground = {f1, f2}
  Outside = {main}
  Gets = {c2, c3}
  BufferOf <- MCBufferOf
SPECIFICATION SourceSpec
INVARIANT WaitsExactlyForAnswers
INVARIANT HandledInOrder
INVARIANT ElementsArrive
PROPERTY EveryCallEnds
CHECK_DEADLOCK FALSE
