CONSTANTS
  Variables = {p, q}
  Numbers = {0, 1, 2, 3}
  MaxPipes = 2
  Capacity = 1
  Sizes = {0, 1, 2}
  MaxBytes = 2
  MaxFailures = 1
SPECIFICATION TransferSpec
CHECK_DEADLOCK FALSE
INVARIANT OneOwner
INVARIANT AppendedHasLanded
PROPERTY FilesStay
PROPERTY ReaderSeesEnd
