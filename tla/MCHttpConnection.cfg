CONSTANTS
  Others <- MCOthers
  Requests <- MCRequests
  Responses <- MCResponses
  Texts <- MCTexts
  Numerals <- MCNumerals
  OutputFails = TRUE
SPECIFICATION Spec
CHECK_DEADLOCK FALSE
INVARIANT PiecesDoNotMatter
INVARIANT ParsersAgree
INVARIANT ReadBack
INVARIANT NoEarlyEnd
PROPERTY AppendReturns
