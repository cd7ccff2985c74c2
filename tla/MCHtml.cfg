CONSTANTS
  Alphabet <- MCAlphabet
  Names <- MCNames
  Attributes <- MCAttributes
  EscapedTexts <- MCTexts
  Raws <- MCRaws
  MaxElements = 4
  MaxEvents = 5
  MaxDepth = 2
SPECIFICATION HtmlSpec
CHECK_DEADLOCK FALSE
INVARIANT LengthsHold
INVARIANT PartsStayUsable
INVARIANT GeneratedIsReadBack
