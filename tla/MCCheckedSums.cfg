CONSTANTS
  a = a
  b = b
  None = None
  Overflow = Overflow
  Half = 4
  Operands <- MCOperands
  Sums = {a, b}
  MaxTotal = 10
SPECIFICATION SumsSpec
SYMMETRY MCSymmetry
INVARIANT ResultsAreExact
INVARIANT SumsAreExact
