CONSTANTS
  None = None
  Failed = Failed
  Propagated <- MCPropagated
  Transformed <- MCTransformed
  AllSources <- MCSources
  AllChildren <- MCChildren
  MaxSize = 2
  Unlimited = 65535
SPECIFICATION StreamSpec
CHECK_DEADLOCK FALSE
INVARIANT LossesAreReported
INVARIANT ThrowingSinkLeavesNoHoles
PROPERTY ReadsAreExact
PROPERTY EmptyMeansEnd
