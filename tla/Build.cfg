CONSTANTS
  Splits <- MCSplits
  Plan <- MCPlan
SPECIFICATION Spec
INVARIANTS TypeOK OutputIsOwn MeasuredIsCurrent
