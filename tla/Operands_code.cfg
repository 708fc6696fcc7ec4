SPECIFICATION Spec
CONSTANTS
  TokenSets <- MCTokenSets
  SomeStatements <- MCStatements
CHECK_DEADLOCK FALSE
INVARIANT OperandsMatch
INVARIANT AccountingCovers
INVARIANT CodeMeansExpression
