SPECIFICATION Spec
CONSTANTS
  Names <- MCNames
  Dbs = {d1, d2}
  d1 = d1
  d2 = d2
  None = None
  Programs <- MCPrograms
  MaxRow = 3
  MaxMarks = 1
VIEW DbView
INVARIANT TypeOK
INVARIANT AccessCountsExact
INVARIANT CurrentIsOpen
PROPERTY BuffersKeepTheirMode
PROPERTY PosKept
PROPERTY NoRecordLost
PROPERTY ImplementsLogicalNames
