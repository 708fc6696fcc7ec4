SPECIFICATION Spec
CONSTANTS
  Names <- MCNames
  Dbs = {d1, d2}
  d1 = d1
  d2 = d2
  None = None
  Programs <- AssignPrograms
  MaxRow = 3
  MaxMarks = 1
INVARIANT AssignsToItsOwn
