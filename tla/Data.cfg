CONSTANTS
  None = None
  k1 = k1
  k2 = k2
SPECIFICATION Spec
INVARIANTS
  WorkflowExact
  AveragesRight
  ReadsInStep
  FilesRight
  CalendarExact
  GridsServed
  LookupsRight
PROPERTY EveryoneAnswered
