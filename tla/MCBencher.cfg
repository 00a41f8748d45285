SPECIFICATION Spec
CONSTANTS
  p = p  q = q
  v1 = v1  v2 = v2
  closed = closed
  i1 = i1  i2 = i2  cpi = cpi  deploy = deploy  lost = lost
  n1 = n1  n2 = n2
  padded = padded  barred = barred  inset = inset
  New = New
  Untouched = Untouched
  Name <- MCName
  Trimmed <- MCTrimmed
  Barred = {barred}
  Inset <- MCInset
  ProgramId = {p, q}
  Program = {v1, v2}
  Ix = {i1, i2, cpi, deploy, lost}
  Target <- MCTarget
  Reaches <- MCReaches
  Image <- MCImage
  Outcomes <- MCOutcomes
  Caches <- MCCaches
  BenchLists <- MCBenchLists
  ProgramLists <- MCProgramLists
  MaxTables = 3
INVARIANT LedgerTrue
PROPERTIES
  UnchangedWritesNothing
  FailureWritesNothing
  MatrixCells
