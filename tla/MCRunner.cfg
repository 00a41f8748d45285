SPECIFICATION Spec
CONSTANTS
  p = p  q = q
  v1 = v1  v2 = v2  closed = closed
  e1 = e1  e2 = e2  e3 = e3
  f1 = f1  f2 = f2  f4 = f4  f5 = f5
  cpi = cpi  deploy = deploy  inset = inset  other = other
  n1 = n1  n2 = n2  n3 = n3  n4 = n4
  barred = barred  number = number
  New = New
  Missing = Missing
  Broken = Broken
  NoExtension = NoExtension
  Absent = Absent
  Name <- MCName
  Trimmed <- MCTrimmed
  Barred = {barred}
  Inset <- MCInset
  ProgramId = {p, q}
  Elf = {v1, v2}
  Image = {v1, v2, closed}
  Builtin <- MCBuiltin
  Effect = {e1, e2, e3}
  Path <- MCPath
  FixFiles <- Fixtures
  Corrupt = {f5}
  NameOf <- MCNameOf
  Reaches <- MCReaches
  Outcome <- MCOutcome
  Deploys <- MCDeploys
  Effects <- MCEffects
  Commands <- MCCommands
  MaxTables = 2
INVARIANTS
  FixturesIsolated
  VerdictOfFixtures
PROPERTY ReportOfTarget
