\* Every call on every list: safety, and the promise of AtomicProcessing.
SPECIFICATION Spec
CONSTANTS
  a = a  b = b  p = p  q = q  precompile = precompile
  native = native  v2 = v2  v3 = v3  ixs_id = ixs_id  clock_id = clock_id
  sysvar = sysvar  system = system  no_data = no_data  x = x  y = y
  Key <- MCKey
  Program <- MCProgram
  Precompile = {precompile}
  Loader = {native, v2, v3}
  NativeLoader = native
  UpgradeableLoader = v3
  IxSysvar = ixs_id
  ClockKey = clock_id
  SysvarOwner = sysvar
  DefaultOwner = system
  Content = {no_data, x, y}
  NoData = no_data
  Written <- MCWritten
  Calls <- MCCalls
  AccountLists <- MCAccountLists
  InitialCache <- MCInitialCache
  Additions <- MCAdditions
  MaxSlot = 1
  UnitLimit = 1
  MaxCpi = 1
  IndexCount = 2
INVARIANTS
  TypeOK
  RunsInOrder
  UnitsAccounted
  IntrospectionTruthful
  FallbacksCover
  CachedProgramsRun
  ClockViewsAgree
  DuplicatesAgree
  InnerReportedByMessage
PROPERTIES
  AtomicCalls
