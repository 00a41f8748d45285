\* A context with hydration on and off, warps, added programs, user writes.
SPECIFICATION ContextSpec
CONSTANTS
  a = a  p = p  q = q  native = native  v2 = v2  v3 = v3
  ixs_id = ixs_id  clock_id = clock_id  sysvar = sysvar  system = system
  no_data = no_data  stub = stub  x = x  y = y
  Key <- MCKey
  Program = {p, q}
  Precompile = {}
  Loader = {native, v2, v3}
  NativeLoader = native
  UpgradeableLoader = v3
  IxSysvar = ixs_id
  ClockKey = clock_id
  SysvarOwner = sysvar
  DefaultOwner = system
  Content = {no_data, stub, x, y}
  NoData = no_data
  StubData = stub
  Written <- MCWritten
  Calls <- MCCalls
  AccountLists = {}
  InitialCache <- MCInitialCache
  Additions <- MCAdditions
  Stores <- MCStores
  UserWrites <- MCUserWrites
  MaxSlot = 1
  UnitLimit = 0
  MaxCpi = 0
  IndexCount = 2
INVARIANTS
  ContextTypeOK
  EnvironmentFresh
  ContextNeverMissing
  ContextIntrospection
PROPERTIES
  StoreReflectsExecution
  FailureKeepsStore
