\* Calls, ejections and replays in any order, in both formats.
SPECIFICATION Spec
CONSTANTS
  a = a  b = b  prog = prog  sysvar = sysvar
  feature = feature  test_feature = test_feature  low = low  high = high
  maximum = maximum  funds = funds  custom = custom  invalid = invalid  borrow = borrow
  KeyOrder <- MCKeyOrder
  Program = {prog}
  IxSysvar = sysvar
  Feature = {feature, test_feature}
  Omitted = {test_feature}
  ProgramError = {funds, custom}
  InsufficientFunds = funds
  UnknownError = {invalid, borrow}
  InvalidError = invalid
  Success = Success
  MaxU64 = maximum
  Nothing = Nothing
  DefaultCosts = low
  DefaultRestart = 0
  Harness <- MCHarness
  Calls <- MCCalls
  MaxFiles = 2
INVARIANTS
  ReplayReproduces
  EffectsKept
  ChainFixtures
