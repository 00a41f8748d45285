SPECIFICATION Spec
CONSTANTS
  p = p
  q = q
  native = native
  v2 = v2
  v3 = v3
  e1 = e1
  e2 = e2
  gated = gated
  custom = custom
  NoElf = NoElf
  Missing = Missing
  Program <- MCProgram
  Loader <- MCLoader
  NativeLoader = native
  UpgradeableLoader = v3
  Elf = {e1, e2}
  Gated = {gated}
  Custom = {custom}
  Builtins = {v3}
  Additions <- MCAdditions
  BuiltinAdditions = {q}
  FeatureSets <- MCFeatureSets
  Deployments <- MCDeployments
  Messages <- MCMessages
  U64 = 8
  Base = 2
  Targets = {1, 7}
  Stakes = {6}
  MaxVotes = 2
INVARIANTS
  EnvironmentTypeOK
  RecordAgrees
  SyscallsBoundAtLoad
  StakeExact
PROPERTIES
  DeploymentStays
  TracesOfTheirElf
