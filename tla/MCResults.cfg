\* Every list of checks and comparisons on every result, panicking or not.
SPECIFICATION Spec
CONSTANTS
  a = a  b = b  system = system  prog = prog  success = success  failure = failure
  Key = {a, b}
  Owner = {system, prog}
  SystemOwner = system
  Byte = {0, 1}
  Outcome = {success, failure}
  RentOverhead = 1
  RentPerByte = 1
  Results <- MCResultSet
  CheckLists <- MCCheckLists
  CompareLists <- MCCompareLists
INVARIANTS
  ChecksDecide
  ComparisonDecides
