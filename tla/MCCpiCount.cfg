\* The doc comment of inner_instruction_count, for transactions.
SPECIFICATION Spec
CONSTANTS
  a = a  b = b  system = system  prog = prog  success = success  failure = failure
  Key = {a, b}
  Owner = {system, prog}
  SystemOwner = system
  Byte = {0, 1}
  Outcome = {success, failure}
  RentOverhead = 1
  RentPerByte = 1
  Results <- MCResultSet
  CheckLists <- MCCheckLists
  CompareLists <- MCCompareLists
INVARIANTS
  AllCpisCounted
