CONSTANTS
  token = token  result = result  worklist = worklist
  Operations <- MCOperations
  Statements <- MCStatements
SPECIFICATION Spec
INVARIANTS
  NextMayOpen
  ThrownLeavesNoTrace
  TInv
PROPERTIES
  ImplementsAtomicStore
