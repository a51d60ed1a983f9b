SPECIFICATION Spec
CONSTANTS
  MaxPublish = 3
INVARIANTS
  LockEvenAtRest
  WholeUnlessNested
PROPERTIES
  IsrReadsItsOwn
CHECK_DEADLOCK FALSE
