SPECIFICATION Spec
CONSTANT Values <- EdgeValues
CHECK_DEADLOCK FALSE
INVARIANTS
  TypeOK
  SumsAreRight
  SignedConditions
  ProductLow
