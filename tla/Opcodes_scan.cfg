SPECIFICATION Spec
CONSTANTS
  FirstPage = 0
  LastPage = 255
  MaxEntries = 12
INVARIANTS
  MemoryModesFetched
  FitsDecode
  LatchesQueued
  WholeOperand
  RoutinesEnd
  RedirectsWhenBranching
