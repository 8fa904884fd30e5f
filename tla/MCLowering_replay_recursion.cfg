CONSTANTS
  Base = Base
  Derived = Derived
  Other = Other
  Classes = {Base, Derived, Other}
  CatchTypes = {Base, Derived}
  NoType = NoType
  Cleanup = Cleanup
  IsA <- MCIsA
  Programs <- ReplayRecursionPrograms
  MaxWork = 20
SPECIFICATION Spec
PROPERTY LoweringTerminates
CHECK_DEADLOCK FALSE
