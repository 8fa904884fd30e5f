CONSTANTS
  Base = Base
  Derived = Derived
  Other = Other
  Classes = {Base, Derived, Other}
  CatchTypes = {Base, Derived}
  NoType = NoType
  Cleanup = Cleanup
  IsA <- MCIsA
  Programs <- StagingPrograms
  MaxWork = 20
SPECIFICATION Spec
INVARIANT DispatchMatchesSource
