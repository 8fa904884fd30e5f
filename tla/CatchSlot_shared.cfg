\* Every kind of catch: a variable aliasing the shared slot, a variable with
\* its own storage (referenced from a nested function), and no variable.
CONSTANTS
  Objects = {o1, o2}
  VarKinds = {"none", "shared", "nested"}
  MaxDepth = 3
  NoObject = NoObject
SPECIFICATION Spec
INVARIANT CatchVarHoldsCaught
