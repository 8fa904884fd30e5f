\* mem_fmalloc and its wrappers next to the counted calls, when the
\* out-of-memory behaviour never makes mem_exception return 0.
CONSTANTS
  Width = 16
  BlockIds = {1, 2, 3}
  Sizes = {0, 1, 2000, 15000}
  Flags = {0, 1, 4}
  MaxInits = 2
  MaxHeld = 4
SPECIFICATION Spec
INVARIANTS FmallocPointersValid FmallocDisjoint
