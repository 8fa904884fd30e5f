\* mem_fmalloc once the client has asked mem_exception to return NULL.
CONSTANTS
  Width = 16
  BlockIds = {1, 2}
  Sizes = {1, 2000}
  Flags = {2}
  MaxInits = 1
  MaxHeld = 3
SPECIFICATION Spec
INVARIANT FmallocPointersValid
