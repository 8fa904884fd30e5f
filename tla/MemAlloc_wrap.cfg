\* mem_fmalloc asked for more than SIZE_MAX - 0x3C00 - 15 bytes, with a
\* 16-bit size_t standing for the 64-bit one.
CONSTANTS
  Width = 16
  BlockIds = {1, 2}
  Sizes = {1, 50177}
  Flags = {0}
  MaxInits = 1
  MaxHeld = 2
SPECIFICATION Spec
INVARIANT FmallocPointersValid
