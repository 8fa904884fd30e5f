\* The MEM_DEBUG build asked for 0 bytes.
CONSTANTS
  Width = 16
  BlockIds = {1, 2, 3}
  Flags = {0, 2, 4}
  MaxInits = 2
  MaxHeld = 3
  ClientOverruns = TRUE
  Sizes = {0, 1}
SPECIFICATION Spec
PROPERTY RefinesMemHeap
