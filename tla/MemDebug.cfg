\* The MEM_DEBUG list and counts under every call, client overruns and
\* out-of-memory behaviour, for requests of 1 and 2 bytes.
CONSTANTS
  Width = 16
  BlockIds = {1, 2, 3}
  Flags = {0, 2, 4}
  MaxInits = 2
  MaxHeld = 3
  ClientOverruns = TRUE
  Sizes = {1, 2}
SPECIFICATION Spec
INVARIANTS TypeOK ListIntegrity AccountingMatchesList
