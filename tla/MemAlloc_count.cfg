\* mem_malloc/calloc/realloc/free/strdup and mem_init/mem_term under every
\* out-of-memory behaviour, with a C heap of three blocks.
CONSTANTS
  Width = 16
  BlockIds = {1, 2, 3}
  Sizes = {0, 1, 2000}
  Flags = {0, 1, 2, 3, 4}
  MaxInits = 2
  MaxHeld = 3
SPECIFICATION Spec
INVARIANTS TypeOK CountMatchesHeld
