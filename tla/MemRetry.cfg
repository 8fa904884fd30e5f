\* mem_malloc's out-of-memory loop under every behaviour mem_setexception
\* may set (MEM_RETRY only as a value the handler returns, as the header
\* documents it), with a C heap of three blocks.
CONSTANTS
  BlockIds = {1, 2, 3}
  Flags = {0, 1, 2, 3}
  HandlerReturns = {0, 1, 2, 3, 4}
SPECIFICATION Spec
PROPERTY CallReturns
