SPECIFICATION BufferSpec
CONSTANTS
  MsgLens = {1, 3}
  ReadLens = {1, 2}
  MaxInbound = 5
  MaxReads = 4
  MaxTimeouts = 1
INVARIANTS
  NeverStuck
CHECK_DEADLOCK FALSE
