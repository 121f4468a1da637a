SPECIFICATION StreamSpec
CONSTANTS
  MaxLogins = 3
  BufferSize = 7
  MaxReceive = 4
INVARIANTS
  FramesKept
  OneEntryEach
\* Everything sent is read, or a torn access has ended the behaviour.
CHECK_DEADLOCK FALSE
