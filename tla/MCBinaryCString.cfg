CONSTANTS
  Bufs <- MCBufs
  LineBreakAt = 3
  MaxBufLen = 3

SPECIFICATION Spec

INVARIANTS
  TypeOK
  LiteralDecodesToBuffer

\* BufferToBinaryC returns (or throws) after its last byte.
CHECK_DEADLOCK FALSE
