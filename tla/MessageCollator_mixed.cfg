\* Rows and metadata on every side of the buffer size, one message out of band.
\* All messages read, the system stops.
SPECIFICATION Spec
CONSTANTS
  BufferSize = 5
  HeaderSize = 2
  LengthSize = 2
  NoBuffer = noBuffer
  Messages = {m1, m2}
  OutOfBand = {m2}
  RowKinds <- MixedRows
  MetaSizes = {0, 6}
  MaxRows = 2
  MaxDuplicates = 1
CHECK_DEADLOCK FALSE
INVARIANTS CollatorInv PacketsFit ChainInOrder QueuedWhenComplete QueuedCarriesWritten ReadIsWritten
