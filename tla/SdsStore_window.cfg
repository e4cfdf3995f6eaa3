\* A change is written after Sasha has removed its marker.
SPECIFICATION Spec
CONSTANTS
  KeepStores = 1
  Circumstances <- QuickWriter
  MaxChanges = 3
  MaxEdition = 2
  NoFile = noFile
CHECK_DEADLOCK FALSE
INVARIANT Durable
