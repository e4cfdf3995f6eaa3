\* Crashes and failed writes with one saver at a time.
SPECIFICATION FairSpec
CONSTANTS
  KeepStores = 1
  Circumstances <- OneAtATime
  MaxChanges = 3
  MaxEdition = 2
  NoFile = noFile
CHECK_DEADLOCK FALSE
INVARIANTS TypeOK Durable WriterAlone
PROPERTIES ChangesGetWritten Survives
