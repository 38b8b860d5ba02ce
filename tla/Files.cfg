SPECIFICATION Spec
CONSTANTS
  FOURKB = 2
  THIRTYTWO = 3
  SIXTYTHREE = 4
  UNSIGNED = 8
  Bytes <- MCBytes
  NoName = ""
  dirEntries <- MCdirEntries
  dirEntry = 3
  iNodes <- MCiNodes
  dataBlocks <- MCdataBlocks
  MAXPROCESS = 2
  SHELLS = 1
  FILENUM = 4
  FDSTART = 2
  Names = {".", "file", "rtc", "missing"}
  Requests = {1, 2}
INVARIANTS
  TypeOK
  DeadTablesClosed
  CallsAreSet
  ReadDataReads
PROPERTIES
  AreStreams
