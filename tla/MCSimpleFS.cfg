\* Two files that compete for three blocks.
SPECIFICATION Spec
CONSTANTS
  BLOCKSIZE = 2
  NUM_DATA_BLOCKS = 3
  NUM_INODES = 2
  MAX_FILE_SIZE = 2
  MAX_OPEN_FILES = 1
  f = f
  g = g
  Names = {f, g}
  NoName = NoName
  byteA = byteA
  byteB = byteB
  Bytes = {byteA, byteB}
  Junk = Junk
  WriteData <- SomeData
SYMMETRY SymmetricNames
INVARIANTS
  TypeOK
  BlocksExclusive
  FilesIntact
  AppendsFit
PROPERTIES
  OnlyFailedWritesLeak
  ImplementsFileStore
  StaleNamesHarmless
\* The program stops at a failed assertion.
CHECK_DEADLOCK FALSE
