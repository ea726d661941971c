SPECIFICATION FairSpec
CONSTANTS
  Files <- AllFiles
  LineSize = 4
  Invocations <- EveryInvocation
  Readable <- SomeReadable
INVARIANTS
  TypeOK
  ChunksDontShow
  ShortFilesParse
  PathsAreAsked
  RowsOfFile
  ChildEnvironment
  RefusedOrStarted
PROPERTIES
  Terminates
