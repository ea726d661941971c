SPECIFICATION Spec
CONSTANTS
  Files <- Unfinished
  LineSize = 4
  Invocations <- PlainInvocation
  Readable <- SomeReadable
INVARIANTS
  HeadAsserted
