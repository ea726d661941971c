SPECIFICATION Spec
CONSTANTS
  Second = 2
  Epoch = 10
  Horizon = 16
  Word = 1024
  HalfWord = 512
  NoNumber = {0, 511}
  MaxInstances = 2
  MaxBytes = 1
INVARIANTS
  TypeOK
  NoByteTwice
PROPERTIES
  CpuIsOwn
