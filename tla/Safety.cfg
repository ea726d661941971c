SPECIFICATION Spec
CONSTANTS
  N = 2
  Pids = {p1, p2, p3}
  NoPid = NoPid
  Stubborn = {1}
  Forking = {}
  PidReuse = TRUE
  DtraceMayFail = TRUE
  TermTimeout = 1
  MaxQuits = 1
  ExitDuringAttach = TRUE
  CtrlC = TRUE
SYMMETRY PidSymmetry
INVARIANTS
  TypeOK
  SingleInstance
  EveryChildTracked
  SampledIsAttached
  LeftoverWasWanted
  LockedForWalks
PROPERTIES
  AdoptedStopSticks
  Supervises
  RespectsPager
  QuitLeavesNobody
  SignalsAreMeant
