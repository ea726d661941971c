SPECIFICATION FairSpec
CONSTANTS
  N = 1
  Pids = {p1, p2}
  NoPid = NoPid
  Stubborn = {1}
  Forking = {1}
  PidReuse = FALSE
  DtraceMayFail = FALSE
  TermTimeout = 1
  MaxQuits = 2
  ExitDuringAttach = FALSE
  CtrlC = TRUE
PROPERTIES
  QuitCompletes
  QuitIsHeard
  QuitMovesForward
  
