SPECIFICATION FairSpec
CONSTANTS
  N = 2
  Pids = {p1, p2}
  NoPid = NoPid
  Stubborn = {}
  Forking = {}
  PidReuse = TRUE
  DtraceMayFail = FALSE
  TermTimeout = 1
  MaxQuits = 0
  ExitDuringAttach = FALSE
  CtrlC = FALSE
PROPERTIES
  Restarted
