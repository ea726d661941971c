SPECIFICATION FairSpec
CONSTANTS
  N = 1
  Pids = {p1, p2}
  NoPid = NoPid
  Stubborn = {}
  Forking = {}
  PidReuse = FALSE
  DtraceMayFail = FALSE
  TermTimeout = 1
  MaxQuits = 0
  ExitDuringAttach = TRUE
  CtrlC = FALSE
PROPERTIES
  Restarted
