SPECIFICATION FairSpec
CONSTANTS
  N = 2
  Pids = {p1, p2, p3}
  NoPid = NoPid
  Stubborn = {1}
  Forking = {}
  PidReuse = FALSE
  DtraceMayFail = FALSE
  TermTimeout = 1
  MaxQuits = 0
  ExitDuringAttach = FALSE
  CtrlC = FALSE
PROPERTIES
  Restarted
  Stopped
  ZombiesReaped
