SPECIFICATION FairSpec
CONSTANTS
  Files = {1, 2, 3}
  MaxRequests = 3
  Faults = {"ctrl_c", "no_fork"}
INVARIANTS
  TypeOK
  PagedIsRequested
  ScreenAlone
  NobodyStuck
PROPERTIES
  PagingEndsUndisturbed
  KeepsContract
