SPECIFICATION FairSpec
CONSTANTS
  Files = {1}
  MaxRequests = 1
  Faults = {"ctrl_c"}
PROPERTIES
  PagingEnds
