SPECIFICATION FairSpec
CONSTANTS
  MaxLe = 4
  MaxNulls = 2
  WaitReq = FALSE
  Commands <- Mixed
  RspLens = {1, 3}
  DataLooks = {"other", "sw", "null"}
  Case2Fetch = TRUE
  NullBeforeStatus = TRUE
  Stalls = TRUE
  Again = TRUE
  MaxCardNulls = 3
INVARIANT CardGetsCommand
PROPERTY CallEnds
