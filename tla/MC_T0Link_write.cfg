SPECIFICATION FairSpec
CONSTANTS
  MaxLe = 4
  MaxNulls = 2
  WaitReq = TRUE
  Commands <- Writing
  RspLens = {1, 3}
  DataLooks = {"other", "sw", "null"}
  Case2Fetch = FALSE
  NullBeforeStatus = FALSE
  Stalls = FALSE
  Again = FALSE
  MaxCardNulls = 3
INVARIANTS TypeOK OkIsOwnAnswer AnswerWithinLe NothingLeftBehind ApduGivenBack
PROPERTY ImplementsChannel
