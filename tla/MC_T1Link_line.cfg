SPECIFICATION Spec
CONSTANTS
  Byte <- MCByte
  Retries = 3
  IfsdErrors = 2
  MaxRsp = 4
  MaxWtx = 1
  WaitReq = TRUE
  DefaultIfsc = 2
  AtrIfsc = {2}
  CardBlock = 2
  IfscValues = {1, 3}
  IfsAnyTime = FALSE
  WtxFactors = {1}
  MaxRequests = 1
  CountWtx = TRUE
  Aborts = TRUE
  MaxFaults = 4
  RspLens = {1, 2, 4, 7}
  CmdLens <- TwoCommands
  ResetsAfterError = TRUE
  Identifies = TRUE
  MaxLate = 0
INVARIANTS TypeOK ExecutesWholeCommands OkIsOwnAnswer InStepWhenIdle BlocksFitCard MoreMeansUnsent ResponseFitsBuffer BlockIsWindow
PROPERTY AdvancesOnlyWhenTaken
