SPECIFICATION Spec
CONSTANTS
  Byte <- MCByte
  Retries = 3
  IfsdErrors = 2
  MaxRsp = 4
  MaxWtx = 200
  WaitReq = FALSE
  DefaultIfsc = 2
  AtrIfsc = {2}
  CardBlock = 2
  IfscValues = {1, 3}
  IfsAnyTime = TRUE
  WtxFactors = {1}
  MaxRequests = 1
  CountWtx = TRUE
  Aborts = FALSE
  MaxFaults = 1
  RspLens = {2, 3}
  CmdLens <- OneCommand
  ResetsAfterError = TRUE
  Identifies = TRUE
  MaxLate = 0
INVARIANT MoreMeansUnsent
