SPECIFICATION FairSpec
CONSTANTS
  Byte <- MCByte
  Retries = 3
  IfsdErrors = 2
  MaxRsp = 4
  MaxWtx = 1
  WaitReq = FALSE
  DefaultIfsc = 2
  AtrIfsc = {2}
  CardBlock = 2
  IfscValues = {1}
  IfsAnyTime = FALSE
  WtxFactors = {1}
  MaxRequests = 1
  CountWtx = FALSE
  Aborts = FALSE
  MaxFaults = 2
  RspLens = {2, 3}
  CmdLens <- TwoCommands
  ResetsAfterError = TRUE
  Identifies = TRUE
  MaxLate = 1
INVARIANT ExecutesOnce
PROPERTIES CommandEnds ImplementsChannel OneFaultMadeGood
