\* The write-failure latch of spec section 9, on a handle whose uploads start
\* cleanly or fail to initialise.
CONSTANTS
  p1 = p1
  p2 = p2
  Producers <- MC_OneProducer
  MaxPos = 3
  WriteSizes = {1, 2}
  ReqSizes = {1, 2}
  TruncLens = {0, 1}
  NoFile = NoFile
  InitRemote <- MC_InitRemote
  StartOutcomes <- MC_CleanStartOutcomes
  AllocMayFail = FALSE
SPECIFICATION Spec
INVARIANT WriteErrorsLatch
