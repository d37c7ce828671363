CONSTANTS
  p1 = p1
  p2 = p2
  Producers <- MC_OneProducer
  MaxPos = 4
  WriteSizes = {1, 2, 3}
  ReqSizes = {1, 2}
  TruncLens = {0, 1}
  NoFile = NoFile
  InitRemote <- MC_InitRemote
  StartOutcomes <- MC_CleanStartOutcomes
  AllocMayFail = TRUE
SPECIFICATION Spec
PROPERTY UpcallsReturn
\* A producer blocked forever is a stop; here it must show as a violation
\* of UpcallsReturn. Deadlock freedom is checked by WritePipeline.cfg.
CHECK_DEADLOCK FALSE
