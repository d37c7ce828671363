\* Read engine with a reliable select(): only server errors and foreign
\* uses of the shared connection interrupt a download.
CONSTANTS
  h1 = h1
  h2 = h2
  f1 = f1
  f2 = f2
  NULL = NULL
  Handles <- MC_Handles
  Files <- MC_Files
  FileLen <- MC_FileLen
  MaxBufferLen = 1
  ReadSizes = {1, 2, 3}
  MaxOffset = 4
  SelectMayFail = FALSE
SYMMETRY MC_Symmetry
SPECIFICATION Spec
INVARIANT TypeOK
INVARIANT WindowFaithful
INVARIANT ReadReturnsFileBytes
