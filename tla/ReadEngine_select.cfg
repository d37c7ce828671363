\* select() in the pump loop may fail (rc == -1): the read returns EIO and
\* leaves the download attached and running.
CONSTANTS
  h1 = h1
  h2 = h2
  f1 = f1
  f2 = f2
  NULL = NULL
  Handles <- MC_Handles
  Files <- MC_Files
  FileLen <- MC_FileLen
  MaxBufferLen = 1
  ReadSizes = {1, 2}
  MaxOffset = 3
  SelectMayFail = TRUE
SYMMETRY MC_Symmetry
SPECIFICATION Spec
INVARIANT ReadReturnsFileBytes
