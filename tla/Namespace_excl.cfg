\* Two threads: an O_EXCL create racing a create of the same name on the other thread.
CONSTANTS
  t1 = t1
  t2 = t2
  n1 = n1
  n2 = n2
  Absent = Absent
  Threads <- MC_Threads
  Names <- MC_Names
  Ids = {0, 1}
  ChownIds = {1}
  SessionId = 0
  DirDefault = 493
  FileDefault = 420
  MkdirModes <- MC_MkdirModes
  MknodModes <- MC_MknodModes
  CreateModes <- MC_CreateModes
  ChmodModes = {448}
  TruncLens = {0, 1}
  MaxSize = 1
  InitNs <- MC_InitNs
  Refusals = {}
SYMMETRY MC_Symmetry
SPECIFICATION Spec
INVARIANT ExclusiveCreate
