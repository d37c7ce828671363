\* One thread and a server that refuses SITE CHGID: chown fails after changing the owner.
CONSTANTS
  t1 = t1
  t2 = t2
  n1 = n1
  n2 = n2
  Absent = Absent
  Threads <- MC_OneThread
  Names <- MC_Names
  Ids = {0, 1}
  ChownIds = {1}
  SessionId = 0
  DirDefault = 493
  FileDefault = 420
  MkdirModes <- MC_MkdirModes
  MknodModes <- MC_MknodModes
  CreateModes <- MC_CreateModes
  ChmodModes = {448}
  TruncLens = {0, 1}
  MaxSize = 1
  InitNs <- MC_InitNs
  Refusals = {"chgid"}
SYMMETRY MC_Symmetry
SPECIFICATION Spec
INVARIANT ErrorMeansNoChange
