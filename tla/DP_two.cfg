CONSTANTS
  NPROC = 2
  NPAGE = 11
  NVA = 4
  PGSIZE = 2
  MAX_FRAME_LRU = 3
  MAX_FRAME_SWAP = 2
  Progs <- const_Progs
  MemSz <- const_MemSz
  SwapStart <- const_SwapStart
  InitProg = "init"
  MaxPid = 3
  Vers = {1}
  Sbrk = {2}
  Calls = {"sbrk", "fork resident", "exit"}
  Overlap = FALSE
SPECIFICATION FairSpec
INVARIANTS TypeOK PageIntegrity SwapTableExact LruExact
PROPERTY OperationsEnd
