CONSTANTS
  NPROC = 2
  NPAGE = 6
  NVA = 4
  PGSIZE = 2
  MAX_FRAME_LRU = 2
  MAX_FRAME_SWAP = 3
  Progs <- const_Progs
  MemSz <- const_MemSz
  SwapStart <- const_SwapStart
  InitProg = "init"
  MaxPid = 2
  Vers = {1}
  Sbrk = {2}
  Calls = {"sbrk", "fork", "exit"}
  Overlap = TRUE
SPECIFICATION Spec
INVARIANTS IInv
VIEW Control
