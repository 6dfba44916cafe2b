CONSTANTS
  NPROC = 1
  NPAGE = 5
  NVA = 4
  PGSIZE = 2
  MAX_FRAME_LRU = 2
  MAX_FRAME_SWAP = 2
  Progs <- const_Progs
  MemSz <- const_MemSz
  SwapStart <- const_SwapStart
  InitProg = "init"
  MaxPid = 1
  Vers = {1}
  Sbrk = {2}
  Calls = {"sbrk", "sbrk-", "exec", "exec-", "stray"}
  Overlap = FALSE
SPECIFICATION Spec
INVARIANTS PagesExclusive
VIEW Shape
