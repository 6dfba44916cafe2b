CONSTANTS
  p1 = p1
  p2 = p2
  k1 = k1
  k2 = k2
  k3 = k3
  NoBlock = NoBlock
  NoProc = NoProc
  Procs <- const_Procs
  Blocks <- const_Blocks
  Vals = {0, 1}
  Zero = 0
  NBUF = 2
  MaxOps = 3
SPECIFICATION FairSpec
INVARIANTS CountsExact BuffersSuffice
PROPERTIES ImplementsBlockStore RequestsEnd
