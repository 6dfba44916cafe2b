CONSTANTS
  p1 = p1
  p2 = p2
  p3 = p3
  b1 = b1
  b2 = b2
  Procs <- const_Procs
  Blocks <- const_Blocks
  Vals = {0, 1}
  Zero = 0
  MAXOPBLOCKS = 3
  NLOG = 9
  OPBLOCKS = 2
  MaxOps = 4
  MaxCrash = 2
SPECIFICATION FairSpec
INVARIANTS ReservationHolds CommittedOnReturn
PROPERTIES ImplementsAtomicDisk OperationsReturn
