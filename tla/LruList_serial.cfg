CONSTANTS
  MAX_FRAME_LRU = 3
  Pids = {1, 2}
  Vaddrs = {1, 2}
  CPUs = {1}
SPECIFICATION Spec
INVARIANTS TypeOK RingIntact
PROPERTY ImplementsFifo
