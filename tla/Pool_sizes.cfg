SPECIFICATION PoolSpec
CONSTANTS
  Threads = {w1, w2, w3}
  Sizes = {1, 2, 3, 4}
INVARIANT NoGridlock
