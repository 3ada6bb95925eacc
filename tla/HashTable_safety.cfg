SPECIFICATION Spec
CONSTANTS
  k1 = k1
  k2 = k2
  k3 = k3
  b1 = b1
  b2 = b2
  Threads = {t1, t2}
  Keys <- MCKeys
  Values = {v1, v2}
  Buckets <- MCBuckets
  Entries = {e1, e2, e3}
  HashOf <- MCHashOf
  NoEntry = NoEntry
  NoKey = NoKey
  NoValue = NoValue
  NoThread = NoThread
SYMMETRY Symmetry
INVARIANTS BucketsWellLinked OneEntryPerKey EntriesNotFreed CountIsRight
PROPERTY ImplementsMap
