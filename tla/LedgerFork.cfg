SPECIFICATION FaultFreeSpec
CONSTANTS
  GENESIS_HASH = genesis
  NoKey = NoKey
  None = None
  l1 = l1
  l2 = l2
  t1 = t1
  t2 = t2
  k1 = k1
  d1 = d1
  d2 = d2
  d3 = d3
  Threads = {t1, t2}
  Keys = {k1}
  Ledgers = {l1, l2}
  LedgerOf <- TwoLedgers
  KeyOf <- SameKey
  Decisions = {d1, d2}
  Unserializable = {}
  Rekeyed = {}
INVARIANTS
  ChainVerifies
