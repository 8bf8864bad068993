SPECIFICATION CheckFairSpec
CONSTANTS
  GENESIS_HASH = genesis
  NoKey = NoKey
  None = None
  Rekeyed = {}
  c1 = c1
  c2 = c2
  c3 = c3
  strict = strict
  lenient = lenient
  l1 = l1
  l2 = l2
  k1 = k1
  k2 = k2
  Threads = {c1, c2, c3}
  ToolCalls = {c1, c2}
  Gates = {strict, lenient}
  GateOf <- ThreeCalls
  Strict = {strict}
  Redacting = {strict}
  Emitting = {strict, lenient}
  Keys = {k1, k2}
  LedgerKey = k1
  GivenKey <- SharedKey
  GivenPublic <- SharedPublic
  GeneratedKey <- OwnKeys
  Ledgers = {l1}
  LedgerOf <- LedgerOfCall
  KeyOf <- OneKey
  Decisions <- GateDecisions
  Unserializable <- NotJsonDecisions
  LedgerOfGate <- OneLedger
  NotJson = {c3}
PROPERTIES
  ImplementsGate
  EveryCallEnds
