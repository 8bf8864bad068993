SPECIFICATION HandlerSpec
CONSTANTS
  GENESIS_HASH = genesis
  NoKey = NoKey
  None = None
  Rekeyed = {}
  c1 = c1
  c2 = c2
  c3 = c3
  strict = strict
  lenient = lenient
  k1 = k1
  k2 = k2
  k3 = k3
  Calls = {c1, c2, c3}
  ToolCalls = {c1, c2}
  Gates = {strict, lenient}
  GateOf <- CallsToGates
  Strict = {strict}
  Redacting = {strict}
  Emitting = {strict, lenient}
  Keys = {k1, k2, k3}
  LedgerKey = k1
  GeneratedKey <- OwnKeys
  GivenKey <- SharedKey
  GivenPublic <- SharedPublic
  raising = raising
  quiet = quiet
  Handlers = {raising, quiet}
  HandlerOf <- Handling
  Raising = {raising}
INVARIANTS
  DeniedDoesNotRun
