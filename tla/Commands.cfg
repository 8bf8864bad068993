SPECIFICATION Spec
CONSTANTS
  GENESIS_HASH = genesis
  NoKey = NoKey
  None = None
  Absent = Absent
  Empty = Empty
  Partial = Partial
  NoMapping = NoMapping
  d1 = d1
  d2 = d2
  d3 = d3
  r1 = r1
  k1 = k1
  k2 = k2
  i1 = i1
  i2 = i2
  i3 = i3
  s1 = s1
  s2 = s2
  s3 = s3
  Rekeyed = {r1}
  Key = k1
  OtherKey = k2
  DecisionsOf <- PerCommand
  MaxEdits = 3
  Queries <- UtcQueries
  Inits = {i1, i2, i3}
  Forced = {i3}
  Sessions = {s1, s2, s3}
  Keyed = {s1, s2}
  Serial = TRUE
SYMMETRY Symmetry
INVARIANTS
  KeysMatch
  KeyedGatesAgree
  ValidWithKeyIsRecorded
  LastHashPinsRows
  CountCoversVerified
  ExportStaysPrefix
  ValidIsRecorded
  UneditedVerifies
PROPERTIES
  ResultIsSelection
