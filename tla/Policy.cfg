SPECIFICATION CommandSpec
CONSTANTS
  None = None
  Documents <- AllPolicies
  Requests <- SomeRequests
  Fits <- SomeFits
  One = 2
  CommandLines <- SomeCommandLines
  Ints <- SomeInts
  Floats <- SomeFloats
INVARIANTS
  AnswersAreFirstMatch
  WellMadeNeverFails
  ZeroIsAllowed
  ExitTellsVerdict
