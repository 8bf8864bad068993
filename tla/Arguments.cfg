SPECIFICATION Spec
CONSTANTS
  c1 = c1
  c2 = c2
  c3 = c3
  kwargs1 = kwargs1
  kwargs2 = kwargs2
  dict = dict
  own = own
  nested = nested
  v1 = v1
  v2 = v2
  Calls = {c1, c2, c3}
  ToolCalls = {c1, c2}
  Strict = {c1, c3}
  Redacting = {c2, c3}
  Objects = {kwargs1, kwargs2, dict, own, nested}
  TopOf <- Tops
  NestedOf <- Nesteds
  Shared = {dict, nested}
  Values = {v1, v2}
  Heaps <- First
  None = None
  Mutating = {c2}
SYMMETRY Symmetry
INVARIANTS
  RowIsEvaluated
  ToolGetsEvaluated
  SignedIsKept
