\* Two processes, one subscription; nothing fails, and nobody crashes.
CONSTANTS
  p1 = p1
  p2 = p2
  p3 = p3
  i1 = i1
  v1 = v1
  v2 = v2
  Proc = {p1, p2}
  Id = {i1}
  Value = {v1}
  NoRow = NoRow
  MaxRetries = 1
  Faults = {}
SPECIFICATION Spec
PROPERTY RemoveStatusIsTrue
