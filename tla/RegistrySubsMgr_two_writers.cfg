\* Two processes write; they start one by one, and nothing fails.
CONSTANTS
  p1 = p1
  p2 = p2
  i1 = i1
  i2 = i2
  v1 = v1
  v2 = v2
  NoRow = NoRow
  NoId = NoId
  Id = {i1, i2}
  Proc = {p1, p2}
  Writer = {p1, p2}
  Value = {v1}
  OneByOne = TRUE
  Faults = {}
SPECIFICATION Spec
INVARIANT AddedIsListed
