\* One process writes, another reads; they start one by one, put is reliable.
CONSTANTS
  p1 = p1
  p2 = p2
  i1 = i1
  i2 = i2
  v1 = v1
  v2 = v2
  NoRow = NoRow
  NoId = NoId
  Id = {i1, i2}
  Proc = {p1, p2}
  Writer = {p1}
  Value = {v1, v2}
  OneByOne = TRUE
  Faults = {"get", "delete", "crash"}
SPECIFICATION Spec
SYMMETRY Symmetry
INVARIANTS
  TypeOK
  EntryLeadsToSubscriber
  AddedIsListed
  RemovedIsGone
  RetrievedIsNoOlder
