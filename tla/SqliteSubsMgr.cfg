\* Three processes, one subscription: a writer, a reader it waits for and a third
\* that comes meanwhile; processes crash, and chmod may fail.  No symmetry: the
\* run checks liveness.
CONSTANTS
  p1 = p1
  p2 = p2
  p3 = p3
  i1 = i1
  v1 = v1
  v2 = v2
  Proc = {p1, p2, p3}
  Id = {i1}
  Value = {v1, v2}
  NoRow = NoRow
  MaxRetries = 1
  Faults = {"chmod", "crash"}
SPECIFICATION FairSpec
INVARIANTS
  TypeOK
  ReadsAreStable
PROPERTIES
  ImplementsStore
  CallsAreBounded
  EveryCallReturns
