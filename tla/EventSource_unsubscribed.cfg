\* Two workers, one subscription: a removal may fail and so may a read.
CONSTANTS
  w1 = w1
  w2 = w2
  i1 = i1
  i2 = i2
  e1 = e1
  e2 = e2
  Worker = {w1, w2}
  Never = Never
  None = None
  NoRow = NoRow
  NoId = NoId
  Id = {i1}
  Expiry = {e1}
  RenewAsks = {e1}
  Faulty = {"remove", "retrieve"}
  Filtering = FALSE
SPECIFICATION Spec
INVARIANT UnsubscribedIsGone
