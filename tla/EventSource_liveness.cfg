\* Two workers, one subscription, two expiries: every store operation may
\* fail; a Renew always says what it wants. No symmetry: the run checks liveness.
CONSTANTS
  w1 = w1
  w2 = w2
  i1 = i1
  i2 = i2
  e1 = e1
  e2 = e2
  Worker = {w1, w2}
  Never = Never
  None = None
  NoRow = NoRow
  NoId = NoId
  Id = {i1}
  Expiry = {e1, e2}
  RenewAsks = {e1, e2}
  Faulty = {"insert", "update", "remove", "retrieve"}
  Filtering = TRUE
SPECIFICATION FairSpec
INVARIANT AnsweredExpiryHolds
PROPERTIES
  MessagesAreBounded
  EveryMessageAnswered
