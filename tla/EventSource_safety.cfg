\* Two workers, two subscriptions; inserts, updates and removals may fail,
\* reads do not.
CONSTANTS
  w1 = w1
  w2 = w2
  i1 = i1
  i2 = i2
  e1 = e1
  e2 = e2
  Worker = {w1, w2}
  Never = Never
  None = None
  NoRow = NoRow
  NoId = NoId
  Id = {i1, i2}
  Expiry = {e1}
  RenewAsks = {e1, None}
  Faulty = {"insert", "update", "remove"}
  Filtering = FALSE
SPECIFICATION Spec
SYMMETRY Symmetry
INVARIANTS
  TypeOK
  AcknowledgedIsStored
  NoUnacknowledgedRow
  UnsubscribedIsGone
  RenewResponseMeansRenewed
  EventReachesSubscribers
  NoEventAfterUnsubscribe
PROPERTY NoResurrection
