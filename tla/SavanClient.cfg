\* Two subscriptions of one application over one service client; the headers
\* are removed where samples/client/subscriber/subscriber.c removes them.
SPECIFICATION Spec
CONSTANTS
  Client = {c1, c2}
  Id = {i1, i2}
  NoId = NoId
  Expiry = {e1}
  Never = Never
  NoRow = NoRow
  None = None
  Connection = {w1, w2}
  Clears = {"getStatus", "unsubscribe"}
  Faults = {"retrieve", "insert", "update", "remove", "node"}
  MaxHeaders = 2
SYMMETRY Symmetry
INVARIANTS
  TypeOK
  UnsubscribeEnds
  RequestNamesSubscription
  ExpiryIsKnown
  EventIsEvent
