\* The service manager with the default publisher, nothing failing.
CONSTANTS
  p1 = p1
  p2 = p2
  i1 = i1
  i2 = i2
  addr = addr
  topic1 = topic1
  topic2 = topic2
  xpath = xpath
  Proc = {p1, p2}
  Worker = {p2}
  Id = {i1, i2}
  NoRow = NoRow
  Null = Null
  Synapse = Synapse
  Text = {addr, topic1, topic2, xpath, Synapse}
  Inserted <- MCInserted
  Topic <- MCTopic
  Faults = {}
  Passes = {topic1}
  Builds <- MCServiceBuild
SPECIFICATION Spec
INVARIANT EveryDataSinkNotified
