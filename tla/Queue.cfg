SPECIFICATION FairQueueSpec
CONSTANTS
  c1 = c1
  c2 = c2
  c3 = c3
  Consumers = {c1, c2, c3}
  Capacity = 2
  MaxPushes = 5
INVARIANTS NoLostWakeup
PROPERTIES NewestWinsSpec PopsReturn
