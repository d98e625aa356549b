CONSTANTS
  Contexts = {"a", "b"}
  ClientsOf <- OneEach
  Gatherers = {"g1", "g2"}
  Writers = {"w1"}
  Receivers <- AToB
SPECIFICATION MCSpec
INVARIANTS
  Together
  ClosedAfterReceivers
  EndsInOrder
PROPERTY AllOver
