CONSTANTS
  Contexts = {1, 2, 3}
  Links <- Ring
SPECIFICATION MCSpec
INVARIANTS
  ServersInStep
  StartTogether
  CouplingsInOrder
  RegistryKept
PROPERTIES
  AllEnd
  RunEnds
