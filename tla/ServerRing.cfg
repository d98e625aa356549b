CONSTANT BuffSize = 5
SPECIFICATION Spec
INVARIANTS
  NoError
  LiveRegionsDisjoint
  EmptyRingFits
