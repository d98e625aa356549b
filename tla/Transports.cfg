CONSTANTS
  MaxTime = 3
  MaxSize = 2
  InitSize = 2
  FixSizes = {1}
SPECIFICATION MCSpec
INVARIANTS
  LegacyEndsAgree
  P2pMirrored
  OneSidedReadsLive
PROPERTIES
  DeletedRingEmpty
  ResizeEnds
  AllReliable
