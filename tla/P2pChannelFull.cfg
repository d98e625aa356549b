\* As P2pChannel, with events that fill a circular buffer exactly.
CONSTANTS
  MaxTime = 5
  Sizes = {6}
  FixSizes = {}
  MaxBuffers = 2
  MaxSent = 3
SPECIFICATION Spec
CHECK_DEADLOCK FALSE
INVARIANT TransferSucceeds
