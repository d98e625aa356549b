\* Deadlock is not checked: the contexts close their definitions and stop.
CONSTANTS
  Contexts <- C2
  Ranks <- R2
  Outs <- BothWays
  Ins <- BothWays
  Uses = {}
SPECIFICATION Spec
CHECK_DEADLOCK FALSE
PROPERTY AllClosed
