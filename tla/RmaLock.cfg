CONSTANTS
  Procs = {p1, p2, p3}
  Modulus = 3
SPECIFICATION FairSpec
INVARIANTS
  Exclusion
  UnlockNeverFails
  NoLostUpdate
PROPERTY ReaderServed
