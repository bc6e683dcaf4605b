CONSTANTS
  NonceMod = 5
  Entries = 2
  Bits = 5
  Hash <- Neighbours
  Method = "counter"
SPECIFICATION Spec
INVARIANTS Load Forgets
PROPERTY NoRepeat
