CONSTANTS
  r1 = r1
  r2 = r2
  r3 = r3
  NoData = NoData
  Data <- MCData
  Size <- MCSize
SPECIFICATION Spec
INVARIANTS TypeOK HeldSlotsAreFilled
PROPERTY FifoSpec
