SPECIFICATION LiveSpec
CONSTANTS
  Enclaves = {e1}
  Rids = {r1, r2}
  NoRid = NoRid
  Owner <- OneOwner
  Amounts = {1}
  Budget = 2
  Material = {m1}
  StructuralOps = {"mutate"}
  MaxAttempts = 2
  MaxEpoch = 3
  MaxDraws = 4
  MaxFaults = 2
PROPERTY LostAckHeals
CHECK_DEADLOCK FALSE
