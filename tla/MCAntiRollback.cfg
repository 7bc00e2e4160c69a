SPECIFICATION Spec
SYMMETRY Symmetry
CONSTANTS
  Enclaves = {e1}
  Rids = {r1, r2, r3}
  NoRid = NoRid
  Owner <- OneOwner
  Amounts = {1}
  Budget = 1
  Material = {m1, m2}
  StructuralOps = {"mutate", "refill"}
  MaxAttempts = 2
  MaxEpoch = 4
  MaxDraws = 5
INVARIANTS TypeOK ReleasedOnce CapabilityOnce SameStructuralSameConfig ServingCoversReleased NoFalseAlarm
PROPERTY ImplementsSpendLedger
CHECK_DEADLOCK FALSE
