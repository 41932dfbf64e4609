SPECIFICATION Spec
CONSTANTS
  k1 = k1
  k2 = k2
  k3 = k3
  k4 = k4
  k5 = k5
  v1 = v1
  v2 = v2
  Key <- MCKeySpread
  Value <- MCValueOne
  Hash <- MCHashSpread
  FREE = FREE
  DELETED = DELETED
  Capacities <- MCCapacities
INVARIANT SearchFindsSlot
