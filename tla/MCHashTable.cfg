SPECIFICATION Spec
CONSTANTS
  k1 = k1
  k2 = k2
  k3 = k3
  k4 = k4
  k5 = k5
  v1 = v1
  v2 = v2
  Key <- MCKey
  Value <- MCValue
  Hash <- MCHash
  FREE = FREE
  DELETED = DELETED
  Capacities <- MCCapacities
INVARIANTS TypeOK LengthExact Findable
PROPERTY MapSpec
