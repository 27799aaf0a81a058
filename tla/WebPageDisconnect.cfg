\* One click on disconnect is enough.
CONSTANTS
  Chains = {c1}
  Connections = 1
  MaxEvents = 1
  MaxLate = 1
SPECIFICATION Spec
PROPERTY DisconnectReloads
CHECK_DEADLOCK FALSE
