\* Three progress events start three countdowns; two connections can both be kept.
CONSTANTS
  Chains = {c1, c2, c3}
  Connections = 2
  MaxEvents = 3
  MaxLate = 1
SPECIFICATION Spec
PROPERTIES ReloadsAfterRestart CountdownEnds
CHECK_DEADLOCK FALSE
