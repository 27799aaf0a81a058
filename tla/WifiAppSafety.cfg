\* Safety under every interleaving of the tasks.
SPECIFICATION Spec
CONSTANTS
  MaxRetries = 1
  MaxRequests = 3
  QueueLength = 2
  EventQueueLength = 2
  EventTaskFirst = FALSE
  TimedBoot = TRUE
INVARIANTS
  TypeOK
  LinkNotLost
  LossNotMissed
  StatusTracksLink
  NoSelfDeadlock
  MonitorQueueReady
PROPERTIES
  LinkStaysDown
  AttemptProtocol
