\* Liveness with the priority of the event task.
SPECIFICATION FairSpec
CONSTANTS
  MaxRetries = 1
  MaxRequests = 2
  QueueLength = 2
  EventQueueLength = 2
  EventTaskFirst = TRUE
  TimedBoot = TRUE
PROPERTIES
  AttemptResolves
  StaleBitCleared
  TaskReturns
  ButtonServed
