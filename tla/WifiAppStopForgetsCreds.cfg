\* Refuted: an address notice behind the disconnect request saves them again.
SPECIFICATION Spec
CONSTANTS
  MaxRetries = 1
  MaxRequests = 2
  QueueLength = 2
  EventQueueLength = 2
  EventTaskFirst = TRUE
  TimedBoot = TRUE
PROPERTIES
  StopForgetsCreds
