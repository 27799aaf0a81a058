SPECIFICATION FairSpec
CONSTANTS
  Pieces = 2
  MaxUploads = 3
  QueueLength = 2
  MaxOthers = 2
INVARIANTS TypeOK RunningIntact SuccessMeansSelected
PROPERTIES NoDowngrade KeepsPromise SuccessEnds HandlerReturns
