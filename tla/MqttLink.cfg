\* A buffer of four bytes, so that packets share it, fill it and exceed it.
CONSTANTS
  BufferSize = 4
  TxTimeout = 2
  RxTimeout = 2
  PingTimeout = 1
  SendTimeout = 1
  PollTimeout = 1
  ConnackTimeout = 1
  ConnackRetries = 1
  MaxGap = 1
  MaxPubrels = 2
  MaxInFlight = 2
SPECIFICATION Spec
INVARIANTS Framed DeadPeerFound
PROPERTIES CallReturns
