\* Three publishes of which the first is acknowledged before the connection breaks.
CONSTANTS
  OutQ1 = {a, b, c}
  OutQ2 = {}
  InQ1 = {}
  InQ2 = {}
  NoMessage = NoMessage
  OutgoingSlots = 3
  IncomingSlots = 1
  MaxPacketId = 3
  MaxDrops = 1
  MaxLosses = 0
SPECIFICATION LiveSpec
INVARIANTS ResendComplete
