\* One publish of each QoS each way, over two broken connections and a lost session.
CONSTANTS
  OutQ1 = {a}
  OutQ2 = {b, c}
  InQ1 = {}
  InQ2 = {y}
  NoMessage = NoMessage
  OutgoingSlots = 3
  IncomingSlots = 1
  MaxPacketId = 2
  MaxDrops = 2
  MaxLosses = 1
SPECIFICATION LiveSpec
INVARIANTS RecordsWellFormed ResendOrder
PROPERTIES Delivered PublishSettles
