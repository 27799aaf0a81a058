\* Texts of six tokens nest deeper than the stack; three subscriptions need two calls.
CONSTANTS
  JSON_MAX_DEPTH = 2
  MQTT_SUB_UNSUB_MAX_VECTORS = 4
  MaxTokens = 6
  MaxUnits = 3
  MaxName = 3
  MaxFilter = 5
  Characters <- TopicCharacters
  Names <- TopicNames
  Filters <- TopicFilters
  Publishes <- SmallPublishes
  PacketIds = {0, 1, 258}
  PublishSizes <- EdgeSizes
  Connects <- SmallConnects
  SubscriptionLists <- SmallSubscriptions
  LengthFields <- LengthBytes
  IncomingPackets <- SmallPackets
  ByteBits = 2
  LowPulses = {50}
  HighPulses <- NominalPulses
SPECIFICATION Spec
INVARIANTS JsonFaithful TopicFaithful PacketsFaithful ReadingServed
CHECK_DEADLOCK FALSE
