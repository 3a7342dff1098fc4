\* The first message of a list against the latest one.
CONSTANTS
  alice = alice
  bob = bob
  Sessions = {alice, bob}
  RoomIds <- OneRoom
  Keys <- OneRoom
  MaxEvents = 2
  Batches = {1}
  MayRestart = FALSE
  MessageBatchSize = 2
SPECIFICATION Spec
INVARIANTS LatestIsFirst
