\* The list of messages against the uniqueness of its keys.
CONSTANTS
  alice = alice
  bob = bob
  Sessions = {alice, bob}
  RoomIds <- OneRoom
  Keys <- OneRoom
  MaxEvents = 1
  Batches = {1}
  MayRestart = FALSE
  MessageBatchSize = 2
SPECIFICATION Spec
INVARIANTS ShownOnce
