\* Two clients, one room: safety, what the clients show, liveness, and the chat
\* the clients are promised.
CONSTANTS
  alice = alice
  bob = bob
  Sessions = {alice, bob}
  RoomIds <- OneRoom
  Keys <- OneRoom
  MaxEvents = 2
  Batches = {0, 2}
  MayRestart = TRUE
  MessageBatchSize = 1
SPECIFICATION FairSpec
INVARIANTS IInv HelloFirstWhileServed PublishedIsStored StoredIsAccounted SettledViewsComplete
PROPERTIES EveryWriterIsNotified EveryRequestEnds EndedIsReleased SessionsUseMutex NoBroadcastAfterEnd ImplementsRooms
