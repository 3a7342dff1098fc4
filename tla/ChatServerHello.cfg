\* The comment on lock_writes() in run(), without the condition that the hello data is there.
CONSTANTS
  alice = alice
  bob = bob
  carol = carol
  Sessions = {alice, bob}
  RoomIds <- OneRoom
  Keys <- OneRoom
  MaxEvents = 1
  Batches = {1}
  MayRestart = FALSE
SPECIFICATION Spec
INVARIANTS HelloIsFirst
