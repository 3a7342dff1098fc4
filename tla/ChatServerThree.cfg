\* Three clients, interchangeable: two that write and one that arrives.
CONSTANTS
  alice = alice
  bob = bob
  carol = carol
  Sessions = {alice, bob, carol}
  RoomIds <- OneRoom
  Keys <- OneRoom
  MaxEvents = 2
  Batches = {1}
  MayRestart = FALSE
SPECIFICATION Spec
SYMMETRY ClientSymmetry
INVARIANTS NoGap PublishedInStreamOrder
