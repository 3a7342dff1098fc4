\* One session, two rooms, three users.
CONSTANTS
  Sessions = {s1}
  RoomIds <- TwoRooms
  Keys <- TwoRooms
  UserIds = {u1, u2, u3}
  MessageBatchSize = 2
  MaxMessages = 3
SPECIFICATION Spec
INVARIANTS IInv NothingIsHidden EveryAuthorIsNamed
CHECK_DEADLOCK FALSE
