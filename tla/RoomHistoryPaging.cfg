\* A comment on the history against its code.
CONSTANTS
  Sessions = {s1}
  RoomIds <- OneRoom
  Keys <- OneRoom
  UserIds = {u1}
  MessageBatchSize = 2
  MaxMessages = 3
SPECIFICATION Spec
INVARIANTS OnlyOlderMessages
CHECK_DEADLOCK FALSE
