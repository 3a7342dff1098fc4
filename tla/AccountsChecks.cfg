\* Three requests, two people, two session ids.
CONSTANTS
  MaxRequests = 3
  Names = {"ann", "bob"}
  Emails = {"ann@x", "bob@x"}
  Passwords = {"secret", "guess"}
  SessionIds = {"sid1", "sid2"}
  Inputs <- SmallInputs
SPECIFICATION Spec
INVARIANTS IInv NoImpersonation LoginFailsOnlyWithoutAccount
PROPERTIES SessionKeepsUser
