CONSTANTS
  Texts <- ShortTexts
  Messages <- ShortMessages
  wide_tab <- SomeMemory
  Headers <- ShortHeaders
  Jars <- ClientJars
  SessionIds <- Ids
  session_cookie_name <- Sid
  Passwords = {p1, p2}
  Salts = {s1}
  Values <- StoredValues
  ParamNames = {"ln", "r", "p", "m"}
  HashParams <- DefaultAndWeaker
  MaxParams = 2
SPECIFICATION Spec
INVARIANTS WritesFit RoundTrip AcceptedIsEncoding ListIsGrammar SessionIdReturns OwnHashVerifies MatchMeansHashed
CHECK_DEADLOCK FALSE
