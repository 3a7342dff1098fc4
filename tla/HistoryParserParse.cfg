\* Every input of up to twelve nodes: two messages in one response or in two.
CONSTANTS
  Ids = {"1-0", "2-0"}
  Payloads = {"json1", "json2"}
  MaxSize = 2
  MaxDepth = 4
  MaxNodes = 12
  MaxResponses = 2
  Answers <- SmallAnswers
SPECIFICATION Spec
INVARIANTS ReferenceIInv ParsedIsSent AnswersAreAccepted
