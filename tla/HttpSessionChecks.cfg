\* Two connections, two requests on each.
CONSTANTS
  Conns = {1, 2}
  Inputs <- SmallInputs
  MaxRequests = 2
  Seconds = 1
SPECIFICATION FairSpec
INVARIANTS IInv AnsweredInOrder NothingIsDropped ClosesWhenAsked
PROPERTIES EveryConnectionEnds EveryArrivalAccepted
