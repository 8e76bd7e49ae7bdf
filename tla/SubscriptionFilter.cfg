SPECIFICATION PathSpec
CONSTANTS
  Words = {"a", "c"}
  Entries = {e}
  None = None
  EventID = "a"
  CorrelationID = "c"
  Matching <- MCMatching
  Messages <- MCMessages
  Filters <- MCFilters
CHECK_DEADLOCK FALSE
INVARIANT SubscribedMatches
