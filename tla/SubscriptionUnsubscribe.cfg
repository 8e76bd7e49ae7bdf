SPECIFICATION ServiceSpec
CONSTANTS
  Clients = {c1, c2}
  Main = main
  Kinds = {ok, bad}
  Accepted = {ok}
  EventChanCap = 1
  OutChanCap = 1
  MaxLog = 2
  MaxFetchErrors = 0
  MaxCrashes = 0
SYMMETRY Symmetry
CHECK_DEADLOCK FALSE
INVARIANTS SingleConsumer DeliveredInOrder NothingLostInFlight
