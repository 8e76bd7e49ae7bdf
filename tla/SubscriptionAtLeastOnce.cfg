SPECIFICATION GatewaySpec
CONSTANTS
  Clients = {c1, c2}
  Main = main
  Kinds = {ok}
  Accepted = {ok}
  EventChanCap = 1
  OutChanCap = 1
  MaxLog = 2
  MaxFetchErrors = 0
  MaxCrashes = 1
SYMMETRY Symmetry
CHECK_DEADLOCK FALSE
INVARIANT AtLeastOnce
