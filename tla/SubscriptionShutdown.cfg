SPECIFICATION FairSpec
CONSTANTS
  Clients = {c1, c2}
  Main = main
  Kinds = {ok}
  Accepted = {ok}
  EventChanCap = 1
  OutChanCap = 1
  MaxLog = 1
  MaxFetchErrors = 0
  MaxCrashes = 0
CHECK_DEADLOCK FALSE
PROPERTY ShutdownCompletes
