\* One message, and fetches that fail twice while the client stays.
SPECIFICATION FairSpec
CONSTANTS
  Clients = {c1}
  Main = main
  Kinds = {ok}
  Accepted = {ok}
  EventChanCap = 1
  OutChanCap = 1
  MaxLog = 1
  MaxFetchErrors = 2
  MaxCrashes = 0
CHECK_DEADLOCK FALSE
PROPERTY SubscribersServed
