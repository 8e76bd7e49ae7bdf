SPECIFICATION FairSpec
CONSTANTS
  Clients = {c1, c2}
  Main = main
  Kinds = {ok}
  Accepted = {ok}
  EventChanCap = 1
  OutChanCap = 1
  MaxLog = 2
  MaxFetchErrors = 2
  MaxCrashes = 1
CHECK_DEADLOCK FALSE
INVARIANT CommittedHanded
PROPERTIES CommitMonotone StreamServed
