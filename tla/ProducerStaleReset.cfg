\* The documented 30 seconds of an opening.
SPECIFICATION ProducerFairSpec
CONSTANTS
  Publishers = {p1, p2}
  Events = {e1}
  MaxRetries = 0
  Threshold = 1
  MaxCount = 3
  MaxStale = 1
PROPERTY ResetByOwnTimer
