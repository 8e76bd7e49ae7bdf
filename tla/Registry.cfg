\* Two handlers that register, with readings of the clock that may be equal.  The
\* registry may stop: readings are bounded.
SPECIFICATION RegistrySpec
CONSTANTS
  Callers = {h1, h2}
  NameVersions = {n1, n2}
  NoName = None
  MaxClock = 2
CHECK_DEADLOCK FALSE
PROPERTY RegistrationsKept
