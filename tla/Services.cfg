\* Two calls and two probes, so that one is handled while another begins or ends; two
\* concurrent publishers, one retry each, a breaker that opens at the first failure and
\* closes at the first success, so that both happen beside each other, and counters that
\* wrap; and two checks, so that a report mixes results of different moments.
SPECIFICATION MCSpec
CONSTANTS
  Calls = {c1, c2}
  Probes = {p1, p2}

  Publishers = {p1, p2}
  Events = {e1}
  MaxRetries = 1
  Threshold = 1
  MaxCount = 2
  MaxStale = 1

  Reporters = {r1, r2}
  Names = {kafka, readiness}
INVARIANTS ClosedUnused DeferredClosesRun ProbesAnswered
INVARIANTS NoLostTrip OpenHasReset OpenShedsLoad ReportSound
PROPERTIES SignalStops CircuitRecovers
