\* The two checks of registerHealthChecks and one request.
SPECIFICATION GatewaySpec
CONSTANTS
  Reporters = {r1}
  Names = {kafka, readiness}
INVARIANT GetHealthAgrees
