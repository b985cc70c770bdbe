\* A dispatch that times out gives its slot back while its work goes on.
CONSTANTS
  Requests = {r1, r2}
  Clients = {c1}
  Routes = {"/analyze", "/health"}
  OtherPath = "/nowhere"
  RateLimited = {"/analyze"}
  Unlimited = {"/health"}
  WorkRoutes = {"/analyze"}
  AuthRequired = FALSE
  MaxRequests = 2
  Window = 1
  MaxConcurrent = 1
  Timeout = 1
  Workers = 2
  LastArrival = 2
  None = None
SPECIFICATION Spec
CHECK_DEADLOCK FALSE
INVARIANT ExpensiveWorkBounded
