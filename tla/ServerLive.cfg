CONSTANTS
  Requests = {r1, r2}
  Clients = {c1}
  Routes = {"/analyze", "/health"}
  OtherPath = "/nowhere"
  RateLimited = {"/analyze"}
  Unlimited = {"/health"}
  WorkRoutes = {"/analyze"}
  AuthRequired = FALSE
  MaxRequests = 2
  Window = 1
  MaxConcurrent = 1
  Timeout = 2
  Workers = 1
  LastArrival = 2
  None = None
SPECIFICATION FairSpec
CHECK_DEADLOCK FALSE
PROPERTY DispatchBounded
