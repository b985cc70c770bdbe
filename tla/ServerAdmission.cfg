\* Three requests of one client: every refusal, both slots rules, the timeout.
CONSTANTS
  Requests = {r1, r2, r3}
  Clients = {c1, c2}
  Routes = {"/analyze", "/health"}
  OtherPath = "/nowhere"
  RateLimited = {"/analyze"}
  Unlimited = {"/health"}
  WorkRoutes = {"/analyze"}
  AuthRequired = TRUE
  MaxRequests = 1
  Window = 1
  MaxConcurrent = 1
  Timeout = 1
  Workers = 1
  LastArrival = 1
  None = None
SPECIFICATION Spec
CHECK_DEADLOCK FALSE
SYMMETRY Symmetry
INVARIANTS TypeOK SlotAccounting MeteredOnce WindowBound OnlyAdmittedPay
PROPERTY ImplementsGate
