\* One event for two endpoints, two tasks, two attempts of each kind, one dashboard
\* request (a change or the removal of an endpoint, or a manual retry) and one
\* failing call, dying pod or lost lock.  It may end with nothing left to do.
SPECIFICATION Spec
CONSTANTS
  Endpoints = {e1, e2}
  Events = {v1}
  Workers = {w1, w2}
  None = None
  MaxDeliveryAttempts = 2
  FanoutAttempts = 2
  MaxRequests = 1
  MaxFailures = 1
CHECK_DEADLOCK FALSE
SYMMETRY TaskEndpointSymmetry
INVARIANTS
  ScheduleEnds
  DeliveredWasAcked
  NeverDoubleDelivers
  CountIsAuthoritative
  FanoutIsComplete
