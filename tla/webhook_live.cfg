\* One endpoint and event, two tasks, one dashboard request (a change or the
\* removal of the endpoint, or a manual retry) and one failure.  It may end with
\* nothing left to do.
SPECIFICATION FairSpec
CONSTANTS
  Endpoints = {e1}
  Events = {v1}
  Workers = {w1, w2}
  None = None
  MaxDeliveryAttempts = 2
  FanoutAttempts = 2
  MaxRequests = 1
  MaxFailures = 1
CHECK_DEADLOCK FALSE
PROPERTY
  DeliverySettles
