CONSTANTS
  Readers = {r1, r2}
  EventMax = 2
  MaxEvents = 6
SPECIFICATION Spec
INVARIANTS PermitsCoverEvents PermitBalance ListBounded InOrder
CHECK_DEADLOCK FALSE
