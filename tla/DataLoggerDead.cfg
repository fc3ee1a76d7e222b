\* A session whose card is pulled.
SPECIFICATION Spec
CONSTANTS
  Sessions = 1
  MaxErrors = 3
  SyncPeriod = 2
  RetryPeriod = 1
  Budget = 1
PROPERTY
  DeadCardStops
