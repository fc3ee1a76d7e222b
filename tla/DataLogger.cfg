\* A session's life on a card that may be pulled, with the command line and power
\* cuts in between.  Two periods of a sync, three errors, four sessions.
SPECIFICATION Spec
CONSTANTS
  Sessions = 4
  MaxErrors = 3
  SyncPeriod = 2
  RetryPeriod = 1
  Budget = 3
INVARIANTS UnbrokenLossIsBrief SessionIsNew StopNotForgotten
PROPERTIES AutostartRecovers StopCloses
