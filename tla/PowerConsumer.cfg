SPECIFICATION Spec
CONSTANTS
  Slot = {s0, s1}
  Advisory = {strategy}
  CounterMod = 2
  MaxAge = 5
  MaxSkew = 1
  RequiredGood = 2
  StreakMax = 3
  Period = 3
  Delay = 1
  RefreshPeriod = 1
  Horizon = 12
SYMMETRY SlotSymmetry
INVARIANTS SingleBundle AdvisoryMatches Superseded RecoveryNeedsTwo CacheHonest
CHECK_DEADLOCK FALSE
