SPECIFICATION FairSpec
CONSTANTS
  Line = {mtr}
  MotorLine = mtr
  ClearSamples = 1
  PowerDelay = 1
  Grace = 0
  TripPulse = 2
  BuzzTime = 2
  FilterSamples = 1
  RtdPeriod = 2
INVARIANTS TripHolds DriveNeedsPower
PROPERTIES Recovers
