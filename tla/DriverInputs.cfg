SPECIFICATION DriverSpec
CONSTANTS
  BuzzTime = 1
  FilterSamples = 1
  RtdPeriod = 2
  BppcPeriod = 3
  SplitLimit = 1
INVARIANTS ConflictEndsDrive SplitIsFaulted
PROPERTIES DeliberateStart StartSawBrake
