SPECIFICATION FeedbackSpec
CONSTANTS
  Line = {mtr}
  MotorLine = mtr
  ClearSamples = 2
  PowerDelay = 3
  Grace = 2
  TripPulse = 1
  Timeout = 2
  RepeatLimit = 2
INVARIANTS PowerIsEarned SilenceRemovesPower FirmwareNeedsPower EveryFrameHeard RestartIsSeen
PROPERTIES LatchesHold
