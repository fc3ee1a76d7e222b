SPECIFICATION Spec
CONSTANTS
  Line = {mtr}
  MotorLine = mtr
  ClearSamples = 2
  PowerDelay = 2
  Grace = 2
  TripPulse = 2
PROPERTIES LossLatches
