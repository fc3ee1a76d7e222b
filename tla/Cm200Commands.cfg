SPECIFICATION Spec
CONSTANTS
  CounterMod = 5
  Torque = {0, 1}
  MismatchLimit = 2
  Period = 1
  Burst = 1
INVARIANTS BlamedIffEarly
PROPERTIES TorqueInStep FrozenIsSeen
