SPECIFICATION Spec
CONSTANTS
  MaxTorque = 2
  RiseStep = 1
  FallStep = 2
  Overshoot = 1
  Period = 2
  HardBudget = 1
  TripCount = 1
  UnlockCycles = 1
  CommandWait = 3
  ReadyWait = 1
  CompleteWait = 1
  Reconcile = 1
INVARIANTS ExcessIsBrief
PROPERTIES NewestWins NoLateTorque
