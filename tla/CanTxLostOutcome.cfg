SPECIFICATION Spec
CONSTANTS
  Mailbox = {m0, m1}
  CounterMod = 3
  Torque = {0, 100}
INVARIANTS OwnerHasOutcome
