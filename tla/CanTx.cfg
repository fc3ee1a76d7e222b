SPECIFICATION FairSpec
CONSTANTS
  Mailbox = {m0, m1, m2}
  CounterMod = 3
  Torque = {0, 100}
INVARIANTS Ownership ReadyUntilCommit HistoryAgrees
PROPERTIES CountersInSequence UncertainIsFinal ImplementsChannel WaitEnds SilenceRemovesTorque
