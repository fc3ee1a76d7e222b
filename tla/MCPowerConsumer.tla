--------------------------- MODULE MCPowerConsumer -----------------------------
(* Small instances of PowerConsumer for TLC.                               *)
EXTENDS PowerConsumer, TLC

\* The core frames may come in any order: their slots are interchangeable.
SlotSymmetry == Permutations(Slot)

===============================================================================
