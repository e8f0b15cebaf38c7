CONSTANTS
  a = a  t1 = t1  final = final
  Slots <- MCSlot1
  Ticks <- MCTick1
  Final = final
  MaxBatch = 2
  Flaws = {"schema_invalid"}
  MaxTyped = 2
  MaxTroubles = 1
  MaxOrphans = 1
SPECIFICATION FairSpec
INVARIANTS NothingLost SubmittedIsMarked ScreenIsNewest
PROPERTIES ImplementsRegister Drains
