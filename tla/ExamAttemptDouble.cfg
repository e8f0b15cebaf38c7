CONSTANTS
  s1 = s1  s2 = s2  s3 = s3  u1 = u1  u2 = u2  w1 = w1
  a = a  k1 = k1  k2 = k2  k3 = k3  k4 = k4
  Nobody = Nobody
  Saves <- MCSave1
  Submits <- MCSubmit2
  Sweepers <- MCSweepers
  Slots <- MCSlot1
  MaxSeq = 2
  Batches <- MCBatches1
  Keys <- MCKeys
  Key <- MCOwn
  Limit = 1
  Grace = 0
  MaxClock = 2
  MaxAborts = 0
SPECIFICATION Spec
INVARIANTS ScoredOnce
