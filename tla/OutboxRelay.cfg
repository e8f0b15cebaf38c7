CONSTANTS
  scored = scored  typo = typo  r1 = r1  r2 = r2  w1 = w1  w2 = w2
  Events <- MCScoredTypo
  Poison <- MCPoison
  Targets <- MCTargets
  Relays <- MCRelays
  Workers <- MCWorker1
  Batch = 1
  MaxAttempts = 2
  MaxCrashes = 1
  MaxOutages = 1
  MaxRegrades = 1
SPECIFICATION FairSpec
INVARIANTS NothingLost SentOnce
PROPERTIES EveryEventTold PoisonSurfaces
