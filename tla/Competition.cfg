CONSTANTS
  u1 = u1  u2 = u2  u3 = u3  r1 = r1  r2 = r2  k1 = k1  k2 = k2  k3 = k3
  Users <- MCUsers
  Impatient <- MCNone
  Requests <- MCRequests
  Packs <- MCPacks
  Pack <- MCPack
  Quantity = 2
  MaxParticipants = 2
  ClosesAt = 2
  MaxFixes = 1
  MaxCrashes = 1
SPECIFICATION FairSpec
INVARIANTS NeverOverbooked SpentIsHeld
PROPERTIES FrozenOnce PublishingWaits EveryContestEnds
