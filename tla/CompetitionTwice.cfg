CONSTANTS
  u1 = u1  u2 = u2  u3 = u3  r1 = r1  r2 = r2  k1 = k1  k2 = k2  k3 = k3
  Users <- MCUser1
  Impatient <- MCUser1
  Requests <- MCRequests
  Packs <- MCPacks
  Pack <- MCPack
  Quantity = 2
  MaxParticipants = 0
  ClosesAt = 2
  MaxFixes = 0
  MaxCrashes = 0
SPECIFICATION Spec
INVARIANTS TwiceCostsNothing
