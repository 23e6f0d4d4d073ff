SPECIFICATION Spec
CONSTANTS
  u1 = u1
  u2 = u2
  u3 = u3
  k1 = k1
  r1 = r1
  r2 = r2
  NoUser = NoUser
  NoClientId = NoClientId
  Users <- MCTrio
  ClientIds <- MCClientIds
  Requests <- MCRequests
  SendKeys <- MCKeyed
  Clients <- MCPair
  Movers <- MCMover
  Hiders <- MCHider
  IsGroup = TRUE
  MaxSeq = 1
SYMMETRY MCRequestSymmetry
PROPERTIES
  GoneStaysGone
